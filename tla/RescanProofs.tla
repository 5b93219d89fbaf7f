---------------------------- MODULE RescanProofs ----------------------------
(***************************************************************************)
(* What Rescan guarantees for every set of rows, descriptions and names    *)
(* and every SelectLimit: type correctness of the queue of tasks and of    *)
(* the service, that a stored checkpoint only advances, that a task on an  *)
(* operation sees all its messages before it is finished, with the         *)
(* exceptions those properties name, and that the parsed data follows the  *)
(* interfaces.                                                             *)
(*                                                                         *)
(* The inductive invariant of the first three is RescanInv with TypeOK,    *)
(* and Scripts for what is left of the command at hand.  The statements of *)
(* a command are put together by FlattenSeq over sets; that this gives a   *)
(* script is shown by induction, with a set of numbers in the place of the *)
(* predicate.                                                              *)
(*                                                                         *)
(* That of the last is FollowInv: whatever is wrong about the data of a    *)
(* state is put right by a task that is still to come to it, made or to be *)
(* made by the command at hand (Settled).  Contracts and methods are taken *)
(* one at a time: a task settles its own and leaves the others alone       *)
(* (RowSettled), a change of the table is settled by the tasks that its    *)
(* command makes for it (TableChange, UpdateFollowed).                     *)
(***************************************************************************)
EXTENDS Rescan, FiniteSetTheorems, SequenceTheorems, TLAPS

-----------------------------------------------------------------------------
\* Induction, sequences and places.

\* Less-than is well-founded, as a set of pairs.
LEMMA LessWellFounded ==
  IsWellFoundedOn({ss \in Nat \X Nat : ss[1] < ss[2]}, Nat)
  BY ONLY NatLessThanWellFounded, Zenon DEF OpToRel

\* A set of numbers that is not empty has a least element.
LEMMA LeastExists ==
  ASSUME NEW S, S \subseteq Nat, S # {}
  PROVE  \E x \in S : \A y \in S : x <= y
<1> DEFINE R == {ss \in Nat \X Nat : ss[1] < ss[2]}
<1>1. IsWellFoundedOn(R, Nat)
  BY LessWellFounded
<1>2. \A x, y \in Nat : x < y => <<x, y>> \in R
  OBVIOUS
<1> HIDE DEF R
<1>3. PICK x \in S : \A y \in S : <<y, x>> \notin R
  BY <1>1, WFMin
<1>4. ASSUME NEW y \in S PROVE x <= y
  <2>1. x \in Nat /\ y \in Nat /\ ~(y < x)
    BY <1>2, <1>3
  <2> QED
    BY <2>1
<1> QED
  BY <1>4

\* Induction over a set of numbers.
LEMMA Induction ==
  ASSUME NEW S, S \subseteq Nat, 0 \in S, \A n \in S : n + 1 \in S
  PROVE  S = Nat
<1>1. SUFFICES ASSUME Nat \ S # {} PROVE FALSE
  OBVIOUS
<1> DEFINE G == Nat \ S
<1>2. PICK x \in G : \A y \in G : x <= y
  <2>1. G \subseteq Nat /\ G # {}
    BY <1>1
  <2> HIDE DEF G
  <2> QED
    BY <2>1, LeastExists
<1>3. x \in Nat /\ x # 0 /\ x - 1 \in Nat
  BY <1>2
<1>4. x - 1 \notin G
  BY <1>2, <1>3
<1>5. (x - 1) + 1 = x
  BY <1>3
<1> QED
  BY <1>2, <1>3, <1>4, <1>5

\* What a set of sequences contains that is closed under \o.
LEMMA FlattenIn ==
  ASSUME NEW X, <<>> \in X, \A a, b \in X : a \o b \in X, NEW seqs \in Seq(X)
  PROVE  FlattenSeq(seqs) \in X
<1> DEFINE N == Len(seqs)
           Flat(n) == \E f : f = [i \in 1..n |->
                                 IF i = 1 THEN seqs[i] ELSE f[i - 1] \o seqs[i]]
           G == {n \in Nat : n <= N => Flat(n)}
<1>1. N \in Nat /\ \A i \in 1..N : seqs[i] \in X
  OBVIOUS
<1>2. N \in G
  <2>1. 0 \in G
    <3> DEFINE f == [i \in 1..0 |-> seqs[i]]
    <3>1. f = [i \in 1..0 |-> IF i = 1 THEN seqs[i] ELSE f[i - 1] \o seqs[i]]
      OBVIOUS
    <3> QED
      BY <3>1
  <2>2. ASSUME NEW n \in G PROVE n + 1 \in G
    <3>1. SUFFICES ASSUME n + 1 <= N
                   PROVE  Flat(n + 1)
      <4> HIDE DEF Flat
      <4> QED
        OBVIOUS
    <3>2. n \in Nat /\ n <= N
      BY <1>1, <3>1
    <3>3. Flat(n)
      <4> HIDE DEF Flat
      <4> QED
        BY <3>2
    <3>4. PICK f : f = [i \in 1..n |->
                           IF i = 1 THEN seqs[i] ELSE f[i - 1] \o seqs[i]]
      BY <3>3
    <3> DEFINE g == [i \in 1..(n + 1) |->
                        IF i = 1 THEN seqs[i] ELSE f[i - 1] \o seqs[i]]
    <3>5. ASSUME NEW i \in 1..(n + 1), i # 1 PROVE g[i - 1] = f[i - 1]
      <4>1. i - 1 \in 1..n /\ i - 1 \in 1..(n + 1)
        BY <3>2, <3>5
      <4> HIDE DEF g
      <4>2. g[i - 1] = IF i - 1 = 1 THEN seqs[i - 1] ELSE f[(i - 1) - 1] \o seqs[i - 1]
        BY <4>1 DEF g
      <4>3. f[i - 1] = IF i - 1 = 1 THEN seqs[i - 1] ELSE f[(i - 1) - 1] \o seqs[i - 1]
        BY <3>4, <4>1
      <4> QED
        BY <4>2, <4>3
    <3>6. g = [i \in 1..(n + 1) |->
                  IF i = 1 THEN seqs[i] ELSE g[i - 1] \o seqs[i]]
      BY <3>5
    <3> QED
      BY <3>6
  <2>3. G \subseteq Nat
    OBVIOUS
  <2> HIDE DEF G
  <2> QED
    BY <1>1, <2>1, <2>2, <2>3, Induction
<1> DEFINE flatten == CHOOSE f : f = [i \in 1..N |->
                           IF i = 1 THEN seqs[i] ELSE f[i - 1] \o seqs[i]]
<1>3. flatten = [i \in 1..N |->
                    IF i = 1 THEN seqs[i] ELSE flatten[i - 1] \o seqs[i]]
  <2>1. Flat(N)
    <3> HIDE DEF Flat
    <3> QED
      BY <1>1, <1>2
  <2> QED
    BY <2>1, Zenon
<1>4. FlattenSeq(seqs) = IF N = 0 THEN seqs ELSE flatten[N]
  BY Zenon DEF FlattenSeq
<1> HIDE DEF flatten
<1>5. N \in {n \in Nat : n \in 1..N => flatten[n] \in X}
  <2> DEFINE H == {n \in Nat : n \in 1..N => flatten[n] \in X}
  <2>1. 0 \in H
    OBVIOUS
  <2>2. ASSUME NEW n \in H PROVE n + 1 \in H
    <3>1. SUFFICES ASSUME n + 1 \in 1..N PROVE flatten[n + 1] \in X
      OBVIOUS
    <3>2. n \in Nat /\ seqs[n + 1] \in X
      BY <1>1, <3>1
    <3>3. CASE n = 0
      BY <1>3, <3>1, <3>2, <3>3
    <3>4. CASE n # 0
      <4>1. n \in 1..N /\ (n + 1) - 1 = n /\ n + 1 # 1
        BY <1>1, <3>1, <3>2, <3>4
      <4>2. flatten[n + 1] = flatten[n] \o seqs[n + 1]
        BY <1>3, <3>1, <4>1
      <4> QED
        BY <3>2, <4>1, <4>2
    <3> QED
      BY <3>3, <3>4
  <2>3. H \subseteq Nat
    OBVIOUS
  <2> HIDE DEF H
  <2>4. H = Nat
    BY <2>1, <2>2, <2>3, Induction
  <2> QED
    BY <1>1, <2>4 DEF H
<1> QED
  BY <1>1, <1>4, <1>5

\* The sequence of a finite set is of its elements.
LEMMA SetToSeqIn ==
  ASSUME NEW S, IsFiniteSet(S)
  PROVE  SetToSeq(S) \in Seq(S)
<1>1. Cardinality(S) \in Nat /\ ExistsBijection(1..Cardinality(S), S)
  BY FS_CardinalityType
<1>2. \E f \in [1..Cardinality(S) -> S] : IsInjective(f)
  BY <1>1 DEF ExistsBijection, Bijection, Injection
<1>3. SetToSeq(S) \in [1..Cardinality(S) -> S]
  BY <1>2 DEF SetToSeq
<1> QED
  BY <1>1, <1>3

\* Max of a set of numbers up to n is n, if n is one of them.
LEMMA MaxIs ==
  ASSUME NEW n \in Nat, NEW S \in SUBSET (1..n), n \in S
  PROVE  Max(S) = n
<1>1. \A y \in S : n >= y
  OBVIOUS
<1>2. Max(S) \in S /\ \A y \in S : Max(S) >= y
  BY <1>1 DEF Max
<1>3. Max(S) \in 1..n /\ Max(S) >= n
  BY <1>2
<1> QED
  BY <1>3

\* Where a row is.
LEMMA PlaceTyped ==
  ASSUME NEW x \in State \cup Message
  PROVE  Place(x)[1] \in Nat
  BY RescanAssumption DEF RescanAssumption, Place

\* The checkpoint after some rows is the place of one of them.
LEMMA CheckpointIn ==
  ASSUME NEW s \in Seq(State \cup Message), s # <<>>
  PROVE  \E i \in DOMAIN s : Checkpoint(s) = Place(s[i])
<1> DEFINE N == Len(s)
           Move(x, last) == IF \/ last[1] <= Place(s[x])[1]
                               \/ last[2] <= Place(s[x])[2]
                            THEN Place(s[x]) ELSE last
           Folds(f, n) ==
              f = [t \in SUBSET (1..n) |->
                      IF t = {} THEN Start ELSE Move(Max(t), f[t \ {Max(t)}])]
<1>1. N \in Nat \ {0} /\ DOMAIN s = 1..N
  OBVIOUS
<1>2. Checkpoint(s) = (CHOOSE f : Folds(f, N))[1..N]
  BY <1>1, Zenon DEF Checkpoint, FoldLeft, MapThenFoldSet
<1>3. \E f : Folds(f, N)
  <2> DEFINE Some(n) == \E f : Folds(f, n)
             G == {n \in Nat : Some(n)}
  <2>1. 0 \in G
    <3> DEFINE f == [t \in SUBSET (1..0) |-> Start]
    <3>1. SUBSET (1..0) = {{}}
      OBVIOUS
    <3>2. Folds(f, 0)
      BY <3>1
    <3> QED
      BY <3>2
  <2>2. ASSUME NEW n \in G PROVE n + 1 \in G
    <3>1. n \in Nat /\ Some(n)
      <4> HIDE DEF Some
      <4> QED
        OBVIOUS
    <3>2. PICK f : Folds(f, n)
      BY <3>1
    <3> DEFINE g == [t \in SUBSET (1..(n + 1)) |->
                        IF n + 1 \in t THEN Move(n + 1, f[t \ {n + 1}]) ELSE f[t]]
    <3>3. ASSUME NEW t \in SUBSET (1..(n + 1))
          PROVE  g[t] = IF t = {} THEN Start ELSE Move(Max(t), g[t \ {Max(t)}])
      <4> HIDE DEF Move
      <4>1. CASE n + 1 \in t
        <5>1. Max(t) = n + 1
          BY <3>1, <4>1, MaxIs
        <5>2. t \ {n + 1} \in SUBSET (1..(n + 1)) /\ n + 1 \notin t \ {n + 1}
          OBVIOUS
        <5>3. g[t \ {n + 1}] = f[t \ {n + 1}]
          BY <5>2
        <5>4. g[t] = Move(n + 1, f[t \ {n + 1}])
          BY <4>1
        <5> HIDE DEF g
        <5> QED
          BY <4>1, <5>1, <5>3, <5>4
      <4>2. CASE n + 1 \notin t
        <5>1. t \in SUBSET (1..n)
          BY <3>1, <4>2
        <5>2. f[t] = IF t = {} THEN Start ELSE Move(Max(t), f[t \ {Max(t)}])
          BY <3>2, <5>1
        <5>3. t \ {Max(t)} \in SUBSET (1..(n + 1)) /\ n + 1 \notin t \ {Max(t)}
          BY <4>2
        <5>4. g[t] = f[t] /\ g[t \ {Max(t)}] = f[t \ {Max(t)}]
          BY <4>2, <5>3
        <5> HIDE DEF g
        <5> QED
          BY <5>2, <5>4
      <4> QED
        BY <4>1, <4>2
    <3>4. Folds(g, n + 1)
      <4> HIDE DEF Move
      <4> QED
        BY <3>3
    <3>5. Some(n + 1)
      BY <3>4
    <3> HIDE DEF Some
    <3> QED
      BY <3>1, <3>5
  <2>3. G \subseteq Nat
    OBVIOUS
  <2>4. G = Nat
    <3> HIDE DEF G
    <3> QED
      BY <2>1, <2>2, <2>3, Induction
  <2> HIDE DEF Some
  <2>5. Some(N)
    BY <1>1, <2>4
  <2> QED
    BY <2>5 DEF Some
<1> DEFINE f == CHOOSE f : Folds(f, N)
<1>4. Folds(f, N)
  <2> HIDE DEF Folds
  <2> QED
    BY <1>3, Zenon
<1>5. \A t \in SUBSET (1..N) :
         f[t] = IF t = {} THEN Start ELSE Move(Max(t), f[t \ {Max(t)}])
  <2> HIDE DEF f, Move
  <2> QED
    BY <1>4
<1> HIDE DEF f, Move
<1>6. ASSUME NEW n \in Nat
      PROVE  n \in 1..N => \E i \in 1..N : f[1..n] = Place(s[i])
  <2> DEFINE H == {k \in Nat : k \in 1..N => \E i \in 1..N : f[1..k] = Place(s[i])}
  <2>1. 0 \in H
    OBVIOUS
  <2>2. ASSUME NEW k \in H PROVE k + 1 \in H
    <3>1. SUFFICES ASSUME k + 1 \in 1..N
                   PROVE  \E i \in 1..N : f[1..(k + 1)] = Place(s[i])
      OBVIOUS
    <3>2. k \in Nat
      OBVIOUS
    <3>3. Max(1..(k + 1)) = k + 1 /\ (1..(k + 1)) \ {k + 1} = 1..k
      BY <3>2, MaxIs
    <3>4. 1..(k + 1) \in SUBSET (1..N) /\ k + 1 \in 1..(k + 1)
      <4> HIDE DEF N
      <4> QED
        BY <1>1, <3>1, <3>2
    <3>5. f[1..(k + 1)] = Move(k + 1, f[1..k])
      BY <1>5, <3>3, <3>4
    <3>6. CASE k = 0
      <4>1. f[1..k] = Start
        <5>1. 1..k = {} /\ 1..k \in SUBSET (1..N)
          BY <3>6
        <5> QED
          BY <1>5, <5>1
      <4>2. Place(s[k + 1])[1] \in Nat
        BY <1>1, <3>1, PlaceTyped
      <4> QED
        BY <3>1, <3>5, <4>1, <4>2 DEF Start, Move
    <3>7. CASE k # 0
      <4>1. PICK i \in 1..N : f[1..k] = Place(s[i])
        BY <1>1, <3>1, <3>2, <3>7
      <4> QED
        BY <3>1, <3>5, <4>1 DEF Move
    <3> QED
      BY <3>6, <3>7
  <2>3. H \subseteq Nat
    OBVIOUS
  <2> HIDE DEF H
  <2>4. H = Nat
    BY <2>1, <2>2, <2>3, Induction
  <2> QED
    BY <2>4 DEF H
<1>7. Checkpoint(s) = f[1..N]
  <2> HIDE DEF Folds
  <2> QED
    BY <1>2 DEF f
<1> HIDE DEF N
<1>8. \E i \in 1..N : f[1..N] = Place(s[i])
  BY <1>1, <1>6
<1> QED
  BY <1>1, <1>7, <1>8

-----------------------------------------------------------------------------
\* The statements of a command.

\* A task is appended to the queue new; a statement after whose error the
\* command goes on comes with its task.
NewTask == {t \in TaskRow : ~t.done /\ t.last = Start}
StatementSet ==
    [do : {"insert", "update"}, arg : Description, keepGoing : BOOLEAN]
    \cup [do : {"drop", "disown"}, arg : Name, keepGoing : BOOLEAN]
    \cup [do : {"add", "change", "delete"}, arg : Ops, keepGoing : BOOLEAN]
    \cup [do : {"task"}, arg : NewTask, keepGoing : BOOLEAN]
Scripts ==
    {s \in Seq(StatementSet) :
        \A i \in 1..Len(s) : s[i].keepGoing /\ s[i].do # "task" => i < Len(s)}

\* Scripts may be joined.
LEMMA ScriptsJoin ==
  /\ <<>> \in Scripts
  /\ \A a, b \in Scripts : a \o b \in Scripts
<1>1. <<>> \in Scripts
  BY DEF Scripts
<1>2. ASSUME NEW a \in Scripts, NEW b \in Scripts
      PROVE  a \o b \in Scripts
  <2>1. a \in Seq(StatementSet) /\ b \in Seq(StatementSet)
    BY DEF Scripts
  <2> DEFINE c == a \o b
  <2>2. /\ c \in Seq(StatementSet) /\ Len(c) = Len(a) + Len(b)
        /\ \A i \in 1..Len(c) :
              c[i] = IF i <= Len(a) THEN a[i] ELSE b[i - Len(a)]
    BY <2>1, ConcatProperties
  <2> HIDE DEF c
  <2>3. ASSUME NEW i \in 1..Len(c), c[i].keepGoing, c[i].do # "task"
        PROVE  i < Len(c)
    <3>1. Len(a) \in Nat /\ Len(b) \in Nat
      BY <2>1
    <3>2. CASE i <= Len(a)
      <4>1. i \in 1..Len(a) /\ c[i] = a[i]
        BY <2>2, <3>1, <3>2
      <4>2. i < Len(a)
        BY <2>3, <4>1 DEF Scripts
      <4> QED
        BY <2>2, <3>1, <4>2
    <3>3. CASE ~(i <= Len(a))
      <4>1. i - Len(a) \in 1..Len(b) /\ c[i] = b[i - Len(a)]
        BY <2>2, <3>1, <3>3
      <4>2. i - Len(a) < Len(b)
        BY <2>3, <4>1 DEF Scripts
      <4> QED
        BY <2>2, <3>1, <4>2
    <3> QED
      BY <3>2, <3>3
  <2>4. c \in Scripts
    BY <2>2, <2>3 DEF Scripts
  <2> QED
    BY <2>4 DEF c
<1> QED
  BY <1>1, <1>2

\* Statements that end the command if they fail make a script, and any two of
\* which the second does or is a task.
LEMMA ScriptsOf ==
  /\ \A s \in Seq(StatementSet) :
        (\A i \in 1..Len(s) : ~s[i].keepGoing) => s \in Scripts
  /\ \A a, b \in StatementSet :
        ~b.keepGoing \/ b.do = "task" => <<a, b>> \in Scripts
<1>1. ASSUME NEW a \in StatementSet, NEW b \in StatementSet,
             ~b.keepGoing \/ b.do = "task"
      PROVE  <<a, b>> \in Scripts
  <2>1. <<a, b>> \in Seq(StatementSet) /\ Len(<<a, b>>) = 2
    OBVIOUS
  <2>2. ASSUME NEW i \in 1..2, <<a, b>>[i].keepGoing, <<a, b>>[i].do # "task"
        PROVE  i < 2
    BY <1>1, <2>2
  <2> QED
    BY <2>1, <2>2 DEF Scripts
<1>2. \A s \in Seq(StatementSet) :
        (\A i \in 1..Len(s) : ~s[i].keepGoing) => s \in Scripts
  BY DEF Scripts
<1> QED
  BY <1>1, <1>2

\* What is left of a script is one.
LEMMA ScriptsRest ==
  ASSUME NEW s \in Scripts, s # <<>>
  PROVE  /\ Head(s) \in StatementSet /\ Tail(s) \in Scripts
         /\ Head(s).keepGoing /\ Head(s).do # "task" => Tail(Tail(s)) \in Scripts
<1>1. s \in Seq(StatementSet)
  BY DEF Scripts
<1>2. ASSUME NEW r \in Scripts, r # <<>>
      PROVE  Tail(r) \in Scripts
  <2>1. r \in Seq(StatementSet)
    BY DEF Scripts
  <2>2. /\ Tail(r) \in Seq(StatementSet) /\ Len(Tail(r)) = Len(r) - 1
        /\ \A i \in 1..Len(Tail(r)) : Tail(r)[i] = r[i + 1]
    BY <1>2, <2>1, HeadTailProperties
  <2>3. Len(r) \in Nat
    BY <2>1
  <2>4. ASSUME NEW i \in 1..Len(Tail(r)), Tail(r)[i].keepGoing,
               Tail(r)[i].do # "task"
        PROVE  i < Len(Tail(r))
    <3>1. i + 1 \in 1..Len(r) /\ Tail(r)[i] = r[i + 1]
      BY <2>2, <2>3
    <3>2. i + 1 < Len(r)
      BY <2>4, <3>1 DEF Scripts
    <3> QED
      BY <2>2, <2>3, <3>2
  <2> QED
    BY <2>2, <2>4 DEF Scripts
<1>3. Tail(s) \in Scripts
  BY <1>2
<1>4. ASSUME Head(s).keepGoing, Head(s).do # "task"
      PROVE  Tail(Tail(s)) \in Scripts
  <2>1. Len(s) \in Nat /\ Len(s) > 0 /\ Head(s) = s[1]
    BY <1>1
  <2>2. 1 < Len(s)
    BY <1>4, <2>1 DEF Scripts
  <2>3. Len(Tail(s)) = Len(s) - 1
    BY <1>1
  <2>4. Len(<<>>) = 0
    OBVIOUS
  <2>5. Len(Tail(s)) # 0
    BY <2>1, <2>2, <2>3
  <2>6. Tail(s) # <<>>
    BY <2>4, <2>5, Zenon
  <2> QED
    BY <1>2, <1>3, <2>6
<1>5. Head(s) \in StatementSet
  BY <1>1
<1> QED
  BY <1>3, <1>4, <1>5

\* A task is new, with what a description says.
LEMMA NewTasks ==
  /\ \A type \in {"add_interface", "upd_interface", "del_interface",
                  "add_get_method", "upd_get_method", "del_get_method"},
        n \in Name, g \in SUBSET Method : InterfaceTask(type, n, g) \in NewTask
  /\ \A type \in {"upd_operation", "del_operation"}, op \in Ops :
        OperationTask(type, op) \in NewTask
<1>1. \A op \in Ops : op.contract \in Name
  BY RescanAssumption DEF RescanAssumption, Ops
<1>2. Start \in Nat \X Nat
  BY DEF Start
<1> QED
  BY <1>1, <1>2 DEF InterfaceTask, OperationTask, Task, NewTask, TaskRow

\* Statements of a finite set of operations.
LEMMA StatementsOf ==
  ASSUME NEW ops \in SUBSET Ops
  PROVE  /\ SetToSeq(ops) \in Seq(ops)
         /\ \A do \in {"add", "change", "delete"} :
               [k \in DOMAIN SetToSeq(ops) |->
                   Statement(do, SetToSeq(ops)[k], FALSE)] \in Scripts
         /\ \A type \in {"upd_operation", "del_operation"} :
               /\ [k \in DOMAIN SetToSeq(ops) |->
                      <<Statement("task", OperationTask(type, SetToSeq(ops)[k]),
                                  FALSE)>>] \in Seq(Scripts)
               /\ [k \in DOMAIN SetToSeq(ops) |->
                      Statement("task", OperationTask(type, SetToSeq(ops)[k]),
                                FALSE)] \in Scripts
<1>1. IsFiniteSet(ops)
  BY RescanAssumption, FS_Subset DEF RescanAssumption, Ops
<1>2. SetToSeq(ops) \in Seq(ops)
  BY <1>1, SetToSeqIn
<1> DEFINE s == SetToSeq(ops)
<1> HIDE DEF s
<1>3. s \in Seq(ops) /\ Len(s) \in Nat /\ DOMAIN s = 1..Len(s)
      /\ \A k \in DOMAIN s : s[k] \in Ops
  BY <1>2 DEF s
<1>4. ASSUME NEW do \in {"add", "change", "delete"}
      PROVE  [k \in DOMAIN s |-> Statement(do, s[k], FALSE)] \in Scripts
  <2>1. \A k \in DOMAIN s : /\ Statement(do, s[k], FALSE) \in StatementSet
                            /\ ~Statement(do, s[k], FALSE).keepGoing
    BY <1>3 DEF Statement, StatementSet
  <2> DEFINE r == [k \in DOMAIN s |-> Statement(do, s[k], FALSE)]
  <2>2. r \in [1..Len(s) -> StatementSet]
    BY <1>3, <2>1
  <2>3. \A k \in 1..Len(s) : ~r[k].keepGoing
    BY <1>3, <2>1
  <2> HIDE DEF r
  <2>4. r \in Seq(StatementSet) /\ Len(r) = Len(s)
    BY <1>3, <2>2
  <2>5. r \in Scripts
    BY <2>3, <2>4, ScriptsOf
  <2> QED
    BY <2>5 DEF r
<1>5. ASSUME NEW type \in {"upd_operation", "del_operation"}
      PROVE  /\ [k \in DOMAIN s |->
                    <<Statement("task", OperationTask(type, s[k]), FALSE)>>]
                   \in Seq(Scripts)
             /\ [k \in DOMAIN s |->
                    Statement("task", OperationTask(type, s[k]), FALSE)]
                   \in Scripts
  <2> DEFINE st(k) == Statement("task", OperationTask(type, s[k]), FALSE)
  <2>1. \A k \in DOMAIN s : st(k) \in StatementSet /\ ~st(k).keepGoing
    BY <1>3, NewTasks DEF Statement, StatementSet
  <2> HIDE DEF st
  <2>2. \A k \in DOMAIN s : <<st(k)>> \in Scripts
    <3>1. ASSUME NEW k \in DOMAIN s PROVE <<st(k)>> \in Scripts
      <4>1. /\ <<st(k)>> \in Seq(StatementSet) /\ Len(<<st(k)>>) = 1
            /\ <<st(k)>>[1] = st(k)
        BY <2>1
      <4>2. \A i \in 1..Len(<<st(k)>>) : ~(<<st(k)>>[i]).keepGoing
        BY <2>1, <4>1
      <4> QED
        BY <4>1, <4>2, ScriptsOf
    <3> QED
      BY <3>1
  <2>3. [k \in DOMAIN s |-> <<st(k)>>] \in Seq(Scripts)
    BY <1>3, <2>2
  <2> DEFINE r == [k \in DOMAIN s |-> st(k)]
  <2>4. r \in Seq(StatementSet) /\ Len(r) = Len(s)
    BY <1>3, <2>1
  <2>5. \A k \in 1..Len(r) : ~r[k].keepGoing
    BY <1>3, <2>1, <2>4
  <2> HIDE DEF r
  <2>6. r \in Scripts
    BY <2>4, <2>5, ScriptsOf
  <2> QED
    BY <2>3, <2>6 DEF r, st
<1> QED
  BY <1>2, <1>4, <1>5 DEF s

\* A script that may be left out.
LEMMA OnlyIn ==
  ASSUME NEW c \in BOOLEAN, NEW s \in Scripts
  PROVE  Only(c, s) \in Scripts
  BY ScriptsJoin DEF Only

\* A single statement that ends the command if it fails.
LEMMA SingleIn ==
  ASSUME NEW st \in StatementSet, ~st.keepGoing
  PROVE  <<st>> \in Scripts
<1>1. <<st>> \in Seq(StatementSet) /\ Len(<<st>>) = 1 /\ <<st>>[1] = st
  OBVIOUS
<1>2. \A i \in 1..Len(<<st>>) : ~(<<st>>[i]).keepGoing
  BY <1>1
<1> QED
  BY <1>1, <1>2, ScriptsOf

\* addInterfaces
LEMMA AddScript ==
  ASSUME NEW d \in Description
  PROVE  AddStatements(d) \in Scripts
<1> DEFINE ops == d.operations
           s == SetToSeq(ops)
           each == [k \in DOMAIN s |->
                       <<Statement("add", s[k], TRUE),
                         Statement("task", OperationTask("upd_operation", s[k]),
                                   TRUE)>>]
           first == <<Statement("insert", d, TRUE),
                      Statement("task",
                          InterfaceTask("add_interface", d.name, {}), TRUE)>>
<1>1. AddStatements(d) = first \o FlattenSeq(each)
  BY Zenon DEF AddStatements, ForEach
<1>2. ops \in SUBSET Ops /\ d.name \in Name
  BY RescanAssumption DEF Ops, RescanAssumption
<1>3. s \in Seq(ops)
  BY <1>2, StatementsOf
<1>4. first \in Scripts
  <2>1. /\ Statement("insert", d, TRUE) \in StatementSet
        /\ Statement("task", InterfaceTask("add_interface", d.name, {}), TRUE)
              \in StatementSet
    BY <1>2, NewTasks DEF Statement, StatementSet
  <2>2. Statement("task", InterfaceTask("add_interface", d.name, {}), TRUE).do
           = "task"
    BY DEF Statement
  <2> QED
    BY <2>1, <2>2, ScriptsOf
<1>5. each \in Seq(Scripts)
  <2> HIDE DEF s
  <2>1. ASSUME NEW k \in DOMAIN s
        PROVE  <<Statement("add", s[k], TRUE),
                 Statement("task", OperationTask("upd_operation", s[k]), TRUE)>>
                  \in Scripts
    <3>1. s[k] \in Ops
      BY <1>2, <1>3
    <3>2. /\ Statement("add", s[k], TRUE) \in StatementSet
          /\ Statement("task", OperationTask("upd_operation", s[k]), TRUE)
                \in StatementSet
      BY <3>1, NewTasks DEF Statement, StatementSet
    <3>3. Statement("task", OperationTask("upd_operation", s[k]), TRUE).do
             = "task"
      BY DEF Statement
    <3> QED
      BY <3>2, <3>3, ScriptsOf
  <2>2. DOMAIN s = 1..Len(s) /\ Len(s) \in Nat
    BY <1>3
  <2>3. each \in [1..Len(s) -> Scripts]
    BY <2>1, <2>2
  <2> HIDE DEF each
  <2> QED
    BY <2>2, <2>3
<1> HIDE DEF first, each
<1>6. FlattenSeq(each) \in Scripts
  BY <1>5, ScriptsJoin, FlattenIn
<1> QED
  BY <1>1, <1>4, <1>6, ScriptsJoin

\* deleteInterface
LEMMA DeleteScript ==
  ASSUME NEW n \in Name, operations \subseteq Ops
  PROVE  DeleteStatements(n) \in Scripts
<1> DEFINE ops == {op \in operations : op.contract = n}
           s == SetToSeq(ops)
           each == [k \in DOMAIN s |->
                       Statement("task", OperationTask("del_operation", s[k]),
                                 FALSE)]
           first == <<Statement("disown", n, FALSE), Statement("drop", n, FALSE)>>
           last == <<Statement("task", InterfaceTask("del_interface", n, {}), FALSE)>>
<1>1. DeleteStatements(n) = first \o each \o last
  BY Zenon DEF DeleteStatements, ForEach
<1>2. each \in Scripts
  <2>1. ops \in SUBSET Ops
    OBVIOUS
  <2> HIDE DEF ops
  <2> QED
    BY <2>1, StatementsOf
<1>3. first \in Scripts
  <2>1. /\ Statement("disown", n, FALSE) \in StatementSet
        /\ Statement("drop", n, FALSE) \in StatementSet
        /\ ~Statement("drop", n, FALSE).keepGoing
    BY DEF Statement, StatementSet
  <2> QED
    BY <2>1, ScriptsOf
<1>4. last \in Scripts
  <2>1. /\ Statement("task", InterfaceTask("del_interface", n, {}), FALSE)
              \in StatementSet
        /\ ~Statement("task", InterfaceTask("del_interface", n, {}), FALSE).keepGoing
    BY NewTasks DEF Statement, StatementSet
  <2> QED
    BY <2>1, SingleIn
<1> HIDE DEF first, each, last
<1> QED
  BY <1>1, <1>2, <1>3, <1>4, ScriptsJoin

\* updateInterface
LEMMA UpdateScript ==
  ASSUME NEW d \in Description, operations \subseteq Ops,
         interfaces[d.name] \in Interface
  PROVE  UpdateStatements(d) \in Scripts
<1> DEFINE old == interfaces[d.name]
           new == d.interface
           oldOps == {op \in operations : op.contract = d.name}
           deleted == {op \in oldOps : \A q \in d.operations : q.name # op.name}
           added == {op \in d.operations : \A q \in oldOps : q.name # op.name}
           changed == d.operations \ (oldOps \cup added)
           Each(do, ops) == [k \in DOMAIN SetToSeq(ops) |->
                                Statement(do, SetToSeq(ops)[k], FALSE)]
           Task1(type, g) ==
              <<Statement("task", InterfaceTask(type, d.name, g), FALSE)>>
           Of(type, ops) ==
              FlattenSeq([k \in DOMAIN SetToSeq(ops) |->
                  <<Statement("task", OperationTask(type, SetToSeq(ops)[k]),
                              FALSE)>>])
           Methods(type, g) == Only(g # {}, Task1(type, g))
           p1 == Only(old # new, <<Statement("update", d, FALSE)>>)
           p5 == Only(MatchingDiffers(old, new), Task1("upd_interface", {}))
<1>1. UpdateStatements(d) =
         p1 \o Each("delete", deleted) \o Each("change", changed)
         \o Each("add", added) \o p5
         \o Methods("add_get_method", Added(old.methods, new.methods))
         \o Methods("upd_get_method", Changed(old.methods, new.methods))
         \o Methods("del_get_method", Deleted(old.methods, new.methods))
         \o Of("del_operation", deleted)
         \o Of("upd_operation", added \cup changed)
  BY Zenon DEF UpdateStatements, ForEach
<1>2. /\ d.operations \in SUBSET Ops /\ d.name \in Name
      /\ old \in Interface /\ new \in Interface
  BY RescanAssumption DEF Ops, Interface, RescanAssumption
<1>3. /\ deleted \in SUBSET Ops /\ changed \in SUBSET Ops
      /\ added \in SUBSET Ops /\ added \cup changed \in SUBSET Ops
  BY <1>2
<1> HIDE DEF deleted, changed, added
<1>4. /\ Added(old.methods, new.methods) \in SUBSET Method
      /\ Changed(old.methods, new.methods) \in SUBSET Method
      /\ Deleted(old.methods, new.methods) \in SUBSET Method
  BY <1>2 DEF Added, Changed, Deleted, Method
<1>5. ASSUME NEW type \in {"upd_interface", "add_get_method", "upd_get_method",
                           "del_get_method"},
             NEW g \in SUBSET Method
      PROVE  Task1(type, g) \in Scripts
  <2>1. /\ Statement("task", InterfaceTask(type, d.name, g), FALSE)
              \in StatementSet
        /\ ~Statement("task", InterfaceTask(type, d.name, g), FALSE).keepGoing
    BY <1>2, NewTasks DEF Statement, StatementSet
  <2> QED
    BY <2>1, SingleIn
<1>6. p1 \in Scripts
  <2>1. /\ Statement("update", d, FALSE) \in StatementSet
        /\ ~Statement("update", d, FALSE).keepGoing
    BY DEF Statement, StatementSet
  <2> QED
    BY <2>1, SingleIn, OnlyIn
<1>7. p5 \in Scripts
  <2>1. MatchingDiffers(old, new) \in BOOLEAN
    BY DEF MatchingDiffers
  <2>2. Task1("upd_interface", {}) \in Scripts
    BY <1>5
  <2> HIDE DEF Task1
  <2> QED
    BY <2>1, <2>2, OnlyIn
<1>8. \A type \in {"add_get_method", "upd_get_method", "del_get_method"},
         g \in SUBSET Method : Methods(type, g) \in Scripts
  <2> HIDE DEF Task1
  <2> QED
    BY <1>5, OnlyIn
<1>9. \A do \in {"add", "change", "delete"}, ops \in SUBSET Ops :
         Each(do, ops) \in Scripts
  BY StatementsOf
<1>10. \A type \in {"upd_operation", "del_operation"}, ops \in SUBSET Ops :
          Of(type, ops) \in Scripts
  BY StatementsOf, ScriptsJoin, FlattenIn
<1> HIDE DEF p1, p5, Each, Of, Methods, old, new
<1>11. /\ Each("delete", deleted) \in Scripts
       /\ Each("change", changed) \in Scripts
       /\ Each("add", added) \in Scripts
       /\ Methods("add_get_method", Added(old.methods, new.methods)) \in Scripts
       /\ Methods("upd_get_method", Changed(old.methods, new.methods)) \in Scripts
       /\ Methods("del_get_method", Deleted(old.methods, new.methods)) \in Scripts
       /\ Of("del_operation", deleted) \in Scripts
       /\ Of("upd_operation", added \cup changed) \in Scripts
  BY <1>3, <1>4, <1>8, <1>9, <1>10
<1>12. \A a, b, c, e \in Scripts : a \o b \o c \o e \in Scripts
  BY ScriptsJoin
<1>13. p1 \o Each("delete", deleted) \o Each("change", changed)
          \o Each("add", added) \in Scripts
  BY <1>6, <1>11, <1>12
<1>14. \A q \in Scripts :
          q \o p5 \o Methods("add_get_method", Added(old.methods, new.methods))
            \o Methods("upd_get_method", Changed(old.methods, new.methods))
             \in Scripts
  BY <1>7, <1>11, <1>12
<1>15. \A q \in Scripts :
          q \o Methods("del_get_method", Deleted(old.methods, new.methods))
            \o Of("del_operation", deleted)
            \o Of("upd_operation", added \cup changed) \in Scripts
  BY <1>11, <1>12
<1> QED
  BY <1>1, <1>13, <1>14, <1>15

-----------------------------------------------------------------------------
\* The types of the queue and of the service, and whose turn it is.

\* At the start nothing is queued.
LEMMA StartTyped ==
  ASSUME Init
  PROVE  TypeOK /\ rest \in Scripts /\ InTurn /\ LtsOK
<1>1. PICK known \in SUBSET Description :
         /\ interfaces = [n \in Name |->
               IF \E d \in known : d.name = n
               THEN (CHOOSE d \in known : d.name = n).interface ELSE None]
         /\ operations = UNION {d.operations : d \in known}
  BY DEF Init
<1>2. interfaces \in [Name -> Interface \cup {None}]
  <2>1. ASSUME NEW n \in Name, \E d \in known : d.name = n
        PROVE  (CHOOSE d \in known : d.name = n).interface \in Interface
    BY <2>1 DEF Interface
  <2> QED
    BY <1>1, <2>1
<1>3. operations \subseteq Ops
  BY <1>1 DEF Ops
<1>4. /\ tasks = <<>> /\ rest = <<>> /\ pc = "idle" /\ job = 0 /\ place = Start
      /\ pending = {} /\ seen = {} /\ astray = {} /\ copies = NoCopies
  BY DEF Init
<1>5. /\ lts \in [Message -> UNION {{0, MsgOf[m].lt} : m \in Message}]
      /\ \A m \in Message : lts[m] \in {0, MsgOf[m].lt}
      /\ newest = lts /\ listed = [m \in Message |-> {lts[m]}]
  BY DEF Init
<1>6. \A m \in Message : MsgOf[m].lt \in Nat
  BY RescanAssumption DEF RescanAssumption
<1>7. TypeOK
  <2>1. lts \in [Message -> Nat]
    BY <1>5, <1>6
  <2>2. listed \in [Message -> SUBSET Nat]
    BY <1>5, <2>1
  <2> QED
    BY <1>2, <1>3, <1>4, <1>5, <2>1, <2>2 DEF TypeOK, Start
<1>8. LtsOK
  BY <1>4, <1>5 DEF LtsOK, NoCopies
<1>9. Unfinished = {}
  BY <1>4 DEF Unfinished
<1> QED
  BY <1>4, <1>7, <1>8, <1>9, ScriptsJoin DEF InTurn

\* The statements of a command run and leave a script.
LEMMA CommandTyped ==
  ASSUME TypeOK, rest \in Scripts, Command
  PROVE  TypeOK' /\ rest' \in Scripts
<1>1. UNCHANGED <<database, tasks, pc, job, place, pending, saved, history>>
  BY DEF Command, service
<1>2. PICK d \in Description :
          \/ rest' = AddStatements(d)
          \/ interfaces[d.name] # None /\ rest' = UpdateStatements(d)
          \/ interfaces[d.name] # None /\ rest' = DeleteStatements(d.name)
  BY DEF Command
<1>3. d.name \in Name /\ operations \subseteq Ops
  BY RescanAssumption DEF RescanAssumption, TypeOK
<1>4. interfaces[d.name] # None => interfaces[d.name] \in Interface
  BY <1>3 DEF TypeOK
<1>5. rest' \in Scripts
  BY <1>2, <1>3, <1>4, AddScript, UpdateScript, DeleteScript
<1> QED
  BY <1>1, <1>5 DEF TypeOK, database, saved, history, Unfinished

\* What is appended to the queue is new and last.
LEMMA Appended ==
  ASSUME TypeOK, NEW t \in NewTask, tasks' = Append(tasks, t)
  PROVE  /\ tasks' \in Seq(TaskRow)
         /\ DOMAIN tasks' = DOMAIN tasks \cup {Len(tasks) + 1}
         /\ \A k \in DOMAIN tasks : tasks'[k] = tasks[k]
         /\ tasks'[Len(tasks) + 1] = t
         /\ Unfinished' = Unfinished \cup {Len(tasks) + 1}
         /\ \A k \in Unfinished : k \in DOMAIN tasks /\ k < Len(tasks) + 1
<1>1. tasks \in Seq(TaskRow) /\ t \in TaskRow /\ ~t.done
  BY DEF TypeOK, NewTask
<1>2. /\ tasks' \in Seq(TaskRow)
      /\ DOMAIN tasks' = DOMAIN tasks \cup {Len(tasks) + 1}
      /\ \A k \in DOMAIN tasks : tasks'[k] = tasks[k]
      /\ tasks'[Len(tasks) + 1] = t
  BY <1>1
<1>3. \A k \in DOMAIN tasks : k < Len(tasks) + 1
  BY <1>1
<1> QED
  BY <1>1, <1>2, <1>3 DEF Unfinished

\* A statement, executed or failed, leaves a script; a task that it appends
\* comes last.
LEMMA StatementTyped ==
  ASSUME TypeOK, rest \in Scripts, InTurn, RunStatement \/ CommandFails
  PROVE  TypeOK' /\ rest' \in Scripts /\ InTurn'
<1> DEFINE st == Head(rest)
<1>1. rest # <<>> /\ UNCHANGED <<service, saved, history>>
  BY DEF RunStatement, CommandFails, service
<1>2. /\ st \in StatementSet /\ Tail(rest) \in Scripts
      /\ AfterError \in Scripts
  BY <1>1, ScriptsRest, ScriptsJoin DEF AfterError
<1>3. rest' \in Scripts
  BY <1>2, ScriptsJoin DEF RunStatement, CommandFails
<1> HIDE DEF st
<1>4. CASE UNCHANGED <<database, tasks>>
  BY <1>1, <1>3, <1>4 DEF TypeOK, InTurn, Unfinished, database, service, saved, history
<1>5. CASE Accepts(Head(rest)) /\ Execute(Head(rest))
  <2>1. Execute(st)
    BY <1>5 DEF st
  <2>2. interfaces' \in [Name -> Interface \cup {None}]
    <3>1. CASE st.do \in {"insert", "update"}
      <4>1. st.arg \in Description
        BY <1>2, <3>1 DEF StatementSet
      <4>2. st.arg.interface \in Interface
        BY <4>1 DEF Interface
      <4>3. interfaces' = [interfaces EXCEPT ![st.arg.name] = st.arg.interface]
        BY <2>1, <3>1 DEF Execute
      <4> QED
        BY <4>2, <4>3 DEF TypeOK
    <3>2. CASE st.do = "drop"
      BY <2>1, <3>2 DEF Execute, TypeOK
    <3>3. CASE st.do \notin {"insert", "update", "drop"}
      BY <2>1, <3>3 DEF Execute, TypeOK
    <3> QED
      BY <3>1, <3>2, <3>3
  <2>3. operations' \subseteq Ops
    <3>1. st.do \in {"add", "change", "delete"} => st.arg \in Ops
      BY <1>2 DEF StatementSet
    <3> QED
      BY <2>1, <3>1 DEF Execute, TypeOK
  <2>4. CASE st.do # "task"
    <3>1. tasks' = tasks
      BY <2>1, <2>4 DEF Execute
    <3> QED
      BY <1>1, <1>3, <2>2, <2>3, <3>1
      DEF TypeOK, InTurn, Unfinished, service, saved, history
  <2>5. CASE st.do = "task"
    <3>1. tasks' = Append(tasks, st.arg) /\ st.arg \in NewTask
      BY <1>2, <2>1, <2>5 DEF Execute, StatementSet
    <3>2. /\ tasks' \in Seq(TaskRow)
          /\ DOMAIN tasks' = DOMAIN tasks \cup {Len(tasks) + 1}
          /\ \A k \in DOMAIN tasks : tasks'[k] = tasks[k]
          /\ tasks'[Len(tasks) + 1] = st.arg
          /\ Unfinished' = Unfinished \cup {Len(tasks) + 1}
          /\ \A k \in Unfinished : k \in DOMAIN tasks /\ k < Len(tasks) + 1
      BY <3>1, Appended
    <3>3. TypeOK'
      BY <1>1, <2>2, <2>3, <3>2 DEF TypeOK, service, saved, history
    <3>4. st.arg.last = Start /\ \A k \in Unfinished : k \in Nat
      BY <3>1 DEF NewTask, Unfinished, TypeOK
    <3>5. \A k \in Unfinished' : k \notin Unfinished => tasks'[k].last = Start
      BY <3>2, <3>4
    <3>6. Len(tasks) \in Nat
      BY DEF TypeOK
    <3>7. ASSUME NEW k \in Unfinished, NEW j \in Unfinished', j < k
          PROVE  tasks'[k].last = Start
      <4>1. j \in Unfinished
        BY <3>2, <3>4, <3>6, <3>7
      <4> QED
        BY <3>2, <3>7, <4>1 DEF InTurn
    <3>8. pc # "idle" => job \in Unfinished' /\ \A k \in Unfinished' : job <= k
      BY <3>2, <3>4, <3>6 DEF InTurn
    <3> QED
      BY <1>1, <1>3, <3>3, <3>5, <3>7, <3>8 DEF InTurn, service
  <2> QED
    BY <2>4, <2>5
<1> QED
  BY <1>4, <1>5 DEF RunStatement, CommandFails

-----------------------------------------------------------------------------
\* A batch of rows.

\* Where a row is, and where ClickHouse shows it: at its address, and messages
\* with no logical time later than in Postgres, unless they have none there.
LEMMA PlaceIs ==
  ASSUME TypeOK, NEW x \in State \cup Message
  PROVE  /\ Place(x) \in Nat \X Nat
         /\ x \in State => x \in Nat \X Nat /\ x[2] > 0 /\ Place(x) = x
                           /\ Listed(x) = {x}
         /\ x \in Message => /\ Place(x)[1] = MsgOf[x].address
                             /\ Place(x)[2] = lts[x] /\ x \notin State
  BY RescanAssumption DEF RescanAssumption, Place, Listed, TypeOK
LEMMA ListedIs ==
  ASSUME TypeOK, LtsOK, NEW m \in Message, NEW p \in Listed(m)
  PROVE  /\ p \in Nat \X Nat /\ p[1] = MsgOf[m].address
         /\ p[2] \in listed[m] /\ p[2] \in {0, MsgOf[m].lt}
         /\ lts[m] > 0 => p[2] <= lts[m]
<1>1. /\ m \notin State /\ MsgOf[m].address \in Nat /\ MsgOf[m].lt \in Nat
      /\ lts[m] \in {0, MsgOf[m].lt} /\ listed[m] \subseteq {0, MsgOf[m].lt}
  BY RescanAssumption DEF RescanAssumption, LtsOK
<1>2. PICK lt \in listed[m] : p = <<MsgOf[m].address, lt>>
  BY <1>1 DEF Listed
<1> QED
  BY <1>1, <1>2

\* The rows of a task are states or messages, behind its checkpoint.
LEMMA RowsOf ==
  ASSUME NEW t
  PROVE  /\ OnMessages(t) => /\ Rows(t) \subseteq Message
                             /\ \A m \in Rows(t) : t.last[1] <= MsgOf[m].address
         /\ ~OnMessages(t) => Rows(t) \subseteq State
         /\ \A x \in Rows(t) : ListedAfter(x, t.last) # {}
  BY DEF Rows, MatchingMessages, OfOperation, MatchingStates

\* A batch has rows, none of them behind one left out, and the checkpoint
\* after it is the place of one of them.
LEMMA BatchOf ==
  ASSUME NEW t, Rows(t) # {}, NEW at \in Listings(t), NEW b \in Firsts(at)
  PROVE  /\ b \subseteq Rows(t) /\ b # {}
         /\ \A x \in Rows(t) : at[x] \in ListedAfter(x, t.last)
         /\ \A x \in b, y \in Rows(t) \ b : ~Before(at[y], at[x])
         /\ \A s \in SetToSeqs(b) : \E x \in b : Checkpoint(s) = Place(x)
<1> DEFINE R == DOMAIN at
<1>0. /\ R = Rows(t) /\ R \subseteq State \cup Message /\ R # {}
      /\ \A x \in R : at[x] \in ListedAfter(x, t.last)
  BY RowsOf DEF Listings
<1> HIDE DEF R
<1>1. IsFiniteSet(R)
  <2>1. IsFiniteSet(State \cup Message)
    BY RescanAssumption, FS_Union DEF RescanAssumption
  <2> QED
    BY <1>0, <2>1, FS_Subset
<1>2. Cardinality(R) \in Nat /\ Cardinality(R) # 0
  BY <1>0, <1>1, FS_CardinalityType, FS_EmptySet
<1>3. /\ b \subseteq R
      /\ \A x \in b, y \in R \ b : ~Before(at[y], at[x])
      /\ Cardinality(b) \in Nat \ {0}
  BY <1>2, RescanAssumption DEF Firsts, RescanAssumption, R
<1>4. ASSUME NEW s \in SetToSeqs(b)
      PROVE  \E x \in b : Checkpoint(s) = Place(x)
  <2>1. s \in [1..Cardinality(b) -> b]
    BY DEF SetToSeqs
  <2>2. s \in Seq(State \cup Message) /\ Len(s) = Cardinality(b)
    BY <1>0, <1>3, <2>1
  <2>3. s # <<>>
    <3>1. Len(<<>>) = 0
      OBVIOUS
    <3>2. Len(s) # 0
      BY <1>3, <2>2
    <3> QED
      BY <3>1, <3>2, Zenon
  <2>4. PICK i \in DOMAIN s : Checkpoint(s) = Place(s[i])
    BY <2>2, <2>3, CheckpointIn
  <2> QED
    BY <2>1, <2>4
<1>5. b # {}
  BY <1>3, FS_EmptySet
<1> QED
  BY <1>0, <1>3, <1>4, <1>5

\* The task whose checkpoint is saved stays unfinished.
LEMMA SavedTask ==
  ASSUME TypeOK, job \in Unfinished,
         tasks' = [tasks EXCEPT ![job].last = place]
  PROVE  /\ tasks' \in Seq(TaskRow) /\ Unfinished' = Unfinished
         /\ DOMAIN tasks' = DOMAIN tasks
         /\ \A k \in DOMAIN tasks : k # job => tasks'[k] = tasks[k]
         /\ tasks'[job] = [tasks[job] EXCEPT !.last = place]
<1>1. /\ tasks \in Seq(TaskRow) /\ job \in DOMAIN tasks
      /\ place \in Nat \X Nat
  BY DEF TypeOK, Unfinished
<1>2. tasks[job] \in TaskRow
  BY <1>1
<1>3. /\ [tasks[job] EXCEPT !.last = place] \in TaskRow
      /\ [tasks[job] EXCEPT !.last = place].done = tasks[job].done
  BY <1>1, <1>2 DEF TaskRow
<1>4. /\ DOMAIN tasks' = DOMAIN tasks
      /\ \A k \in DOMAIN tasks : k # job => tasks'[k] = tasks[k]
      /\ tasks'[job] = [tasks[job] EXCEPT !.last = place]
  BY <1>1
<1>5. tasks' \in Seq(TaskRow)
  BY <1>1, <1>3
<1> QED
  BY <1>3, <1>4, <1>5 DEF Unfinished

\* The task that is finished is unfinished no more.
LEMMA FinishedTask ==
  ASSUME TypeOK, job \in Unfinished,
         tasks' = [tasks EXCEPT ![job].done = TRUE]
  PROVE  /\ tasks' \in Seq(TaskRow) /\ Unfinished' = Unfinished \ {job}
         /\ DOMAIN tasks' = DOMAIN tasks
         /\ \A k \in DOMAIN tasks : k # job => tasks'[k] = tasks[k]
         /\ tasks'[job] = [tasks[job] EXCEPT !.done = TRUE]
<1>1. tasks \in Seq(TaskRow) /\ job \in DOMAIN tasks
  BY DEF TypeOK, Unfinished
<1>2. tasks[job] \in TaskRow
  BY <1>1
<1>3. /\ [tasks[job] EXCEPT !.done = TRUE] \in TaskRow
      /\ [tasks[job] EXCEPT !.done = TRUE].done
  BY <1>2 DEF TaskRow
<1>4. /\ DOMAIN tasks' = DOMAIN tasks
      /\ \A k \in DOMAIN tasks : k # job => tasks'[k] = tasks[k]
      /\ tasks'[job] = [tasks[job] EXCEPT !.done = TRUE]
  BY <1>1
<1>5. tasks' \in Seq(TaskRow)
  BY <1>1, <1>3
<1> QED
  BY <1>3, <1>4, <1>5 DEF Unfinished

\* Every row of a message has the logical time of its transaction or none.
SavedTyped ==
    /\ lts \in [Message -> Nat] /\ newest \in [Message -> Nat]
    /\ listed \in [Message -> SUBSET Nat]
LEMMA SavedKept ==
  ASSUME SavedTyped, LtsOK, [Next]_vars
  PROVE  SavedTyped' /\ LtsOK'
<1>1. \A m \in Message : MsgOf[m].lt \in Nat
  BY RescanAssumption DEF RescanAssumption
<1>2. CASE UNCHANGED <<saved, copies>>
  BY <1>2 DEF SavedTyped, LtsOK, saved
<1>3. CASE UNCHANGED saved /\ copies' = NoCopies
  BY <1>3 DEF SavedTyped, LtsOK, saved, NoCopies
<1>4. CASE WriteBatch
  <2>1. UNCHANGED saved
    BY <1>4 DEF WriteBatch
  <2>2. PICK at \in Listings(tasks[job]) : \E batch \in Firsts(at) :
           IF OnMessages(tasks[job]) THEN WriteMessages(batch, at)
           ELSE WriteStates(tasks[job], batch)
    BY <1>4 DEF WriteBatch
  <2>3. PICK batch \in Firsts(at) :
           IF OnMessages(tasks[job]) THEN WriteMessages(batch, at)
           ELSE WriteStates(tasks[job], batch)
    BY <2>2
  <2>4. CASE WriteMessages(batch, at)
    <3>1. PICK updated \in SUBSET (batch \cap Unsteady) :
             copies' = [m \in updated |-> lts[m]]
      BY <2>4 DEF WriteMessages
    <3>2. updated \subseteq Message
      BY RescanAssumption DEF RescanAssumption
    <3> QED
      BY <2>1, <3>1, <3>2 DEF SavedTyped, LtsOK, saved
  <2>5. CASE WriteStates(tasks[job], batch)
    <3>1. copies' = copies \/ copies' = NoCopies
      BY <2>5 DEF WriteStates, ToIdle
    <3> QED
      BY <1>2, <1>3, <2>1, <3>1
  <2> QED
    BY <2>3, <2>4, <2>5
<1>5. CASE InsertRows
  <2>1. /\ copies' = NoCopies /\ lts' = lts
        /\ newest' = [m \in Message |->
                         IF m \in DOMAIN copies THEN copies[m] ELSE newest[m]]
        /\ listed' = [m \in Message |->
                         listed[m] \cup {copies[q] : q \in DOMAIN copies \cap {m}}]
    BY <1>5 DEF InsertRows
  <2>2. \A m \in DOMAIN copies : copies[m] \in {0, MsgOf[m].lt} /\ copies[m] \in Nat
    BY <1>1 DEF LtsOK
  <2>3. newest' \in [Message -> Nat]
    BY <2>1, <2>2 DEF SavedTyped
  <2>4. \A m \in Message :
           \/ m \notin DOMAIN copies /\ listed'[m] = listed[m]
           \/ m \in DOMAIN copies /\ listed'[m] = listed[m] \cup {copies[m]}
    BY <2>1
  <2>5. listed' \in [Message -> SUBSET Nat]
    <3>1. \A m \in Message : listed'[m] \in SUBSET Nat
      BY <2>2, <2>4 DEF SavedTyped
    <3> QED
      BY <2>1, <3>1
  <2>6. \A m \in Message : /\ listed'[m] \subseteq {0, MsgOf[m].lt}
                           /\ newest'[m] \in listed'[m]
    BY <2>1, <2>2, <2>4 DEF LtsOK
  <2> QED
    BY <2>1, <2>3, <2>5, <2>6 DEF SavedTyped, LtsOK, NoCopies
<1>6. ASSUME NEW m \in Message, SaveMessage(m)
      PROVE  SavedTyped' /\ LtsOK'
  <2>1. PICK lt \in {0, MsgOf[m].lt} :
           /\ lts' = IF MsgOf[m].outgoing THEN lts ELSE [lts EXCEPT ![m] = lt]
           /\ \/ UNCHANGED <<newest, listed>>
              \/ /\ newest' = [newest EXCEPT ![m] = lt]
                 /\ listed' = [listed EXCEPT ![m] = @ \cup {lt}]
    BY <1>6 DEF SaveMessage
  <2>2. lt \in Nat /\ copies' = copies
    BY <1>1, <1>6 DEF SaveMessage, service
  <2>3. /\ lts' \in [Message -> Nat] /\ newest' \in [Message -> Nat]
        /\ listed' \in [Message -> SUBSET Nat]
    BY <2>1, <2>2 DEF SavedTyped
  <2>4. \A q \in Message : lts'[q] \in {0, MsgOf[q].lt}
    BY <2>1 DEF SavedTyped, LtsOK
  <2>5. \A q \in Message : /\ listed'[q] \subseteq {0, MsgOf[q].lt}
                           /\ newest'[q] \in listed'[q]
    BY <2>1 DEF SavedTyped, LtsOK
  <2> QED
    BY <2>2, <2>3, <2>4, <2>5 DEF SavedTyped, LtsOK
<1>7. ASSUME NEW m \in Message, Merge(m)
      PROVE  SavedTyped' /\ LtsOK'
  <2>1. /\ listed' = [listed EXCEPT ![m] = {newest[m]}]
        /\ UNCHANGED <<lts, newest, copies>>
    BY <1>7 DEF Merge, service
  <2>2. newest[m] \in listed[m] /\ newest[m] \in Nat
    BY DEF LtsOK, SavedTyped
  <2>3. listed' \in [Message -> SUBSET Nat]
    BY <2>1, <2>2 DEF SavedTyped
  <2>4. \A q \in Message : /\ listed'[q] \subseteq {0, MsgOf[q].lt}
                           /\ newest'[q] \in listed'[q]
    BY <2>1, <2>2 DEF SavedTyped, LtsOK
  <2> QED
    BY <2>1, <2>3, <2>4 DEF SavedTyped, LtsOK
<1>8. Command \/ RunStatement \/ CommandFails \/ Fetch \/ UNCHANGED vars
        => UNCHANGED <<saved, copies>>
  BY DEF Command, RunStatement, CommandFails, Fetch, vars, service
<1>9. SavePlace \/ Finish \/ Abandon => UNCHANGED saved /\ copies' = NoCopies
  BY DEF SavePlace, Finish, Abandon, ToIdle
<1> QED
  BY <1>2, <1>3, <1>4, <1>5, <1>6, <1>7, <1>8, <1>9 DEF Next

\* What a step of the service does to the queue: it changes only the task at
\* hand, and of that the checkpoint, or that it is done.
LEMMA ServiceTyped ==
  ASSUME TypeOK, InTurn, SavedTyped',
         Fetch \/ WriteBatch \/ InsertRows \/ SavePlace \/ Finish \/ Abandon
  PROVE  TypeOK' /\ InTurn'
<1>1. UNCHANGED database
  BY DEF Fetch, WriteBatch, InsertRows, SavePlace, Finish, Abandon
<1>2. CASE Fetch
  <2>1. /\ pc' = "fetched" /\ job' = Oldest /\ Unfinished # {}
        /\ UNCHANGED <<tasks, place, pending, seen, astray>>
    BY <1>2 DEF Fetch, history
  <2>2. Unfinished \subseteq Nat
    BY DEF Unfinished, TypeOK
  <2>3. \E k \in Unfinished : \A j \in Unfinished : k <= j
    BY <2>1, <2>2, LeastExists
  <2>4. Oldest \in Unfinished /\ \A j \in Unfinished : Oldest <= j
    BY <2>3 DEF Oldest
  <2> QED
    BY <1>1, <2>1, <2>2, <2>4 DEF TypeOK, InTurn, Unfinished, database, SavedTyped
<1>3. CASE WriteBatch
  <2> DEFINE t == tasks[job]
  <2>1. PICK at \in Listings(t) : \E batch \in Firsts(at) :
          /\ IF OnMessages(t) THEN WriteMessages(batch, at)
             ELSE WriteStates(t, batch)
          /\ IF pc' = "idle" THEN place' = Start
             ELSE \E s \in SetToSeqs(batch) : place' = Checkpoint(s)
    BY <1>3 DEF WriteBatch
  <2>2. PICK batch \in Firsts(at) :
          /\ IF OnMessages(t) THEN WriteMessages(batch, at)
             ELSE WriteStates(t, batch)
          /\ IF pc' = "idle" THEN place' = Start
             ELSE \E s \in SetToSeqs(batch) : place' = Checkpoint(s)
    BY <2>1
  <2>3. UNCHANGED tasks /\ pc = "fetched" /\ Rows(t) # {}
    BY <1>3 DEF WriteBatch
  <2>4. /\ batch \subseteq Rows(t) /\ Rows(t) \subseteq State \cup Message
        /\ \A s \in SetToSeqs(batch) :
              \E x \in batch : Checkpoint(s) = Place(x)
    BY <2>3, BatchOf, RowsOf
  <2>5. place' \in Nat \X Nat
    BY <2>2, <2>4, PlaceIs DEF Start
  <2>6. CASE OnMessages(t)
    <3>1. /\ pc' = "written" /\ seen' = seen \cup batch
          /\ astray' \in SUBSET (astray \cup Message)
          /\ UNCHANGED <<pending, job>>
      BY <2>2, <2>6 DEF WriteMessages
    <3>2. batch \subseteq Message
      BY <2>4, <2>6, RowsOf
    <3> QED
      BY <1>1, <2>3, <2>5, <3>1, <3>2 DEF TypeOK, InTurn, Unfinished, database, SavedTyped
  <2>7. CASE ~OnMessages(t)
    <3>1. /\ UNCHANGED history
          /\ \/ pc' = "written" /\ pending' \subseteq batch /\ job' = job
             \/ ToIdle
      <4>1. WriteStates(t, batch)
        BY <2>2, <2>7
      <4> HIDE DEF t
      <4> QED
        BY <4>1 DEF WriteStates
    <3>2. batch \subseteq State
      BY <2>4, <2>7, RowsOf
    <3> QED
      BY <1>1, <2>3, <2>5, <3>1, <3>2
         DEF TypeOK, InTurn, Unfinished, database, SavedTyped, ToIdle, history
  <2> QED
    BY <2>6, <2>7
<1>4. CASE InsertRows
  <2>1. /\ pc = "written" /\ pc' = "inserted" /\ pending' = {}
        /\ UNCHANGED <<tasks, job, place, seen, astray>>
    BY <1>4 DEF InsertRows, history
  <2> QED
    BY <1>1, <2>1 DEF TypeOK, InTurn, Unfinished, database, SavedTyped
<1>5. CASE SavePlace
  <2>1. /\ pc = "inserted" /\ pc' = "idle" /\ job' = 0 /\ pending' = {}
        /\ place' = Start /\ UNCHANGED <<seen, astray>>
        /\ tasks' = [tasks EXCEPT ![job].last = place]
    BY <1>5 DEF SavePlace, ToIdle, history
  <2>2. job \in Unfinished /\ \A k \in Unfinished : job <= k
    BY <2>1 DEF InTurn
  <2>3. /\ tasks' \in Seq(TaskRow) /\ Unfinished' = Unfinished
        /\ \A k \in DOMAIN tasks : k # job => tasks'[k] = tasks[k]
    BY <2>1, <2>2, SavedTask
  <2>4. \A j \in Unfinished : ~(j < job)
    BY <2>2 DEF Unfinished, TypeOK
  <2>5. TypeOK'
    BY <1>1, <2>1, <2>3 DEF TypeOK, Start, database, SavedTyped
  <2> QED
    BY <2>1, <2>3, <2>4, <2>5 DEF InTurn, Unfinished
<1>6. CASE Finish
  <2>1. /\ pc = "fetched" /\ pc' = "idle" /\ job' = 0 /\ pending' = {}
        /\ place' = place /\ seen' = {} /\ astray' = {}
        /\ tasks' = [tasks EXCEPT ![job].done = TRUE]
    BY <1>6 DEF Finish, ToIdle
  <2>2. job \in Unfinished
    BY <2>1 DEF InTurn
  <2>3. /\ tasks' \in Seq(TaskRow) /\ Unfinished' = Unfinished \ {job}
        /\ \A k \in DOMAIN tasks : k # job => tasks'[k] = tasks[k]
    BY <2>1, <2>2, FinishedTask
  <2>4. TypeOK'
    BY <1>1, <2>1, <2>3 DEF TypeOK, database, SavedTyped
  <2> QED
    BY <2>1, <2>3, <2>4 DEF InTurn, Unfinished
<1>7. CASE Abandon
  <2>1. /\ pc' = "idle" /\ job' = 0 /\ pending' = {} /\ place' = Start
        /\ UNCHANGED <<tasks, seen, astray>>
    BY <1>7 DEF Abandon, ToIdle, history
  <2> QED
    BY <1>1, <2>1 DEF TypeOK, InTurn, Unfinished, Start, database, SavedTyped
<1> QED
  BY <1>2, <1>3, <1>4, <1>5, <1>6, <1>7

-----------------------------------------------------------------------------
\* The checkpoint.

\* Every row of a task is behind its checkpoint, but for one of a message that
\* has no logical time.
LEMMA RowsAreBehind ==
  ASSUME TypeOK, LtsOK, NEW t \in TaskRow, NEW x \in Rows(t),
         OnMessages(t) \/ t.last = Start \/ t.last[2] > 0
  PROVE  \/ Place(x)[2] > 0 /\ Before(t.last, Place(x))
         \/ OnMessages(t) /\ Place(x)[2] = 0 /\ t.last[1] <= Place(x)[1]
<1>1. t.last \in Nat \X Nat /\ x \in State \cup Message
  BY RowsOf DEF TaskRow
<1>2. PICK p \in Listed(x) : t.last[2] = 0 \/ Before(t.last, p)
  BY RowsOf DEF ListedAfter, After
<1>3. CASE OnMessages(t)
  <2>1. x \in Message /\ t.last[1] <= MsgOf[x].address
    BY <1>3, RowsOf
  <2>2. Place(x) \in Nat \X Nat /\ Place(x)[1] = MsgOf[x].address /\ Place(x)[2] = lts[x]
    BY <2>1, PlaceIs
  <2>3. p \in Nat \X Nat /\ p[1] = MsgOf[x].address /\ (lts[x] > 0 => p[2] <= lts[x])
    BY <2>1, ListedIs
  <2> QED
    BY <1>1, <1>2, <1>3, <2>1, <2>2, <2>3 DEF Before
<1>4. CASE ~OnMessages(t)
  <2>1. x \in State
    BY <1>4, RowsOf
  <2>2. p = x /\ Place(x) = x /\ x \in Nat \X Nat /\ x[2] > 0
    BY <1>2, <2>1, PlaceIs
  <2> QED
    BY <1>1, <1>2, <1>4, <2>2 DEF Before, Start
<1> QED
  BY <1>3, <1>4

\* The place to be saved is behind the one in the task's row.
LEMMA PlaceKept ==
  ASSUME TypeOK, LtsOK, rest \in Scripts, InTurn, PlaceOK, [Next]_vars
  PROVE  PlaceOK'
<1>1. CASE UNCHANGED <<tasks, pc, job, place>>
  BY <1>1 DEF PlaceOK
<1>2. CASE RunStatement \/ CommandFails
  <2>1. UNCHANGED <<pc, job, place>>
    BY <1>2 DEF RunStatement, CommandFails, service
  <2>2. CASE tasks' = tasks
    BY <2>1, <2>2 DEF PlaceOK
  <2>3. CASE tasks' # tasks
    <3>1. /\ Head(rest).do = "task" /\ tasks' = Append(tasks, Head(rest).arg)
          /\ rest # <<>>
      BY <1>2, <2>3 DEF RunStatement, CommandFails, Execute
    <3>2. Head(rest).arg \in NewTask
      BY <3>1, ScriptsRest DEF StatementSet
    <3>3. /\ DOMAIN tasks' = DOMAIN tasks \cup {Len(tasks) + 1}
          /\ \A k \in DOMAIN tasks : tasks'[k] = tasks[k]
          /\ tasks'[Len(tasks) + 1].last = Start
      BY <3>1, <3>2, Appended DEF NewTask
    <3>4. pc # "idle" => job \in DOMAIN tasks
      BY DEF InTurn, Unfinished
    <3> QED
      BY <2>1, <3>3, <3>4 DEF PlaceOK
  <2> QED
    BY <2>2, <2>3
<1>3. CASE WriteBatch
  <2> DEFINE t == tasks[job]
  <2>1. PICK at \in Listings(t) : \E batch \in Firsts(at) :
          /\ pc' = "written" => job' = job
          /\ IF pc' = "idle" THEN place' = Start
             ELSE \E s \in SetToSeqs(batch) : place' = Checkpoint(s)
    BY <1>3 DEF WriteBatch, WriteMessages, WriteStates, ToIdle
  <2>2. /\ UNCHANGED tasks /\ pc = "fetched" /\ Rows(t) # {}
        /\ pc' \in {"written", "idle"}
    BY <1>3 DEF WriteBatch, WriteMessages, WriteStates, ToIdle
  <2>3. PICK batch \in Firsts(at) :
          /\ pc' = "written" => job' = job
          /\ IF pc' = "idle" THEN place' = Start
             ELSE \E s \in SetToSeqs(batch) : place' = Checkpoint(s)
    BY <2>1
  <2>4. CASE pc' = "written"
    <3>1. PICK x \in Rows(t) : place' = Place(x)
      BY <2>2, <2>3, <2>4, BatchOf
    <3>2. job \in DOMAIN tasks /\ t \in TaskRow
      BY <2>2 DEF InTurn, Unfinished, TypeOK
    <3>3. OnMessages(t) \/ t.last = Start \/ t.last[2] > 0
      BY <3>2 DEF PlaceOK
    <3>4. \/ Place(x)[2] > 0 /\ Before(t.last, Place(x))
          \/ OnMessages(t) /\ Place(x)[2] = 0 /\ t.last[1] <= Place(x)[1]
      BY <3>2, <3>3, RowsAreBehind
    <3>5. job' = job /\ tasks' = tasks
      BY <2>2, <2>3, <2>4
    <3> QED
      BY <2>4, <3>1, <3>4, <3>5 DEF PlaceOK, Before, OnMessages
  <2>5. CASE pc' = "idle"
    BY <2>2, <2>5 DEF PlaceOK
  <2> QED
    BY <2>2, <2>4, <2>5
<1>4. CASE Fetch
  BY <1>4 DEF Fetch, PlaceOK
<1>5. CASE InsertRows
  BY <1>5 DEF InsertRows, PlaceOK, Before
<1>6. CASE SavePlace
  <2>1. /\ pc = "inserted" /\ pc' = "idle"
        /\ tasks' = [tasks EXCEPT ![job].last = place]
    BY <1>6 DEF SavePlace, ToIdle
  <2>2. job \in Unfinished
    BY <2>1 DEF InTurn
  <2>3. /\ DOMAIN tasks' = DOMAIN tasks
        /\ \A k \in DOMAIN tasks : k # job => tasks'[k] = tasks[k]
        /\ tasks'[job] = [tasks[job] EXCEPT !.last = place]
    BY <2>1, <2>2, SavedTask
  <2>4. /\ tasks'[job].last = place /\ tasks'[job].type = tasks[job].type
        /\ OnMessages(tasks[job]) \/ place[2] > 0
    <3>1. tasks[job] \in TaskRow
      BY <2>2 DEF Unfinished, TypeOK
    <3> QED
      BY <2>1, <2>3, <3>1 DEF TaskRow, PlaceOK
  <2> QED
    BY <2>1, <2>3, <2>4 DEF PlaceOK, OnMessages
<1>7. CASE Finish
  <2>1. /\ pc = "fetched" /\ pc' = "idle"
        /\ tasks' = [tasks EXCEPT ![job].done = TRUE]
    BY <1>7 DEF Finish, ToIdle
  <2>2. job \in Unfinished
    BY <2>1 DEF InTurn
  <2>3. /\ DOMAIN tasks' = DOMAIN tasks
        /\ \A k \in DOMAIN tasks : k # job => tasks'[k] = tasks[k]
        /\ tasks'[job] = [tasks[job] EXCEPT !.done = TRUE]
    BY <2>1, <2>2, FinishedTask
  <2>4. tasks'[job].last = tasks[job].last /\ tasks'[job].type = tasks[job].type
    <3>1. tasks[job] \in TaskRow
      BY <2>2 DEF Unfinished, TypeOK
    <3> QED
      BY <2>3, <3>1 DEF TaskRow
  <2> QED
    BY <2>1, <2>3, <2>4 DEF PlaceOK, OnMessages
<1>8. CASE Abandon
  BY <1>8 DEF Abandon, ToIdle, PlaceOK
<1>9. ASSUME NEW m \in Message, SaveMessage(m) \/ Merge(m)
      PROVE  UNCHANGED <<tasks, pc, job, place>>
  BY <1>9 DEF SaveMessage, Merge, service
<1> QED
  BY <1>1, <1>2, <1>3, <1>4, <1>5, <1>6, <1>7, <1>8, <1>9
  DEF Next, Command, service, vars

\* Types, turn and checkpoint together.
LEMMA RescanTyped ==
  Spec => [](TypeOK /\ LtsOK /\ rest \in Scripts /\ InTurn /\ PlaceOK)
<1>1. Init => TypeOK /\ LtsOK /\ rest \in Scripts /\ InTurn /\ PlaceOK
  <2>1. Init => PlaceOK
    BY DEF Init, PlaceOK
  <2> QED
    BY <2>1, StartTyped
<1>2. TypeOK /\ LtsOK /\ rest \in Scripts /\ InTurn /\ [Next]_vars
        => TypeOK' /\ LtsOK' /\ (rest \in Scripts)' /\ InTurn'
  <2> SUFFICES ASSUME TypeOK, LtsOK, rest \in Scripts, InTurn, [Next]_vars
               PROVE  TypeOK' /\ LtsOK' /\ rest' \in Scripts /\ InTurn'
    OBVIOUS
  <2>1. SavedTyped' /\ LtsOK'
    BY SavedKept DEF SavedTyped, TypeOK
  <2>2. CASE UNCHANGED vars
    BY <2>1, <2>2 DEF vars, TypeOK, InTurn, Unfinished, database, service, saved, history
  <2>3. CASE Command
    <3>1. UNCHANGED <<tasks, pc, job>>
      BY <2>3 DEF Command, service
    <3> QED
      BY <2>1, <2>3, <3>1, CommandTyped DEF InTurn, Unfinished
  <2>4. CASE RunStatement \/ CommandFails
    BY <2>1, <2>4, StatementTyped
  <2>5. CASE Fetch \/ WriteBatch \/ InsertRows \/ SavePlace \/ Finish \/ Abandon
    <3>1. rest' = rest
      BY <2>5 DEF Fetch, WriteBatch, InsertRows, SavePlace, Finish, Abandon
    <3> QED
      BY <2>1, <2>5, <3>1, ServiceTyped
  <2>6. ASSUME NEW m \in Message, SaveMessage(m) \/ Merge(m)
        PROVE  TypeOK' /\ LtsOK' /\ rest' \in Scripts /\ InTurn'
    <3>1. /\ UNCHANGED <<database, tasks, rest, pc, job, place, pending, seen>>
          /\ astray' \in SUBSET (astray \cup {m})
      BY <2>6 DEF SaveMessage, Merge, service, history
    <3> QED
      BY <2>1, <3>1 DEF TypeOK, InTurn, Unfinished, database, SavedTyped
  <2> QED
    BY <2>2, <2>3, <2>4, <2>5, <2>6 DEF Next
<1>3. TypeOK /\ LtsOK /\ rest \in Scripts /\ InTurn /\ PlaceOK /\ [Next]_vars => PlaceOK'
  BY PlaceKept
<1> QED
  BY <1>1, <1>2, <1>3, PTL DEF Spec

\* Type correctness of the queue of rescan tasks and of the service.
THEOREM RescanTypeCorrect == Spec => []TypeOK
  BY RescanTyped, PTL

\* The stored checkpoint of a task goes forward, whatever order the rows of a
\* batch come in, but for a message without logical time: it is the place of a
\* row that was behind the old one.
THEOREM CheckpointsAdvance == Spec => CheckpointAdvances
<1>1. TypeOK /\ rest \in Scripts /\ InTurn /\ PlaceOK /\ [Next]_vars
        => [\A k \in DOMAIN tasks :
               LET old == tasks[k].last  new == tasks'[k].last
               IN new # old =>
                     \/ Before(old, new)
                     \/ OnMessages(tasks[k]) /\ new[2] = 0 /\ old[1] <= new[1]]_vars
  <2> SUFFICES ASSUME TypeOK, rest \in Scripts, InTurn, PlaceOK, Next,
                      NEW k \in DOMAIN tasks, tasks'[k].last # tasks[k].last
               PROVE  \/ Before(tasks[k].last, tasks'[k].last)
                      \/ /\ OnMessages(tasks[k]) /\ tasks'[k].last[2] = 0
                         /\ tasks[k].last[1] <= tasks'[k].last[1]
    OBVIOUS
  <2>1. CASE RunStatement \/ CommandFails
    <3>1. tasks' # tasks
      OBVIOUS
    <3>2. /\ Head(rest).do = "task" /\ tasks' = Append(tasks, Head(rest).arg)
          /\ rest # <<>>
      BY <2>1, <3>1 DEF RunStatement, CommandFails, Execute
    <3>3. Head(rest).arg \in NewTask
      BY <3>2, ScriptsRest DEF StatementSet
    <3> QED
      BY <3>2, <3>3, Appended
  <2>2. CASE SavePlace
    <3>1. /\ pc = "inserted"
          /\ tasks' = [tasks EXCEPT ![job].last = place]
      BY <2>2 DEF SavePlace
    <3>2. job \in Unfinished
      BY <3>1 DEF InTurn
    <3>3. /\ \A j \in DOMAIN tasks : j # job => tasks'[j] = tasks[j]
          /\ tasks'[job] = [tasks[job] EXCEPT !.last = place]
      BY <3>1, <3>2, SavedTask
    <3>4. tasks'[job].last = place
      <4>1. tasks[job] \in TaskRow
        BY <3>2 DEF Unfinished, TypeOK
      <4> QED
        BY <3>3, <4>1 DEF TaskRow
    <3>5. k = job
      BY <3>3
    <3> QED
      BY <3>1, <3>4, <3>5 DEF PlaceOK
  <2>3. CASE Finish
    <3>1. /\ pc = "fetched"
          /\ tasks' = [tasks EXCEPT ![job].done = TRUE]
      BY <2>3 DEF Finish
    <3>2. job \in Unfinished
      BY <3>1 DEF InTurn
    <3>3. /\ \A j \in DOMAIN tasks : j # job => tasks'[j] = tasks[j]
          /\ tasks'[job] = [tasks[job] EXCEPT !.done = TRUE]
      BY <3>1, <3>2, FinishedTask
    <3>4. tasks'[job].last = tasks[job].last
      <4>1. tasks[job] \in TaskRow
        BY <3>2 DEF Unfinished, TypeOK
      <4> QED
        BY <3>3, <4>1 DEF TaskRow
    <3> QED
      BY <3>3, <3>4
  <2> QED
    BY <2>1, <2>2, <2>3
    DEF Next, Command, Fetch, WriteBatch, InsertRows, Abandon, SaveMessage, Merge
<1> QED
  BY <1>1, RescanTyped, PTL DEF Spec, CheckpointAdvances

-----------------------------------------------------------------------------
\* The messages of an operation.

\* The addresses of a contract are as few as its states.
LEMMA AddressesOf ==
  ASSUME NEW t
  PROVE  /\ Addresses(t) \subseteq Nat
         /\ \A S \in SUBSET Addresses(t) :
               IsFiniteSet(S) /\ Cardinality(S) \in Nat
<1> DEFINE U == {u \in State : t.name \in shown[u]}
           f == [u \in U |-> u[1]]
<1>1. IsFiniteSet(U) /\ U \subseteq Nat \X Nat
  BY RescanAssumption, FS_Subset DEF RescanAssumption
<1>2. Addresses(t) = {u[1] : u \in U}
  BY DEF Addresses
<1> HIDE DEF U
<1>3. f \in Surjection(U, Addresses(t))
  BY <1>2 DEF Surjection
<1>4. IsFiniteSet(Addresses(t))
  BY <1>1, <1>3, FS_Surjection
<1> QED
  BY <1>1, <1>2, <1>4, FS_Subset, FS_CardinalityType

\* A message ahead of the checkpoint that is not in the batch is at a later
\* address than a row of it, or is a row that is not listed before that one.
LEMMA LeftOutIsLater ==
  ASSUME NEW t \in TaskRow, OnMessages(t), Rows(t) # {},
         NEW m \in OfOperation(t.op, Addresses(t)), Ahead(m, t.last),
         NEW at \in Listings(t), NEW b \in Firsts(at), NEW x \in b, m \notin b
  PROVE  \/ MsgOf[x].address < MsgOf[m].address
         \/ m \in Rows(t) /\ ~Before(at[m], at[x])
<1>1. Rows(t) \subseteq Message /\ b \subseteq Rows(t)
      /\ \A y \in Rows(t) \ b : ~Before(at[y], at[x])
  BY RowsOf, BatchOf
<1>2. CASE m \in Rows(t)
  BY <1>1, <1>2
<1>3. CASE m \notin Rows(t)
  <2> DEFINE left == {a \in Addresses(t) : t.last[1] <= a}
             before(a) == {c \in left : c < a}
             am == MsgOf[m].address
             ax == MsgOf[x].address
  <2>1. /\ m \in Message /\ am \in Addresses(t) /\ x \in Message
        /\ am \in Nat /\ ax \in Nat
    BY <1>1, RescanAssumption DEF OfOperation, RescanAssumption
  <2>2. am \in left
    BY <2>1 DEF Ahead
  <2>3. MatchingMessages(t) =
           OfOperation(t.op, {a \in left : Cardinality(before(a)) < SelectLimit})
    BY DEF MatchingMessages
  <2>4. x \in MatchingMessages(t) /\ m \notin MatchingMessages(t)
    BY <1>1, <1>3 DEF Rows, Ahead
  <2>5. /\ Cardinality(before(ax)) < SelectLimit
        /\ ~(Cardinality(before(am)) < SelectLimit)
    <3> HIDE DEF before
    <3> QED
      BY <2>1, <2>2, <2>3, <2>4 DEF OfOperation
  <2>6. left \subseteq Nat /\ before(am) \in SUBSET Addresses(t)
        /\ before(ax) \in SUBSET Addresses(t)
    BY AddressesOf
  <2>7. ASSUME am <= ax PROVE FALSE
    <3>1. before(am) \subseteq before(ax)
      BY <2>1, <2>6, <2>7
    <3>2. /\ IsFiniteSet(before(ax)) /\ Cardinality(before(ax)) \in Nat
          /\ Cardinality(before(am)) \in Nat
      BY <2>6, AddressesOf
    <3> HIDE DEF before
    <3>3. Cardinality(before(am)) <= Cardinality(before(ax))
      BY <3>1, <3>2, FS_Subset
    <3> QED
      BY <2>5, <3>2, <3>3, RescanAssumption DEF RescanAssumption
  <2> QED
    BY <2>1, <2>7
<1> QED
  BY <1>2, <1>3

\* When a task on messages has no rows left, and its contract no more
\* addresses than a batch has rows, none of its messages is ahead of the
\* checkpoint.
LEMMA NoneLeft ==
  ASSUME NEW t \in TaskRow, OnMessages(t),
         Rows(t) = {}, ~(Cardinality(Addresses(t)) > SelectLimit),
         NEW m \in OfOperation(t.op, Addresses(t))
  PROVE  ~Ahead(m, t.last)
<1>1. SUFFICES ASSUME Ahead(m, t.last) PROVE FALSE
  OBVIOUS
<1> DEFINE left == {a \in Addresses(t) : t.last[1] <= a}
           before(a) == {c \in left : c < a}
           am == MsgOf[m].address
<1>2. m \in Message /\ am \in Addresses(t) /\ am \in Nat
  BY RescanAssumption DEF OfOperation, RescanAssumption
<1>3. am \in left
  BY <1>1, <1>2 DEF Ahead
<1>4. MatchingMessages(t) =
         OfOperation(t.op, {a \in left : Cardinality(before(a)) < SelectLimit})
  BY DEF MatchingMessages
<1>5. m \notin MatchingMessages(t)
  BY <1>1 DEF Rows, Ahead
<1>6. ~(Cardinality(before(am)) < SelectLimit)
  <2> HIDE DEF before
  <2> QED
    BY <1>2, <1>3, <1>4, <1>5 DEF OfOperation
<1>7. before(am) \subseteq Addresses(t) /\ am \notin before(am)
  BY <1>2
<1> HIDE DEF before
<1>8. /\ IsFiniteSet(Addresses(t)) /\ Cardinality(Addresses(t)) \in Nat
      /\ Cardinality(before(am)) \in Nat
  BY <1>7, AddressesOf
<1>9. /\ Cardinality(before(am)) <= Cardinality(Addresses(t))
      /\ Cardinality(before(am)) # Cardinality(Addresses(t))
  BY <1>2, <1>7, <1>8, FS_Subset
<1> QED
  BY <1>6, <1>8, <1>9, RescanAssumption DEF RescanAssumption

\* A batch of messages leaves none behind that is before its checkpoint, but
\* for those of the transaction of one of its rows, and for those astray.
LEMMA BatchSeen ==
  ASSUME TypeOK, LtsOK, InTurn, MessagesInv, WriteBatch,
         OnMessages(tasks[job])
  PROVE  /\ pc' = "written" /\ job' = job /\ pending' = {}
         /\ UNCHANGED listed /\ seen \subseteq seen' /\ astray \subseteq astray'
         /\ \A m \in OfOperation(tasks[job].op, Addresses(tasks[job])) :
               \/ /\ place'[1] <= MsgOf[m].address
                  /\ \E p \in Listed(m) : After(p, place')
               \/ Covered(m)'
<1> DEFINE t == tasks[job]
<1>1. PICK at \in Listings(t) : \E b \in Firsts(at) :
        /\ WriteMessages(b, at)
        /\ IF pc' = "idle" THEN place' = Start
           ELSE \E s \in SetToSeqs(b) : place' = Checkpoint(s)
  BY DEF WriteBatch
<1>2. PICK b \in Firsts(at) :
        /\ WriteMessages(b, at)
        /\ IF pc' = "idle" THEN place' = Start
           ELSE \E s \in SetToSeqs(b) : place' = Checkpoint(s)
  BY <1>1
<1>3. pc = "fetched" /\ Rows(t) # {} /\ UNCHANGED listed
  BY DEF WriteBatch, saved
<1>4. /\ pc' = "written" /\ job' = job /\ pending' = pending
      /\ seen' = seen \cup b
      /\ astray' = astray \cup
            {m \in Message : \E q \in b : /\ at[q][2] = 0 /\ lts[q] > 0
                                          /\ MsgOf[q].address = MsgOf[m].address}
  BY <1>2 DEF WriteMessages
<1>5. job \in Unfinished /\ t \in TaskRow
  BY <1>3 DEF InTurn, Unfinished, TypeOK
<1>6. pending = {}
  BY <1>3 DEF MessagesInv
<1>7. Rows(t) \subseteq Message /\ b \subseteq Rows(t)
      /\ \A y \in Rows(t) : at[y] \in ListedAfter(y, t.last)
  BY <1>3, RowsOf, BatchOf
<1>8. PICK x \in b : place' = Place(x)
  BY <1>2, <1>3, <1>4, BatchOf
<1>9. /\ x \in Message /\ at[x] \in Listed(x)
      /\ place' \in Nat \X Nat /\ place'[1] = MsgOf[x].address /\ place'[2] = lts[x]
  <2>1. x \in Message /\ at[x] \in Listed(x)
    BY <1>7 DEF ListedAfter
  <2>2. /\ Place(x) \in Nat \X Nat
        /\ Place(x)[1] = MsgOf[x].address /\ Place(x)[2] = lts[x]
    BY <2>1, PlaceIs
  <2> QED
    BY <1>8, <2>1, <2>2
<1>10. /\ MsgOf[x].lt \in Nat /\ lts[x] \in {0, MsgOf[x].lt}
       /\ at[x] \in Nat \X Nat /\ at[x][1] = MsgOf[x].address
       /\ at[x][2] \in {0, MsgOf[x].lt}
  BY <1>9, ListedIs, RescanAssumption DEF LtsOK, RescanAssumption
<1> HIDE DEF t
<1>11. ASSUME NEW m \in OfOperation(t.op, Addresses(t))
       PROVE  \/ /\ place'[1] <= MsgOf[m].address
                 /\ \E p \in Listed(m) : After(p, place')
              \/ Covered(m)'
  <2>1. Ahead(m, t.last) \/ Covered(m)
    BY <1>5 DEF MessagesInv, SeenOrAhead, t
  <2>2. CASE Covered(m)
    BY <1>4, <2>2 DEF Covered
  <2>3. CASE m \in b
    BY <1>4, <2>3 DEF Covered, SameTransaction
  <2>4. CASE Ahead(m, t.last) /\ m \notin b
    <3>1. \/ MsgOf[x].address < MsgOf[m].address
          \/ m \in Rows(t) /\ ~Before(at[m], at[x])
      BY <1>3, <1>5, <2>4, LeftOutIsLater DEF t
    <3>2. m \in Message /\ MsgOf[m].address \in Nat /\ MsgOf[m].lt \in Nat
      BY RescanAssumption DEF OfOperation, RescanAssumption
    <3>3. CASE MsgOf[x].address < MsgOf[m].address
      <4>1. PICK p \in Listed(m) : TRUE
        BY <2>4 DEF Ahead, ListedAfter
      <4>2. p[1] = MsgOf[m].address
        BY <3>2, <4>1, ListedIs
      <4>3. After(p, place')
        BY <1>9, <3>3, <4>2 DEF After, Before
      <4> QED
        BY <1>9, <1>10, <3>2, <3>3, <4>3
    <3>4. CASE /\ MsgOf[x].address >= MsgOf[m].address
               /\ m \in Rows(t) /\ ~Before(at[m], at[x])
      <4>1. at[m] \in Listed(m)
        BY <1>7, <3>4 DEF ListedAfter
      <4>2. /\ at[m] \in Nat \X Nat /\ at[m][1] = MsgOf[m].address
            /\ at[m][2] \in {0, MsgOf[m].lt}
        BY <3>2, <4>1, ListedIs
      <4>3. MsgOf[x].address = MsgOf[m].address /\ at[x][2] <= at[m][2]
        BY <1>9, <1>10, <3>2, <3>4, <4>2 DEF Before
      <4>4. CASE lts[x] = 0
        BY <1>9, <3>2, <4>1, <4>3, <4>4 DEF After
      <4>5. CASE lts[x] > 0 /\ at[x][2] = 0
        BY <1>4, <3>2, <4>3, <4>5 DEF Covered
      <4>6. CASE lts[x] > 0 /\ at[x][2] > 0
        <5>1. at[x][2] = lts[x] /\ at[x][2] = MsgOf[x].lt /\ at[m][2] = MsgOf[m].lt
          BY <1>10, <4>2, <4>3, <4>6
        <5>2. CASE at[m][2] = at[x][2]
          BY <1>4, <4>3, <5>1, <5>2 DEF Covered, SameTransaction
        <5>3. CASE at[m][2] > at[x][2]
          <6>1. After(at[m], place')
            BY <1>9, <4>2, <4>3, <5>1, <5>3 DEF After, Before
          <6> QED
            BY <1>9, <3>2, <4>1, <4>3, <6>1
        <5> QED
          BY <1>10, <4>2, <4>3, <5>2, <5>3
      <4> QED
        BY <1>10, <4>4, <4>5, <4>6
    <3> QED
      BY <1>9, <1>10, <3>1, <3>2, <3>3, <3>4
  <2> QED
    BY <2>1, <2>2, <2>3, <2>4
<1> QED
  BY <1>3, <1>4, <1>6, <1>11 DEF t

\* What a step may do to the messages ahead of a checkpoint: what was covered
\* stays so, and what was ahead stays so, or goes astray.
RowsStay ==
    /\ UNCHANGED shown
    /\ \A m \in Message :
          /\ Covered(m) => Covered(m)'
          /\ \A last \in Nat \X Nat : Ahead(m, last) => Ahead(m, last)' \/ Covered(m)'
LEMMA RowsStayBy ==
  ASSUME UNCHANGED shown, seen \subseteq seen', astray \subseteq astray',
         \A m \in Message : listed[m] \subseteq listed'[m]
  PROVE  RowsStay
<1>1. ASSUME NEW m \in Message, Covered(m) PROVE Covered(m)'
  BY <1>1 DEF Covered
<1>2. ASSUME NEW m \in Message, NEW last \in Nat \X Nat, Ahead(m, last)
      PROVE  Ahead(m, last)'
  <2>1. Listed(m) \subseteq Listed(m)' /\ m \notin State
    BY RescanAssumption DEF RescanAssumption, Listed
  <2> QED
    BY <1>2, <2>1 DEF Ahead, ListedAfter
<1> QED
  BY <1>1, <1>2 DEF RowsStay

\* What was rescanned, is ahead of the checkpoint or astray, stays so, for
\* tasks that look for the same messages.
LEMMA SeenStays ==
  ASSUME RowsStay, NEW t, NEW u, t.op = u.op, t.name = u.name,
         NEW last \in Nat \X Nat, SeenOrAhead(t, last)
  PROVE  SeenOrAhead(u, last)'
<1>1. OfOperation(u.op, Addresses(u))' = OfOperation(t.op, Addresses(t))
  BY DEF OfOperation, Addresses, RowsStay
<1>2. \A m \in OfOperation(t.op, Addresses(t)) : m \in Message
  BY DEF OfOperation
<1> QED
  BY <1>1, <1>2 DEF SeenOrAhead, RowsStay
LEMMA SeenNext ==
  ASSUME NEW k, NEW u, u = tasks'[k], NEW last, last = u.last,
         SeenOrAhead(u, last)'
  PROVE  SeenOrAhead(tasks[k], tasks[k].last)'
  BY DEF SeenOrAhead, OfOperation, Addresses, Ahead, ListedAfter, After
LEMMA SeenAtPlace ==
  ASSUME NEW u, u = tasks'[job'], NEW last, last = place',
         SeenOrAhead(u, last)'
  PROVE  SeenOrAhead(tasks[job], place)'
  BY DEF SeenOrAhead, OfOperation, Addresses, Ahead, ListedAfter, After
LEMMA TaskStays ==
  ASSUME RowsStay, NEW k, tasks[k] \in TaskRow, tasks'[k] = tasks[k],
         SeenOrAhead(tasks[k], tasks[k].last)
  PROVE  SeenOrAhead(tasks[k], tasks[k].last)'
<1> PICK t : t = tasks[k]
  OBVIOUS
<1> PICK last : last = tasks[k].last
  OBVIOUS
<1>1. last \in Nat \X Nat /\ SeenOrAhead(t, last)
  BY DEF TaskRow
<1>2. SeenOrAhead(t, last)'
  BY <1>1, SeenStays
<1> QED
  BY <1>2, SeenNext
LEMMA PlaceStays ==
  ASSUME RowsStay, place \in Nat \X Nat, place' = place, job' = job,
         tasks'[job] = tasks[job], SeenOrAhead(tasks[job], place)
  PROVE  SeenOrAhead(tasks[job], place)'
<1> PICK t : t = tasks[job]
  OBVIOUS
<1> PICK last : last = place
  OBVIOUS
<1>1. SeenOrAhead(t, last)'
  BY SeenStays
<1> QED
  BY <1>1, SeenAtPlace

\* A task that has not begun has everything ahead of it.
LEMMA AllAhead ==
  ASSUME LtsOK', NEW k, tasks'[k].last = Start
  PROVE  SeenOrAhead(tasks[k], tasks[k].last)'
<1>1. ASSUME NEW m \in Message PROVE Ahead(m, Start)'
  <2>1. m \notin State /\ MsgOf[m].address \in Nat /\ newest'[m] \in listed'[m]
    BY RescanAssumption DEF RescanAssumption, LtsOK
  <2>2. <<MsgOf[m].address, newest'[m]>> \in Listed(m)'
    BY <2>1 DEF Listed
  <2> QED
    BY <2>1, <2>2 DEF Ahead, ListedAfter, After, Start
<1> PICK u : u = tasks'[k]
  OBVIOUS
<1> PICK last : last = Start
  OBVIOUS
<1>2. SeenOrAhead(u, last)'
  BY <1>1 DEF SeenOrAhead, OfOperation
<1> QED
  BY <1>2, SeenNext

\* The messages of the tasks, in every step.
LEMMA MessagesKept ==
  ASSUME TypeOK, LtsOK, rest \in Scripts, InTurn, MessagesInv, [Next]_vars
  PROVE  MessagesInv'
<1> LtsOK'
  BY SavedKept DEF SavedTyped, TypeOK
<1>0. /\ \A k \in Unfinished : k \in DOMAIN tasks /\ tasks[k] \in TaskRow
      /\ place \in Nat \X Nat
  BY DEF Unfinished, TypeOK
<1>1. CASE RowsStay /\ UNCHANGED <<tasks, pc, job, place, pending>>
  <2>1. /\ Unfinished' = Unfinished
        /\ \A k : OnMessages(tasks[k])' = OnMessages(tasks[k])
    BY <1>1 DEF Unfinished, OnMessages
  <2>2. \A k \in Unfinished : SeenOrAhead(tasks[k], tasks[k].last)
                  => SeenOrAhead(tasks[k], tasks[k].last)'
    BY <1>0, <1>1, TaskStays
  <2>3. SeenOrAhead(tasks[job], place) => SeenOrAhead(tasks[job], place)'
    BY <1>0, <1>1, PlaceStays
  <2> QED
    BY <1>1, <2>1, <2>2, <2>3 DEF MessagesInv, OnMessages
<1>2. UNCHANGED <<shown, listed, seen, astray>> => RowsStay
  BY RowsStayBy
<1>3. CASE RunStatement \/ CommandFails
  <2>1. RowsStay /\ UNCHANGED <<pc, job, place, pending>>
    BY <1>2, <1>3 DEF RunStatement, CommandFails, service, saved, history
  <2>2. CASE tasks' = tasks
    BY <1>1, <2>1, <2>2
  <2>3. CASE tasks' # tasks
    <3>1. /\ Head(rest).do = "task" /\ tasks' = Append(tasks, Head(rest).arg)
          /\ rest # <<>>
      BY <1>3, <2>3 DEF RunStatement, CommandFails, Execute
    <3>2. Head(rest).arg \in NewTask
      BY <3>1, ScriptsRest DEF StatementSet
    <3>3. /\ DOMAIN tasks' = DOMAIN tasks \cup {Len(tasks) + 1}
          /\ \A k \in DOMAIN tasks : tasks'[k] = tasks[k]
          /\ tasks'[Len(tasks) + 1].last = Start
          /\ Unfinished' = Unfinished \cup {Len(tasks) + 1}
      BY <3>1, <3>2, Appended DEF NewTask
    <3>4. ASSUME NEW k \in Unfinished', OnMessages(tasks'[k])
          PROVE  SeenOrAhead(tasks[k], tasks[k].last)'
      <4>1. CASE k \in Unfinished
        <5>1. tasks'[k] = tasks[k] /\ SeenOrAhead(tasks[k], tasks[k].last)
          BY <1>0, <3>3, <3>4, <4>1 DEF MessagesInv
        <5> QED
          BY <1>0, <2>1, <4>1, <5>1, TaskStays
      <4>2. CASE k \notin Unfinished
        BY <3>3, <4>2, AllAhead
      <4> QED
        BY <4>1, <4>2
    <3>5. pc # "idle" => tasks'[job] = tasks[job]
      BY <1>0, <3>3 DEF InTurn
    <3>6. pc \in {"written", "inserted"} /\ OnMessages(tasks[job])
             => SeenOrAhead(tasks[job], place)'
      BY <1>0, <2>1, <3>5, PlaceStays DEF MessagesInv
    <3> QED
      BY <2>1, <3>4, <3>5, <3>6 DEF MessagesInv, OnMessages
  <2> QED
    BY <2>2, <2>3
<1>4. CASE Fetch
  <2>1. /\ UNCHANGED <<tasks, pending>> /\ RowsStay
        /\ pc = "idle" /\ pc' = "fetched"
    BY <1>2, <1>4 DEF Fetch, saved, history
  <2>2. /\ Unfinished' = Unfinished
        /\ \A k : OnMessages(tasks[k])' = OnMessages(tasks[k])
    BY <2>1 DEF Unfinished, OnMessages
  <2>3. \A k \in Unfinished : SeenOrAhead(tasks[k], tasks[k].last)
                  => SeenOrAhead(tasks[k], tasks[k].last)'
    BY <1>0, <2>1, TaskStays
  <2> QED
    BY <2>1, <2>2, <2>3 DEF MessagesInv
<1>5. CASE WriteBatch
  <2>1. UNCHANGED <<tasks, shown>> /\ pc = "fetched" /\ UNCHANGED listed
    BY <1>5 DEF WriteBatch, saved
  <2>2. /\ Unfinished' = Unfinished
        /\ \A k : OnMessages(tasks[k])' = OnMessages(tasks[k])
    BY <2>1 DEF Unfinished, OnMessages
  <2>3. RowsStay => \A k \in Unfinished : SeenOrAhead(tasks[k], tasks[k].last)
                  => SeenOrAhead(tasks[k], tasks[k].last)'
    BY <1>0, <2>1, TaskStays
  <2>4. CASE OnMessages(tasks[job])
    <3>1. /\ pc' = "written" /\ job' = job /\ pending' = {}
          /\ seen \subseteq seen' /\ astray \subseteq astray'
          /\ \A m \in OfOperation(tasks[job].op, Addresses(tasks[job])) :
                \/ /\ place'[1] <= MsgOf[m].address
                   /\ \E p \in Listed(m) : After(p, place')
                \/ Covered(m)'
      BY <1>5, <2>4, BatchSeen
    <3>2. RowsStay
      BY <2>1, <3>1, RowsStayBy
    <3>3. SeenOrAhead(tasks[job], place)'
      <4> PICK u : u = tasks[job]
        OBVIOUS
      <4> PICK last : last = place'
        OBVIOUS
      <4>1. OfOperation(u.op, Addresses(u))' = OfOperation(u.op, Addresses(u))
        BY <2>1 DEF OfOperation, Addresses
      <4>2. \A m \in OfOperation(u.op, Addresses(u)) : Listed(m)' = Listed(m)
        BY <2>1 DEF Listed
      <4>3. ASSUME NEW m \in OfOperation(u.op, Addresses(u))
            PROVE  Ahead(m, last)' \/ Covered(m)'
        BY <3>1, <4>2 DEF Ahead, ListedAfter
      <4>4. SeenOrAhead(u, last)'
        BY <4>1, <4>3 DEF SeenOrAhead
      <4> QED
        BY <2>1, <3>1, <4>4, SeenAtPlace
    <3> QED
      BY <2>2, <2>3, <3>1, <3>2, <3>3 DEF MessagesInv
  <2>5. CASE ~OnMessages(tasks[job])
    <3>1. /\ UNCHANGED history
          /\ \/ pc' = "written" /\ job' = job
             \/ pc' = "idle" /\ pending' = {}
      BY <1>5, <2>5 DEF WriteBatch, WriteStates, ToIdle
    <3>2. pc' = "written" => ~OnMessages(tasks[job])'
      BY <2>1, <2>5, <3>1 DEF OnMessages
    <3>3. RowsStay
      BY <1>2, <2>1, <3>1 DEF history
    <3> QED
      BY <2>2, <2>3, <3>1, <3>2, <3>3 DEF MessagesInv
  <2> QED
    BY <2>4, <2>5
<1>6. CASE InsertRows
  <2>1. /\ UNCHANGED <<tasks, seen, astray, place, job>> /\ pending' = {}
        /\ pc = "written" /\ pc' = "inserted"
        /\ \A u \in State : u \notin pending => shown'[u] = shown[u]
    BY <1>6 DEF InsertRows, history
  <2>2. /\ Unfinished' = Unfinished
        /\ \A k : OnMessages(tasks[k])' = OnMessages(tasks[k])
    BY <2>1 DEF Unfinished, OnMessages
  <2>3. CASE OnMessages(tasks[job])
    <3>1. pending = {}
      BY <2>3 DEF MessagesInv
    <3>2. \A m \in Message : listed[m] \subseteq listed'[m]
      BY <1>6 DEF InsertRows
    <3>3. ASSUME NEW m \in Message, NEW last \in Nat \X Nat, Ahead(m, last)
          PROVE  Ahead(m, last)'
      <4>1. Listed(m) \subseteq Listed(m)' /\ m \notin State
        BY <3>2, RescanAssumption DEF RescanAssumption, Listed
      <4> QED
        BY <3>3, <4>1 DEF Ahead, ListedAfter
    <3>4. \A k : Addresses(k)' = Addresses(k)
      BY <2>1, <3>1 DEF Addresses
    <3>5. ASSUME NEW t, NEW last \in Nat \X Nat, SeenOrAhead(t, last)
          PROVE  SeenOrAhead(t, last)'
      <4>1. OfOperation(t.op, Addresses(t))' = OfOperation(t.op, Addresses(t))
        BY <3>4 DEF OfOperation
      <4>2. \A m : Covered(m) => Covered(m)'
        BY <2>1 DEF Covered
      <4>3. \A m \in OfOperation(t.op, Addresses(t)) : m \in Message
        BY DEF OfOperation
      <4> QED
        BY <3>3, <3>5, <4>1, <4>2, <4>3 DEF SeenOrAhead
    <3>6. ASSUME NEW k \in Unfinished, SeenOrAhead(tasks[k], tasks[k].last)
          PROVE  SeenOrAhead(tasks[k], tasks[k].last)'
      <4> PICK t : t = tasks[k]
        OBVIOUS
      <4> PICK last : last = tasks[k].last
        OBVIOUS
      <4>1. last \in Nat \X Nat
        BY <1>0 DEF TaskRow
      <4>2. SeenOrAhead(t, last)'
        BY <3>5, <3>6, <4>1
      <4> QED
        BY <2>1, <4>2, SeenNext
    <3>7. SeenOrAhead(tasks[job], place)'
      <4> PICK t : t = tasks[job]
        OBVIOUS
      <4> PICK last : last = place
        OBVIOUS
      <4>1. SeenOrAhead(t, last)
        BY <2>1, <2>3 DEF MessagesInv
      <4>2. SeenOrAhead(t, last)'
        BY <1>0, <3>5, <4>1
      <4> QED
        BY <2>1, <4>2, SeenAtPlace
    <3> QED
      BY <2>1, <2>2, <3>6, <3>7 DEF MessagesInv
  <2>4. CASE ~OnMessages(tasks[job])
    <3>1. ASSUME NEW k \in Unfinished, OnMessages(tasks[k])
          PROVE  SeenOrAhead(tasks[k], tasks[k].last)'
      <4>1. job \in Unfinished /\ job < k
        <5>1. job \in Unfinished /\ job <= k /\ job # k
          BY <2>1, <2>4, <3>1 DEF InTurn
        <5>2. job \in Nat /\ k \in Nat
          BY <5>1 DEF Unfinished, TypeOK
        <5> QED
          BY <5>1, <5>2
      <4>2. tasks'[k].last = Start
        BY <2>1, <3>1, <4>1 DEF InTurn
      <4> QED
        BY <4>2, AllAhead
    <3> QED
      BY <2>1, <2>2, <2>4, <3>1 DEF MessagesInv, OnMessages
  <2> QED
    BY <2>3, <2>4
<1>7. CASE SavePlace
  <2>1. /\ pc = "inserted" /\ pc' = "idle" /\ pending' = {} /\ RowsStay
        /\ tasks' = [tasks EXCEPT ![job].last = place]
    BY <1>2, <1>7 DEF SavePlace, ToIdle, saved, history
  <2>2. job \in Unfinished
    BY <2>1 DEF InTurn
  <2>3. /\ Unfinished' = Unfinished
        /\ \A k \in DOMAIN tasks : k # job => tasks'[k] = tasks[k]
        /\ tasks'[job] = [tasks[job] EXCEPT !.last = place]
    BY <2>1, <2>2, SavedTask
  <2>4. /\ tasks'[job].last = place /\ tasks'[job].op = tasks[job].op
        /\ tasks'[job].name = tasks[job].name
        /\ tasks'[job].type = tasks[job].type
    BY <1>0, <2>2, <2>3 DEF TaskRow
  <2>5. ASSUME NEW k \in Unfinished, k # job, OnMessages(tasks'[k])
        PROVE  SeenOrAhead(tasks[k], tasks[k].last)'
    <3>1. tasks'[k] = tasks[k] /\ SeenOrAhead(tasks[k], tasks[k].last)
      BY <2>3, <2>5 DEF MessagesInv, Unfinished
    <3> QED
      BY <1>0, <2>1, <3>1, TaskStays
  <2>6. ASSUME NEW k \in Unfinished, k = job, OnMessages(tasks'[k])
        PROVE  SeenOrAhead(tasks[k], tasks[k].last)'
    <3> PICK t : t = tasks[job]
      OBVIOUS
    <3> PICK u : u = tasks'[k]
      OBVIOUS
    <3> PICK last : last = place
      OBVIOUS
    <3>1. OnMessages(tasks[job])
      BY <2>4, <2>6 DEF OnMessages
    <3>2. SeenOrAhead(t, last)
      BY <2>1, <3>1 DEF MessagesInv
    <3>3. t.op = u.op /\ t.name = u.name /\ last = u.last
      BY <2>4, <2>6
    <3>4. SeenOrAhead(u, last)'
      BY <1>0, <2>1, <3>2, <3>3, SeenStays
    <3> QED
      BY <3>3, <3>4, SeenNext
  <2> QED
    BY <2>1, <2>3, <2>5, <2>6 DEF MessagesInv, OnMessages
<1>8. CASE Finish
  <2>1. /\ pc = "fetched" /\ pc' = "idle" /\ pending' = {}
        /\ tasks' = [tasks EXCEPT ![job].done = TRUE]
    BY <1>8 DEF Finish, ToIdle
  <2>2. job \in Unfinished /\ \A k \in Unfinished : job <= k
    BY <2>1 DEF InTurn
  <2>3. /\ Unfinished' = Unfinished \ {job}
        /\ \A k \in DOMAIN tasks : k # job => tasks'[k] = tasks[k]
    BY <2>1, <2>2, FinishedTask
  <2>4. ASSUME NEW k \in Unfinished'
        PROVE  SeenOrAhead(tasks[k], tasks[k].last)'
    <3>1. k \in Unfinished /\ k # job /\ job <= k /\ tasks'[k] = tasks[k]
      BY <2>2, <2>3 DEF Unfinished
    <3>2. job \in Nat /\ k \in Nat
      BY <2>2, <3>1 DEF Unfinished, TypeOK
    <3>3. tasks'[k].last = Start
      BY <2>2, <3>1, <3>2 DEF InTurn
    <3> QED
      BY <3>3, AllAhead
  <2> QED
    BY <2>1, <2>4 DEF MessagesInv
<1>9. CASE Abandon
  <2>1. /\ UNCHANGED tasks /\ RowsStay /\ pending' = {} /\ pc' = "idle"
    BY <1>2, <1>9 DEF Abandon, ToIdle, saved, history
  <2>2. /\ Unfinished' = Unfinished
        /\ \A k : OnMessages(tasks[k])' = OnMessages(tasks[k])
    BY <2>1 DEF Unfinished, OnMessages
  <2>3. \A k \in Unfinished : SeenOrAhead(tasks[k], tasks[k].last)
                  => SeenOrAhead(tasks[k], tasks[k].last)'
    BY <1>0, <2>1, TaskStays
  <2> QED
    BY <2>1, <2>2, <2>3 DEF MessagesInv
<1>10. ASSUME NEW m \in Message, SaveMessage(m)
       PROVE  MessagesInv'
  <2>1. /\ UNCHANGED <<tasks, pc, job, place, pending, shown, seen, astray>>
        /\ \/ UNCHANGED listed
           \/ \E lt : listed' = [listed EXCEPT ![m] = @ \cup {lt}]
    BY <1>10 DEF SaveMessage, service, history
  <2>2. \A q \in Message : listed[q] \subseteq listed'[q]
    BY <2>1 DEF TypeOK
  <2> QED
    BY <1>1, <2>1, <2>2, RowsStayBy
<1>11. ASSUME NEW m \in Message, Merge(m)
       PROVE  MessagesInv'
  <2>1. /\ UNCHANGED <<tasks, pc, job, place, pending, shown, seen>>
        /\ listed' = [listed EXCEPT ![m] = {newest[m]}]
        /\ astray' = IF Unfinished # {} /\ \E lt \in listed[m] : lt > newest[m]
                     THEN astray \cup {m} ELSE astray
    BY <1>11 DEF Merge, service
  <2>2. CASE Unfinished = {}
    BY <2>1, <2>2 DEF MessagesInv, InTurn, Unfinished, OnMessages
  <2>3. CASE Unfinished # {}
    <3>1. ASSUME NEW q \in Message, NEW last \in Nat \X Nat, Ahead(q, last)
          PROVE  Ahead(q, last)' \/ Covered(q)'
      <4>1. q \notin State /\ MsgOf[q].address \in Nat
        BY RescanAssumption DEF RescanAssumption
      <4>2. CASE q # m
        <5>1. Listed(q)' = Listed(q)
          BY <2>1, <4>1, <4>2 DEF Listed, TypeOK
        <5> QED
          BY <3>1, <5>1 DEF Ahead, ListedAfter
      <4>3. CASE q = m
        <5>1. PICK lt \in listed[m] : After(<<MsgOf[m].address, lt>>, last)
          BY <3>1, <4>1, <4>3 DEF Ahead, ListedAfter, Listed
        <5>2. newest[m] \in Nat /\ lt \in Nat /\ listed'[m] = {newest[m]}
          BY <2>1 DEF TypeOK
        <5>3. CASE lt > newest[m]
          BY <2>1, <2>3, <4>3, <5>3 DEF Covered
        <5>4. CASE lt <= newest[m]
          <6>1. After(<<MsgOf[m].address, newest[m]>>, last)
            BY <4>1, <4>3, <5>1, <5>2, <5>4 DEF After, Before
          <6>2. <<MsgOf[m].address, newest[m]>> \in Listed(m)'
            BY <4>1, <4>3, <5>2 DEF Listed
          <6> QED
            BY <3>1, <4>3, <6>1, <6>2 DEF Ahead, ListedAfter
        <5> QED
          BY <5>2, <5>3, <5>4
      <4> QED
        BY <4>2, <4>3
    <3>2. \A q : Covered(q) => Covered(q)'
      BY <2>1 DEF Covered
    <3>3. RowsStay
      BY <2>1, <3>1, <3>2 DEF RowsStay
    <3> QED
      BY <1>1, <2>1, <3>3
  <2> QED
    BY <2>2, <2>3
<1>12. Command \/ UNCHANGED vars
         => UNCHANGED <<tasks, pc, job, place, pending, shown, listed, seen, astray>>
  BY DEF Command, service, saved, history, vars
<1> QED
  BY <1>1, <1>2, <1>3, <1>4, <1>5, <1>6, <1>7, <1>8, <1>9, <1>10, <1>11, <1>12
  DEF Next

\* All parts of the invariant.
LEMMA RescanCorrect ==
  Spec => [](TypeOK /\ rest \in Scripts /\ RescanInv)
<1>1. Init => MessagesInv
  BY DEF Init, MessagesInv, Unfinished
<1>2. TypeOK /\ LtsOK /\ rest \in Scripts /\ InTurn /\ MessagesInv /\ [Next]_vars
        => MessagesInv'
  BY MessagesKept
<1>3. LtsOK /\ InTurn /\ PlaceOK /\ MessagesInv => RescanInv
  BY DEF RescanInv
<1> QED
  BY <1>1, <1>2, <1>3, RescanTyped, PTL DEF Spec

\* A task on an operation is finished when every message of the contract's
\* addresses was rescanned, in however many batches and tries, whatever the
\* order of the rows and whenever messages are saved again, with the exceptions
\* that OperationSeesAll names: the checkpoint is the place of a row in the
\* batch, and what the batch leaves out is not before any of its rows, unless
\* ClickHouse and Postgres disagree about that row.
THEOREM OperationsSeeAll == Spec => OperationSeesAll
<1>1. TypeOK /\ rest \in Scripts /\ RescanInv /\ [Next]_vars
        => [\A k \in Unfinished :
              tasks'[k].done /\ OnMessages(tasks[k]) =>
                 LET t == tasks[k]
                 IN Cardinality(Addresses(t)) > SelectLimit
                    \/ \A m \in OfOperation(t.op, Addresses(t)) : Covered(m)]_vars
  <2> SUFFICES ASSUME TypeOK, rest \in Scripts, RescanInv, Next,
                      NEW k \in Unfinished,
                      tasks'[k].done, OnMessages(tasks[k]),
                      ~(Cardinality(Addresses(tasks[k])) > SelectLimit),
                      NEW m \in OfOperation(tasks[k].op, Addresses(tasks[k]))
               PROVE  Covered(m)
    OBVIOUS
  <2>1. k \in DOMAIN tasks /\ ~tasks[k].done /\ tasks[k] \in TaskRow
    BY DEF Unfinished, TypeOK
  <2>2. CASE RunStatement \/ CommandFails
    <3>1. CASE tasks' = tasks
      BY <2>1, <3>1
    <3>2. CASE tasks' # tasks
      <4>1. /\ Head(rest).do = "task" /\ tasks' = Append(tasks, Head(rest).arg)
            /\ rest # <<>>
        BY <2>2, <3>2 DEF RunStatement, CommandFails, Execute
      <4>2. Head(rest).arg \in NewTask
        BY <4>1, ScriptsRest DEF StatementSet
      <4>3. tasks'[k] = tasks[k]
        BY <2>1, <4>1, <4>2, Appended
      <4> QED
        BY <2>1, <4>3
    <3> QED
      BY <3>1, <3>2
  <2>3. CASE SavePlace
    <3>1. /\ pc = "inserted"
          /\ tasks' = [tasks EXCEPT ![job].last = place]
      BY <2>3 DEF SavePlace
    <3>2. job \in Unfinished
      BY <3>1 DEF RescanInv, InTurn
    <3>3. Unfinished' = Unfinished
      BY <3>1, <3>2, SavedTask
    <3> QED
      BY <3>3 DEF Unfinished
  <2>4. CASE Finish
    <3>1. /\ pc = "fetched" /\ Rows(tasks[job]) = {}
          /\ tasks' = [tasks EXCEPT ![job].done = TRUE]
      BY <2>4 DEF Finish
    <3>2. job \in Unfinished
      BY <3>1 DEF RescanInv, InTurn
    <3>3. k = job
      BY <2>1, <3>1, <3>2, FinishedTask
    <3>4. ~Ahead(m, tasks[k].last)
      BY <2>1, <3>1, <3>3, NoneLeft
    <3> QED
      BY <3>4 DEF RescanInv, MessagesInv, SeenOrAhead
  <2> QED
    BY <2>1, <2>2, <2>3, <2>4
    DEF Next, Command, Fetch, WriteBatch, InsertRows, Abandon, SaveMessage, Merge
<1> QED
  BY <1>1, RescanCorrect, PTL DEF Spec, OperationSeesAll

-----------------------------------------------------------------------------
\* What the parsed data has to do with the interfaces.

\* What descriptions say.
LEMMA InterfacesOf ==
  /\ \A n : Described(n) \subseteq Interface
  /\ \A i \in Interface : i # None /\ \A g, h \in i.methods : g[1] = h[1] => g = h
  BY RescanAssumption DEF RescanAssumption, Described, Interface

\* Interfaces of the same matching match the same states.
LEMMA MatchesSame ==
  ASSUME NEW i, NEW j, ~MatchingDiffers(i, j), NEW s
  PROVE  /\ Matches(i, s) <=> Matches(j, s)
         /\ Names(i.methods) = Names(j.methods)
<1>1. /\ i.by = j.by /\ i.states = j.states
      /\ Names(i.methods) = Names(j.methods)
  BY DEF MatchingDiffers
<1>2. \A m : m = {} <=> Names(m) = {}
  BY DEF Names
<1>3. i.methods = {} <=> j.methods = {}
  BY <1>1, <1>2
<1> QED
  BY <1>1, <1>3 DEF Matches

\* What differs between them are methods that changed.
LEMMA ChangedOf ==
  ASSUME NEW i \in Interface, NEW j \in Interface, ~MatchingDiffers(i, j),
         NEW x \in (i.methods \ j.methods) \cup (j.methods \ i.methods)
  PROVE  /\ x[1] \in Names(j.methods)
         /\ x[1] \in Changed(i.methods, j.methods)
<1>1. Names(i.methods) = Names(j.methods)
  BY MatchesSame
<1>2. CASE x \in j.methods \ i.methods
  BY <1>1, <1>2 DEF Changed, Names
<1>3. CASE x \in i.methods \ j.methods
  <2>1. x[1] \in Names(j.methods) /\ x[1] \in Names(i.methods)
    BY <1>1, <1>3 DEF Names
  <2>2. PICK y \in j.methods : y[1] = x[1]
    BY <2>1 DEF Names
  <2>3. y \notin i.methods
    BY <1>3, <2>2, InterfacesOf
  <2> QED
    BY <2>1, <2>2, <2>3 DEF Changed, Names
<1> QED
  BY <1>2, <1>3

\* Changes add up.
LEMMA ChangedTwice ==
  ASSUME NEW i, NEW j, NEW k, ~MatchingDiffers(i, j), ~MatchingDiffers(j, k)
  PROVE  /\ ~MatchingDiffers(i, k)
         /\ Changed(i.methods, k.methods) \subseteq
               Changed(i.methods, j.methods) \cup Changed(j.methods, k.methods)
<1>1. Names(i.methods) = Names(j.methods) /\ Names(j.methods) = Names(k.methods)
  BY DEF MatchingDiffers
<1>2. ASSUME NEW g \in Changed(i.methods, k.methods)
      PROVE  g \in Changed(i.methods, j.methods) \cup Changed(j.methods, k.methods)
  <2>1. PICK x \in k.methods \ i.methods : x[1] = g
    BY <1>2 DEF Changed, Names
  <2>2. g \in Names(i.methods)
    BY <1>2 DEF Changed
  <2>3. CASE x \in j.methods
    BY <2>1, <2>2, <2>3 DEF Changed, Names
  <2>4. CASE x \notin j.methods
    BY <1>1, <2>1, <2>2, <2>4 DEF Changed, Names
  <2> QED
    BY <2>3, <2>4
<1> QED
  BY <1>2 DEF MatchingDiffers

\* More tasks to come do no harm.
LEMMA DueGrows ==
  ASSUME NEW D, NEW E, D \subseteq E
  PROVE  /\ \A n, types : Comes(D, n, types) => Comes(E, n, types)
         /\ \A n, g : Reruns(D, n, g) => Reruns(E, n, g)
         /\ \A table, n, s, a : Settled(table, D, n, s, a) => Settled(table, E, n, s, a)
         /\ \A table, n, i : Fits(table, D, n, i) => Fits(table, E, n, i)
<1>1. \A n, types : Comes(D, n, types) => Comes(E, n, types)
  BY DEF Comes
<1>2. \A n, g : Reruns(D, n, g) => Reruns(E, n, g)
  BY DEF Reruns
<1>3. \A table, n, s, a : Settled(table, D, n, s, a) => Settled(table, E, n, s, a)
  BY <1>1, <1>2 DEF Settled
<1>4. \A table, n, i : Fits(table, D, n, i) => Fits(table, E, n, i)
  BY <1>1, <1>2 DEF Fits
<1> QED
  BY <1>1, <1>2, <1>3, <1>4

\* What is parsed as an interface that fits is settled.
LEMMA FitsSettled ==
  ASSUME NEW table, \A n \in Name : table[n] \in Described(n) \cup {None},
         NEW n \in Name, NEW i \in Described(n), NEW D, Fits(table, D, n, i),
         NEW s, NEW a,
         IF Matches(i, s) THEN n \in a.types /\ Runs(a, n) = {n} \X i.methods
         ELSE n \notin a.types
  PROVE  Settled(table, D, n, s, a)
<1>1. Comes(D, n, {"upd_interface", "del_interface"}) => Comes(D, n, Whole)
  BY DEF Comes, Whole
<1>2. CASE Comes(D, n, {"upd_interface", "del_interface"})
  BY <1>1, <1>2 DEF Settled
<1>3. CASE ~Comes(D, n, {"upd_interface", "del_interface"})
  <2> DEFINE j == table[n]
  <2>1. /\ j # None /\ ~MatchingDiffers(i, j)
        /\ \A g \in Changed(i.methods, j.methods) : Reruns(D, n, g)
    BY <1>3 DEF Fits
  <2>2. i \in Interface /\ j \in Interface
    BY <2>1, InterfacesOf
  <2>3. n \in MatchedBy(table, s) <=> Matches(i, s)
    BY <2>1, MatchesSame DEF MatchedBy
  <2>4. ASSUME Matches(i, s), NEW r \in Differing(a, n, j)
        PROVE  r[2][1] \in Names(j.methods) /\ Reruns(D, n, r[2][1])
    <3>1. Runs(a, n) = {n} \X i.methods
      BY <2>4
    <3>2. r[2] \in (i.methods \ j.methods) \cup (j.methods \ i.methods)
      BY <2>4, <3>1 DEF Differing
    <3> HIDE DEF j
    <3>3. r[2][1] \in Names(j.methods) /\ r[2][1] \in Changed(i.methods, j.methods)
      BY <2>1, <2>2, <3>2, ChangedOf
    <3> QED
      BY <2>1, <3>3
  <2> QED
    BY <2>3, <2>4 DEF Settled
<1> QED
  BY <1>2, <1>3

\* What one more task brings.
LEMMA DueOf ==
  ASSUME NEW D, NEW w
  PROVE  /\ \A n, types : Comes(D \cup {w}, n, types)
                             <=> Comes(D, n, types) \/ (w[1] \in types /\ w[2] = n)
         /\ \A n, g : Reruns(D \cup {w}, n, g)
               <=> Reruns(D, n, g) \/ (w[1] = "upd_get_method" /\ w[2] = n /\ g \in w[3])
<1>1. \A n, types : Comes(D \cup {w}, n, types)
                       <=> Comes(D, n, types) \/ (w[1] \in types /\ w[2] = n)
  BY DEF Comes
<1>2. \A n, g : Reruns(D \cup {w}, n, g)
         <=> Reruns(D, n, g) \/ (w[1] = "upd_get_method" /\ w[2] = n /\ g \in w[3])
  BY DEF Reruns
<1> QED
  BY <1>1, <1>2

\* What matches a state that is no wallet is no interface of wallets.
LEMMA NoWalletMatches ==
  ASSUME NEW s, NoWallet(s), NEW n, n \in Wallet, NEW i \in Described(n)
  PROVE  ~Matches(i, s)
  BY DEF NoWallet, Described

\* All interfaces of a table are described.
TableOK(table) == \A n \in Name : table[n] \in Described(n) \cup {None}

\* Data of a state that is no wallet.
Plain(a) == a \in Data /\ a.types \cap Wallet = {}

\* What is known of another contract stays.
LEMMA OthersSettled ==
  ASSUME NEW table, NEW D, NEW w, NEW m, m # w[2], NEW s, NEW a, NEW b,
         m \in a.types <=> m \in b.types, Runs(a, m) = Runs(b, m),
         Settled(table, D \cup {w}, m, s, a)
  PROVE  Settled(table, D, m, s, b)
<1>1. /\ \A types : Comes(D \cup {w}, m, types) <=> Comes(D, m, types)
      /\ \A g : Reruns(D \cup {w}, m, g) <=> Reruns(D, m, g)
  BY DueOf
<1>2. \A i : Differing(a, m, i) = Differing(b, m, i)
  BY DEF Differing
<1> QED
  BY <1>1, <1>2 DEF Settled

\* Data without a contract, or parsed as one.
LEMMA ClearedIs ==
  ASSUME NEW a, Plain(a), NEW n
  PROVE  /\ Plain(Cleared(a, n)) /\ n \notin Cleared(a, n).types
         /\ \A m : m # n => /\ m \in Cleared(a, n).types <=> m \in a.types
                            /\ Runs(Cleared(a, n), m) = Runs(a, m)
<1> DEFINE b == Cleared(a, n)
<1>1. b = [types |-> a.types \ {n}, runs |-> {r \in a.runs : r[1] # n}]
  BY DEF Cleared
<1>2. b.types = a.types \ {n} /\ b.runs = {r \in a.runs : r[1] # n}
  BY <1>1
<1>3. b \in Data
  BY <1>1 DEF Plain, Data
<1> HIDE DEF b
<1>4. Plain(b)
  BY <1>2, <1>3 DEF Plain
<1>5. \A m : m # n => Runs(b, m) = Runs(a, m)
  BY <1>2 DEF Runs
<1> QED
  BY <1>2, <1>4, <1>5 DEF b

LEMMA ParsedIs ==
  ASSUME NEW a, Plain(a), NEW s, NoWallet(s), NEW n \in Name, NEW i \in Described(n)
  PROVE  /\ Plain(ParsedAs(a, s, n, i))
         /\ ~Matches(i, s) => ParsedAs(a, s, n, i) = a
         /\ Matches(i, s) => /\ n \in ParsedAs(a, s, n, i).types
                             /\ Runs(ParsedAs(a, s, n, i), n) = {n} \X i.methods
         /\ \A m : m # n => /\ m \in ParsedAs(a, s, n, i).types <=> m \in a.types
                            /\ Runs(ParsedAs(a, s, n, i), m) = Runs(a, m)
<1> DEFINE b == ParsedAs(a, s, n, i)
<1>1. CASE ~Matches(i, s)
  BY <1>1 DEF ParsedAs
<1>2. CASE Matches(i, s)
  <2>1. n \notin Wallet
    BY <1>2, NoWalletMatches
  <2>2. ~(a.types # {} /\ a.types \subseteq Wallet)
    BY DEF Plain
  <2>3. b = [types |-> a.types \cup {n},
             runs  |-> {r \in a.runs : r[1] # n} \cup ({n} \X i.methods)]
    BY <1>2, <2>2 DEF ParsedAs
  <2>4. /\ b.types = a.types \cup {n}
        /\ b.runs = {r \in a.runs : r[1] # n} \cup ({n} \X i.methods)
    BY <2>3
  <2>5. i \in Interface
    BY InterfacesOf
  <2>6. b \in Data
    BY <2>3, <2>5 DEF Plain, Data
  <2> HIDE DEF b
  <2>7. Plain(b)
    BY <2>1, <2>4, <2>6 DEF Plain
  <2>8. Runs(b, n) = {n} \X i.methods
    BY <2>4 DEF Runs
  <2>9. \A m : m # n => Runs(b, m) = Runs(a, m)
    BY <2>4 DEF Runs
  <2> QED
    BY <1>2, <2>4, <2>7, <2>8, <2>9 DEF b
<1> QED
  BY <1>1, <1>2

\* A task on an interface settles what it had to settle.
LEMMA WholeSettled ==
  ASSUME NEW table, TableOK(table), NEW s, NoWallet(s), NEW a, Plain(a),
         NEW t \in TaskRow, t.type \in Whole, NEW i, NEW D, NEW order,
         UsesContract(t) => i \in Described(t.name) /\ Fits(table, D, t.name, i),
         Meant(table, What(t)) \/ Comes(D, t.name, Whole),
         \A m \in Name : Settled(table, D \cup {What(t)}, m, s, a)
  PROVE  /\ Plain(Rescanned(a, s, t, i, table, order))
         /\ \A m \in Name : Settled(table, D, m, s, Rescanned(a, s, t, i, table, order))
<1> DEFINE n == t.name
           w == What(t)
           c == Cleared(a, n)
<1>1. n \in Name /\ w = <<t.type, n, t.methods>>
  BY DEF TaskRow, What
<1>2. w[1] = t.type /\ w[2] = n
  BY <1>1
<1> HIDE DEF w, c
<1>3. /\ Plain(c) /\ n \notin c.types
      /\ \A m : m # n => (m \in c.types <=> m \in a.types) /\ Runs(c, m) = Runs(a, m)
  BY ClearedIs DEF c
<1>4. CASE t.type = "del_interface"
  <2>1. Rescanned(a, s, t, i, table, order) = c
    BY <1>4 DEF Rescanned, c
  <2>2. ASSUME NEW m \in Name, m # n PROVE Settled(table, D, m, s, c)
    BY <1>2, <1>3, <2>2, OthersSettled DEF w
  <2>3. Settled(table, D, n, s, c)
    <3>1. n \in MatchedBy(table, s) => Comes(D, n, Whole)
      BY <1>1, <1>2, <1>4 DEF Meant, MatchedBy, w
    <3> QED
      BY <1>3, <3>1 DEF Settled
  <2> QED
    BY <1>3, <2>1, <2>2, <2>3
<1>5. CASE t.type # "del_interface"
  <2> DEFINE b == ParsedAs(c, s, n, i)
  <2>1. Rescanned(a, s, t, i, table, order) = b
    BY <1>5 DEF Rescanned, Whole, c
  <2>2. i \in Described(n) /\ Fits(table, D, n, i)
    BY <1>5 DEF UsesContract, OnMessages, Whole
  <2>3. /\ Plain(b)
        /\ ~Matches(i, s) => b = c
        /\ Matches(i, s) => n \in b.types /\ Runs(b, n) = {n} \X i.methods
        /\ \A m : m # n => (m \in b.types <=> m \in c.types) /\ Runs(b, m) = Runs(c, m)
    BY <1>1, <1>3, <2>2, ParsedIs
  <2> HIDE DEF b
  <2>4. ASSUME NEW m \in Name, m # n PROVE Settled(table, D, m, s, b)
    BY <1>2, <1>3, <2>3, <2>4, OthersSettled DEF w
  <2>5. Settled(table, D, n, s, b)
    BY <1>1, <1>3, <2>2, <2>3, FitsSettled DEF TableOK
  <2> QED
    BY <2>1, <2>3, <2>4, <2>5
<1> QED
  BY <1>4, <1>5

\* So is what it does not select.
LEMMA OthersAreSettled ==
  ASSUME NEW table, TableOK(table), NEW s, NEW a,
         NEW t \in TaskRow, ~OnMessages(t), NEW i, NEW D, NEW found,
         UsesContract(t) => i \in Described(t.name) /\ Fits(table, D, t.name, i),
         Meant(table, What(t)) \/ Comes(D, t.name, Whole),
         t.type # "add_interface" => t.name \notin found,
         t.type # "del_interface" => ~Matches(i, s),
         t.name \in a.types => t.name \in found \cup MatchedBy(table, s),
         \A m \in Name : Settled(table, D \cup {What(t)}, m, s, a)
  PROVE  \A m \in Name : Settled(table, D, m, s, a)
<1> DEFINE n == t.name
           w == What(t)
<1>1. n \in Name /\ w[1] = t.type /\ w[2] = n
  BY DEF TaskRow, What
<1> HIDE DEF w
<1>2. ASSUME NEW m \in Name, m # n PROVE Settled(table, D, m, s, a)
  BY <1>1, <1>2, OthersSettled DEF w
<1>3. Settled(table, D, n, s, a)
  <2>1. CASE n \in MatchedBy(table, s)
    <3>1. table[n] # None /\ Matches(table[n], s)
      BY <2>1 DEF MatchedBy
    <3>2. CASE t.type = "del_interface"
      <4>1. Comes(D, n, Whole)
        BY <1>1, <3>1, <3>2 DEF Meant, w
      <4> QED
        BY <2>1, <4>1 DEF Settled
    <3>3. CASE t.type # "del_interface"
      <4>1. Fits(table, D, n, i)
        BY <3>3 DEF UsesContract
      <4>2. Comes(D, n, {"upd_interface", "del_interface"})
        BY <3>1, <3>3, <4>1, MatchesSame DEF Fits
      <4>3. Comes(D, n, Whole)
        BY <4>2 DEF Comes, Whole
      <4> QED
        BY <2>1, <4>3 DEF Settled
    <3> QED
      BY <3>2, <3>3
  <2>2. CASE n \notin MatchedBy(table, s)
    <3>1. CASE n \notin a.types
      BY <2>2, <3>1 DEF Settled
    <3>2. CASE n \in a.types
      <4>1. t.type = "add_interface"
        BY <2>2, <3>2
      <4>2. Comes(D \cup {w}, n, {"upd_interface", "del_interface"})
        BY <1>1, <2>2, <3>2 DEF Settled, w
      <4>3. Comes(D, n, {"upd_interface", "del_interface"})
        BY <1>1, <4>1, <4>2, DueOf
      <4> QED
        BY <2>2, <4>3 DEF Settled
    <3> QED
      BY <3>1, <3>2
  <2> QED
    BY <2>1, <2>2
<1> QED
  BY <1>2, <1>3

\* There are finitely many names of methods.
LEMMA MethodsFinite == \A G \in SUBSET Method : IsFiniteSet(G)
<1> DEFINE U == UNION {d.interface.methods : d \in Description}
           f == [m \in U |-> m[1]]
           R == {f[m] : m \in U}
<1>1. IsFiniteSet(U)
  BY RescanAssumption DEF RescanAssumption
<1>2. f \in Surjection(U, R)
  BY DEF Surjection
<1>3. IsFiniteSet(R)
  <2> HIDE DEF U, f, R
  <2> QED
    BY <1>1, <1>2, FS_Surjection
<1>4. Method \subseteq R
  BY DEF Method, Interface, Names
<1> HIDE DEF R
<1> QED
  BY <1>3, <1>4, FS_Subset

\* In every order of the table some interfaces have a last one.
LEMMA LastExists ==
  ASSUME NEW order \in Orders, NEW types \in SUBSET Name, types # {}
  PROVE  (CHOOSE k \in types : \A m \in types : order[m] <= order[k]) \in types
<1> DEFINE C == Cardinality(Name)
           S == {C - order[k] : k \in types}
<1>1. C \in Nat
  BY RescanAssumption, FS_CardinalityType DEF RescanAssumption
<1>2. \A k \in types : order[k] \in 1..C
  BY DEF Orders
<1> HIDE DEF C
<1>3. S \subseteq Nat /\ S # {}
  BY <1>1, <1>2
<1>4. PICK x \in S : \A y \in S : x <= y
  <2> HIDE DEF S
  <2> QED
    BY <1>3, LeastExists
<1>5. PICK k \in types : x = C - order[k]
  OBVIOUS
<1>6. \A m \in types : order[m] <= order[k]
  BY <1>1, <1>2, <1>4, <1>5
<1> QED
  BY <1>6

\* Data that differs in less, with tasks that do as much, is as right.
LEMMA KeptSettled ==
  ASSUME NEW table, NEW W, NEW E, NEW m, NEW s, NEW a, NEW b,
         Settled(table, W, m, s, a),
         \A types \in {Whole, {"upd_interface", "del_interface"}} :
            Comes(W, m, types) => Comes(E, m, types),
         m \notin MatchedBy(table, s) => (m \in b.types => m \in a.types),
         m \in MatchedBy(table, s) =>
            \/ Comes(E, m, Whole)
            \/ /\ m \in a.types => m \in b.types
               /\ \A r \in Differing(b, m, table[m]) :
                     /\ r \in Differing(a, m, table[m])
                     /\ Reruns(W, m, r[2][1]) => Reruns(E, m, r[2][1])
  PROVE  Settled(table, E, m, s, b)
  BY DEF Settled

\* What a task on methods still has to do.
LEMMA DueOfMethods ==
  ASSUME NEW D, NEW type \in ByMethod, NEW n, NEW H, NEW g
  PROVE  LET W == D \cup {<<type, n, H>>}
             E == D \cup {<<type, n, H \ {g}>>}
         IN /\ \A m : \A types \in {Whole, {"upd_interface", "del_interface"}} :
                  /\ Comes(W, m, types) <=> Comes(D, m, types)
                  /\ Comes(E, m, types) <=> Comes(D, m, types)
            /\ \A m, h : Reruns(W, m, h) /\ ~(m = n /\ h = g) => Reruns(E, m, h)
            /\ \A m, h : Reruns(W, m, h) /\ type # "upd_get_method" => Reruns(D, m, h)
            /\ \A m, h : Reruns(W, m, h) /\ m # n => Reruns(D, m, h)
<1> DEFINE w == <<type, n, H>>
           e == <<type, n, H \ {g}>>
<1>1. /\ w[1] = type /\ w[2] = n /\ w[3] = H
      /\ e[1] = type /\ e[2] = n /\ e[3] = H \ {g}
  OBVIOUS
<1>2. \A types \in {Whole, {"upd_interface", "del_interface"}} : type \notin types
  BY DEF ByMethod, Whole
<1> HIDE DEF w, e
<1>3. \A m : \A types \in {Whole, {"upd_interface", "del_interface"}} :
         /\ Comes(D \cup {w}, m, types) <=> Comes(D, m, types)
         /\ Comes(D \cup {e}, m, types) <=> Comes(D, m, types)
  <2>1. \A m, types : Comes(D \cup {w}, m, types)
                         <=> Comes(D, m, types) \/ (w[1] \in types /\ w[2] = m)
    BY DueOf
  <2>2. \A m, types : Comes(D \cup {e}, m, types)
                         <=> Comes(D, m, types) \/ (e[1] \in types /\ e[2] = m)
    BY DueOf
  <2> QED
    BY <1>1, <1>2, <2>1, <2>2
<1>4. \A m, h : /\ Reruns(D \cup {w}, m, h) /\ ~(m = n /\ h = g) => Reruns(D \cup {e}, m, h)
                /\ Reruns(D \cup {w}, m, h) /\ type # "upd_get_method" => Reruns(D, m, h)
                /\ Reruns(D \cup {w}, m, h) /\ m # n => Reruns(D, m, h)
  BY <1>1, DueOf
<1> QED
  BY <1>3, <1>4 DEF w, e

\* Data without the executions of one method.
LEMMA WithoutIs ==
  ASSUME NEW a, a \in Data, NEW n, NEW g
  PROVE  /\ WithoutRun(a, n, g) \in Data
         /\ WithoutRun(a, n, g).types = a.types
         /\ \A m : m # n => Runs(WithoutRun(a, n, g), m) = Runs(a, m)
         /\ Runs(WithoutRun(a, n, g), n) = {r \in Runs(a, n) : r[2][1] # g}
         /\ WithoutRun(a, n, g).runs \subseteq a.runs
<1>1. WithoutRun(a, n, g) = [a EXCEPT !.runs = {r \in a.runs : <<r[1], r[2][1]>> # <<n, g>>}]
  BY DEF WithoutRun
<1>2. a = [types |-> a.types, runs |-> a.runs]
  BY DEF Data
<1>3. /\ WithoutRun(a, n, g) \in Data
      /\ WithoutRun(a, n, g).types = a.types
      /\ WithoutRun(a, n, g).runs = {r \in a.runs : ~(r[1] = n /\ r[2][1] = g)}
  BY <1>1, <1>2 DEF Data
<1> QED
  BY <1>3 DEF Runs

\* Nothing was run for a contract that is not among the types.
Owned(a) == \A r \in a.runs : r[1] \in a.types

\* The methods of a contract that are executed again are right.
LEMMA ExecutedIs ==
  ASSUME NEW table, TableOK(table), NEW s, NoWallet(s), NEW a, Plain(a),
         NEW n, NEW g, NEW order \in Orders
  PROVE  LET b == Executed(a, s, n, g, table, order) IN
         /\ Plain(b)
         /\ \/ /\ b = a
               /\ n \in MatchedBy(table, s) => g \notin Names(table[n].methods)
            \/ \E i \in MatchedBy(table, s) :
                 /\ b.types = MatchedBy(table, s)
                 /\ n \in MatchedBy(table, s) => i = n
                 /\ \A m : m # i => Runs(b, m) = Runs(a, m)
                 /\ Runs(b, i) = {r \in Runs(a, i) : r[2][1] # g}
                                    \cup ({i} \X {x \in table[i].methods : x[1] = g})
<1> DEFINE types == MatchedBy(table, s)
           last == CHOOSE k \in types : \A m \in types : order[m] <= order[k]
           i == IF n \in types THEN n ELSE last
           found == {x \in table[i].methods : x[1] = g}
           b == Executed(a, s, n, g, table, order)
<1>1. b = IF types = {} \/ found = {} THEN a
          ELSE [types |-> types, runs |-> WithoutRun(a, i, g).runs \cup ({i} \X found)]
  BY Zenon DEF Executed
<1>2. types \in SUBSET Name
  BY DEF MatchedBy
<1>3. types # {} => last \in types
  <2> HIDE DEF types
  <2> QED
    BY <1>2, LastExists
<1>4. types # {} => i \in types
  BY <1>3
<1>5. n \in types => i = n
  OBVIOUS
<1> HIDE DEF b, last, i
<1>6. CASE types = {} \/ found = {}
  <2>1. b = a
    BY <1>1, <1>6
  <2>2. n \in types => g \notin Names(table[n].methods)
    BY <1>5, <1>6 DEF Names
  <2> QED
    BY <2>1, <2>2 DEF b
<1>7. CASE types # {} /\ found # {}
  <2> DEFINE c == WithoutRun(a, i, g)
  <2>1. b = [types |-> types, runs |-> c.runs \cup ({i} \X found)]
    BY <1>1, <1>7
  <2>2. b.types = types /\ b.runs = c.runs \cup ({i} \X found)
    BY <2>1
  <2>3. /\ \A m : m # i => Runs(c, m) = Runs(a, m)
        /\ Runs(c, i) = {r \in Runs(a, i) : r[2][1] # g}
        /\ c.runs \subseteq a.runs
    BY WithoutIs DEF Plain
  <2>4. i \in types /\ table[i] \in Described(i) /\ table[i] \in Interface
    BY <1>4, <1>7, InterfacesOf DEF MatchedBy, TableOK
  <2>5. types \cap Wallet = {}
    BY NoWalletMatches DEF MatchedBy, TableOK
  <2> HIDE DEF c, types
  <2>6. found \subseteq UNION {j.methods : j \in Interface}
    BY <2>4
  <2> HIDE DEF found
  <2>7. b \in Data
    BY <1>2, <2>1, <2>3, <2>4, <2>6 DEF Plain, Data
  <2>8. Plain(b)
    BY <2>2, <2>5, <2>7 DEF Plain
  <2>9. \A m : Runs(b, m) = Runs(c, m) \cup IF m = i THEN {i} \X found ELSE {}
    BY <2>2 DEF Runs
  <2>10. /\ \A m : m # i => Runs(b, m) = Runs(a, m)
         /\ Runs(b, i) = {r \in Runs(a, i) : r[2][1] # g} \cup ({i} \X found)
    BY <2>3, <2>9
  <2> QED
    BY <1>5, <2>2, <2>4, <2>8, <2>10 DEF b, found, types
<1> QED
  BY <1>6, <1>7

\* One method of a task is done.
LEMMA MethodSettled ==
  ASSUME NEW table, TableOK(table), NEW s, NoWallet(s), NEW a, Plain(a),
         NEW t \in TaskRow, t.type \in ByMethod, NEW i \in Described(t.name),
         NEW D, Fits(table, D, t.name, i), NEW H, NEW g \in H,
         Meant(table, <<t.type, t.name, H>>) \/ Comes(D, t.name, Whole),
         NEW order \in Orders,
         \A m \in Name : Settled(table, D \cup {<<t.type, t.name, H>>}, m, s, a)
  PROVE  LET b == MethodRescanned(a, s, t, g, i, table, order) IN
         /\ Plain(b)
         /\ \A m \in Name :
               Settled(table, D \cup {<<t.type, t.name, H \ {g}>>}, m, s, b)
<1> DEFINE n == t.name
           W == D \cup {<<t.type, n, H>>}
           E == D \cup {<<t.type, n, H \ {g}>>}
           lacks == i.by = "methods" /\ g \notin Names(i.methods)
           c == WithoutRun(a, n, g)
           b == MethodRescanned(a, s, t, g, i, table, order)
<1>1. n \in Name
  BY DEF TaskRow
<1>2. \A m : \A types \in {Whole, {"upd_interface", "del_interface"}} :
         /\ Comes(W, m, types) <=> Comes(D, m, types)
         /\ Comes(E, m, types) <=> Comes(D, m, types)
  BY DueOfMethods
<1>3. /\ \A m, h : Reruns(W, m, h) /\ ~(m = n /\ h = g) => Reruns(E, m, h)
      /\ \A m, h : Reruns(W, m, h) /\ t.type # "upd_get_method" => Reruns(D, m, h)
      /\ \A m, h : Reruns(W, m, h) /\ m # n => Reruns(D, m, h)
  BY DueOfMethods
<1>4. Comes(D, n, {"upd_interface", "del_interface"}) => Comes(D, n, Whole)
  BY DEF Comes, Whole
<1>5. table[n] # None =>
         \/ Comes(D, n, Whole)
         \/ /\ t.type = "add_get_method" => H \subseteq Names(table[n].methods)
            /\ t.type = "del_get_method" => H \cap Names(table[n].methods) = {}
  BY DEF Meant
<1>6. n \in MatchedBy(table, s) =>
         \/ Comes(D, n, Whole)
         \/ /\ Names(i.methods) = Names(table[n].methods) /\ Matches(i, s)
  <2>1. ASSUME n \in MatchedBy(table, s), ~Comes(D, n, Whole)
        PROVE  Names(i.methods) = Names(table[n].methods) /\ Matches(i, s)
    <3>1. ~MatchingDiffers(i, table[n]) /\ Matches(table[n], s)
      BY <1>4, <2>1 DEF Fits, MatchedBy
    <3> QED
      BY <3>1, MatchesSame
  <2> QED
    BY <2>1
<1>7. D \subseteq E
  OBVIOUS
<1>8. /\ c \in Data /\ c.types = a.types
      /\ \A m : m # n => Runs(c, m) = Runs(a, m)
      /\ Runs(c, n) = {r \in Runs(a, n) : r[2][1] # g}
  BY WithoutIs DEF Plain
<1>9. Plain(c)
  BY <1>8 DEF Plain
<1>10. \A m \in Name : Settled(table, W, m, s, a)
  OBVIOUS
<1>11. n \in MatchedBy(table, s) => table[n] # None
  BY DEF MatchedBy
<1> HIDE DEF c, W, E
<1>12. ASSUME NEW x, NEW m \in Name, m # n,
              m \in x.types <=> m \in a.types, Runs(x, m) = Runs(a, m)
       PROVE  Settled(table, E, m, s, x)
  <2>1. \A j : Differing(x, m, j) = Differing(a, m, j)
    BY <1>12 DEF Differing
  <2>2. Settled(table, W, m, s, a)
    BY <1>10
  <2>3. \A r : Reruns(W, m, r[2][1]) => Reruns(E, m, r[2][1])
    BY <1>3, <1>12
  <2>4. \A types \in {Whole, {"upd_interface", "del_interface"}} :
            Comes(W, m, types) => Comes(E, m, types)
    BY <1>2
  <2> QED
    BY <1>12, <2>1, <2>2, <2>3, <2>4, KeptSettled
<1>13. CASE t.type = "add_get_method" /\ lacks
  <2>1. b = Cleared(c, n)
    BY <1>13 DEF MethodRescanned, c
  <2>2. /\ Plain(b) /\ n \notin b.types
        /\ \A m : m # n => (m \in b.types <=> m \in c.types) /\ Runs(b, m) = Runs(c, m)
    BY <1>9, <2>1, ClearedIs
  <2>3. n \in MatchedBy(table, s) => Comes(E, n, Whole)
    BY <1>2, <1>5, <1>6, <1>11, <1>13
  <2> HIDE DEF b
  <2>4. Settled(table, E, n, s, b)
    BY <2>2, <2>3 DEF Settled
  <2>5. \A m \in Name : Settled(table, E, m, s, b)
    BY <1>8, <1>12, <2>2, <2>4
  <2> QED
    BY <2>2, <2>5 DEF b, E
<1>14. CASE t.type = "del_get_method" /\ lacks
  <2>1. b = ParsedAs(c, s, n, i)
    BY <1>14 DEF MethodRescanned, c
  <2>2. /\ Plain(b)
        /\ ~Matches(i, s) => b = c
        /\ Matches(i, s) => n \in b.types /\ Runs(b, n) = {n} \X i.methods
        /\ \A m : m # n => (m \in b.types <=> m \in c.types) /\ Runs(b, m) = Runs(c, m)
    BY <1>1, <1>9, <2>1, ParsedIs
  <2> HIDE DEF b
  <2>3. Settled(table, E, n, s, b)
    <3>1. CASE Matches(i, s)
      <4>1. Settled(table, D, n, s, b)
        BY <1>1, <2>2, <3>1, FitsSettled DEF TableOK
      <4> QED
        BY <1>7, <4>1, DueGrows
    <3>2. CASE ~Matches(i, s)
      <4>1. n \in MatchedBy(table, s) => Comes(E, n, Whole)
        BY <1>2, <1>6, <3>2
      <4>2. n \notin MatchedBy(table, s) /\ n \in a.types
               => Comes(E, n, {"upd_interface", "del_interface"})
        BY <1>1, <1>2, <1>10 DEF Settled
      <4> QED
        BY <1>8, <2>2, <3>2, <4>1, <4>2 DEF Settled
    <3> QED
      BY <3>1, <3>2
  <2>4. \A m \in Name : Settled(table, E, m, s, b)
    BY <1>8, <1>12, <2>2, <2>3
  <2> QED
    BY <2>2, <2>4 DEF b, E
<1>15. ASSUME n \in MatchedBy(table, s) =>
                 g \notin Names(table[n].methods) \/ Comes(D, n, Whole)
       PROVE  \A m \in Name : Settled(table, E, m, s, c)
  <2>1. Settled(table, E, n, s, c)
    <3>1. Settled(table, W, n, s, a)
      BY <1>1, <1>10
    <3>2. ASSUME n \in MatchedBy(table, s), ~Comes(D, n, Whole),
                 NEW r \in Differing(c, n, table[n])
          PROVE  /\ r \in Differing(a, n, table[n])
                 /\ Reruns(W, n, r[2][1]) => Reruns(E, n, r[2][1])
      <4>1. g \notin Names(table[n].methods)
        BY <1>15, <3>2
      <4>2. \A x \in {n} \X table[n].methods : x[2][1] # g
        BY <4>1 DEF Names
      <4>3. r[2][1] # g
        BY <1>8, <3>2, <4>2 DEF Differing
      <4> QED
        BY <1>3, <1>8, <3>2, <4>3 DEF Differing
    <3>3. \A types \in {Whole, {"upd_interface", "del_interface"}} :
            Comes(W, n, types) => Comes(E, n, types)
      BY <1>2
    <3>4. n \in MatchedBy(table, s) =>
             \/ Comes(E, n, Whole)
             \/ \A r \in Differing(c, n, table[n]) :
                   /\ r \in Differing(a, n, table[n])
                   /\ Reruns(W, n, r[2][1]) => Reruns(E, n, r[2][1])
      BY <1>2, <3>2
    <3> QED
      BY <1>8, <3>1, <3>3, <3>4, KeptSettled
  <2> QED
    BY <1>8, <1>12, <2>1
<1>16. CASE t.type = "del_get_method" /\ ~lacks
  <2>1. b = c
    BY <1>16 DEF MethodRescanned, c
  <2>2. n \in MatchedBy(table, s) =>
                 g \notin Names(table[n].methods) \/ Comes(D, n, Whole)
    BY <1>5, <1>11, <1>16
  <2>3. \A m \in Name : Settled(table, E, m, s, b)
    BY <1>15, <2>1, <2>2
  <2> QED
    BY <1>9, <2>1, <2>3 DEF b, E
<1>17. CASE ~(t.type = "add_get_method" /\ lacks) /\ t.type # "del_get_method"
  <2>1. b = Executed(c, s, n, g, table, order)
    BY <1>17 DEF MethodRescanned, c
  <2> HIDE DEF b
  <2>2. /\ Plain(b)
        /\ \/ /\ b = c
              /\ n \in MatchedBy(table, s) => g \notin Names(table[n].methods)
           \/ \E k \in MatchedBy(table, s) :
                /\ b.types = MatchedBy(table, s)
                /\ n \in MatchedBy(table, s) => k = n
                /\ \A m : m # k => Runs(b, m) = Runs(c, m)
                /\ Runs(b, k) = {r \in Runs(c, k) : r[2][1] # g}
                                   \cup ({k} \X {x \in table[k].methods : x[1] = g})
    BY <1>9, <2>1, ExecutedIs
  <2>3. \A m \in Name : Settled(table, E, m, s, b)
    <3>1. CASE b = c /\ (n \in MatchedBy(table, s) => g \notin Names(table[n].methods))
      BY <1>15, <3>1
    <3>2. ASSUME NEW k \in MatchedBy(table, s), b.types = MatchedBy(table, s),
                 n \in MatchedBy(table, s) => k = n,
                 \A m : m # k => Runs(b, m) = Runs(c, m),
                 Runs(b, k) = {r \in Runs(c, k) : r[2][1] # g}
                                \cup ({k} \X {x \in table[k].methods : x[1] = g}),
                 NEW m \in Name
          PROVE  Settled(table, E, m, s, b)
      <4>1. CASE m \notin MatchedBy(table, s)
        BY <3>2, <4>1 DEF Settled
      <4>2. CASE m \in MatchedBy(table, s)
        <5>1. Settled(table, W, m, s, a)
          BY <1>10
        <5>2. m = n => m = k
          BY <3>2, <4>2
        <5>3. ASSUME NEW r \in Differing(b, m, table[m])
              PROVE  /\ r \in Differing(a, m, table[m])
                     /\ Reruns(W, m, r[2][1]) => Reruns(E, m, r[2][1])
          <6>1. CASE m = k
            <7>1. \A x \in {m} \X table[m].methods :
                     x[2][1] = g => x \in Runs(b, m)
              BY <3>2, <6>1
            <7>2. \A x \in Runs(b, m) :
                     x \notin {m} \X table[m].methods => x[2][1] # g
              BY <3>2, <6>1
            <7>3. r[2][1] # g
              BY <5>3, <7>1, <7>2 DEF Differing
            <7>4. r \in Runs(b, m) <=> r \in Runs(a, m)
              <8>1. r \in Runs(b, m) <=> r \in Runs(c, m)
                BY <3>2, <5>3, <6>1, <7>3 DEF Differing
              <8>2. r \in Runs(c, m) <=> r \in Runs(a, m)
                BY <1>8, <7>3
              <8> QED
                BY <8>1, <8>2
            <7> QED
              BY <1>3, <5>3, <7>3, <7>4 DEF Differing
          <6>2. CASE m # k
            <7>1. m # n /\ Runs(b, m) = Runs(a, m)
              BY <1>8, <3>2, <5>2, <6>2
            <7> QED
              BY <1>3, <5>3, <7>1 DEF Differing
          <6> QED
            BY <6>1, <6>2
        <5>4. \A types \in {Whole, {"upd_interface", "del_interface"}} :
                Comes(W, m, types) => Comes(E, m, types)
          BY <1>2
        <5> QED
          BY <3>2, <4>2, <5>1, <5>3, <5>4, KeptSettled
      <4> QED
        BY <4>1, <4>2
    <3> QED
      BY <2>2, <3>1, <3>2
  <2> QED
    BY <2>2, <2>3 DEF b, E
<1> QED
  BY <1>13, <1>14, <1>16, <1>17

\* Nothing else gets executions.
LEMMA OwnedKept ==
  ASSUME NEW a, Owned(a), NEW n
  PROVE  /\ Owned(Cleared(a, n))
         /\ \A s, i : Owned(ParsedAs(a, s, n, i))
<1>1. Owned(Cleared(a, n))
  <2>1. /\ Cleared(a, n).types = a.types \ {n}
        /\ Cleared(a, n).runs = {r \in a.runs : r[1] # n}
    BY DEF Cleared
  <2> QED
    BY <2>1 DEF Owned
<1>2. ASSUME NEW s, NEW i PROVE Owned(ParsedAs(a, s, n, i))
  <2> DEFINE b == ParsedAs(a, s, n, i)
  <2>1. b = a \/ b = [types |-> a.types \cup {n},
                      runs  |-> {r \in a.runs : r[1] # n} \cup ({n} \X i.methods)]
    BY DEF ParsedAs
  <2>2. b = a \/ /\ b.types = a.types \cup {n}
                 /\ b.runs = {r \in a.runs : r[1] # n} \cup ({n} \X i.methods)
    BY <2>1
  <2> HIDE DEF b
  <2>3. Owned(b)
    BY <2>2 DEF Owned
  <2> QED
    BY <2>3 DEF b
<1> QED
  BY <1>1, <1>2

LEMMA MethodOwned ==
  ASSUME NEW table, TableOK(table), NEW s, NoWallet(s), NEW a, Plain(a), Owned(a),
         a.types \subseteq MatchedBy(table, s),
         NEW t, NEW i, NEW g, NEW order \in Orders
  PROVE  Owned(MethodRescanned(a, s, t, g, i, table, order))
<1> DEFINE n == t.name
           c == WithoutRun(a, n, g)
           b == MethodRescanned(a, s, t, g, i, table, order)
           e == Executed(c, s, n, g, table, order)
<1>1. c \in Data /\ c.types = a.types /\ c.runs \subseteq a.runs
  BY WithoutIs DEF Plain
<1>2. Plain(c) /\ Owned(c)
  BY <1>1 DEF Plain, Owned
<1>3. b \in {Cleared(c, n), ParsedAs(c, s, n, i), c, e}
  BY DEF MethodRescanned
<1> HIDE DEF c
<1>4. /\ \/ e = c
         \/ \E k \in MatchedBy(table, s) :
              /\ e.types = MatchedBy(table, s)
              /\ \A m : m # k => Runs(e, m) = Runs(c, m)
      /\ Plain(e)
  BY <1>2, ExecutedIs
<1> HIDE DEF b, e
<1>5. Owned(e)
  <2>1. ASSUME NEW k \in MatchedBy(table, s), e.types = MatchedBy(table, s),
               \A m : m # k => Runs(e, m) = Runs(c, m),
               NEW r \in e.runs, r[1] # k
        PROVE  r[1] \in MatchedBy(table, s)
    <3>1. r \in Runs(c, r[1])
      BY <2>1 DEF Runs
    <3>2. r[1] \in c.types
      BY <1>2, <3>1 DEF Runs, Owned
    <3> QED
      BY <1>1, <3>2
  <2> QED
    BY <1>2, <1>4, <2>1 DEF Owned
<1>6. Owned(b)
  BY <1>2, <1>3, <1>5, OwnedKept
<1> QED
  BY <1>6 DEF b

\* A task on methods settles what it had to settle, and where no other is left
\* the state has just the types it should.
LEMMA MethodsSettled ==
  ASSUME NEW table, TableOK(table), NEW s, NoWallet(s), NEW a, Plain(a),
         NEW t \in TaskRow, t.type \in ByMethod, NEW i \in Described(t.name),
         NEW D, Fits(table, D, t.name, i),
         Meant(table, What(t)) \/ Comes(D, t.name, Whole),
         NEW order \in Orders,
         \A m \in Name : Settled(table, D \cup {What(t)}, m, s, a)
  PROVE  LET b == Rescanned(a, s, t, i, table, order) IN
         /\ Plain(b)
         /\ \A m \in Name : Settled(table, D, m, s, b)
         /\ Owned(a) /\ (\A w \in D : w[1] \notin Whole) => Owned(b)
<1> DEFINE G == t.methods
           N == Cardinality(G)
           Next1(T) == CHOOSE x \in T : TRUE
           Op(g, x) == MethodRescanned(x, s, t, g, i, table, order)
           Level(n) == {T \in SUBSET G : Cardinality(T) <= n}
           Folds(f, n) ==
              f = [T \in Level(n) |->
                      IF T = {} THEN a ELSE Op(Next1(T), f[T \ {Next1(T)}])]
           All(f) ==
              f = [T \in SUBSET G |->
                      IF T = {} THEN a ELSE Op(Next1(T), f[T \ {Next1(T)}])]
<1>1. G \in SUBSET Method /\ IsFiniteSet(G)
  BY MethodsFinite DEF TaskRow
<1>2. \A T \in SUBSET G : IsFiniteSet(T) /\ Cardinality(T) \in Nat /\ Cardinality(T) <= N
  BY <1>1, FS_Subset, FS_CardinalityType
<1>3. \A T \in SUBSET G : T # {} =>
         /\ Next1(T) \in T /\ T \ {Next1(T)} \in SUBSET G
         /\ Cardinality(T \ {Next1(T)}) = Cardinality(T) - 1
  <2>1. ASSUME NEW T \in SUBSET G, T # {}
        PROVE  /\ Next1(T) \in T /\ T \ {Next1(T)} \in SUBSET G
               /\ Cardinality(T \ {Next1(T)}) = Cardinality(T) - 1
    <3>1. Next1(T) \in T
      BY <2>1
    <3> HIDE DEF Next1
    <3> QED
      BY <1>2, <3>1, FS_RemoveElement
  <2> QED
    BY <2>1
<1>4. N \in Nat /\ \A T \in SUBSET G : Cardinality(T) = 0 <=> T = {}
  BY <1>1, <1>2, FS_EmptySet
<1>5. Rescanned(a, s, t, i, table, order) = (CHOOSE f : All(f))[G]
  <2>1. t.type # "del_interface" /\ t.type \notin {"add_interface", "upd_interface"}
    BY DEF ByMethod
  <2>2. Rescanned(a, s, t, i, table, order)
           = FoldSet(LAMBDA g, b : MethodRescanned(b, s, t, g, i, table, order), a, G)
    BY <2>1 DEF Rescanned
  <2> QED
    BY <2>2, Zenon DEF FoldSet, MapThenFoldSet
<1> HIDE DEF G, N, Next1, Op
<1>6. \E f : Folds(f, N)
  <2> DEFINE Some(n) == \E f : Folds(f, n)
             K == {n \in Nat : Some(n)}
  <2>1. 0 \in K
    <3> DEFINE f == [T \in Level(0) |-> a]
    <3>1. \A T \in Level(0) : T = {}
      BY <1>2, <1>4
    <3>2. Folds(f, 0)
      BY <3>1
    <3> QED
      BY <3>2
  <2>2. ASSUME NEW n \in K PROVE n + 1 \in K
    <3>1. n \in Nat /\ Some(n)
      <4> HIDE DEF Some
      <4> QED
        OBVIOUS
    <3>2. PICK f : Folds(f, n)
      BY <3>1
    <3> DEFINE g == [T \in Level(n + 1) |->
                        IF T = {} THEN a ELSE Op(Next1(T), f[T \ {Next1(T)}])]
    <3>3. \A T \in Level(n + 1) : T # {} => T \ {Next1(T)} \in Level(n)
      BY <1>2, <1>3, <3>1
    <3>4. \A T \in Level(n) : T \in Level(n + 1)
      BY <1>2, <3>1
    <3>5. \A T \in Level(n) : f[T] = IF T = {} THEN a
                                    ELSE Op(Next1(T), f[T \ {Next1(T)}])
      BY <3>2
    <3>6. \A T \in Level(n + 1) : g[T] = IF T = {} THEN a
                                    ELSE Op(Next1(T), f[T \ {Next1(T)}])
      OBVIOUS
    <3>7. g = [T \in Level(n + 1) |-> g[T]]
      OBVIOUS
    <3> HIDE DEF g, Level
    <3>8. \A T \in Level(n) : g[T] = f[T]
      BY <3>4, <3>5, <3>6
    <3>9. \A T \in Level(n + 1) :
             g[T] = IF T = {} THEN a ELSE Op(Next1(T), g[T \ {Next1(T)}])
      BY <3>3, <3>6, <3>8
    <3>10. Folds(g, n + 1)
      BY <3>7, <3>9
    <3>11. Some(n + 1)
      BY <3>10
    <3> HIDE DEF Some
    <3> QED
      BY <3>1, <3>11
  <2>3. K \subseteq Nat
    OBVIOUS
  <2>4. K = Nat
    <3> HIDE DEF K
    <3> QED
      BY <2>1, <2>2, <2>3, Induction
  <2> HIDE DEF Some
  <2>5. Some(N)
    BY <1>4, <2>4
  <2> QED
    BY <2>5 DEF Some
<1>7. Level(N) = SUBSET G
  BY <1>2
<1> DEFINE f == CHOOSE h : All(h)
<1>8. All(f)
  <2>1. \E h : All(h)
    BY <1>6, <1>7
  <2> HIDE DEF All
  <2> QED
    BY <2>1, Zenon
<1>9. \A T \in SUBSET G : f[T] = IF T = {} THEN a ELSE Op(Next1(T), f[T \ {Next1(T)}])
  <2> HIDE DEF f
  <2> QED
    BY <1>8
<1> HIDE DEF f
<1> DEFINE Left(T) == D \cup {<<t.type, t.name, G \ T>>}
           Alone == Owned(a) /\ (\A w \in D : w[1] \notin Whole)
           Good(T) == /\ Plain(f[T])
                      /\ \A m \in Name : Settled(table, Left(T), m, s, f[T])
                      /\ Alone => Owned(f[T])
           P(n) == \A T \in SUBSET G : Cardinality(T) = n => Good(T)
           Q == {n \in Nat : P(n)}
<1>10. Good({})
  <2>1. f[{}] = a
    BY <1>9
  <2>2. Left({}) = D \cup {What(t)}
    BY DEF What, G
  <2> QED
    BY <2>1, <2>2
<1>11. ASSUME NEW T \in SUBSET G, NEW g \in T, Good(T \ {g})
       PROVE  /\ Plain(Op(g, f[T \ {g}]))
              /\ \A m \in Name : Settled(table, Left(T), m, s, Op(g, f[T \ {g}]))
              /\ Alone => Owned(Op(g, f[T \ {g}]))
  <2> DEFINE H == G \ (T \ {g})
             b == f[T \ {g}]
  <2>1. g \in H /\ H \ {g} = G \ T /\ H \subseteq G
    BY <1>11
  <2>2. /\ Plain(b)
        /\ \A m \in Name : Settled(table, D \cup {<<t.type, t.name, H>>}, m, s, b)
        /\ Alone => Owned(b)
    BY <1>11
  <2>3. Meant(table, <<t.type, t.name, H>>) \/ Comes(D, t.name, Whole)
    BY <2>1 DEF Meant, What, G
  <2> HIDE DEF H, b
  <2>4. /\ Plain(Op(g, b))
        /\ \A m \in Name :
              Settled(table, D \cup {<<t.type, t.name, H \ {g}>>}, m, s, Op(g, b))
    BY <2>1, <2>2, <2>3, MethodSettled DEF Op
  <2>5. ASSUME Alone PROVE Owned(Op(g, b))
    <3>1. b.types \subseteq MatchedBy(table, s)
      <4>1. ASSUME NEW m \in b.types, m \notin MatchedBy(table, s) PROVE FALSE
        <5>1. m \in Name
          BY <2>2, <4>1 DEF Plain, Data
        <5>2. Comes(D \cup {<<t.type, t.name, H>>}, m,
                    {"upd_interface", "del_interface"})
          BY <2>2, <4>1, <5>1 DEF Settled
        <5>3. Comes(D, m, {"upd_interface", "del_interface"})
          BY <5>2, DueOfMethods
        <5> QED
          BY <2>5, <5>3 DEF Comes, Whole
      <4> QED
        BY <4>1
    <3>2. Owned(b) /\ Plain(b)
      BY <2>2, <2>5
    <3> QED
      BY <3>1, <3>2, MethodOwned DEF Op
  <2> QED
    BY <2>1, <2>4, <2>5 DEF b
<1>12. \A T \in SUBSET G : f[T] = Op(Next1(T), f[T \ {Next1(T)}]) \/ T = {}
  BY <1>9
<1>13. ASSUME NEW T \in SUBSET G, T # {}, Good(T \ {Next1(T)}) PROVE Good(T)
  <2>1. Next1(T) \in T
    BY <1>3, <1>13
  <2>2. f[T] = Op(Next1(T), f[T \ {Next1(T)}])
    BY <1>12, <1>13
  <2> DEFINE g == Next1(T)
  <2> HIDE DEF Left, Alone, Op, Next1
  <2>3. /\ Plain(Op(g, f[T \ {g}]))
        /\ \A m \in Name : Settled(table, Left(T), m, s, Op(g, f[T \ {g}]))
        /\ Alone => Owned(Op(g, f[T \ {g}]))
    <3>1. g \in T /\ Good(T \ {g})
      BY <1>13, <2>1
    <3> HIDE DEF g, Good
    <3> QED
      BY <1>11, <1>13, <3>1
  <2>4. f[T] = Op(g, f[T \ {g}])
    BY <2>2
  <2> HIDE DEF g
  <2> QED
    BY <2>3, <2>4
<1> HIDE DEF Good
<1>14. 0 \in Q
  BY <1>4, <1>10
<1>15. ASSUME NEW n \in Q PROVE n + 1 \in Q
  <2>1. ASSUME NEW T \in SUBSET G, Cardinality(T) = n + 1 PROVE Good(T)
    <3>1. T # {}
      BY <1>4, <2>1
    <3>2. n \in Nat /\ P(n)
      <4> HIDE DEF P
      <4> QED
        OBVIOUS
    <3>3. /\ T \ {Next1(T)} \in SUBSET G
          /\ Cardinality(T \ {Next1(T)}) = Cardinality(T) - 1
      BY <1>3, <3>1
    <3>4. Cardinality(T \ {Next1(T)}) = n
      <4> HIDE DEF P, Q
      <4> QED
        BY <2>1, <3>2, <3>3
    <3> QED
      BY <1>13, <3>1, <3>2, <3>3, <3>4
  <2> QED
    BY <2>1
<1>16. Q = Nat
  <2>1. Q \subseteq Nat
    OBVIOUS
  <2> HIDE DEF Q
  <2> QED
    BY <1>14, <1>15, <2>1, Induction
<1>17. Good(G)
  <2>1. N \in Q
    BY <1>4, <1>16
  <2> QED
    BY <2>1 DEF N
<1>18. \A m \in Name : Settled(table, D, m, s, f[G])
  <2> DEFINE e == <<t.type, t.name, {}>>
  <2>1. Left(G) = D \cup {e} /\ e[1] = t.type /\ e[3] = {}
    OBVIOUS
  <2>2. t.type \notin Whole /\ t.type \notin {"upd_interface", "del_interface"}
    BY DEF ByMethod, Whole
  <2> HIDE DEF e, Left
  <2>3. \A m, g : Reruns(D \cup {e}, m, g) => Reruns(D, m, g)
    BY <2>1, DueOf
  <2>4. \A m, types : Comes(D \cup {e}, m, types) =>
                         Comes(D, m, types) \/ e[1] \in types
    BY DueOf
  <2>5. \A m : /\ Comes(D \cup {e}, m, Whole) => Comes(D, m, Whole)
               /\ Comes(D \cup {e}, m, {"upd_interface", "del_interface"})
                     => Comes(D, m, {"upd_interface", "del_interface"})
    BY <2>1, <2>2, <2>4
  <2>6. \A m \in Name : Settled(table, D \cup {e}, m, s, f[G])
    BY <1>17, <2>1 DEF Good
  <2> QED
    BY <2>3, <2>5, <2>6 DEF Settled
<1> QED
  BY <1>5, <1>17, <1>18 DEF Good, f

\* What a task does to the data of a state, whatever its type.
LEMMA RowSettled ==
  ASSUME NEW table, TableOK(table), NEW s, NoWallet(s), NEW a, Plain(a),
         NEW t \in TaskRow, ~OnMessages(t), NEW i, NEW D,
         UsesContract(t) => i \in Described(t.name) /\ Fits(table, D, t.name, i),
         Meant(table, What(t)) \/ Comes(D, t.name, Whole),
         NEW order \in Orders,
         \A m \in Name : Settled(table, D \cup {What(t)}, m, s, a)
  PROVE  LET b == Rescanned(a, s, t, i, table, order) IN
         /\ Plain(b)
         /\ \A m \in Name : Settled(table, D, m, s, b)
         /\ /\ Owned(a)
            /\ UsesContract(t) => i = table[t.name]
            /\ t.type \in ByMethod => \A w \in D : w[1] \notin Whole
            => Owned(b) /\ b.types \subseteq a.types \cup MatchedBy(table, s)
<1> DEFINE b == Rescanned(a, s, t, i, table, order)
           n == t.name
<1>1. n \in Name /\ (t.type \in Whole \/ t.type \in ByMethod)
  BY DEF TaskRow, OnMessages, Whole, ByMethod
<1>2. CASE t.type \in Whole
  <2>1. Plain(b) /\ \A m \in Name : Settled(table, D, m, s, b)
    BY <1>2, WholeSettled
  <2>2. ASSUME Owned(a), UsesContract(t) => i = table[n]
        PROVE  Owned(b) /\ b.types \subseteq a.types \cup MatchedBy(table, s)
    <3> DEFINE c == Cleared(a, n)
    <3>1. Plain(c) /\ Owned(c) /\ c.types \subseteq a.types
      BY <2>2, ClearedIs, OwnedKept
    <3>2. CASE t.type = "del_interface"
      <4>1. b = c
        BY <3>2 DEF Rescanned
      <4> QED
        BY <3>1, <4>1
    <3>3. CASE t.type # "del_interface"
      <4> DEFINE e == ParsedAs(c, s, n, i)
      <4>1. b = e
        BY <1>2, <3>3 DEF Rescanned, Whole
      <4>2. i \in Described(n) /\ i = table[n]
        BY <2>2, <3>3 DEF UsesContract
      <4>3. i # None
        BY <4>2, InterfacesOf
      <4> HIDE DEF c
      <4>4. /\ ~Matches(i, s) => e = c
            /\ \A m : m # n => (m \in e.types <=> m \in c.types)
            /\ Owned(e)
        BY <1>1, <3>1, <4>2, ParsedIs, OwnedKept
      <4>5. Matches(i, s) => n \in MatchedBy(table, s)
        BY <1>1, <4>2, <4>3 DEF MatchedBy
      <4> HIDE DEF b, e
      <4> QED
        BY <3>1, <4>1, <4>4, <4>5
    <3> QED
      BY <3>2, <3>3
  <2> QED
    BY <2>1, <2>2
<1>3. CASE t.type \in ByMethod
  <2>1. UsesContract(t)
    BY <1>3 DEF UsesContract, ByMethod
  <2>2. /\ Plain(b) /\ \A m \in Name : Settled(table, D, m, s, b)
        /\ Owned(a) /\ (\A w \in D : w[1] \notin Whole) => Owned(b)
    BY <1>3, <2>1, MethodsSettled
  <2>3. ASSUME \A w \in D : w[1] \notin Whole
        PROVE  b.types \subseteq MatchedBy(table, s)
    <3>1. ASSUME NEW m \in b.types, m \notin MatchedBy(table, s) PROVE FALSE
      <4>1. m \in Name
        BY <2>2, <3>1 DEF Plain, Data
      <4>2. Comes(D, m, {"upd_interface", "del_interface"})
        BY <2>2, <3>1, <4>1 DEF Settled
      <4> QED
        BY <2>3, <4>2 DEF Comes, Whole
    <3> QED
      BY <3>1
  <2> QED
    BY <1>3, <2>2, <2>3
<1> QED
  BY <1>1, <1>2, <1>3

\* A table that differs in one interface, with the tasks this calls for.
TableChanged(old, new, due, n) ==
  /\ \A m \in Name : m # n => new[m] = old[m]
  /\ \/ old[n] = None /\ Comes(due, n, {"add_interface"})
     \/ new[n] = None /\ Comes(due, n, {"del_interface"})
     \/ /\ old[n] # None /\ new[n] # None
        /\ MatchingDiffers(old[n], new[n]) => Comes(due, n, {"upd_interface"})
        /\ \A g \in Changed(old[n].methods, new[n].methods) : Reruns(due, n, g)

LEMMA TableChange ==
  ASSUME NEW old, TableOK(old), NEW new, TableOK(new), NEW n \in Name,
         NEW D, NEW E, D \subseteq E, TableChanged(old, new, E, n)
  PROVE  /\ \A m \in Name : \A s, a : Settled(old, D, m, s, a) => Settled(new, E, m, s, a)
         /\ \A m \in Name : \A i \in Described(m) :
               Fits(old, D, m, i) => Fits(new, E, m, i)
         /\ \A w : w[2] \in Name /\ (Meant(old, w) \/ Comes(D, w[2], Whole))
                      => Meant(new, w) \/ Comes(E, w[2], Whole)
<1>1. /\ \A m, types : Comes(D, m, types) => Comes(E, m, types)
      /\ \A m, g : Reruns(D, m, g) => Reruns(E, m, g)
  BY DueGrows
<1>2. \A m \in Name : m # n => new[m] = old[m]
  BY DEF TableChanged
<1>3. \A m \in Name : m # n => \A s : m \in MatchedBy(new, s) <=> m \in MatchedBy(old, s)
  BY <1>2 DEF MatchedBy
<1>4. /\ Comes(E, n, {"add_interface"}) => Comes(E, n, Whole)
      /\ Comes(E, n, {"upd_interface"}) =>
            Comes(E, n, Whole) /\ Comes(E, n, {"upd_interface", "del_interface"})
      /\ Comes(E, n, {"del_interface"}) =>
            Comes(E, n, Whole) /\ Comes(E, n, {"upd_interface", "del_interface"})
  BY DEF Comes, Whole
<1>5. ASSUME NEW m \in Name, m # n
      PROVE  /\ \A s, a : Settled(old, D, m, s, a) => Settled(new, E, m, s, a)
             /\ \A i : Fits(old, D, m, i) => Fits(new, E, m, i)
  <2>1. \A s, a : Settled(old, D, m, s, a) => Settled(new, E, m, s, a)
    BY <1>1, <1>2, <1>3, <1>5 DEF Settled
  <2>2. \A i : Fits(old, D, m, i) => Fits(new, E, m, i)
    BY <1>1, <1>2, <1>5 DEF Fits
  <2> QED
    BY <2>1, <2>2
<1>6. \A w : w[2] \in Name /\ w[2] # n /\ (Meant(old, w) \/ Comes(D, w[2], Whole))
                => Meant(new, w) \/ Comes(E, w[2], Whole)
  BY <1>1, <1>2 DEF Meant
<1>7. CASE old[n] = None /\ Comes(E, n, {"add_interface"})
  <2>1. \A s, a : Settled(old, D, n, s, a) => Settled(new, E, n, s, a)
    BY <1>1, <1>4, <1>7 DEF Settled, MatchedBy
  <2>2. \A i : Fits(old, D, n, i) => Fits(new, E, n, i)
    BY <1>1, <1>7 DEF Fits
  <2> QED
    BY <1>4, <1>5, <1>6, <1>7, <2>1, <2>2
<1>8. CASE new[n] = None /\ Comes(E, n, {"del_interface"})
  <2>1. \A s, a : Settled(new, E, n, s, a)
    BY <1>4, <1>8 DEF Settled
  <2>2. \A i : Fits(new, E, n, i)
    BY <1>4, <1>8 DEF Fits
  <2> QED
    BY <1>4, <1>5, <1>6, <1>8, <2>1, <2>2
<1>9. CASE /\ old[n] # None /\ new[n] # None
           /\ MatchingDiffers(old[n], new[n]) /\ Comes(E, n, {"upd_interface"})
  <2>1. \A s, a : Settled(new, E, n, s, a)
    BY <1>4, <1>9 DEF Settled
  <2>2. \A i : Fits(new, E, n, i)
    BY <1>4, <1>9 DEF Fits
  <2> QED
    BY <1>4, <1>5, <1>6, <1>9, <2>1, <2>2
<1>10. CASE /\ old[n] # None /\ new[n] # None /\ ~MatchingDiffers(old[n], new[n])
            /\ \A g \in Changed(old[n].methods, new[n].methods) : Reruns(E, n, g)
  <2> DEFINE j == old[n]
             k == new[n]
  <2>1. j \in Interface /\ k \in Interface /\ j # None /\ k # None
    BY <1>10, InterfacesOf DEF TableOK
  <2>2. Names(j.methods) = Names(k.methods) /\ \A s : Matches(j, s) <=> Matches(k, s)
    BY <1>10, MatchesSame
  <2>3. \A s : n \in MatchedBy(old, s) <=> n \in MatchedBy(new, s)
    BY <2>1, <2>2 DEF MatchedBy
  <2>4. ASSUME NEW s, NEW a, Settled(old, D, n, s, a) PROVE Settled(new, E, n, s, a)
    <3>1. CASE n \notin MatchedBy(new, s)
      BY <1>1, <2>3, <2>4, <3>1 DEF Settled
    <3>2. CASE n \in MatchedBy(new, s) /\ Comes(D, n, Whole)
      BY <1>1, <3>2 DEF Settled
    <3>3. CASE n \in MatchedBy(new, s) /\ ~Comes(D, n, Whole)
      <4>1. /\ n \in a.types
            /\ \A r \in Differing(a, n, j) :
                  r[2][1] \in Names(j.methods) /\ Reruns(D, n, r[2][1])
        BY <2>3, <2>4, <3>3 DEF Settled
      <4>2. ASSUME NEW r \in Differing(a, n, k)
            PROVE  r[2][1] \in Names(k.methods) /\ Reruns(E, n, r[2][1])
        <5>1. CASE r \in Differing(a, n, j)
          BY <1>1, <2>2, <4>1, <5>1
        <5>2. CASE r \notin Differing(a, n, j)
          <6>1. r[2] \in (j.methods \ k.methods) \cup (k.methods \ j.methods)
            <7> HIDE DEF j, k
            <7> QED
              BY <4>2, <5>2 DEF Differing, Runs
          <6>2. r[2][1] \in Names(k.methods) /\ r[2][1] \in Changed(j.methods, k.methods)
            <7>1. ~MatchingDiffers(j, k)
              BY <1>10
            <7> HIDE DEF j, k
            <7> QED
              BY <2>1, <6>1, <7>1, ChangedOf
          <6> QED
            BY <1>10, <6>2
        <5> QED
          BY <5>1, <5>2
      <4> QED
        BY <3>3, <4>1, <4>2 DEF Settled
    <3> QED
      BY <3>1, <3>2, <3>3
  <2>5. ASSUME NEW i, Fits(old, D, n, i) PROVE Fits(new, E, n, i)
    <3>1. CASE Comes(D, n, {"upd_interface", "del_interface"})
      BY <1>1, <3>1 DEF Fits
    <3>2. CASE ~Comes(D, n, {"upd_interface", "del_interface"})
      <4>1. /\ ~MatchingDiffers(i, j) /\ ~MatchingDiffers(j, k)
            /\ \A g \in Changed(i.methods, j.methods) : Reruns(D, n, g)
        BY <1>10, <2>5, <3>2 DEF Fits
      <4> HIDE DEF j, k
      <4>2. /\ ~MatchingDiffers(i, k)
            /\ Changed(i.methods, k.methods) \subseteq
                  Changed(i.methods, j.methods) \cup Changed(j.methods, k.methods)
        BY <4>1, ChangedTwice
      <4>3. \A g \in Changed(i.methods, k.methods) : Reruns(E, n, g)
        BY <1>1, <1>10, <4>1, <4>2 DEF j, k
      <4> QED
        BY <2>1, <4>2, <4>3 DEF Fits, k
    <3> QED
      BY <3>1, <3>2
  <2>6. \A w : w[2] = n /\ Meant(old, w) => Meant(new, w)
    BY <2>1, <2>2 DEF Meant
  <2> QED
    BY <1>1, <1>5, <1>6, <2>4, <2>5, <2>6
<1> QED
  BY <1>7, <1>8, <1>9, <1>10 DEF TableChanged

-----------------------------------------------------------------------------
\* The statements of a command and the tasks among them.

\* What is in sequences.
LEMMA RangeOf ==
  /\ Range(<<>>) = {}
  /\ \A x : Range(<<x>>) = {x}
  /\ \A x, y : Range(<<x, y>>) = {x, y}
  /\ \A S : \A a, b \in Seq(S) : Range(a \o b) = Range(a) \cup Range(b)
  /\ \A S : \A s \in Seq(S) :
        /\ Range(s) \subseteq S
        /\ s # <<>> => /\ Tail(s) \in Seq(S) /\ Head(s) \in S
                       /\ Range(s) = {Head(s)} \cup Range(Tail(s))
<1>1. /\ Range(<<>>) = {} /\ \A x : Range(<<x>>) = {x}
      /\ \A x, y : Range(<<x, y>>) = {x, y}
  BY DEF Range
<1>2. ASSUME NEW S, NEW a \in Seq(S), NEW b \in Seq(S)
      PROVE  Range(a \o b) = Range(a) \cup Range(b)
  <2> DEFINE c == a \o b
  <2>1. /\ c \in Seq(S) /\ Len(c) = Len(a) + Len(b)
        /\ \A i \in 1..Len(c) : c[i] = IF i <= Len(a) THEN a[i] ELSE b[i - Len(a)]
    BY ConcatProperties
  <2>2. /\ Len(a) \in Nat /\ Len(b) \in Nat
        /\ DOMAIN a = 1..Len(a) /\ DOMAIN b = 1..Len(b) /\ DOMAIN c = 1..Len(c)
    BY <2>1
  <2> HIDE DEF c
  <2>3. ASSUME NEW i \in DOMAIN a PROVE a[i] \in Range(c)
    <3>1. i \in DOMAIN c /\ c[i] = a[i]
      BY <2>1, <2>2
    <3> QED
      BY <3>1 DEF Range
  <2>4. ASSUME NEW i \in DOMAIN b PROVE b[i] \in Range(c)
    <3>1. Len(a) + i \in DOMAIN c /\ c[Len(a) + i] = b[i]
      BY <2>1, <2>2
    <3> QED
      BY <3>1 DEF Range
  <2>5. ASSUME NEW i \in DOMAIN c PROVE c[i] \in Range(a) \cup Range(b)
    <3>1. IF i <= Len(a) THEN i \in DOMAIN a /\ c[i] = a[i]
          ELSE i - Len(a) \in DOMAIN b /\ c[i] = b[i - Len(a)]
      BY <2>1, <2>2
    <3> QED
      BY <3>1 DEF Range
  <2>6. Range(c) = Range(a) \cup Range(b)
    BY <2>3, <2>4, <2>5 DEF Range
  <2> QED
    BY <2>6 DEF c
<1>3. ASSUME NEW S, NEW s \in Seq(S)
      PROVE  Range(s) \subseteq S
  BY DEF Range
<1>4. ASSUME NEW S, NEW s \in Seq(S), s # <<>>
      PROVE  /\ Tail(s) \in Seq(S) /\ Head(s) \in S
             /\ Range(s) = {Head(s)} \cup Range(Tail(s))
  <2>1. /\ Tail(s) \in Seq(S) /\ Head(s) \in S /\ Head(s) = s[1]
        /\ Len(s) \in Nat /\ Len(s) # 0 /\ Len(Tail(s)) = Len(s) - 1
        /\ DOMAIN s = 1..Len(s) /\ DOMAIN Tail(s) = 1..Len(Tail(s))
        /\ \A i \in 1..Len(Tail(s)) : Tail(s)[i] = s[i + 1]
    BY <1>4
  <2>2. ASSUME NEW i \in DOMAIN s PROVE s[i] \in {Head(s)} \cup Range(Tail(s))
    <3>1. CASE i = 1
      BY <2>1, <3>1
    <3>2. CASE i # 1
      <4>1. i - 1 \in 1..Len(Tail(s)) /\ (i - 1) + 1 = i
        BY <2>1, <3>2
      <4>2. Tail(s)[i - 1] = s[i]
        BY <2>1, <4>1
      <4> QED
        BY <2>1, <4>1, <4>2 DEF Range
    <3> QED
      BY <3>1, <3>2
  <2>3. ASSUME NEW i \in DOMAIN Tail(s) PROVE Tail(s)[i] \in Range(s)
    <3>1. i + 1 \in DOMAIN s /\ Tail(s)[i] = s[i + 1]
      BY <2>1
    <3> QED
      BY <3>1 DEF Range
  <2>4. Head(s) \in Range(s)
    <3>1. 1 \in DOMAIN s
      BY <2>1
    <3> QED
      BY <2>1, <3>1 DEF Range
  <2> QED
    BY <2>1, <2>2, <2>3, <2>4 DEF Range
<1> QED
  BY <1>1, <1>2, <1>3, <1>4

\* Scripts are in order when their parts are, and so is what is left of them.
LEMMA JoinOrder ==
  ASSUME NEW a \in Seq(StatementSet), NEW b \in Seq(StatementSet),
         InOrder(a), InOrder(b),
         \A x \in Range(a), y \in Range(b) : ~Misplaced(x, y)
  PROVE  InOrder(a \o b)
<1> DEFINE c == a \o b
<1>1. /\ c \in Seq(StatementSet) /\ Len(c) = Len(a) + Len(b)
      /\ \A i \in 1..Len(c) : c[i] = IF i <= Len(a) THEN a[i] ELSE b[i - Len(a)]
  BY ConcatProperties
<1>2. /\ Len(a) \in Nat /\ Len(b) \in Nat
      /\ DOMAIN a = 1..Len(a) /\ DOMAIN b = 1..Len(b) /\ DOMAIN c = 1..Len(c)
  BY <1>1
<1> HIDE DEF c
<1>3. ASSUME NEW i \in DOMAIN c, NEW j \in DOMAIN c, i < j
      PROVE  ~Misplaced(c[i], c[j])
  <2>1. i \in Nat /\ j \in Nat
    BY <1>2
  <2>2. CASE j <= Len(a)
    <3>1. i \in DOMAIN a /\ j \in DOMAIN a /\ c[i] = a[i] /\ c[j] = a[j]
      BY <1>1, <1>2, <1>3, <2>1, <2>2
    <3> QED
      BY <1>3, <3>1 DEF InOrder
  <2>3. CASE Len(a) < i
    <3>1. /\ i - Len(a) \in DOMAIN b /\ j - Len(a) \in DOMAIN b
          /\ c[i] = b[i - Len(a)] /\ c[j] = b[j - Len(a)]
          /\ i - Len(a) < j - Len(a)
      BY <1>1, <1>2, <1>3, <2>1, <2>3
    <3> QED
      BY <3>1 DEF InOrder
  <2>4. CASE i <= Len(a) /\ Len(a) < j
    <3>1. /\ i \in DOMAIN a /\ c[i] = a[i]
          /\ j - Len(a) \in DOMAIN b /\ c[j] = b[j - Len(a)]
      BY <1>1, <1>2, <1>3, <2>1, <2>4
    <3>2. c[i] \in Range(a) /\ c[j] \in Range(b)
      BY <3>1 DEF Range
    <3> QED
      BY <3>2
  <2> QED
    BY <1>2, <2>1, <2>2, <2>3, <2>4
<1>4. InOrder(c)
  BY <1>3 DEF InOrder
<1> QED
  BY <1>4 DEF c

LEMMA TailOrder ==
  ASSUME NEW s \in Seq(StatementSet), s # <<>>, InOrder(s)
  PROVE  /\ InOrder(Tail(s))
         /\ \A y \in Range(Tail(s)) : ~Misplaced(Head(s), y)
<1>1. /\ Head(s) = s[1]
      /\ Len(s) \in Nat /\ Len(s) # 0 /\ Len(Tail(s)) = Len(s) - 1
      /\ DOMAIN s = 1..Len(s) /\ DOMAIN Tail(s) = 1..Len(Tail(s))
      /\ \A i \in 1..Len(Tail(s)) : Tail(s)[i] = s[i + 1]
  OBVIOUS
<1>2. \A i \in DOMAIN Tail(s) :
         i \in Nat /\ i + 1 \in DOMAIN s /\ Tail(s)[i] = s[i + 1] /\ 1 < i + 1
  BY <1>1
<1>3. 1 \in DOMAIN s
  BY <1>1
<1>4. InOrder(Tail(s))
  <2>1. ASSUME NEW i \in DOMAIN Tail(s), NEW j \in DOMAIN Tail(s), i < j
        PROVE  ~Misplaced(Tail(s)[i], Tail(s)[j])
    <3>1. i + 1 < j + 1
      BY <1>2, <2>1
    <3> QED
      BY <1>2, <3>1 DEF InOrder
  <2> QED
    BY <2>1 DEF InOrder
<1>5. ASSUME NEW y \in Range(Tail(s)) PROVE ~Misplaced(Head(s), y)
  <2>1. PICK i \in DOMAIN Tail(s) : y = Tail(s)[i]
    BY DEF Range
  <2> QED
    BY <1>1, <1>2, <1>3, <2>1 DEF InOrder
<1> QED
  BY <1>4, <1>5

LEMMA ShortOrder ==
  /\ InOrder(<<>>) /\ \A x : InOrder(<<x>>)
  /\ \A x, y : ~Misplaced(x, y) => InOrder(<<x, y>>)
<1>1. DOMAIN <<>> = {} /\ \A x : DOMAIN <<x>> = {1}
  OBVIOUS
<1>2. \A x, y : /\ DOMAIN <<x, y>> = {1, 2} /\ <<x, y>>[1] = x /\ <<x, y>>[2] = y
  OBVIOUS
<1>3. \A i, j \in {1, 2} : i < j => i = 1 /\ j = 2
  OBVIOUS
<1>4. ASSUME NEW x, NEW y, ~Misplaced(x, y) PROVE InOrder(<<x, y>>)
  <2> DEFINE s == <<x, y>>
  <2>1. DOMAIN s = {1, 2} /\ s[1] = x /\ s[2] = y
    BY <1>2
  <2> HIDE DEF s
  <2>2. InOrder(s)
    BY <1>3, <1>4, <2>1 DEF InOrder
  <2> QED
    BY <2>2 DEF s
<1>5. InOrder(<<>>)
  BY <1>1 DEF InOrder
<1>6. ASSUME NEW x PROVE InOrder(<<x>>)
  <2> DEFINE s == <<x>>
  <2>1. DOMAIN s = {1}
    BY <1>1
  <2> HIDE DEF s
  <2>2. \A i, j \in {1} : ~(i < j)
    OBVIOUS
  <2>3. InOrder(s)
    BY <2>1, <2>2 DEF InOrder
  <2> QED
    BY <2>3 DEF s
<1> QED
  BY <1>4, <1>5, <1>6

\* What a joined script makes.
LEMMA MadeOf ==
  /\ Made(<<>>) = {}
  /\ \A a, b \in Seq(StatementSet) : Made(a \o b) = Made(a) \cup Made(b)
  /\ \A s \in Seq(StatementSet) :
       s # <<>> => Made(s) = Made(Tail(s)) \cup
            IF Head(s).do = "task" /\ ~OnMessages(Head(s).arg)
            THEN {What(Head(s).arg)} ELSE {}
<1> DEFINE Task1(x) == x.do = "task" /\ ~OnMessages(x.arg)
           M(R) == {What(st.arg) : st \in {x \in R : Task1(x)}}
<1>1. \A s : Made(s) = M(Range(s))
  BY DEF Made
<1>2. M({}) = {} /\ \A A, B : M(A \cup B) = M(A) \cup M(B)
  OBVIOUS
<1>3. \A x : M({x}) = IF Task1(x) THEN {What(x.arg)} ELSE {}
  OBVIOUS
<1> HIDE DEF M
<1>4. Made(<<>>) = {}
  BY <1>1, <1>2, RangeOf
<1>5. \A a, b \in Seq(StatementSet) : Made(a \o b) = Made(a) \cup Made(b)
  <2>1. ASSUME NEW a \in Seq(StatementSet), NEW b \in Seq(StatementSet)
        PROVE  Made(a \o b) = Made(a) \cup Made(b)
    <3>1. Range(a \o b) = Range(a) \cup Range(b)
      BY RangeOf
    <3> QED
      BY <1>1, <1>2, <3>1
  <2> QED
    BY <2>1
<1>6. ASSUME NEW s \in Seq(StatementSet), s # <<>>
      PROVE  Made(s) = Made(Tail(s)) \cup
                IF Task1(Head(s)) THEN {What(Head(s).arg)} ELSE {}
  <2>1. Range(s) = {Head(s)} \cup Range(Tail(s))
    BY <1>6, RangeOf
  <2>2. Made(s) = M({Head(s)}) \cup M(Range(Tail(s)))
    BY <1>1, <1>2, <2>1
  <2> HIDE DEF Task1
  <2> QED
    BY <1>1, <1>3, <2>2
<1> QED
  BY <1>4, <1>5, <1>6

\* Statements about operations, and those after whose error the command ends.
Quiet ==
  {st \in StatementSet :
      /\ \/ st.do \in {"add", "change", "delete"}
         \/ st.do = "task" /\ OnMessages(st.arg)
      /\ st.keepGoing => st.do \in {"add", "task"}}
Firm == {st \in StatementSet : ~st.keepGoing}

\* Statements about operations may be anywhere behind others.
LEMMA QuietIs ==
  ASSUME NEW s \in Seq(Quiet)
  PROVE  /\ s \in Seq(StatementSet) /\ InOrder(s) /\ Made(s) = {}
         /\ \A x, y : y \in Range(s) => ~Misplaced(x, y)
         /\ \A y \in Range(s) : y \in Quiet /\ y.do \notin Changing
         /\ \A y \in Range(s) : \A table, made : Followed(table, made, y)
<1>1. s \in Seq(StatementSet) /\ Range(s) \subseteq Quiet
  BY RangeOf DEF Quiet
<1>2. ASSUME NEW y \in Quiet
      PROVE  /\ y.do \notin Changing
             /\ \A x : ~Misplaced(x, y)
             /\ \A table, made : Followed(table, made, y)
             /\ ~(y.do = "task" /\ ~OnMessages(y.arg))
  <2>1. y.do \in {"add", "change", "delete", "task"}
    BY DEF Quiet
  <2>2. /\ y.do = "task" => OnMessages(y.arg)
        /\ y.keepGoing => y.do \in {"add", "task"}
    BY DEF Quiet
  <2>3. y.do = "task" => y.arg.type \notin Whole
    BY <2>2 DEF OnMessages, Whole
  <2>4. y.do \notin Changing /\ y.do # "insert"
    BY <2>1 DEF Changing
  <2>5. \A x : ~Misplaced(x, y)
    BY <2>2, <2>3, <2>4 DEF Misplaced
  <2>6. \A table, made : Followed(table, made, y)
    BY <2>1, <2>2 DEF Followed
  <2> QED
    BY <2>2, <2>4, <2>5, <2>6
<1>3. InOrder(s)
  BY <1>1, <1>2 DEF InOrder, Range
<1>4. Made(s) = {}
  BY <1>1, <1>2 DEF Made
<1> QED
  BY <1>1, <1>2, <1>3, <1>4

LEMMA QuietSeqs ==
  /\ <<>> \in Seq(Quiet) /\ <<>> \in Seq(Firm)
  /\ \A a, b \in Seq(Quiet) : a \o b \in Seq(Quiet)
  /\ \A a, b \in Seq(Firm) : a \o b \in Seq(Firm)
  /\ \A a \in Seq(Quiet \cap Firm) : a \in Seq(Quiet) /\ a \in Seq(Firm)
  /\ \A a, b \in Seq(Quiet \cap Firm) : a \o b \in Seq(Quiet \cap Firm)
  BY DEF Firm

\* Statements of a finite set of operations are such.
LEMMA QuietOf ==
  ASSUME NEW ops \in SUBSET Ops
  PROVE  /\ \A do \in {"add", "change", "delete"} :
               [k \in DOMAIN SetToSeq(ops) |->
                   Statement(do, SetToSeq(ops)[k], FALSE)] \in Seq(Quiet \cap Firm)
         /\ \A type \in {"upd_operation", "del_operation"} :
               /\ FlattenSeq([k \in DOMAIN SetToSeq(ops) |->
                      <<Statement("task", OperationTask(type, SetToSeq(ops)[k]),
                                  FALSE)>>]) \in Seq(Quiet \cap Firm)
               /\ [k \in DOMAIN SetToSeq(ops) |->
                      Statement("task", OperationTask(type, SetToSeq(ops)[k]),
                                FALSE)] \in Seq(Quiet \cap Firm)
         /\ FlattenSeq([k \in DOMAIN SetToSeq(ops) |->
               <<Statement("add", SetToSeq(ops)[k], TRUE),
                 Statement("task", OperationTask("upd_operation", SetToSeq(ops)[k]),
                           TRUE)>>]) \in Seq(Quiet)
<1> DEFINE s == SetToSeq(ops)
           st(do, k) == Statement(do, s[k], FALSE)
           add(k) == Statement("add", s[k], TRUE)
           ask(type, k, go) == Statement("task", OperationTask(type, s[k]), go)
           Types == {"upd_operation", "del_operation"}
           X == Seq(Quiet \cap Firm)
           Y == Seq(Quiet)
<1>1. s \in Seq(ops)
  BY StatementsOf
<1> HIDE DEF s
<1>2. Len(s) \in Nat /\ DOMAIN s = 1..Len(s) /\ \A k \in DOMAIN s : s[k] \in Ops
  BY <1>1
<1>3. \A do \in {"add", "change", "delete"}, k \in DOMAIN s :
         st(do, k) \in Quiet \cap Firm
  BY <1>2 DEF Statement, StatementSet, Quiet, Firm
<1>4. \A k \in DOMAIN s : add(k) \in Quiet
  BY <1>2 DEF Statement, StatementSet, Quiet
<1>5. ASSUME NEW type \in Types, NEW k \in DOMAIN s, NEW go \in BOOLEAN
      PROVE  ask(type, k, go) \in Quiet /\ (~go => ask(type, k, go) \in Firm)
  <2> DEFINE t == OperationTask(type, s[k])
  <2>1. t \in NewTask /\ OnMessages(t)
    BY <1>2, NewTasks DEF OperationTask, Task, OnMessages
  <2> HIDE DEF t
  <2>2. ask(type, k, go) = [do |-> "task", arg |-> t, keepGoing |-> go]
    BY DEF Statement, t
  <2> HIDE DEF ask
  <2>3. ask(type, k, go) \in StatementSet
    BY <2>1, <2>2 DEF StatementSet
  <2> QED
    BY <2>1, <2>2, <2>3 DEF Quiet, Firm
<1> HIDE DEF st, add, ask
<1>6. \A do \in {"add", "change", "delete"} : [k \in DOMAIN s |-> st(do, k)] \in X
  BY <1>2, <1>3
<1>7. \A k \in DOMAIN s :
         /\ \A type \in Types : ask(type, k, FALSE) \in Quiet \cap Firm
         /\ ask("upd_operation", k, TRUE) \in Quiet
  BY <1>5
<1>8. ASSUME NEW type \in Types
      PROVE  /\ [k \in DOMAIN s |-> ask(type, k, FALSE)] \in X
             /\ FlattenSeq([k \in DOMAIN s |-> <<ask(type, k, FALSE)>>]) \in X
  <2> DEFINE q(k) == ask(type, k, FALSE)
             r == [k \in DOMAIN s |-> <<q(k)>>]
  <2>1. \A k \in DOMAIN s : q(k) \in Quiet \cap Firm
    BY <1>7
  <2> HIDE DEF q
  <2>2. [k \in DOMAIN s |-> q(k)] \in X
    BY <1>2, <2>1
  <2>3. \A k \in DOMAIN s : <<q(k)>> \in X
    BY <2>1
  <2>4. <<>> \in X /\ \A a, b \in X : a \o b \in X
    BY QuietSeqs
  <2> HIDE DEF X
  <2>5. r \in Seq(X)
    BY <1>2, <2>3
  <2> HIDE DEF r
  <2>6. FlattenSeq(r) \in X
    BY <2>4, <2>5, FlattenIn
  <2> QED
    BY <2>2, <2>6 DEF q, r
<1>9. FlattenSeq([k \in DOMAIN s |-> <<add(k), ask("upd_operation", k, TRUE)>>]) \in Y
  <2> DEFINE q(k) == ask("upd_operation", k, TRUE)
             r == [k \in DOMAIN s |-> <<add(k), q(k)>>]
  <2>1. \A k \in DOMAIN s : q(k) \in Quiet
    BY <1>7
  <2> HIDE DEF q
  <2>2. \A k \in DOMAIN s : <<add(k), q(k)>> \in Y
    BY <1>4, <2>1
  <2>3. <<>> \in Y /\ \A a, b \in Y : a \o b \in Y
    BY QuietSeqs
  <2> HIDE DEF Y
  <2>4. r \in Seq(Y)
    BY <1>2, <2>2
  <2> HIDE DEF r
  <2>5. FlattenSeq(r) \in Y
    BY <2>3, <2>4, FlattenIn
  <2> QED
    BY <2>5 DEF q, r
<1> QED
  BY <1>6, <1>8, <1>9 DEF st, add, ask, s

\* What the tasks of a command do.
LEMMA WhatOf ==
  \A type \in Whole \cup ByMethod : \A n, g :
     /\ InterfaceTask(type, n, g).type = type
     /\ ~OnMessages(InterfaceTask(type, n, g))
     /\ What(InterfaceTask(type, n, g)) = <<type, n, g>>
  BY DEF InterfaceTask, Task, OnMessages, What, Whole, ByMethod

\* Statements that need no task.
LEMMA NeedsNone ==
  /\ \A y \in Quiet : \A table, made : Followed(table, made, y)
  /\ \A y : \A table, made :
        (y.keepGoing => y.do = "task") /\ y.do \notin Changing
           => Followed(table, made, y)
<1>1. ASSUME NEW y \in Quiet, NEW table, NEW made PROVE Followed(table, made, y)
  <2>1. <<y>> \in Seq(Quiet) /\ y \in Range(<<y>>)
    BY RangeOf
  <2> QED
    BY <2>1, QuietIs
<1> QED
  BY <1>1 DEF Followed, Changing

\* What scripts of one or two statements make.
LEMMA MadeShort ==
  LET M(z) == IF z.do = "task" /\ ~OnMessages(z.arg) THEN {What(z.arg)} ELSE {}
  IN /\ \A x : Made(<<x>>) = M(x)
     /\ \A x, y : Made(<<x, y>>) = M(x) \cup M(y)
<1> DEFINE M(z) == IF z.do = "task" /\ ~OnMessages(z.arg) THEN {What(z.arg)} ELSE {}
<1> SUFFICES ASSUME NEW x, NEW y
             PROVE  Made(<<x>>) = M(x) /\ Made(<<x, y>>) = M(x) \cup M(y)
  OBVIOUS
<1> DEFINE s == <<x>>
           r == <<x, y>>
<1>1. Range(s) = {x} /\ Range(r) = {x, y}
  BY RangeOf
<1> HIDE DEF s, r
<1>2. Made(s) = {What(st.arg) : st \in {z \in {x} : z.do = "task" /\ ~OnMessages(z.arg)}}
  BY <1>1 DEF Made
<1>3. Made(r) = {What(st.arg) : st \in {z \in {x, y} : z.do = "task" /\ ~OnMessages(z.arg)}}
  BY <1>1 DEF Made
<1> QED
  BY <1>2, <1>3 DEF s, r

\* addInterfaces
LEMMA AddFollowed ==
  ASSUME NEW d \in Description, NEW table
  PROVE  ScriptInv(AddStatements(d), table)
<1> DEFINE n == d.name
           i == Statement("insert", d, TRUE)
           a == Statement("task", InterfaceTask("add_interface", n, {}), TRUE)
           first == <<i, a>>
           s == SetToSeq(d.operations)
           more == FlattenSeq([k \in DOMAIN s |->
                       <<Statement("add", s[k], TRUE),
                         Statement("task", OperationTask("upd_operation", s[k]),
                                   TRUE)>>])
           w == <<"add_interface", n, {}>>
<1>1. AddStatements(d) = first \o more
  BY Zenon DEF AddStatements, ForEach
<1>2. d.operations \in SUBSET Ops /\ n \in Name
  BY RescanAssumption DEF Ops, RescanAssumption
<1>3. more \in Seq(Quiet)
  BY <1>2, QuietOf
<1>4. /\ a.do = "task" /\ ~OnMessages(a.arg) /\ What(a.arg) = w /\ a.keepGoing
      /\ a.arg.type = "add_interface"
  <2>1. "add_interface" \in Whole \cup ByMethod
    BY DEF Whole
  <2>2. /\ a.do = "task" /\ a.arg = InterfaceTask("add_interface", n, {})
        /\ a.keepGoing = TRUE
    BY DEF Statement
  <2> HIDE DEF a
  <2> DEFINE k == InterfaceTask("add_interface", n, {})
  <2>3. k.type = "add_interface" /\ ~OnMessages(k) /\ What(k) = w
    BY <2>1, WhatOf
  <2> QED
    BY <2>2, <2>3
<1>5. i.do = "insert" /\ i.arg = d /\ i.keepGoing /\ i \in StatementSet
  BY DEF Statement, StatementSet
<1>6. a \in StatementSet
  BY <1>2, NewTasks DEF Statement, StatementSet
<1> HIDE DEF more, a, i
<1>7. InOrder(first) /\ first \in Seq(StatementSet)
  <2>1. ~Misplaced(i, a)
    BY <1>4, <1>5 DEF Misplaced, Changing
  <2> QED
    BY <1>5, <1>6, <2>1, ShortOrder
<1>8. Made(first) = {w} /\ Range(first) = {i, a}
  <2>1. Made(first) = {w}
    BY <1>4, <1>5, MadeShort
  <2> QED
    BY <2>1, RangeOf
<1> HIDE DEF first
<1> DEFINE r == first \o more
<1>9. /\ more \in Seq(StatementSet) /\ InOrder(more) /\ Made(more) = {}
      /\ \A x, y : y \in Range(more) => ~Misplaced(x, y)
      /\ \A y \in Range(more) : y \in Quiet /\ y.do \notin Changing
  BY <1>3, QuietIs
<1>10. InOrder(r)
  BY <1>7, <1>9, JoinOrder
<1>11. Made(r) = {w} /\ Range(r) = {i, a} \cup Range(more)
  BY <1>7, <1>8, <1>9, MadeOf, RangeOf
<1> HIDE DEF r
<1>12. Followed(table, {w}, i)
  <2>1. Comes({w}, n, {"add_interface"}) /\ \A x \in {w} : x[1] = "add_interface"
    BY DEF Comes
  <2> QED
    BY <1>5, <2>1 DEF Followed
<1>13. Followed(table, {w}, a)
  BY <1>4, NeedsNone DEF Changing
<1>14. \A st \in Range(r) : Followed(table, Made(r), st)
  BY <1>9, <1>11, <1>12, <1>13, NeedsNone
<1>15. ~Steady(r)
  BY <1>5, <1>11 DEF Steady, Changing
<1> QED
  BY <1>1, <1>10, <1>14, <1>15 DEF ScriptInv, r

\* deleteInterface
LEMMA DeleteFollowed ==
  ASSUME NEW n \in Name, operations \subseteq Ops, NEW table
  PROVE  ScriptInv(DeleteStatements(n), table)
<1> DEFINE ops == {op \in operations : op.contract = n}
           s == SetToSeq(ops)
           each == [k \in DOMAIN s |->
                       Statement("task", OperationTask("del_operation", s[k]),
                                 FALSE)]
           o == Statement("disown", n, FALSE)
           p == Statement("drop", n, FALSE)
           t == Statement("task", InterfaceTask("del_interface", n, {}), FALSE)
           w == <<"del_interface", n, {}>>
           first == <<o, p>>
           last == <<t>>
           q == first \o each
           r == q \o last
<1>1. DeleteStatements(n) = r
  BY Zenon DEF DeleteStatements, ForEach
<1>2. each \in Seq(Quiet \cap Firm)
  <2>1. ops \in SUBSET Ops
    OBVIOUS
  <2> HIDE DEF ops
  <2> QED
    BY <2>1, QuietOf
<1>3. /\ o.do = "disown" /\ ~o.keepGoing /\ o \in StatementSet
      /\ p.do = "drop" /\ p.arg = n /\ ~p.keepGoing /\ p \in StatementSet
  BY DEF Statement, StatementSet
<1>4. t \in StatementSet
  BY NewTasks DEF Statement, StatementSet
<1>5. /\ t.do = "task" /\ ~OnMessages(t.arg) /\ What(t.arg) = w /\ ~t.keepGoing
      /\ t.arg.type = "del_interface"
  <2>1. "del_interface" \in Whole \cup ByMethod
    BY DEF Whole
  <2>2. /\ t.do = "task" /\ t.arg = InterfaceTask("del_interface", n, {})
        /\ t.keepGoing = FALSE
    BY DEF Statement
  <2> HIDE DEF t
  <2> DEFINE k == InterfaceTask("del_interface", n, {})
  <2>3. k.type = "del_interface" /\ ~OnMessages(k) /\ What(k) = w
    BY <2>1, WhatOf
  <2> QED
    BY <2>2, <2>3
<1> HIDE DEF each, o, p, t
<1>6. /\ each \in Seq(StatementSet) /\ InOrder(each) /\ Made(each) = {}
      /\ \A x, y : y \in Range(each) => ~Misplaced(x, y)
      /\ \A y \in Range(each) : y \in Quiet /\ y \in Firm
  BY <1>2, QuietSeqs, QuietIs, RangeOf
<1>7. /\ first \in Seq(StatementSet) /\ Range(first) = {o, p} /\ Made(first) = {}
      /\ InOrder(first)
  <2>1. ~Misplaced(o, p)
    BY <1>3 DEF Misplaced, Changing
  <2>2. Made(first) = {}
    BY <1>3, MadeShort
  <2>3. first \in Seq(StatementSet) /\ Range(first) = {o, p}
    BY <1>3, RangeOf
  <2> QED
    BY <2>1, <2>2, <2>3, ShortOrder
<1>8. /\ last \in Seq(StatementSet) /\ Range(last) = {t} /\ Made(last) = {w}
      /\ InOrder(last)
  <2>1. last \in Seq(StatementSet) /\ Range(last) = {t}
    BY <1>4, RangeOf
  <2>2. Made(last) = IF t.do = "task" /\ ~OnMessages(t.arg) THEN {What(t.arg)} ELSE {}
    BY MadeShort
  <2>3. Made(last) = {w}
    BY <1>5, <2>2
  <2> QED
    BY <2>1, <2>3, ShortOrder
<1>9. o \in StatementSet /\ p \in StatementSet
  BY <1>3
<1> HIDE DEF first, last
<1>10. /\ q \in Seq(StatementSet) /\ InOrder(q) /\ Made(q) = {}
       /\ Range(q) = {o, p} \cup Range(each)
  <2>1. InOrder(q)
    BY <1>6, <1>7, JoinOrder
  <2>2. Made(q) = {} /\ Range(q) = {o, p} \cup Range(each)
    BY <1>6, <1>7, MadeOf, RangeOf
  <2> QED
    BY <1>6, <1>7, <2>1, <2>2
<1> HIDE DEF q
<1>11. \A x \in Range(q) : ~Misplaced(x, t)
  <2>1. ASSUME NEW x \in Range(q) PROVE ~Misplaced(x, t)
    <3>1. x = o \/ x = p \/ x \in Quiet \cap Firm
      BY <1>6, <1>10
    <3>2. /\ ~x.keepGoing
          /\ x.do = "task" => OnMessages(x.arg)
      BY <1>3, <3>1 DEF Quiet, Firm
    <3>3. x.do = "task" => x.arg.type \notin ByMethod
      BY <3>2 DEF OnMessages, ByMethod
    <3> QED
      BY <1>5, <3>2, <3>3 DEF Misplaced, Changing
  <2> QED
    BY <2>1
<1>12. InOrder(r)
  <2>1. \A x \in Range(q), y \in Range(last) : ~Misplaced(x, y)
    BY <1>8, <1>11
  <2> QED
    BY <1>8, <1>10, <2>1, JoinOrder
<1>14. Made(r) = {w} /\ Range(r) = {o, p} \cup Range(each) \cup {t}
  BY <1>8, <1>10, MadeOf, RangeOf
<1> HIDE DEF r
<1>15. Followed(table, {w}, p)
  <2>1. Comes({w}, n, {"del_interface"}) /\ \A x \in {w} : x[2] = n
    BY DEF Comes
  <2> QED
    BY <1>3, <2>1 DEF Followed
<1>16. Followed(table, {w}, o) /\ Followed(table, {w}, t)
  BY <1>3, <1>5, NeedsNone DEF Changing
<1>17. \A st \in Range(r) : Followed(table, Made(r), st)
  BY <1>6, <1>14, <1>15, <1>16, NeedsNone
<1>18. ~Steady(r)
  BY <1>3, <1>14 DEF Steady, Changing
<1> QED
  BY <1>1, <1>12, <1>17, <1>18 DEF ScriptInv

\* updateInterface
LEMMA UpdateFollowed ==
  ASSUME NEW d \in Description, operations \subseteq Ops,
         TableOK(interfaces), interfaces[d.name] # None,
         interfaces \in [Name -> Interface \cup {None}]
  PROVE  ScriptInv(UpdateStatements(d), interfaces)
<1> DEFINE n == d.name
           old == interfaces[n]
           new == d.interface
           oldOps == {op \in operations : op.contract = d.name}
           deleted == {op \in oldOps : \A q \in d.operations : q.name # op.name}
           added == {op \in d.operations : \A q \in oldOps : q.name # op.name}
           changed == d.operations \ (oldOps \cup added)
           Each(do, ops) == [k \in DOMAIN SetToSeq(ops) |->
                                Statement(do, SetToSeq(ops)[k], FALSE)]
           Ask(type, g) == Statement("task", InterfaceTask(type, n, g), FALSE)
           Of(type, ops) ==
              FlattenSeq([k \in DOMAIN SetToSeq(ops) |->
                  <<Statement("task", OperationTask(type, SetToSeq(ops)[k]),
                              FALSE)>>])
           OfMethods(type, g) == Only(g # {}, <<Ask(type, g)>>)
           u == Statement("update", d, FALSE)
           p1 == Only(old # new, <<u>>)
           p5 == Only(MatchingDiffers(old, new), <<Ask("upd_interface", {})>>)
           add == Added(old.methods, new.methods)
           upd == Changed(old.methods, new.methods)
           del == Deleted(old.methods, new.methods)
           whole == <<Ask("upd_interface", {})>>
           script == p1 \o Each("delete", deleted) \o Each("change", changed)
                     \o Each("add", added) \o p5
                     \o OfMethods("add_get_method", add)
                     \o OfMethods("upd_get_method", upd)
                     \o OfMethods("del_get_method", del)
                     \o Of("del_operation", deleted)
                     \o Of("upd_operation", added \cup changed)
           \* A part of the script that makes the tasks of M.
           Good(q, M) ==
              /\ q \in Seq(Firm) /\ InOrder(q) /\ Made(q) = M
              /\ u \in Range(q) <=> old # new
              /\ \A x \in Range(q) \ {u} :
                    x \in Quiet \/ (x.do = "task" /\ ~OnMessages(x.arg))
           Maybe(c, w) == IF c THEN {w} ELSE {}
<1>1. UpdateStatements(d) = script
  BY Zenon DEF UpdateStatements, ForEach
<1>2. /\ d.operations \in SUBSET Ops /\ n \in Name
      /\ old \in Interface /\ new \in Interface
      /\ old # None
  BY RescanAssumption, InterfacesOf DEF Ops, Interface, RescanAssumption, TableOK
<1>3. /\ deleted \in SUBSET Ops /\ changed \in SUBSET Ops
      /\ added \in SUBSET Ops /\ added \cup changed \in SUBSET Ops
  BY <1>2
<1> HIDE DEF deleted, changed, added
<1>4. /\ add \in SUBSET Method /\ upd \in SUBSET Method /\ del \in SUBSET Method
      /\ add \subseteq Names(new.methods) /\ del \cap Names(new.methods) = {}
  BY <1>2 DEF Added, Changed, Deleted, Method
<1>5. ASSUME NEW type \in {"upd_interface"} \cup ByMethod, NEW g \in SUBSET Method
      PROVE  LET t == Ask(type, g) IN
             /\ t \in Firm /\ t.do = "task" /\ ~OnMessages(t.arg)
             /\ t.arg.type = type /\ What(t.arg) = <<type, n, g>>
             /\ t # u
  <2> DEFINE k == InterfaceTask(type, n, g)
             t == Ask(type, g)
  <2>1. type \in Whole \cup ByMethod
    BY DEF Whole
  <2>2. k.type = type /\ ~OnMessages(k) /\ What(k) = <<type, n, g>>
    BY <2>1, WhatOf
  <2>3. k \in NewTask
    BY <1>2, NewTasks DEF ByMethod
  <2>4. u.do = "update"
    BY DEF Statement
  <2> HIDE DEF k, u
  <2>5. t = [do |-> "task", arg |-> k, keepGoing |-> FALSE]
    BY DEF Statement, k
  <2> HIDE DEF t
  <2>6. t \in Firm /\ t.do = "task" /\ t.arg = k
    BY <2>3, <2>5 DEF Firm, StatementSet
  <2> QED
    BY <2>2, <2>4, <2>6 DEF t
<1>6. u \in Firm /\ u.do = "update" /\ u.arg = d /\ ~u.keepGoing
  BY DEF Statement, StatementSet, Firm
<1>7. u \notin Quiet
  BY <1>6 DEF Quiet
<1>8. /\ \A do \in {"add", "change", "delete"}, ops \in SUBSET Ops :
            Each(do, ops) \in Seq(Quiet \cap Firm)
      /\ \A type \in {"upd_operation", "del_operation"}, ops \in SUBSET Ops :
            Of(type, ops) \in Seq(Quiet \cap Firm)
  BY QuietOf
<1>9. \A s \in Seq(Firm) : s \in Seq(StatementSet)
  BY DEF Firm
<1> HIDE DEF u, Each, Of, Ask, old, new, add, upd, del
<1>10. Good(p1, {})
  <2>1. CASE old = new
    <3>1. p1 = <<>>
      BY <2>1 DEF Only
    <3> QED
      BY <2>1, <3>1, RangeOf, ShortOrder, MadeOf, QuietSeqs
  <2>2. CASE old # new
    <3>1. p1 = <<u>>
      BY <2>2 DEF Only
    <3>2. Made(<<u>>) = {}
      BY <1>6, MadeShort
    <3>3. Range(<<u>>) = {u} /\ InOrder(<<u>>)
      BY RangeOf, ShortOrder
    <3>4. <<u>> \in Seq(Firm)
      BY <1>6
    <3> QED
      BY <2>2, <3>1, <3>2, <3>3, <3>4
  <2> QED
    BY <2>1, <2>2
<1> HIDE DEF p1
<1>11. ASSUME NEW q, NEW M, Good(q, M), NEW r \in Seq(Quiet \cap Firm)
       PROVE  Good(q \o r, M)
  <2>1. r \in Seq(Quiet) /\ r \in Seq(Firm) /\ q \in Seq(Firm)
    BY <1>11, QuietSeqs
  <2>2. q \in Seq(StatementSet) /\ r \in Seq(StatementSet)
    BY <1>9, <2>1
  <2>3. /\ InOrder(r) /\ Made(r) = {}
        /\ \A x, y : y \in Range(r) => ~Misplaced(x, y)
        /\ \A y \in Range(r) : y \in Quiet
    BY <2>1, QuietIs
  <2>4. InOrder(q \o r)
    BY <1>11, <2>2, <2>3, JoinOrder
  <2>5. Made(q \o r) = M /\ Range(q \o r) = Range(q) \cup Range(r)
    <3>1. Made(q \o r) = Made(q) \cup Made(r)
      BY <2>2, MadeOf
    <3>2. Range(q \o r) = Range(q) \cup Range(r)
      BY <2>2, RangeOf
    <3> QED
      BY <1>11, <2>3, <3>1, <3>2
  <2>6. q \o r \in Seq(Firm)
    BY <2>1, QuietSeqs
  <2> QED
    BY <1>7, <1>11, <2>3, <2>4, <2>5, <2>6
<1>12. ASSUME NEW q, NEW M, Good(q, M), NEW c \in BOOLEAN,
              NEW type \in {"upd_interface"} \cup ByMethod, NEW g \in SUBSET Method,
              type = "upd_interface" => M = {}
       PROVE  Good(q \o Only(c, <<Ask(type, g)>>), M \cup Maybe(c, <<type, n, g>>))
  <2> DEFINE t == Ask(type, g)
             r == Only(c, <<t>>)
             w == <<type, n, g>>
  <2>1. /\ t \in Firm /\ t.do = "task" /\ ~OnMessages(t.arg)
        /\ t.arg.type = type /\ What(t.arg) = w /\ t # u
    BY <1>5
  <2> HIDE DEF t, w
  <2>2. q \in Seq(Firm) /\ q \in Seq(StatementSet) /\ t \in StatementSet
    BY <1>9, <1>12, <2>1 DEF Firm
  <2>3. /\ r \in Seq(Firm) /\ InOrder(r)
        /\ Made(r) = (IF c THEN {w} ELSE {}) /\ Range(r) = (IF c THEN {t} ELSE {})
    <3>1. CASE c
      <4>1. r = <<t>>
        BY <3>1 DEF Only
      <4>2. Made(<<t>>) = {w}
        BY <2>1, MadeShort
      <4>3. Range(<<t>>) = {t} /\ InOrder(<<t>>)
        BY RangeOf, ShortOrder
      <4>4. <<t>> \in Seq(Firm)
        BY <2>1
      <4> QED
        BY <3>1, <4>1, <4>2, <4>3, <4>4
    <3>2. CASE ~c
      <4>1. r = <<>>
        BY <3>2 DEF Only
      <4> QED
        BY <3>2, <4>1, RangeOf, ShortOrder, MadeOf, QuietSeqs
    <3> QED
      BY <3>1, <3>2
  <2> HIDE DEF r
  <2>4. r \in Seq(StatementSet)
    BY <1>9, <2>3
  <2>5. ASSUME NEW x \in Range(q) PROVE ~Misplaced(x, t)
    <3>1. ~x.keepGoing
      <4>1. x \in Firm
        BY <2>2, RangeOf
      <4> QED
        BY <4>1 DEF Firm
    <3>2. ASSUME type = "upd_interface", x.do = "task", x.arg.type \in ByMethod
          PROVE  FALSE
      <4>1. ~OnMessages(x.arg)
        BY <3>2 DEF OnMessages, ByMethod
      <4>2. What(x.arg) \in Made(q)
        BY <3>2, <4>1 DEF Made
      <4> QED
        BY <1>12, <3>2, <4>2
    <3>3. t.arg.type \in Whole => type = "upd_interface"
      BY <2>1 DEF Whole, ByMethod
    <3> QED
      BY <2>1, <3>1, <3>2, <3>3 DEF Misplaced, Changing
  <2>6. InOrder(q \o r)
    <3>1. \A x \in Range(q), y \in Range(r) : ~Misplaced(x, y)
      BY <2>3, <2>5
    <3> QED
      BY <1>12, <2>2, <2>3, <2>4, <3>1, JoinOrder
  <2>7. /\ Made(q \o r) = M \cup Maybe(c, w)
        /\ Range(q \o r) = Range(q) \cup Range(r)
    BY <1>12, <2>2, <2>3, <2>4, MadeOf, RangeOf
  <2>8. q \o r \in Seq(Firm)
    BY <2>2, <2>3, QuietSeqs
  <2>9. Good(q \o r, M \cup Maybe(c, w))
    BY <1>12, <2>1, <2>3, <2>6, <2>7, <2>8
  <2> QED
    BY <2>9 DEF r, t, w
<1> DEFINE q4 == p1 \o Each("delete", deleted) \o Each("change", changed)
                 \o Each("add", added)
           q5 == q4 \o p5
           q6 == q5 \o OfMethods("add_get_method", add)
           q7 == q6 \o OfMethods("upd_get_method", upd)
           q8 == q7 \o OfMethods("del_get_method", del)
           m5 == Maybe(MatchingDiffers(old, new), <<"upd_interface", n, {}>>)
           m6 == m5 \cup Maybe(add # {}, <<"add_get_method", n, add>>)
           m7 == m6 \cup Maybe(upd # {}, <<"upd_get_method", n, upd>>)
           m8 == m7 \cup Maybe(del # {}, <<"del_get_method", n, del>>)
<1> HIDE DEF Good, Maybe
<1>13. Good(q4, {})
  <2>1. /\ Each("delete", deleted) \in Seq(Quiet \cap Firm)
        /\ Each("change", changed) \in Seq(Quiet \cap Firm)
        /\ Each("add", added) \in Seq(Quiet \cap Firm)
    BY <1>3, <1>8
  <2>2. Good(p1 \o Each("delete", deleted), {})
    BY <1>10, <1>11, <2>1
  <2>3. Good(p1 \o Each("delete", deleted) \o Each("change", changed), {})
    BY <1>11, <2>1, <2>2
  <2> QED
    BY <1>11, <2>1, <2>3
<1> HIDE DEF q4
<1>14. Good(q5, m5)
  <2>1. MatchingDiffers(old, new) \in BOOLEAN /\ {} \in SUBSET Method
    BY DEF MatchingDiffers
  <2>2. Good(q5, {} \cup m5)
    BY <1>12, <1>13, <2>1
  <2>3. {} \cup m5 = m5
    OBVIOUS
  <2> QED
    BY <2>2, <2>3
<1> HIDE DEF q5, m5
<1>15. Good(q6, m6)
  <2>1. (add # {}) \in BOOLEAN /\ "add_get_method" \in {"upd_interface"} \cup ByMethod
    BY DEF ByMethod
  <2> QED
    BY <1>4, <1>12, <1>14, <2>1
<1> HIDE DEF q6, m6
<1>16. Good(q7, m7)
  <2>1. (upd # {}) \in BOOLEAN /\ "upd_get_method" \in {"upd_interface"} \cup ByMethod
    BY DEF ByMethod
  <2> QED
    BY <1>4, <1>12, <1>15, <2>1
<1> HIDE DEF q7, m7
<1>17. Good(q8, m8)
  <2>1. (del # {}) \in BOOLEAN /\ "del_get_method" \in {"upd_interface"} \cup ByMethod
    BY DEF ByMethod
  <2> QED
    BY <1>4, <1>12, <1>16, <2>1
<1> HIDE DEF q8, m8
<1>18. Good(script, m8)
  <2>1. /\ Of("del_operation", deleted) \in Seq(Quiet \cap Firm)
        /\ Of("upd_operation", added \cup changed) \in Seq(Quiet \cap Firm)
    BY <1>3, <1>8
  <2>2. Good(q8 \o Of("del_operation", deleted), m8)
    BY <1>11, <1>17, <2>1
  <2>3. Good(q8 \o Of("del_operation", deleted)
                \o Of("upd_operation", added \cup changed), m8)
    BY <1>11, <2>1, <2>2
  <2> HIDE DEF OfMethods, p5
  <2> QED
    BY <2>3 DEF q8, q7, q6, q5, q4
<1> HIDE DEF script
<1>19. m8 = (IF MatchingDiffers(old, new) THEN {<<"upd_interface", n, {}>>} ELSE {})
            \cup (IF add # {} THEN {<<"add_get_method", n, add>>} ELSE {})
            \cup (IF upd # {} THEN {<<"upd_get_method", n, upd>>} ELSE {})
            \cup (IF del # {} THEN {<<"del_get_method", n, del>>} ELSE {})
  BY DEF m8, m7, m6, m5, Maybe
<1>20. \A w \in m8 :
          /\ w[2] = n
          /\ \/ w[1] = "upd_interface" \/ w[1] = "upd_get_method"
             \/ w[1] = "add_get_method" /\ w[3] = add
             \/ w[1] = "del_get_method" /\ w[3] = del
  BY <1>19
<1>21. ASSUME NEW table, table[n] = new, NEW w \in m8
       PROVE  w[2] = n /\ Meant(table, w)
  <2>1. /\ w[1] # "del_interface"
        /\ w[1] = "add_get_method" => w[3] \subseteq Names(new.methods)
        /\ w[1] = "del_get_method" => w[3] \cap Names(new.methods) = {}
    BY <1>4, <1>20
  <2> QED
    BY <1>20, <1>21, <2>1 DEF Meant
<1>22. Followed(interfaces, m8, u)
  <2>1. MatchingDiffers(old, new) => Comes(m8, n, {"upd_interface"})
    <3>1. ASSUME MatchingDiffers(old, new)
          PROVE  Comes(m8, n, {"upd_interface"})
      <4>1. <<"upd_interface", n, {}>> \in m8
        BY <1>19, <3>1
      <4> QED
        BY <4>1 DEF Comes
    <3> QED
      BY <3>1
  <2>2. \A g \in upd : Reruns(m8, n, g)
    <3>1. ASSUME NEW g \in upd PROVE Reruns(m8, n, g)
      <4>1. <<"upd_get_method", n, upd>> \in m8
        BY <1>19
      <4> QED
        BY <3>1, <4>1 DEF Reruns
    <3> QED
      BY <3>1
  <2> DEFINE table == [interfaces EXCEPT ![n] = new]
  <2>3. table[n] = new
    BY <1>2
  <2> HIDE DEF table
  <2>4. \A w \in m8 : w[2] = n /\ Meant(table, w)
    BY <1>21, <2>3
  <2> QED
    BY <1>2, <1>6, <2>1, <2>2, <2>4 DEF Followed, upd, old, new, table
<1>23. /\ InOrder(script) /\ Made(script) = m8
       /\ u \in Range(script) <=> old # new
       /\ \A x \in Range(script) \ {u} :
             /\ x \in Firm
             /\ x \in Quiet \/ (x.do = "task" /\ ~OnMessages(x.arg))
  BY <1>18, RangeOf DEF Good
<1>24. ASSUME NEW x \in Range(script) PROVE Followed(interfaces, m8, x)
  <2>1. CASE x = u
    BY <1>22, <2>1
  <2>2. CASE x \in Quiet
    BY <2>2, NeedsNone
  <2>3. CASE x \in Firm /\ x.do = "task"
    BY <2>3, NeedsNone DEF Firm, Changing
  <2> QED
    BY <1>23, <2>1, <2>2, <2>3
<1>25. Steady(script) => \A w \in m8 : Meant(interfaces, w)
  <2>1. Steady(script) => old = new
    BY <1>6, <1>23 DEF Steady, Changing
  <2>2. old = new => interfaces[n] = new
    BY DEF old
  <2> QED
    BY <1>21, <2>1, <2>2
<1> QED
  BY <1>1, <1>23, <1>24, <1>25 DEF ScriptInv

\* What is left of a script whose first statement was executed.
LEMMA ScriptRest ==
  ASSUME NEW s \in Seq(StatementSet), s # <<>>, NEW table, ScriptInv(s, table)
  PROVE  LET h == Head(s) IN
         /\ Tail(s) \in Seq(StatementSet) /\ InOrder(Tail(s))
         /\ \A y \in Range(Tail(s)) : ~Misplaced(h, y)
         /\ Range(s) = {h} \cup Range(Tail(s))
         /\ Made(s) = Made(Tail(s)) \cup
              IF h.do = "task" /\ ~OnMessages(h.arg) THEN {What(h.arg)} ELSE {}
         /\ ToMake(Tail(s)) = Made(Tail(s))
         /\ h.do \in Changing \cup {"task"} => Steady(Tail(s))
         /\ Followed(table, Made(s), h)
<1> DEFINE h == Head(s)
<1>1. /\ Tail(s) \in Seq(StatementSet)
      /\ Range(s) = {h} \cup Range(Tail(s))
  BY RangeOf
<1>2. InOrder(Tail(s)) /\ \A y \in Range(Tail(s)) : ~Misplaced(h, y)
  BY TailOrder DEF ScriptInv
<1>3. ToMake(Tail(s)) = Made(Tail(s))
  <2>1. CASE Tail(s) = <<>>
    BY <2>1 DEF ToMake
  <2>2. CASE Tail(s) # <<>>
    <3> DEFINE r == Tail(s)
    <3> HIDE DEF r
    <3>1. Head(r) \in Range(r)
      <4>1. r \in Seq(StatementSet) /\ r # <<>>
        BY <1>1, <2>2 DEF r
      <4> QED
        BY <4>1, RangeOf
    <3>2. Head(r).do # "insert"
      BY <1>2, <3>1 DEF Misplaced, r
    <3> QED
      BY <3>2 DEF ToMake, r
  <2> QED
    BY <2>1, <2>2
<1>4. h.do \in Changing \cup {"task"} => Steady(Tail(s))
  BY <1>2 DEF Misplaced, Steady
<1>5. Followed(table, Made(s), h)
  BY <1>1 DEF ScriptInv
<1> QED
  BY <1>1, <1>2, <1>3, <1>4, <1>5, MadeOf

\* A statement that leaves the interfaces alone.
LEMMA OtherFollowed ==
  ASSUME NEW s \in Seq(StatementSet), s # <<>>, NEW table, ScriptInv(s, table),
         Head(s).do \notin Changing
  PROVE  LET h == Head(s) IN
         /\ ScriptInv(Tail(s), table)
         /\ ToMake(s) = ToMake(Tail(s)) \cup
              IF h.do = "task" /\ ~OnMessages(h.arg) THEN {What(h.arg)} ELSE {}
         /\ Steady(s) => Steady(Tail(s))
         /\ h.do = "task" => Steady(s)
         /\ h.do = "task" /\ ~OnMessages(h.arg) =>
               /\ Meant(table, What(h.arg))
               /\ h.arg.type \in ByMethod => \A w \in ToMake(Tail(s)) : w[1] \notin Whole
<1> DEFINE h == Head(s)
           r == Tail(s)
<1>1. /\ r \in Seq(StatementSet) /\ InOrder(r)
      /\ \A y \in Range(r) : ~Misplaced(h, y)
      /\ Range(s) = {h} \cup Range(r)
      /\ Made(s) = Made(r) \cup
           IF h.do = "task" /\ ~OnMessages(h.arg) THEN {What(h.arg)} ELSE {}
      /\ ToMake(r) = Made(r)
      /\ h.do \in Changing \cup {"task"} => Steady(r)
  BY ScriptRest
<1>2. ToMake(s) = Made(s)
  BY DEF ToMake, Changing
<1> HIDE DEF h, r
<1>3. h.do \notin Changing
  BY DEF h
<1>4. Steady(s) <=> Steady(r)
  BY <1>1, <1>3 DEF Steady
<1>5. ASSUME NEW y \in Range(r) PROVE Followed(table, Made(r), y)
  <2>1. Followed(table, Made(s), y)
    BY <1>1 DEF ScriptInv
  <2>2. CASE y.do \in Changing
    <3>1. h.do # "task"
      BY <1>1, <1>5, <2>2 DEF Misplaced
    <3>2. Made(s) = Made(r)
      BY <1>1, <3>1
    <3> QED
      BY <2>1, <3>2
  <2>3. CASE y.do \notin Changing
    BY <2>1, <2>3 DEF Followed, Changing
  <2> QED
    BY <2>2, <2>3
<1>6. Steady(s) => \A w \in Made(s) : Meant(table, w)
  BY DEF ScriptInv
<1>7. ScriptInv(r, table)
  BY <1>1, <1>4, <1>5, <1>6 DEF ScriptInv
<1>8. ASSUME h.do = "task", ~OnMessages(h.arg), h.arg.type \in ByMethod,
             NEW w \in Made(r)
      PROVE  w[1] \notin Whole
  <2>1. PICK y \in Range(r) : y.do = "task" /\ ~OnMessages(y.arg) /\ w = What(y.arg)
    BY <1>8 DEF Made
  <2>2. y.arg.type \notin Whole
    BY <1>1, <1>8, <2>1 DEF Misplaced
  <2> QED
    BY <2>1, <2>2 DEF What
<1> QED
  BY <1>1, <1>2, <1>3, <1>4, <1>6, <1>7, <1>8 DEF h, r

\* One that changes them: the tasks for that are still to be made.
LEMMA ChangeFollowed ==
  ASSUME NEW s \in Seq(StatementSet), s # <<>>, NEW table, NEW new,
         table \in [Name -> Interface \cup {None}], TableOK(table),
         ScriptInv(s, table), NEW n \in Name,
         \/ /\ Head(s).do = "insert" /\ n = Head(s).arg.name /\ table[n] = None
            /\ new = [table EXCEPT ![n] = Head(s).arg.interface]
         \/ /\ Head(s).do = "update" /\ n = Head(s).arg.name
            /\ new = [table EXCEPT ![n] = Head(s).arg.interface]
         \/ /\ Head(s).do = "drop" /\ n = Head(s).arg
            /\ new = [table EXCEPT ![n] = None]
  PROVE  /\ TableOK(new) /\ TableChanged(table, new, ToMake(Tail(s)), n)
         /\ ScriptInv(Tail(s), new) /\ ToMake(s) \subseteq ToMake(Tail(s))
<1> DEFINE h == Head(s)
           r == Tail(s)
<1>1. /\ r \in Seq(StatementSet) /\ InOrder(r)
      /\ \A y \in Range(r) : ~Misplaced(h, y)
      /\ Range(s) = {h} \cup Range(r)
      /\ Made(s) = Made(r) \cup
           IF h.do = "task" /\ ~OnMessages(h.arg) THEN {What(h.arg)} ELSE {}
      /\ ToMake(r) = Made(r)
      /\ h.do \in Changing \cup {"task"} => Steady(r)
      /\ Followed(table, Made(s), h)
  BY ScriptRest
<1>2. /\ h.do \in {"insert", "update", "drop"} /\ h \in StatementSet
      /\ h.do = "insert" => n = h.arg.name /\ table[n] = None
      /\ h.do = "update" => n = h.arg.name
      /\ h.do = "drop" => n = h.arg
      /\ new = [table EXCEPT ![n] = IF h.do = "drop" THEN None ELSE h.arg.interface]
  BY RangeOf
<1>3. ToMake(s) \subseteq Made(s)
  BY DEF ToMake
<1> HIDE DEF h, r
<1>4. Made(s) = Made(r) /\ Steady(r)
  BY <1>1, <1>2 DEF Changing
<1>5. \A y \in Range(r) : Followed(new, Made(r), y)
  <2>1. ASSUME NEW y \in Range(r) PROVE Followed(new, Made(r), y)
    <3>1. y.do \notin Changing
      BY <1>4 DEF Steady
    <3>2. Followed(table, Made(s), y)
      BY <1>1 DEF ScriptInv
    <3> QED
      BY <3>1, <3>2 DEF Followed, Changing
  <2> QED
    BY <2>1
<1>6. /\ \A m \in Name : m # n => new[m] = table[m]
      /\ new[n] = IF h.do = "drop" THEN None ELSE h.arg.interface
  BY <1>2
<1>7. ASSUME h.do # "drop"
      PROVE  h.arg.interface \in Described(n) /\ h.arg.interface # None
  <2>1. h.arg \in Description
    BY <1>2, <1>7 DEF StatementSet
  <2> QED
    BY <1>2, <1>7, <2>1, RescanAssumption DEF Described, RescanAssumption
<1>8. TableOK(new)
  BY <1>6, <1>7 DEF TableOK
<1>9. TableChanged(table, new, Made(r), n) /\ \A w \in Made(r) : Meant(new, w)
  <2>1. CASE h.do = "insert"
    <3>1. /\ Comes(Made(r), n, {"add_interface"})
          /\ \A w \in Made(r) : w[1] = "add_interface"
      BY <1>1, <1>2, <1>4, <2>1 DEF Followed
    <3> QED
      BY <1>2, <1>6, <2>1, <3>1 DEF TableChanged, Meant
  <2>2. CASE h.do = "drop"
    <3>1. /\ Comes(Made(r), n, {"del_interface"})
          /\ \A w \in Made(r) : w[2] = n
      BY <1>1, <1>2, <1>4, <2>2 DEF Followed
    <3> QED
      BY <1>2, <1>6, <2>2, <3>1 DEF TableChanged, Meant
  <2>3. CASE h.do = "update"
    <3> DEFINE i == h.arg.interface
    <3>1. /\ table[n] # None
          /\ MatchingDiffers(table[n], i) => Comes(Made(r), n, {"upd_interface"})
          /\ \A g \in Changed(table[n].methods, i.methods) : Reruns(Made(r), n, g)
          /\ \A w \in Made(r) : w[2] = n /\ Meant([table EXCEPT ![n] = i], w)
      BY <1>1, <1>2, <1>4, <2>3 DEF Followed
    <3>2. new = [table EXCEPT ![n] = i] /\ new[n] = i /\ i # None
      BY <1>2, <1>6, <1>7, <2>3
    <3> HIDE DEF i
    <3> QED
      BY <1>6, <3>1, <3>2 DEF TableChanged
  <2> QED
    BY <1>2, <2>1, <2>2, <2>3
<1>10. ScriptInv(r, new)
  BY <1>1, <1>5, <1>9 DEF ScriptInv
<1> QED
  BY <1>1, <1>3, <1>4, <1>8, <1>9, <1>10 DEF r

\* One that is left out with its task.
LEMMA SkipFollowed ==
  ASSUME NEW s \in Scripts, s # <<>>, NEW table, ScriptInv(s, table),
         Head(s).keepGoing, Head(s).do # "task"
  PROVE  /\ ScriptInv(Tail(Tail(s)), table) /\ ToMake(s) = {}
         /\ Steady(s) => Steady(Tail(Tail(s)))
<1> DEFINE h == Head(s)
           r == Tail(s)
           q == Tail(r)
<1>1. s \in Seq(StatementSet) /\ r # <<>>
  <2>1. s \in Seq(StatementSet)
    BY DEF Scripts
  <2>2. 1 \in 1..Len(s) /\ h = s[1]
    BY <2>1
  <2>3. Len(s) > 1
    BY <2>2 DEF Scripts
  <2>4. Len(r) = Len(s) - 1 /\ Len(s) \in Nat
    BY <2>1
  <2>5. Len(r) # 0
    BY <2>3, <2>4
  <2>6. Len(<<>>) = 0
    OBVIOUS
  <2> HIDE DEF r
  <2>7. r # <<>>
    BY <2>5, <2>6
  <2> QED
    BY <2>1, <2>7
<1>2. /\ r \in Seq(StatementSet) /\ InOrder(r)
      /\ \A y \in Range(r) : ~Misplaced(h, y)
      /\ Range(s) = {h} \cup Range(r)
      /\ Made(s) = Made(r)
      /\ h.do \in Changing \cup {"task"} => Steady(r)
      /\ Followed(table, Made(s), h)
  BY <1>1, ScriptRest
<1>3. h.do \in {"insert", "add"} /\ h.keepGoing
  BY <1>2 DEF Followed
<1>4. ToMake(s) = IF h.do = "insert" THEN {} ELSE Made(s)
  BY DEF ToMake
<1> HIDE DEF h, r
<1>5. /\ q \in Seq(StatementSet) /\ InOrder(q) /\ Range(q) \subseteq Range(r)
      /\ Made(q) \subseteq Made(r)
  <2>1. Range(r) = {Head(r)} \cup Range(q) /\ q \in Seq(StatementSet)
    BY <1>1, <1>2, RangeOf
  <2>2. InOrder(q)
    BY <1>1, <1>2, TailOrder
  <2> QED
    BY <2>1, <2>2 DEF Made
<1> HIDE DEF q
<1>6. Steady(s) => Steady(q)
  BY <1>2, <1>5 DEF Steady
<1>7. CASE h.do = "insert"
  <2>1. Steady(q)
    BY <1>2, <1>5, <1>7 DEF Steady, Changing
  <2>2. \A w \in Made(q) : Meant(table, w)
    <3>1. \A w \in Made(q) : w[1] = "add_interface"
      BY <1>2, <1>5, <1>7 DEF Followed
    <3> QED
      BY <3>1 DEF Meant
  <2>3. ASSUME NEW y \in Range(q) PROVE Followed(table, Made(q), y)
    <3>1. y.do \notin Changing
      BY <2>1 DEF Steady
    <3>2. Followed(table, Made(s), y)
      BY <1>2, <1>5 DEF ScriptInv
    <3> QED
      BY <3>1, <3>2 DEF Followed, Changing
  <2>4. ScriptInv(q, table)
    BY <1>5, <2>2, <2>3 DEF ScriptInv
  <2> QED
    BY <1>4, <1>6, <1>7, <2>4 DEF q, r
<1>8. CASE h.do = "add"
  <2>1. Made(r) = {}
    <3>1. \A y \in Range(r) : ~(y.do = "task" /\ ~OnMessages(y.arg))
      BY <1>2, <1>3, <1>8 DEF Misplaced
    <3> QED
      BY <3>1 DEF Made
  <2>2. Made(q) = {} /\ Made(s) = {}
    BY <1>2, <1>5, <2>1
  <2>3. \A y \in Range(q) : Followed(table, Made(q), y)
    BY <1>2, <1>5, <2>2 DEF ScriptInv
  <2>4. ScriptInv(q, table)
    BY <1>5, <2>2, <2>3 DEF ScriptInv
  <2> QED
    BY <1>4, <1>6, <1>8, <2>2, <2>4 DEF q, r
<1> QED
  BY <1>3, <1>7, <1>8

-----------------------------------------------------------------------------
\* The data, in every step.
Ground ==
  /\ TypeOK /\ rest \in Scripts /\ InTurn /\ PlaceOK
  /\ pending # {} => pc = "written"

\* Tasks on states, and what is to be done by them while one is worked on.
LEMMA DueOfTasks ==
  ASSUME Ground
  PROVE  /\ \A k \in OnStates : k \in DOMAIN tasks /\ k \in Nat /\ tasks[k] \in TaskRow
                                /\ What(tasks[k])[2] = tasks[k].name
                                /\ tasks[k].name \in Name
         /\ pc # "idle" => /\ job \in Unfinished /\ job \in DOMAIN tasks
                           /\ tasks[job] \in TaskRow
         /\ tasks = <<>> => Unfinished = {} /\ pc = "idle" /\ pending = {}
         /\ pc # "idle" /\ ~OnMessages(tasks[job]) =>
               /\ job \in OnStates
               /\ \A s : Coming(s) = Later(job) \cup
                     IF After(s, Reached(job)) THEN {What(tasks[job])} ELSE {}
<1>1. tasks \in Seq(TaskRow) /\ Unfinished \subseteq DOMAIN tasks /\ OnStates \subseteq Unfinished
  BY DEF Ground, TypeOK, Unfinished, OnStates
<1>2. \A k \in DOMAIN tasks : k \in Nat /\ tasks[k] \in TaskRow
  BY <1>1
<1>3. pc # "idle" => job \in Unfinished /\ \A k \in Unfinished : job <= k
  BY DEF Ground, InTurn
<1>4. \A t \in TaskRow : t.name \in Name /\ What(t)[2] = t.name
  BY DEF TaskRow, What
<1>5. tasks = <<>> => Unfinished = {} /\ pc = "idle" /\ pending = {}
  <2>1. tasks = <<>> => DOMAIN tasks = {}
    OBVIOUS
  <2> QED
    BY <1>1, <1>3, <2>1 DEF Ground
<1>6. ASSUME pc # "idle", ~OnMessages(tasks[job]), NEW s
      PROVE  Coming(s) = Later(job) \cup
                     IF After(s, Reached(job)) THEN {What(tasks[job])} ELSE {}
  <2>1. ASSUME NEW k \in OnStates, k # job PROVE job < k /\ After(s, Reached(k))
    <3>1. job \in Nat /\ k \in Nat /\ job <= k /\ job \in Unfinished /\ k \in Unfinished
      BY <1>1, <1>2, <1>3, <1>6
    <3>2. job < k
      BY <2>1, <3>1
    <3>3. tasks[k].last = Start
      BY <3>1, <3>2 DEF Ground, InTurn
    <3>4. Reached(k) = Start
      BY <2>1, <3>3 DEF Reached
    <3>5. Start[2] = 0
      BY DEF Start
    <3> QED
      BY <3>2, <3>4, <3>5 DEF After
  <2>2. job \in OnStates /\ ~(job < job)
    BY <1>1, <1>2, <1>3, <1>6 DEF OnStates
  <2>3. {i \in OnStates : job < i} = OnStates \ {job}
    BY <2>1, <2>2
  <2>4. {i \in OnStates : After(s, Reached(i))}
           = (OnStates \ {job}) \cup IF After(s, Reached(job)) THEN {job} ELSE {}
    BY <2>1, <2>2
  <2> QED
    BY <2>3, <2>4 DEF Coming, Later
<1>7. pc # "idle" /\ ~OnMessages(tasks[job]) => job \in OnStates
  BY <1>3 DEF OnStates
<1> QED
  BY <1>1, <1>2, <1>3, <1>4, <1>5, <1>6, <1>7

\* A script that makes as much, while the queue stays.
LEMMA DueKept ==
  ASSUME UNCHANGED <<tasks, pc, job, place>>, ToMake(rest) \subseteq ToMake(rest')
  PROVE  /\ OnStates' = OnStates /\ Unfinished' = Unfinished
         /\ \A s : Coming(s) \subseteq Coming(s)' /\ ToMake(rest') \subseteq Coming(s)'
         /\ \A k : Later(k) \subseteq Later(k)' /\ ToMake(rest') \subseteq Later(k)'
<1>1. OnStates' = OnStates /\ Unfinished' = Unfinished
  BY DEF OnStates, Unfinished, OnMessages
<1>2. \A k : Reached(k)' = Reached(k)
  BY DEF Reached
<1>3. \A s : Coming(s)' = {What(tasks[k]) : k \in {i \in OnStates : After(s, Reached(i))}}
                            \cup ToMake(rest')
  BY <1>1, <1>2 DEF Coming
<1>4. \A k : Later(k)' = {What(tasks[j]) : j \in {i \in OnStates : k < i}}
                            \cup ToMake(rest')
  BY <1>1 DEF Later
<1> QED
  BY <1>1, <1>3, <1>4 DEF Coming, Later

\* Nothing but the script changes.
LEMMA ScriptChanges ==
  ASSUME UNCHANGED <<interfaces, tasks, pc, job, place, contract, accounts>>,
         ToMake(rest) \subseteq ToMake(rest'),
         DataInv, ContractInv, MeaningInv
  PROVE  DataInv' /\ ContractInv' /\ MeaningInv'
<1>1. /\ OnStates' = OnStates
      /\ \A s : Coming(s) \subseteq Coming(s)'
      /\ \A k : Later(k) \subseteq Later(k)'
  BY DueKept
<1>2. DataInv'
  <2>1. ASSUME NEW s \in State, NoWallet(s), NEW n \in Name
        PROVE  Settled(interfaces, Coming(s)', n, s, accounts[s])
    BY <1>1, <2>1, DueGrows DEF DataInv
  <2> QED
    BY <2>1 DEF DataInv
<1>3. ContractInv'
  BY <1>1, DueGrows DEF ContractInv, UsesContract, OnMessages
<1>4. MeaningInv'
  <2>1. ASSUME NEW k \in OnStates
        PROVE  Meant(interfaces, What(tasks[k])) \/ Comes(Later(k)', tasks[k].name, Whole)
    BY <1>1, <2>1, DueGrows DEF MeaningInv
  <2> QED
    BY <1>1, <2>1 DEF MeaningInv
<1> QED
  BY <1>2, <1>3, <1>4

\* An interface changes, and the script has the tasks for that.
LEMMA TableChanges ==
  ASSUME Ground, UNCHANGED <<tasks, pc, job, place, contract, accounts>>,
         ToMake(rest) \subseteq ToMake(rest'),
         TableOK(interfaces), TableOK(interfaces'), NEW n \in Name,
         TableChanged(interfaces, interfaces', ToMake(rest'), n),
         DataInv, ContractInv, MeaningInv
  PROVE  DataInv' /\ ContractInv' /\ MeaningInv'
<1> DEFINE old == interfaces
           new == interfaces'
<1>1. /\ OnStates' = OnStates
      /\ \A s : Coming(s) \subseteq Coming(s)' /\ ToMake(rest') \subseteq Coming(s)'
      /\ \A k : Later(k) \subseteq Later(k)' /\ ToMake(rest') \subseteq Later(k)'
  BY DueKept
<1>2. ASSUME NEW E, ToMake(rest') \subseteq E PROVE TableChanged(old, new, E, n)
  BY <1>2, DueGrows DEF TableChanged
<1>3. ASSUME NEW D, NEW E, D \subseteq E, ToMake(rest') \subseteq E
      PROVE  /\ \A m \in Name : \A s, a : Settled(old, D, m, s, a) => Settled(new, E, m, s, a)
             /\ \A m \in Name : \A i \in Described(m) :
                   Fits(old, D, m, i) => Fits(new, E, m, i)
             /\ \A w : w[2] \in Name /\ (Meant(old, w) \/ Comes(D, w[2], Whole))
                          => Meant(new, w) \/ Comes(E, w[2], Whole)
  <2>1. TableChanged(old, new, E, n)
    BY <1>2, <1>3
  <2> HIDE DEF old, new
  <2> QED
    BY <1>3, <2>1, TableChange DEF old, new
<1>4. DataInv'
  <2>1. ASSUME NEW s \in State, NoWallet(s), NEW m \in Name
        PROVE  Settled(new, Coming(s)', m, s, accounts[s])
    <3>1. Settled(old, Coming(s), m, s, accounts[s])
      BY <2>1 DEF DataInv
    <3> QED
      BY <1>1, <1>3, <3>1
  <2> QED
    BY <2>1 DEF DataInv
<1>5. ContractInv'
  <2>1. ASSUME pc # "idle", UsesContract(tasks[job])
        PROVE  /\ contract \in Described(tasks[job].name)
               /\ Fits(new, Later(job)', tasks[job].name, contract)
    <3>1. tasks[job].name \in Name
      BY <2>1, DueOfTasks DEF TaskRow
    <3>2. /\ contract \in Described(tasks[job].name)
          /\ Fits(old, Later(job), tasks[job].name, contract)
      BY <2>1 DEF ContractInv
    <3> QED
      BY <1>1, <1>3, <3>1, <3>2
  <2> QED
    BY <2>1 DEF ContractInv, UsesContract, OnMessages
<1>6. MeaningInv'
  <2>1. ASSUME NEW k \in OnStates
        PROVE  Meant(new, What(tasks[k])) \/ Comes(Later(k)', tasks[k].name, Whole)
    <3>1. What(tasks[k])[2] = tasks[k].name /\ tasks[k].name \in Name
      BY <2>1, DueOfTasks
    <3>2. Meant(old, What(tasks[k])) \/ Comes(Later(k), What(tasks[k])[2], Whole)
      BY <2>1, <3>1 DEF MeaningInv
    <3>3. Meant(new, What(tasks[k])) \/ Comes(Later(k)', What(tasks[k])[2], Whole)
      BY <1>1, <1>3, <3>1, <3>2
    <3> QED
      BY <3>1, <3>3
  <2> QED
    BY <1>1, <2>1 DEF MeaningInv
<1> QED
  BY <1>4, <1>5, <1>6

\* What is lost stays lost.
LEMMA LossStays ==
  ASSUME ShownInv, [Next]_vars, Lossless'
  PROVE  Lossless
<1>1. faults \subseteq faults' /\ (commands' = commands \/ commands' = commands + 1)
  BY DEF Next, vars, service, Command, RunStatement, CommandFails, Fetch, WriteBatch,
         WriteStates, WriteMessages, InsertRows, SavePlace, Finish, Abandon,
         SaveMessage, Merge
<1>2. commands > 1 => commands' > 1
  BY <1>1 DEF ShownInv
<1> QED
  BY <1>1, <1>2 DEF Lossless

\* The contract command is started.
LEMMA CommandFollows ==
  ASSUME Ground, FollowInv, Command
  PROVE  FollowInv'
<1>1. /\ rest = <<>> /\ commands' = commands + 1 /\ commands \in Nat
      /\ UNCHANGED <<interfaces, operations, tasks, accounts, shown, pc, job, contract,
                     pending, place, faults>>
  BY DEF Command, database, service, FollowInv, ShownInv
<1>2. PICK d \in Description :
         \/ rest' = AddStatements(d)
         \/ interfaces[d.name] # None /\ rest' = UpdateStatements(d)
         \/ interfaces[d.name] # None /\ rest' = DeleteStatements(d.name)
  BY DEF Command
<1>3. ShownInv'
  <2>1. commands' \in Nat /\ commands' # 0
    BY <1>1
  <2> QED
    BY <1>1, <2>1 DEF FollowInv, ShownInv
<1>4. ASSUME Lossless' PROVE Follows'
  <2>1. Follows
    BY <1>4, LossStays DEF FollowInv, Next
  <2>2. ToMake(rest) = {}
    BY <1>1, MadeOf DEF ToMake
  <2>3. DataInv' /\ ContractInv' /\ MeaningInv'
    BY <1>1, <2>1, <2>2, ScriptChanges DEF Follows
  <2>4. DataOK'
    BY <1>1, <2>1 DEF Follows, DataOK
  <2>5. ScriptInv(rest', interfaces')
    <3>1. /\ operations \subseteq Ops /\ d.name \in Name
          /\ interfaces \in [Name -> Interface \cup {None}]
          /\ TableOK(interfaces)
      BY <2>1, RescanAssumption DEF RescanAssumption, Ground, TypeOK, Follows, DataOK, TableOK
    <3> QED
      BY <1>1, <1>2, <3>1, AddFollowed, UpdateFollowed, DeleteFollowed
  <2>6. AloneInv'
    <3>1. ASSUME commands' <= 1
          PROVE  /\ commands <= 1 /\ tasks = <<>> /\ OnStates' = {} /\ pc = "idle"
      <4>1. commands = 0
        BY <1>1, <3>1
      <4>2. tasks = <<>>
        BY <4>1 DEF FollowInv, ShownInv
      <4>3. Unfinished = {} /\ pc = "idle"
        BY <4>2, DueOfTasks
      <4>4. OnStates' = {}
        BY <1>1, <4>3 DEF OnStates, Unfinished
      <4> QED
        BY <4>1, <4>2, <4>3, <4>4
    <3>2. ASSUME commands' <= 1
          PROVE  \A s \in State : NoWallet(s) =>
              /\ \A r \in accounts[s].runs : r[1] \in accounts[s].types
              /\ accounts[s].types \subseteq shown[s] \cup MatchedBy(interfaces, s)
      BY <2>1, <3>1, <3>2 DEF Follows, AloneInv
    <3> QED
      BY <1>1, <3>1, <3>2 DEF AloneInv
  <2> QED
    BY <2>3, <2>4, <2>5, <2>6 DEF Follows
<1> QED
  BY <1>3, <1>4 DEF FollowInv

\* A statement makes a task.
LEMMA TaskFollows ==
  ASSUME Ground, FollowInv, RunStatement, Head(rest).do = "task"
  PROVE  FollowInv'
<1> DEFINE t == Head(rest).arg
<1> PICK N : N = Len(tasks) + 1
  OBVIOUS
<1>1. /\ rest # <<>> /\ rest' = Tail(rest) /\ tasks' = Append(tasks, t)
      /\ UNCHANGED <<interfaces, commands, accounts, shown, pc, job, contract,
                     pending, place, faults>>
  BY DEF RunStatement, Accepts, Execute, service, database
<1>2. rest \in Seq(StatementSet) /\ TypeOK
  BY DEF Ground, Scripts
<1>3. t \in NewTask
  <2>1. Head(rest) \in StatementSet
    BY <1>1, <1>2, RangeOf
  <2> QED
    BY <2>1 DEF StatementSet
<1> HIDE DEF t
<1>4. /\ DOMAIN tasks' = DOMAIN tasks \cup {N}
      /\ \A k \in DOMAIN tasks : tasks'[k] = tasks[k]
      /\ tasks'[N] = t /\ tasks' # <<>>
      /\ Unfinished' = Unfinished \cup {N}
  BY <1>1, <1>2, <1>3, Appended
<1>5. N \notin DOMAIN tasks /\ \A k \in DOMAIN tasks : k < N
  BY <1>2 DEF TypeOK
<1>6. OnStates \subseteq DOMAIN tasks /\ N \in Nat
  BY <1>2 DEF OnStates, Unfinished, TypeOK
<1>7. OnStates' = OnStates \cup IF OnMessages(t) THEN {} ELSE {N}
  <2>1. \A k \in Unfinished : OnMessages(tasks'[k]) <=> OnMessages(tasks[k])
    BY <1>4 DEF Unfinished
  <2>2. OnStates' = {k \in Unfinished' : ~OnMessages(tasks'[k])}
    BY DEF OnStates
  <2> QED
    BY <1>4, <2>1, <2>2 DEF OnStates
<1>8. ShownInv'
  BY <1>1, <1>4 DEF FollowInv, ShownInv
<1>9. ASSUME Lossless' PROVE Follows'
  <2>1. Follows
    BY <1>9, LossStays DEF FollowInv, Next
  <2>2. /\ ScriptInv(rest', interfaces)
        /\ ToMake(rest) = ToMake(rest') \cup IF OnMessages(t) THEN {} ELSE {What(t)}
        /\ Steady(rest')
        /\ ~OnMessages(t) =>
              /\ Meant(interfaces, What(t))
              /\ t.type \in ByMethod => \A w \in ToMake(rest') : w[1] \notin Whole
    <3>1. ScriptInv(rest, interfaces) /\ Head(rest).do \notin Changing
      BY <2>1 DEF Follows, Changing
    <3> QED
      BY <1>1, <1>2, <3>1, OtherFollowed DEF t
  <2>3. /\ \A k \in OnStates : Reached(k)' = Reached(k)
        /\ ~OnMessages(t) => Reached(N)' = Start
    <3>1. pc # "idle" => job \in DOMAIN tasks
      BY DueOfTasks
    <3>2. t.last = Start
      BY <1>3 DEF NewTask
    <3>3. \A k \in OnStates : tasks'[k].last = tasks[k].last
      BY <1>4, <1>6
    <3>4. \A k : Reached(k)' = IF k = job /\ pc \in {"written", "inserted"} THEN place
                               ELSE tasks'[k].last
      BY <1>1 DEF Reached
    <3>5. pc # "idle" => job # N
      BY <1>5, <3>1
    <3>6. N = job => pc \notin {"written", "inserted"}
      BY <3>5
    <3>7. Reached(N)' = Start
      <4>1. tasks'[N].last = Start
        BY <1>4, <3>2
      <4>2. Reached(N)' = tasks'[N].last
        BY <3>4, <3>6
      <4> QED
        BY <4>1, <4>2
    <3>8. \A k \in OnStates : Reached(k)' = Reached(k)
      BY <3>3, <3>4 DEF Reached
    <3> QED
      BY <3>7, <3>8
  <2>4. \A k \in OnStates : What(tasks'[k]) = What(tasks[k])
    BY <1>4, <1>6
  <2>5. \A s : Coming(s) \subseteq Coming(s)'
    <3>1. ASSUME NEW s PROVE Coming(s) \subseteq Coming(s)'
      <4>1. Coming(s)' = {What(tasks'[k]) : k \in {i \in OnStates' : After(s, Reached(i)')}}
                            \cup ToMake(rest')
        BY DEF Coming
      <4>2. ~OnMessages(t) => N \in {i \in OnStates' : After(s, Reached(i)')}
        <5>1. After(s, Start)
          BY DEF After, Start
        <5>2. ASSUME ~OnMessages(t) PROVE After(s, Reached(N)')
          <6>1. Reached(N)' = Start
            BY <2>3, <5>2
          <6> QED
            BY <5>1, <6>1
        <5> QED
          BY <1>7, <5>2
      <4>3. ~OnMessages(t) => What(t) \in Coming(s)'
        BY <1>4, <4>1, <4>2
      <4>4. ASSUME NEW k \in OnStates, After(s, Reached(k))
            PROVE  What(tasks[k]) \in Coming(s)'
        <5>1. k \in {i \in OnStates' : After(s, Reached(i)')}
          BY <1>7, <2>3, <4>4
        <5> QED
          BY <2>4, <4>1, <5>1
      <4> QED
        BY <2>2, <4>1, <4>3, <4>4 DEF Coming
    <3> QED
      BY <3>1
  <2>6. \A k : Later(k)' = {What(tasks'[j]) : j \in {i \in OnStates' : k < i}}
                             \cup ToMake(rest')
    BY DEF Later
  <2>7. ASSUME NEW k \in OnStates PROVE Later(k)' = Later(k)
    <3>1. k < N
      BY <1>5, <1>6
    <3>2. {i \in OnStates' : k < i}
             = {i \in OnStates : k < i} \cup IF OnMessages(t) THEN {} ELSE {N}
      BY <1>7, <3>1
    <3>3. {What(tasks'[j]) : j \in {i \in OnStates' : k < i}}
             = {What(tasks[j]) : j \in {i \in OnStates : k < i}}
                  \cup IF OnMessages(t) THEN {} ELSE {What(t)}
      BY <1>4, <2>4, <3>2
    <3> QED
      BY <2>2, <2>6, <3>3 DEF Later
  <2>8. ~OnMessages(t) => Later(N)' = ToMake(rest')
    <3>1. \A i \in OnStates' : ~(N < i)
      BY <1>5, <1>6, <1>7, <1>2 DEF TypeOK
    <3>2. {i \in OnStates' : N < i} = {}
      BY <3>1
    <3>3. {What(tasks'[j]) : j \in {i \in OnStates' : N < i}} = {}
      BY <3>2
    <3>4. Later(N)' = {What(tasks'[j]) : j \in {i \in OnStates' : N < i}} \cup ToMake(rest')
      BY <2>6
    <3> QED
      BY <3>3, <3>4
  <2>9. DataOK'
    BY <1>1, <2>1 DEF Follows, DataOK
  <2>10. DataInv'
    <3>1. ASSUME NEW s \in State, NoWallet(s), NEW n \in Name
          PROVE  Settled(interfaces, Coming(s)', n, s, accounts[s])
      <4>1. Settled(interfaces, Coming(s), n, s, accounts[s])
        BY <2>1, <3>1 DEF Follows, DataInv
      <4> QED
        BY <2>5, <4>1, DueGrows
    <3> QED
      BY <1>1, <3>1 DEF DataInv
  <2>11. pc # "idle" => /\ tasks'[job] = tasks[job]
                        /\ UsesContract(tasks[job]) => job \in OnStates
    BY <1>4, DueOfTasks DEF UsesContract
  <2>12. ContractInv'
    <3>1. ASSUME pc # "idle", UsesContract(tasks'[job])
          PROVE  /\ contract \in Described(tasks'[job].name)
                 /\ Fits(interfaces, Later(job)', tasks'[job].name, contract)
      <4>1. tasks'[job] = tasks[job] /\ UsesContract(tasks[job])
        BY <2>11, <3>1
      <4>2. Later(job)' = Later(job)
        BY <1>1, <2>7, <2>11, <3>1, <4>1
      <4> QED
        BY <2>1, <3>1, <4>1, <4>2 DEF Follows, ContractInv
    <3> QED
      BY <1>1, <3>1 DEF ContractInv, UsesContract, OnMessages
  <2>13. MeaningInv'
    <3>1. ASSUME NEW k \in OnStates'
          PROVE  Meant(interfaces, What(tasks'[k]))
                   \/ Comes(Later(k)', tasks'[k].name, Whole)
      <4>1. CASE k \in OnStates
        BY <1>4, <1>6, <2>1, <2>7, <4>1 DEF Follows, MeaningInv
      <4>2. CASE k \notin OnStates
        BY <1>4, <1>7, <2>2, <3>1, <4>2
      <4> QED
        BY <4>1, <4>2
    <3> QED
      BY <1>1, <3>1 DEF MeaningInv
  <2>14. AloneInv'
    <3>1. ASSUME commands <= 1, NEW k \in OnStates', tasks'[k].type \in ByMethod,
                 NEW w \in Later(k)'
          PROVE  w[1] \notin Whole
      <4>1. CASE k \in OnStates
        BY <1>4, <1>6, <2>1, <2>7, <3>1, <4>1 DEF Follows, AloneInv
      <4>2. CASE k \notin OnStates
        <5>1. ~OnMessages(t) /\ k = N
          BY <1>7, <4>2
        <5>2. t.type \in ByMethod
          BY <1>4, <3>1, <5>1
        <5>3. w \in ToMake(rest')
          BY <2>8, <3>1, <5>1
        <5> QED
          BY <2>2, <5>1, <5>2, <5>3
      <4> QED
        BY <4>1, <4>2
    <3>2. ASSUME commands <= 1
          PROVE  /\ pc # "idle" /\ UsesContract(tasks'[job])
                       => contract = interfaces[tasks'[job].name]
                 /\ \A s \in State : NoWallet(s) =>
                      /\ \A r \in accounts[s].runs : r[1] \in accounts[s].types
                      /\ accounts[s].types \subseteq shown[s] \cup MatchedBy(interfaces, s)
      BY <2>1, <2>11, <3>2 DEF Follows, AloneInv
    <3> QED
      BY <1>1, <2>2, <3>1, <3>2 DEF AloneInv
  <2> QED
    BY <1>1, <2>2, <2>9, <2>10, <2>12, <2>13, <2>14 DEF Follows
<1> QED
  BY <1>8, <1>9 DEF FollowInv

\* A statement of the only command that changes the interfaces meets no task.
LEMMA AloneScript ==
  ASSUME Ground, FollowInv, Follows,
         UNCHANGED <<tasks, pc, job, place, contract, accounts, shown, commands>>,
         \/ /\ interfaces' = interfaces /\ ToMake(rest') \subseteq ToMake(rest)
            /\ Steady(rest) => Steady(rest')
         \/ ~Steady(rest)
  PROVE  AloneInv'
<1>1. OnStates' = OnStates /\ Unfinished' = Unfinished
  BY DEF OnStates, Unfinished, OnMessages
<1>2. CASE ~Steady(rest)
  <2>1. ASSUME commands <= 1
        PROVE  /\ tasks = <<>> /\ pc = "idle" /\ pending = {} /\ OnStates = {}
               /\ "insert" \notin faults
    <3>1. tasks = <<>>
      BY <1>2, <2>1 DEF Follows, AloneInv
    <3>2. Unfinished = {} /\ pc = "idle" /\ pending = {}
      BY <3>1, DueOfTasks
    <3> QED
      BY <3>1, <3>2 DEF OnStates, FollowInv, ShownInv
  <2>2. ASSUME commands <= 1, NEW s \in State, NoWallet(s)
        PROVE  /\ \A r \in accounts[s].runs : r[1] \in accounts[s].types
               /\ accounts[s].types \subseteq shown[s]
    BY <2>1, <2>2 DEF Follows, AloneInv, FollowInv, ShownInv
  <2> QED
    BY <1>1, <2>1, <2>2 DEF AloneInv
<1>3. CASE /\ interfaces' = interfaces /\ ToMake(rest') \subseteq ToMake(rest)
           /\ Steady(rest) => Steady(rest')
  <2>1. \A k : Later(k)' \subseteq Later(k)
    <3>1. \A k : Later(k)' = {What(tasks[j]) : j \in {i \in OnStates : k < i}}
                                \cup ToMake(rest')
      BY <1>1 DEF Later
    <3> QED
      BY <1>3, <3>1 DEF Later
  <2> QED
    BY <1>1, <1>3, <2>1 DEF Follows, AloneInv, UsesContract, OnMessages
<1> QED
  BY <1>2, <1>3

\* What is shown stays so.
LEMMA ShownStays ==
  ASSUME FollowInv, rest # <<>>,
         UNCHANGED <<tasks, accounts, shown, pending, commands>>,
         faults' = faults \/ faults' = faults \cup {"command"}
  PROVE  ShownInv'
BY DEF FollowInv, ShownInv

\* A statement is executed, or it fails.
LEMMA OtherStatementFollows ==
  ASSUME Ground, FollowInv, RunStatement, Head(rest).do # "task"
  PROVE  FollowInv'
<1> DEFINE h == Head(rest)
<1>1. /\ rest # <<>>
      /\ UNCHANGED <<tasks, commands, accounts, shown, pc, job, contract, pending, place>>
      /\ IF Accepts(h) THEN Execute(h) /\ rest' = Tail(rest) /\ faults' = faults
         ELSE /\ rest' = AfterError /\ interfaces' = interfaces
              /\ faults' = IF h.keepGoing THEN faults ELSE faults \cup {"command"}
  BY DEF RunStatement, Execute, service, database
<1>2. /\ rest \in Scripts /\ rest \in Seq(StatementSet) /\ TypeOK
      /\ interfaces \in [Name -> Interface \cup {None}]
  BY DEF Ground, Scripts, TypeOK
<1>3. ShownInv'
  BY <1>1, ShownStays
<1>4. ASSUME Lossless' PROVE Follows'
  <2>1. Follows
    BY <1>4, LossStays DEF FollowInv, Next
  <2>2. TableOK(interfaces) /\ ScriptInv(rest, interfaces)
    BY <2>1 DEF Follows, DataOK, TableOK
  <2>3. DataInv /\ ContractInv /\ MeaningInv
    BY <2>1 DEF Follows
  <2>4. CASE Accepts(h) /\ h.do \in Changing
    <3>1. h \in StatementSet
      BY <1>1, <1>2, RangeOf
    <3>2. PICK n \in Name :
             \/ /\ h.do = "insert" /\ n = h.arg.name /\ interfaces[n] = None
                /\ interfaces' = [interfaces EXCEPT ![n] = h.arg.interface]
             \/ /\ h.do = "update" /\ n = h.arg.name
                /\ interfaces' = [interfaces EXCEPT ![n] = h.arg.interface]
             \/ /\ h.do = "drop" /\ n = h.arg
                /\ interfaces' = [interfaces EXCEPT ![n] = None]
      <4>1. CASE h.do = "insert"
        <5>1. h.arg \in Description /\ h.arg.name \in Name
          BY <3>1, <4>1, RescanAssumption DEF StatementSet, RescanAssumption
        <5>2. interfaces[h.arg.name] = None
          BY <2>4, <4>1 DEF Accepts
        <5> QED
          BY <1>1, <2>4, <4>1, <5>1, <5>2 DEF Execute
      <4>2. CASE h.do = "update"
        <5>1. h.arg \in Description /\ h.arg.name \in Name
          BY <3>1, <4>2, RescanAssumption DEF StatementSet, RescanAssumption
        <5> QED
          BY <1>1, <2>4, <4>2, <5>1 DEF Execute
      <4>3. CASE h.do = "drop"
        <5>1. h.arg \in Name
          BY <3>1, <4>3 DEF StatementSet
        <5> QED
          BY <1>1, <2>4, <4>3, <5>1 DEF Execute
      <4> QED
        BY <2>4, <4>1, <4>2, <4>3 DEF Changing
    <3>3. /\ TableOK(interfaces') /\ TableChanged(interfaces, interfaces', ToMake(rest'), n)
          /\ ScriptInv(rest', interfaces') /\ ToMake(rest) \subseteq ToMake(rest')
      <4> DEFINE new == interfaces'
      <4>1. \/ /\ Head(rest).do = "insert" /\ n = Head(rest).arg.name /\ interfaces[n] = None
               /\ new = [interfaces EXCEPT ![n] = Head(rest).arg.interface]
            \/ /\ Head(rest).do = "update" /\ n = Head(rest).arg.name
               /\ new = [interfaces EXCEPT ![n] = Head(rest).arg.interface]
            \/ /\ Head(rest).do = "drop" /\ n = Head(rest).arg
               /\ new = [interfaces EXCEPT ![n] = None]
        BY <3>2
      <4>2. rest' = Tail(rest)
        BY <1>1, <2>4
      <4> HIDE DEF new
      <4>3. /\ TableOK(new) /\ TableChanged(interfaces, new, ToMake(Tail(rest)), n)
            /\ ScriptInv(Tail(rest), new) /\ ToMake(rest) \subseteq ToMake(Tail(rest))
        BY <1>1, <1>2, <2>2, <4>1, ChangeFollowed
      <4> QED
        BY <4>2, <4>3 DEF new
    <3>4. DataInv' /\ ContractInv' /\ MeaningInv'
      BY <1>1, <2>2, <2>3, <3>3, TableChanges
    <3>5. DataOK'
      BY <1>1, <2>1, <3>3 DEF Follows, DataOK, TableOK
    <3>6. ~Steady(rest)
      BY <1>1, <1>2, <2>4, RangeOf DEF Steady
    <3>7. AloneInv'
      BY <1>1, <2>1, <3>6, AloneScript
    <3> QED
      BY <3>3, <3>4, <3>5, <3>7 DEF Follows
  <2>5. CASE Accepts(h) /\ h.do \notin Changing
    <3>1. interfaces' = interfaces /\ rest' = Tail(rest)
      BY <1>1, <2>5 DEF Execute, Changing
    <3>2. /\ ScriptInv(rest', interfaces') /\ ToMake(rest) = ToMake(rest')
          /\ Steady(rest) => Steady(rest')
      BY <1>1, <1>2, <2>2, <2>5, <3>1, OtherFollowed
    <3>3. DataInv' /\ ContractInv' /\ MeaningInv'
      BY <1>1, <2>3, <3>1, <3>2, ScriptChanges
    <3>4. DataOK'
      BY <1>1, <2>1, <3>1 DEF Follows, DataOK
    <3>5. AloneInv'
      BY <1>1, <2>1, <3>1, <3>2, AloneScript
    <3> QED
      BY <3>2, <3>3, <3>4, <3>5 DEF Follows
  <2>6. CASE ~Accepts(h) /\ h.keepGoing
    <3>1. interfaces' = interfaces /\ rest' = Tail(Tail(rest))
      BY <1>1, <2>6 DEF AfterError
    <3>2. /\ ScriptInv(rest', interfaces') /\ ToMake(rest) = {}
          /\ Steady(rest) => Steady(rest')
      BY <1>1, <1>2, <2>2, <2>6, <3>1, SkipFollowed
    <3>3. DataInv' /\ ContractInv' /\ MeaningInv'
      BY <1>1, <2>3, <3>1, <3>2, ScriptChanges
    <3>4. DataOK'
      BY <1>1, <2>1, <3>1 DEF Follows, DataOK
    <3>5. Steady(rest) => ToMake(rest') \subseteq ToMake(rest)
      <4>1. Tail(rest) \in Seq(StatementSet) /\ Tail(rest) # <<>>
        <5>1. Len(rest) > 1
          BY <1>1, <1>2, <2>6 DEF Scripts
        <5>2. Tail(rest) \in Seq(StatementSet) /\ Len(Tail(rest)) = Len(rest) - 1
          BY <1>1, <1>2, HeadTailProperties
        <5>3. Tail(rest) # <<>>
          <6> DEFINE q == Tail(rest)
          <6>1. Len(q) # 0
            BY <1>2, <5>1, <5>2
          <6> HIDE DEF q
          <6>2. q # <<>>
            BY <6>1
          <6> QED
            BY <6>2 DEF q
        <5> QED
          BY <5>2, <5>3
      <4>2. Made(Tail(Tail(rest))) \subseteq Made(Tail(rest)) /\ Made(Tail(rest)) \subseteq Made(rest)
        BY <1>1, <1>2, <4>1, MadeOf
      <4>3. Steady(rest) => ToMake(rest) = Made(rest)
        BY <1>1, <1>2, RangeOf DEF ToMake, Steady, Changing
      <4> QED
        BY <3>1, <4>2, <4>3 DEF ToMake
    <3>6. AloneInv'
      BY <1>1, <2>1, <3>1, <3>2, <3>5, AloneScript
    <3> QED
      BY <3>2, <3>3, <3>4, <3>6 DEF Follows
  <2>7. CASE ~Accepts(h) /\ ~h.keepGoing
    BY <1>1, <1>4, <2>7 DEF Lossless
  <2> QED
    BY <2>4, <2>5, <2>6, <2>7
<1> QED
  BY <1>3, <1>4 DEF FollowInv

\* The command fails.
LEMMA CommandFailsFollows ==
  ASSUME FollowInv, CommandFails
  PROVE  FollowInv'
<1>1. /\ rest # <<>> /\ faults' = faults \cup {"command"}
      /\ UNCHANGED <<tasks, accounts, shown, pending, commands>>
  BY DEF CommandFails, service
<1>2. ShownInv' /\ ~Lossless'
  BY <1>1, ShownStays DEF Lossless
<1> QED
  BY <1>2 DEF FollowInv

\* A step that changes no task in what it does, and none's progress.
LEMMA QueueStays ==
  ASSUME Unfinished' = Unfinished, UNCHANGED <<rest, interfaces, accounts>>,
         \A k \in Unfinished : tasks'[k].type = tasks[k].type /\ What(tasks'[k]) = What(tasks[k]),
         \A k \in OnStates : Reached(k)' = Reached(k),
         Ground, Follows
  PROVE  /\ OnStates' = OnStates /\ \A k : Later(k)' = Later(k)
         /\ \A s : Coming(s)' = Coming(s)
         /\ DataOK' /\ DataInv' /\ MeaningInv' /\ ScriptInv(rest', interfaces')
<1>1. OnStates' = OnStates
  BY DEF OnStates, OnMessages
<1>2. \A k \in OnStates : What(tasks'[k]) = What(tasks[k]) /\ tasks'[k].name = tasks[k].name
  BY DEF OnStates, What
<1>3. ASSUME NEW k PROVE Later(k)' = Later(k)
  <2>1. Later(k)' = {What(tasks'[j]) : j \in {i \in OnStates : k < i}} \cup ToMake(rest)
    BY <1>1 DEF Later
  <2> QED
    BY <1>2, <2>1 DEF Later
<1>4. ASSUME NEW s PROVE Coming(s)' = Coming(s)
  <2>1. Coming(s)' = {What(tasks'[k]) : k \in {i \in OnStates : After(s, Reached(i)')}}
                        \cup ToMake(rest)
    BY <1>1 DEF Coming
  <2>2. {i \in OnStates : After(s, Reached(i)')} = {i \in OnStates : After(s, Reached(i))}
    OBVIOUS
  <2> QED
    BY <1>2, <2>1, <2>2 DEF Coming
<1>5. DataOK' /\ DataInv' /\ ScriptInv(rest', interfaces')
  BY <1>4 DEF Follows, DataOK, DataInv
<1>6. MeaningInv'
  BY <1>1, <1>2, <1>3 DEF Follows, MeaningInv
<1> QED
  BY <1>1, <1>3, <1>4, <1>5, <1>6

\* The service takes a task.
LEMMA FetchFollows ==
  ASSUME Ground, FollowInv, Fetch
  PROVE  FollowInv'
<1>1. /\ pc = "idle" /\ pc' = "fetched"
      /\ UNCHANGED <<interfaces, tasks, rest, commands, accounts, shown, pending, faults>>
  BY DEF Fetch, database
<1>2. PICK k \in Unfinished : /\ job' = k /\ ~Orphaned(tasks[k])
                              /\ contract' = interfaces[tasks[k].name]
  <2>1. Unfinished # {} /\ Unfinished \subseteq Nat
    BY DEF Fetch, Ground, TypeOK, Unfinished
  <2>2. Oldest \in Unfinished
    BY <2>1, LeastExists DEF Oldest
  <2> QED
    BY <2>2 DEF Fetch
<1>3. tasks[k].name \in Name
  <2>1. tasks \in Seq(TaskRow) /\ k \in DOMAIN tasks
    BY DEF Ground, TypeOK, Unfinished
  <2>2. tasks[k] \in TaskRow
    BY <2>1
  <2> QED
    BY <2>2 DEF TaskRow
<1>4. ShownInv'
  BY <1>1 DEF FollowInv, ShownInv
<1>5. ASSUME Lossless' PROVE Follows'
  <2>1. Follows
    BY <1>5, LossStays DEF FollowInv, Next
  <2>2. \A j \in OnStates : Reached(j)' = Reached(j)
    BY <1>1 DEF Reached
  <2>3. Unfinished' = Unfinished
    BY <1>1 DEF Unfinished
  <2>4. /\ OnStates' = OnStates /\ \A j : Later(j)' = Later(j)
        /\ DataOK' /\ DataInv' /\ MeaningInv' /\ ScriptInv(rest', interfaces')
    BY <1>1, <2>1, <2>2, <2>3, QueueStays
  <2>5. ContractInv'
    <3>1. ASSUME UsesContract(tasks[k])
          PROVE  LET n == tasks[k].name
                 IN interfaces[n] \in Described(n) /\ Fits(interfaces, Later(k)', n, interfaces[n])
      <4>1. interfaces[tasks[k].name] # None
        BY <1>2, <3>1 DEF Orphaned, UsesContract, OnMessages
      <4>2. interfaces[tasks[k].name] \in Described(tasks[k].name)
        BY <1>3, <2>1, <4>1 DEF Follows, DataOK
      <4>3. \A i : ~MatchingDiffers(i, i) /\ Changed(i.methods, i.methods) = {}
        BY DEF MatchingDiffers, Changed, Names
      <4> QED
        BY <4>1, <4>2, <4>3 DEF Fits
    <3>2. ASSUME UsesContract(tasks[k])
          PROVE  /\ contract' \in Described(tasks[k].name)
                 /\ Fits(interfaces, Later(k)', tasks[k].name, contract')
      BY <1>2, <3>1, <3>2
    <3> QED
      BY <1>1, <1>2, <3>2 DEF ContractInv, UsesContract, OnMessages
  <2>6. AloneInv'
    BY <1>1, <1>2, <2>1, <2>4 DEF Follows, AloneInv, UsesContract, OnMessages
  <2> QED
    BY <2>4, <2>5, <2>6 DEF Follows
<1> QED
  BY <1>4, <1>5 DEF FollowInv

\* ClickHouse gets the new rows.
LEMMA InsertFollows ==
  ASSUME Ground, FollowInv, InsertRows
  PROVE  FollowInv'
<1>1. /\ pc = "written" /\ pc' = "inserted" /\ pending' = {}
      /\ UNCHANGED <<interfaces, tasks, rest, commands, accounts, job, contract, place,
                     faults>>
  BY DEF InsertRows, database
<1>2. \A s \in State :
         IF s \notin pending THEN shown'[s] = shown[s] ELSE accounts[s].types \subseteq shown'[s]
  BY DEF InsertRows
<1>3. ShownInv'
  <2>1. "insert" \notin faults => \A s \in State : accounts[s].types \subseteq shown'[s]
    BY <1>2 DEF FollowInv, ShownInv
  <2> QED
    BY <1>1, <2>1 DEF FollowInv, ShownInv
<1>4. ASSUME Lossless' PROVE Follows'
  <2>1. Follows
    BY <1>4, LossStays DEF FollowInv, Next
  <2>2. \A j \in OnStates : Reached(j)' = Reached(j)
    BY <1>1 DEF Reached
  <2>3. Unfinished' = Unfinished
    BY <1>1 DEF Unfinished
  <2>4. /\ OnStates' = OnStates /\ \A j : Later(j)' = Later(j)
        /\ DataOK' /\ DataInv' /\ MeaningInv' /\ ScriptInv(rest', interfaces')
    BY <1>1, <2>1, <2>2, <2>3, QueueStays
  <2>5. ContractInv'
    BY <1>1, <2>1, <2>4 DEF Follows, ContractInv, UsesContract, OnMessages
  <2>6. AloneInv'
    <3>1. ASSUME commands <= 1, NEW s \in State, NoWallet(s)
          PROVE  /\ \A r \in accounts[s].runs : r[1] \in accounts[s].types
                 /\ accounts[s].types \subseteq shown'[s] \cup MatchedBy(interfaces, s)
      BY <1>2, <2>1, <3>1 DEF Follows, AloneInv
    <3>2. commands <= 1 =>
             /\ tasks # <<>> => Steady(rest)
             /\ UsesContract(tasks[job]) => contract = interfaces[tasks[job].name]
             /\ \A k \in OnStates : tasks[k].type \in ByMethod =>
                   \A w \in Later(k) : w[1] \notin Whole
      BY <1>1, <2>1 DEF Follows, AloneInv
    <3> QED
      BY <1>1, <2>4, <3>1, <3>2 DEF AloneInv, UsesContract, OnMessages
  <2> QED
    BY <2>4, <2>5, <2>6 DEF Follows
<1> QED
  BY <1>3, <1>4 DEF FollowInv

\* The checkpoint is saved.
LEMMA SaveFollows ==
  ASSUME Ground, FollowInv, SavePlace
  PROVE  FollowInv'
<1>1. /\ pc = "inserted" /\ pc' = "idle" /\ pending' = {} /\ pending = {} /\ job' = 0
      /\ UNCHANGED <<interfaces, rest, commands, accounts, shown, faults>>
      /\ tasks' = [tasks EXCEPT ![job].last = place]
  BY DEF SavePlace, ToIdle, database, Ground
<1>2. job \in Unfinished /\ job \in DOMAIN tasks /\ tasks[job] \in TaskRow /\ tasks # <<>>
  BY <1>1, DueOfTasks
<1>3. /\ Unfinished' = Unfinished /\ DOMAIN tasks' = DOMAIN tasks
      /\ \A k \in DOMAIN tasks : k # job => tasks'[k] = tasks[k]
      /\ tasks'[job] = [tasks[job] EXCEPT !.last = place]
  BY <1>1, <1>2, SavedTask DEF Ground
<1>4. /\ tasks'[job].last = place /\ tasks'[job].type = tasks[job].type
      /\ What(tasks'[job]) = What(tasks[job])
  BY <1>2, <1>3 DEF TaskRow, What
<1>5. tasks' # <<>>
  <2>1. DOMAIN tasks' # {}
    BY <1>2, <1>3
  <2>2. DOMAIN <<>> = {}
    OBVIOUS
  <2> QED
    BY <2>1, <2>2
<1>6. ShownInv'
  BY <1>1, <1>2, <1>5 DEF FollowInv, ShownInv
<1>7. ASSUME Lossless' PROVE Follows'
  <2>1. Follows
    BY <1>7, LossStays DEF FollowInv, Next
  <2>2. \A k \in Unfinished : k \in DOMAIN tasks /\ tasks'[k].type = tasks[k].type
                              /\ What(tasks'[k]) = What(tasks[k])
    BY <1>3, <1>4 DEF Unfinished
  <2>3. \A j \in OnStates : Reached(j)' = Reached(j)
    <3>1. \A j : Reached(j)' = tasks'[j].last
      BY <1>1 DEF Reached
    <3>2. \A j : Reached(j) = IF j = job THEN place ELSE tasks[j].last
      BY <1>1 DEF Reached
    <3> QED
      BY <1>3, <1>4, <2>2, <3>1, <3>2 DEF OnStates
  <2>4. /\ OnStates' = OnStates /\ \A j : Later(j)' = Later(j)
        /\ DataOK' /\ DataInv' /\ MeaningInv' /\ ScriptInv(rest', interfaces')
    BY <1>1, <1>3, <2>1, <2>2, <2>3, QueueStays
  <2>5. ContractInv'
    BY <1>1 DEF ContractInv
  <2>6. AloneInv'
    <3>1. commands <= 1 =>
             /\ Steady(rest)
             /\ \A k \in OnStates : tasks'[k].type \in ByMethod =>
                   \A w \in Later(k) : w[1] \notin Whole
             /\ \A s \in State : NoWallet(s) =>
                  /\ \A r \in accounts[s].runs : r[1] \in accounts[s].types
                  /\ accounts[s].types \subseteq shown[s] \cup MatchedBy(interfaces, s)
      BY <1>2, <2>1, <2>2 DEF Follows, AloneInv, OnStates
    <3> QED
      BY <1>1, <2>4, <3>1 DEF AloneInv
  <2> QED
    BY <2>4, <2>5, <2>6 DEF Follows
<1> QED
  BY <1>6, <1>7 DEF FollowInv

\* A state has one place.
LEMMA StateRows ==
  ASSUME TypeOK, NEW t, ~OnMessages(t)
  PROVE  /\ \A s \in State : s \in Rows(t) <=> s \in MatchingStates(t) /\ After(s, t.last)
         /\ \A at \in Listings(t) : \A s \in Rows(t) : at[s] = s
<1>1. \A s \in State : ListedAfter(s, t.last) = {p \in {s} : After(p, t.last)}
  BY PlaceIs DEF ListedAfter
<1>2. \A s \in State : s \in Rows(t) <=> s \in MatchingStates(t) /\ After(s, t.last)
  BY <1>1 DEF Rows
<1>3. \A at \in Listings(t) : \A s \in Rows(t) : at[s] \in ListedAfter(s, t.last)
  BY DEF Listings
<1>4. Rows(t) \subseteq State
  BY RowsOf
<1> QED
  BY <1>1, <1>2, <1>3, <1>4

\* What the task at hand does to a state, and what it need not do.
LEMMA JobSettles ==
  ASSUME Ground, ShownInv, Lossless, Follows, pc = "fetched", ~OnMessages(tasks[job]),
         NEW s \in State, NoWallet(s)
  PROVE  LET t == tasks[job] IN
         /\ \A order \in Orders :
              LET b == Rescanned(accounts[s], s, t, contract, interfaces, order) IN
              /\ Plain(b)
              /\ \A m \in Name : Settled(interfaces, Later(job), m, s, b)
              /\ commands <= 1 =>
                    Owned(b) /\ b.types \subseteq shown[s] \cup MatchedBy(interfaces, s)
         /\ s \notin Rows(t) =>
              \A m \in Name : Settled(interfaces, Later(job), m, s, accounts[s])
<1> DEFINE t == tasks[job]
           D == Later(job)
           a == accounts[s]
<1>1. /\ job \in OnStates /\ t \in TaskRow /\ pending = {} /\ tasks # <<>>
      /\ Coming(s) = D \cup IF After(s, Reached(job)) THEN {What(t)} ELSE {}
      /\ Reached(job) = t.last
  BY DueOfTasks DEF Ground, Reached
<1>2. TableOK(interfaces) /\ Plain(a)
  BY DEF Follows, DataOK, TableOK, Plain
<1>3. /\ UsesContract(t) => contract \in Described(t.name) /\ Fits(interfaces, D, t.name, contract)
      /\ Meant(interfaces, What(t)) \/ Comes(D, t.name, Whole)
  BY <1>1 DEF Follows, ContractInv, MeaningInv
<1>4. \A m \in Name : Settled(interfaces, Coming(s), m, s, a)
  BY DEF Follows, DataInv
<1>5. \A m \in Name : Settled(interfaces, D \cup {What(t)}, m, s, a)
  <2>1. Coming(s) \subseteq D \cup {What(t)}
    BY <1>1
  <2> QED
    BY <1>4, <2>1, DueGrows
<1>6. commands <= 1 =>
        /\ UsesContract(t) => contract = interfaces[t.name]
        /\ t.type \in ByMethod => \A w \in D : w[1] \notin Whole
        /\ Owned(a) /\ a.types \subseteq shown[s] \cup MatchedBy(interfaces, s)
  BY <1>1 DEF Follows, AloneInv, Owned
<1>7. ASSUME s \notin Rows(t), After(s, t.last)
      PROVE  \A m \in Name : Settled(interfaces, D, m, s, a)
  <2>1. s \notin MatchingStates(t)
    BY <1>7, StateRows DEF Ground
  <2>2. /\ t.type # "add_interface" => t.name \notin shown[s]
        /\ t.type # "del_interface" => ~Matches(contract, s)
    BY <2>1 DEF MatchingStates
  <2>3. a.types \subseteq shown[s] \cup MatchedBy(interfaces, s)
    <3>1. CASE commands <= 1
      BY <1>6, <3>1
    <3>2. CASE ~(commands <= 1)
      <4>1. commands > 1
        BY <3>2 DEF ShownInv
      <4>2. "insert" \notin faults
        BY <4>1 DEF Lossless
      <4> QED
        BY <1>1, <4>2 DEF ShownInv
    <3> QED
      BY <3>1, <3>2
  <2> HIDE DEF t, a, D
  <2> QED
    BY <1>1, <1>2, <1>3, <1>5, <2>2, <2>3, OthersAreSettled DEF t, D
<1>8. ASSUME s \notin Rows(t)
      PROVE  \A m \in Name : Settled(interfaces, D, m, s, a)
  <2>1. CASE After(s, t.last)
    BY <1>7, <1>8, <2>1
  <2>2. CASE ~After(s, t.last)
    BY <1>1, <1>4, <2>2
  <2> QED
    BY <2>1, <2>2
<1>9. ASSUME NEW order \in Orders
      PROVE  LET b == Rescanned(a, s, t, contract, interfaces, order) IN
              /\ Plain(b)
              /\ \A m \in Name : Settled(interfaces, D, m, s, b)
              /\ commands <= 1 =>
                    Owned(b) /\ b.types \subseteq shown[s] \cup MatchedBy(interfaces, s)
  <2> DEFINE b == Rescanned(a, s, t, contract, interfaces, order)
  <2> HIDE DEF t, a, D
  <2>1. /\ Plain(b)
        /\ \A m \in Name : Settled(interfaces, D, m, s, b)
        /\ /\ Owned(a)
           /\ UsesContract(t) => contract = interfaces[t.name]
           /\ t.type \in ByMethod => \A w \in D : w[1] \notin Whole
           => Owned(b) /\ b.types \subseteq a.types \cup MatchedBy(interfaces, s)
    BY <1>1, <1>2, <1>3, <1>5, RowSettled DEF t, D
  <2> HIDE DEF b
  <2>2. commands <= 1 =>
           Owned(b) /\ b.types \subseteq shown[s] \cup MatchedBy(interfaces, s)
    BY <1>6, <2>1
  <2> QED
    BY <2>1, <2>2 DEF b
<1> QED
  BY <1>8, <1>9

\* All other tasks are ahead of the one at hand.
LEMMA OthersAhead ==
  ASSUME Ground, pc # "idle"
  PROVE  /\ \A k \in OnStates : k # job => job < k /\ tasks[k].last = Start
         /\ {i \in OnStates : job < i} = OnStates \ {job}
<1>1. /\ OnStates \subseteq Unfinished /\ Unfinished \subseteq Nat /\ job \in Unfinished
      /\ \A k \in Unfinished : job <= k
  BY DEF Ground, InTurn, OnStates, Unfinished, TypeOK
<1>2. ASSUME NEW k \in OnStates, k # job PROVE job < k /\ tasks[k].last = Start
  <2>1. job < k
    BY <1>1, <1>2
  <2> QED
    BY <1>1, <2>1 DEF Ground, InTurn
<1>3. ~(job < job)
  BY <1>1
<1> QED
  BY <1>2, <1>3

\* The task at hand is done.
LEMMA FinishFollows ==
  ASSUME Ground, FollowInv, Finish
  PROVE  FollowInv'
<1> DEFINE t == tasks[job]
<1>1. /\ pc = "fetched" /\ pc' = "idle" /\ pending' = {} /\ Rows(t) = {}
      /\ UNCHANGED <<interfaces, rest, commands, accounts, shown, faults>>
      /\ tasks' = [tasks EXCEPT ![job].done = TRUE]
  BY DEF Finish, ToIdle, database
<1>2. /\ job \in Unfinished /\ job \in DOMAIN tasks /\ tasks # <<>> /\ pending = {}
  BY <1>1, DueOfTasks DEF Ground
<1>3. /\ Unfinished' = Unfinished \ {job} /\ DOMAIN tasks' = DOMAIN tasks
      /\ \A k \in DOMAIN tasks : k # job => tasks'[k] = tasks[k]
  BY <1>1, <1>2, FinishedTask DEF Ground
<1>4. tasks' # <<>>
  <2>1. DOMAIN tasks' # {}
    BY <1>2, <1>3
  <2>2. DOMAIN <<>> = {}
    OBVIOUS
  <2> QED
    BY <2>1, <2>2
<1>5. ShownInv'
  BY <1>1, <1>2, <1>4 DEF FollowInv, ShownInv
<1>6. \A k \in Unfinished' : k \in Unfinished /\ k # job /\ tasks'[k] = tasks[k]
  BY <1>3 DEF Unfinished
<1>7. OnStates' = OnStates \ {job}
  BY <1>3, <1>6 DEF OnStates, OnMessages
<1>8. \A k \in OnStates' : k \in OnStates /\ tasks'[k] = tasks[k] /\ job < k
                           /\ tasks[k].last = Start
  BY <1>1, <1>3, <1>7, <1>6, OthersAhead DEF OnStates
<1>9. ASSUME NEW k \in OnStates' PROVE Later(k)' = Later(k)
  <2>1. k \in Nat /\ job \in Nat
    BY <1>2, <1>8 DEF OnStates, Unfinished, Ground, TypeOK
  <2>2. {i \in OnStates' : k < i} = {i \in OnStates : k < i}
    BY <1>7, <1>8, <1>9, <2>1
  <2>3. Later(k)' = {What(tasks'[j]) : j \in {i \in OnStates' : k < i}} \cup ToMake(rest)
    BY <1>1 DEF Later
  <2>4. \A j \in {i \in OnStates' : k < i} : tasks'[j] = tasks[j]
    BY <1>8
  <2> QED
    BY <2>2, <2>3, <2>4 DEF Later
<1>10. ASSUME NEW s PROVE Coming(s)' = Later(job)
  <2>1. \A k : Reached(k)' = tasks'[k].last
    BY <1>1 DEF Reached
  <2>2. Coming(s)' = {What(tasks'[k]) : k \in {i \in OnStates' : After(s, tasks'[i].last)}}
                        \cup ToMake(rest)
    BY <1>1, <2>1 DEF Coming
  <2>3. After(s, Start)
    BY DEF After, Start
  <2>4. {i \in OnStates' : After(s, tasks'[i].last)} = {i \in OnStates : job < i}
    BY <1>1, <1>7, <1>8, <2>3, OthersAhead
  <2>5. \A j \in {i \in OnStates : job < i} : tasks'[j] = tasks[j]
    BY <1>1, <1>7, <1>8, OthersAhead
  <2> QED
    BY <2>2, <2>4, <2>5 DEF Later
<1>11. ASSUME Lossless' PROVE Follows'
  <2>1. Follows /\ Lossless /\ ShownInv
    BY <1>11, LossStays DEF FollowInv, Next
  <2>2. DataInv'
    <3>1. ASSUME NEW s \in State, NoWallet(s), NEW n \in Name
          PROVE  Settled(interfaces, Later(job), n, s, accounts[s])
      <4>1. CASE OnMessages(t)
        <5>1. OnStates' = OnStates
          BY <1>7, <4>1 DEF OnStates
        <5>2. Coming(s) = Later(job)
          <6>1. \A k \in OnStates : Reached(k) = Start
            BY <1>1, <1>8, <5>1 DEF Reached
          <6>2. After(s, Start)
            BY DEF After, Start
          <6>3. {i \in OnStates : After(s, Reached(i))} = {i \in OnStates : job < i}
            BY <1>8, <5>1, <6>1, <6>2
          <6> QED
            BY <6>3 DEF Coming, Later
        <5> QED
          BY <2>1, <3>1, <5>2 DEF Follows, DataInv
      <4>2. CASE ~OnMessages(t)
        BY <1>1, <2>1, <3>1, <4>2, JobSettles
      <4> QED
        BY <4>1, <4>2
    <3> QED
      BY <1>1, <1>10, <3>1 DEF DataInv
  <2>3. MeaningInv'
    BY <1>1, <1>8, <1>9, <2>1 DEF Follows, MeaningInv
  <2>4. DataOK' /\ ContractInv' /\ ScriptInv(rest', interfaces')
    BY <1>1, <2>1 DEF Follows, DataOK, ContractInv
  <2>5. AloneInv'
    <3>1. commands <= 1 =>
             /\ Steady(rest)
             /\ \A k \in OnStates' : tasks'[k].type \in ByMethod =>
                   \A w \in Later(k)' : w[1] \notin Whole
             /\ \A s \in State : NoWallet(s) =>
                  /\ \A r \in accounts[s].runs : r[1] \in accounts[s].types
                  /\ accounts[s].types \subseteq shown[s] \cup MatchedBy(interfaces, s)
      BY <1>2, <1>8, <1>9, <2>1 DEF Follows, AloneInv
    <3> QED
      BY <1>1, <3>1 DEF AloneInv
  <2> QED
    BY <2>2, <2>3, <2>4, <2>5 DEF Follows
<1> QED
  BY <1>5, <1>11 DEF FollowInv

\* The task at hand is given up for now.
LEMMA AbandonFollows ==
  ASSUME Ground, FollowInv, Abandon
  PROVE  FollowInv'
<1>1. /\ pc # "idle" /\ pc' = "idle" /\ pending' = {}
      /\ faults' = faults \cup (IF pending # {} THEN {"insert"} ELSE {})
      /\ UNCHANGED <<interfaces, tasks, rest, commands, accounts, shown>>
  BY DEF Abandon, ToIdle, database
<1>2. job \in DOMAIN tasks /\ tasks # <<>>
  BY <1>1, DueOfTasks
<1>3. ShownInv'
  BY <1>1, <1>2 DEF FollowInv, ShownInv
<1>4. Unfinished' = Unfinished /\ OnStates' = OnStates
  BY <1>1 DEF Unfinished, OnStates, OnMessages
<1>5. \A k : Later(k)' = Later(k)
  BY <1>1, <1>4 DEF Later
<1>6. ASSUME NEW s \in State PROVE Coming(s) \subseteq Coming(s)'
  <2>1. ASSUME NEW k \in OnStates, After(s, Reached(k)) PROVE After(s, tasks[k].last)
    <3>1. CASE k = job /\ pc \in {"written", "inserted"}
      <4>1. place[2] > 0 /\ Before(tasks[job].last, place) /\ Reached(k) = place
        BY <2>1, <3>1 DEF Ground, PlaceOK, Reached, OnStates
      <4>2. place \in Nat \X Nat /\ tasks[job].last \in Nat \X Nat /\ s \in Nat \X Nat
        <5>1. tasks[job] \in TaskRow
          BY <1>1, DueOfTasks
        <5> QED
          BY <5>1, PlaceIs DEF TaskRow, Ground, TypeOK
      <4>3. Before(place, s)
        BY <2>1, <4>1, <4>2 DEF After
      <4>4. Before(tasks[job].last, s)
        BY <4>1, <4>2, <4>3 DEF Before
      <4> QED
        BY <3>1, <4>4 DEF After
    <3>2. CASE ~(k = job /\ pc \in {"written", "inserted"})
      BY <2>1, <3>2 DEF Reached
    <3> QED
      BY <3>1, <3>2
  <2>2. \A k : Reached(k)' = tasks[k].last
    BY <1>1 DEF Reached
  <2>3. Coming(s)' = {What(tasks[k]) : k \in {i \in OnStates : After(s, tasks[i].last)}}
                        \cup ToMake(rest)
    BY <1>1, <1>4, <2>2 DEF Coming
  <2> QED
    BY <2>1, <2>3 DEF Coming
<1>7. ASSUME Lossless' PROVE Follows'
  <2>1. Follows
    BY <1>7, LossStays DEF FollowInv, Next
  <2>2. DataInv'
    <3>1. ASSUME NEW s \in State, NoWallet(s), NEW n \in Name
          PROVE  Settled(interfaces, Coming(s)', n, s, accounts[s])
      BY <1>6, <2>1, <3>1, DueGrows DEF Follows, DataInv
    <3> QED
      BY <1>1, <3>1 DEF DataInv
  <2>3. DataOK' /\ ContractInv' /\ MeaningInv' /\ ScriptInv(rest', interfaces')
    BY <1>1, <1>4, <1>5, <2>1 DEF Follows, DataOK, ContractInv, MeaningInv
  <2>4. AloneInv'
    BY <1>1, <1>4, <1>5, <2>1 DEF Follows, AloneInv
  <2> QED
    BY <2>2, <2>3, <2>4 DEF Follows
<1> QED
  BY <1>3, <1>7 DEF FollowInv

\* A batch of messages is written.
LEMMA MessagesFollow ==
  ASSUME Ground, FollowInv, WriteBatch, OnMessages(tasks[job])
  PROVE  FollowInv'
<1>1. /\ pc = "fetched" /\ pc' = "written"
      /\ UNCHANGED <<interfaces, tasks, rest, commands, accounts, shown, pending, job,
                     contract, faults>>
  BY DEF WriteBatch, WriteMessages, database
<1>2. ShownInv'
  BY <1>1 DEF FollowInv, ShownInv
<1>3. ASSUME Lossless' PROVE Follows'
  <2>1. Follows
    BY <1>3, LossStays DEF FollowInv, Next
  <2>2. \A j \in OnStates : Reached(j)' = Reached(j)
    BY <1>1 DEF Reached, OnStates
  <2>3. Unfinished' = Unfinished
    BY <1>1 DEF Unfinished
  <2>4. /\ OnStates' = OnStates /\ \A j : Later(j)' = Later(j)
        /\ DataOK' /\ DataInv' /\ MeaningInv' /\ ScriptInv(rest', interfaces')
    BY <1>1, <2>1, <2>2, <2>3, QueueStays
  <2>5. ~UsesContract(tasks[job])
    BY DEF UsesContract
  <2>6. ContractInv'
    BY <1>1, <2>5 DEF ContractInv, UsesContract, OnMessages
  <2>7. AloneInv'
    BY <1>1, <2>1, <2>4, <2>5 DEF Follows, AloneInv, UsesContract, OnMessages
  <2> QED
    BY <2>4, <2>6, <2>7 DEF Follows
<1> QED
  BY <1>2, <1>3 DEF FollowInv

\* A batch of states is written, all of it or some.
LEMMA StatesFollow ==
  ASSUME Ground, FollowInv, WriteBatch, ~OnMessages(tasks[job])
  PROVE  FollowInv'
<1> DEFINE t == tasks[job]
<1> PICK J : J = job
  OBVIOUS
<1>1. /\ pc = "fetched" /\ Rows(t) # {} /\ Rows(t) \subseteq State /\ pending = {}
      /\ UNCHANGED <<interfaces, tasks, rest, commands, shown>>
  BY RowsOf DEF WriteBatch, database, Ground
<1>2. PICK batch \in SUBSET Rows(t) :
        /\ WriteStates(t, batch)
        /\ \A x \in batch : \A y \in Rows(t) \ batch : ~Before(y, x)
        /\ pc' # "idle" => \E x \in batch : place' = x
  <2>1. PICK at \in Listings(t) :
          \E b \in Firsts(at) :
             /\ WriteStates(t, b)
             /\ IF pc' = "idle" THEN place' = Start
                ELSE \E rows \in SetToSeqs(b) : place' = Checkpoint(rows)
    BY DEF WriteBatch
  <2>2. PICK b \in Firsts(at) :
          /\ WriteStates(t, b)
          /\ IF pc' = "idle" THEN place' = Start
             ELSE \E rows \in SetToSeqs(b) : place' = Checkpoint(rows)
    BY <2>1
  <2> HIDE DEF t
  <2>3. /\ b \subseteq Rows(t)
        /\ \A x \in b, y \in Rows(t) \ b : ~Before(at[y], at[x])
        /\ \A rows \in SetToSeqs(b) : \E x \in b : Checkpoint(rows) = Place(x)
    BY <1>1, <2>1, <2>2, BatchOf
  <2>4. \A x \in Rows(t) : at[x] = x /\ Place(x) = x
    BY <1>1, <2>1, StateRows, PlaceIs DEF Ground, t
  <2>5. pc' # "idle" => \E x \in b : place' = x
    BY <2>2, <2>3, <2>4
  <2> QED
    BY <2>2, <2>3, <2>4, <2>5
<1>3. batch \subseteq Rows(t)
  BY <1>2
<1>4. PICK table \in Tables(t), order \in Orders :
        LET new     == [s \in batch |->
                           Rescanned(accounts[s], s, t, contract, table, order)]
            changed == {s \in batch : new[s] # accounts[s]}
        IN \E written \in SUBSET changed :
              /\ accounts' = [s \in State |->
                                 IF s \in written THEN new[s] ELSE accounts[s]]
              /\ cache' = IF UsesCache(t) THEN table ELSE cache
              /\ IF written = changed
                 THEN /\ pc' = "written" /\ pending' = changed
                      /\ UNCHANGED <<job, contract, copies, events>>
                 ELSE ToIdle /\ Fail
              /\ faults' = faults
                    \cup (IF table # interfaces THEN {"cache"} ELSE {})
                    \cup (IF written \notin {{}, changed} THEN {"insert"} ELSE {})
              /\ UNCHANGED history
  BY <1>2, Zenon DEF WriteStates
<1> DEFINE New(s) == Rescanned(accounts[s], s, t, contract, table, order)
           changed == {s \in batch : New(s) # accounts[s]}
<1>5. PICK written \in SUBSET changed :
        /\ accounts' = [s \in State |-> IF s \in written THEN New(s) ELSE accounts[s]]
        /\ IF written = changed
           THEN /\ pc' = "written" /\ pending' = changed
                /\ UNCHANGED <<job, contract>>
           ELSE ToIdle
        /\ faults' = faults
              \cup (IF table # interfaces THEN {"cache"} ELSE {})
              \cup (IF written \notin {{}, changed} THEN {"insert"} ELSE {})
  <2> DEFINE new == [s \in batch |-> New(s)]
  <2>1. {s \in batch : new[s] # accounts[s]} = changed
    OBVIOUS
  <2>2. \A w \in SUBSET changed :
          [s \in State |-> IF s \in w THEN new[s] ELSE accounts[s]]
             = [s \in State |-> IF s \in w THEN New(s) ELSE accounts[s]]
    OBVIOUS
  <2>3. PICK w \in SUBSET changed :
          /\ accounts' = [s \in State |-> IF s \in w THEN new[s] ELSE accounts[s]]
          /\ IF w = changed
             THEN /\ pc' = "written" /\ pending' = changed
                  /\ UNCHANGED <<job, contract>>
             ELSE ToIdle
          /\ faults' = faults
                \cup (IF table # interfaces THEN {"cache"} ELSE {})
                \cup (IF w \notin {{}, changed} THEN {"insert"} ELSE {})
    BY <1>4, <2>1, Zenon
  <2> HIDE DEF New, changed, new
  <2> QED
    BY <2>2, <2>3
<1>6. /\ job \in DOMAIN tasks /\ tasks # <<>> /\ t \in TaskRow /\ job \in OnStates
      /\ \A s : Coming(s) = Later(job) \cup
                     IF After(s, Reached(job)) THEN {What(t)} ELSE {}
      /\ Reached(job) = t.last
  BY <1>1, DueOfTasks DEF Reached
<1>7. /\ changed \subseteq batch /\ \A s \in batch \ changed : accounts[s] = New(s)
      /\ batch \subseteq State
  BY <1>1, <1>3
<1> HIDE DEF New, changed, t
<1>8. ShownInv'
  <2>1. CASE written = changed
    <3>1. pending' = changed /\ \A s \in State \ changed : accounts'[s] = accounts[s]
      BY <1>5, <2>1
    <3>2. "insert" \notin faults' => "insert" \notin faults
      BY <1>5, <2>1
    <3>3. "insert" \notin faults => \A s \in State : accounts[s].types \subseteq shown[s]
      BY <1>1 DEF FollowInv, ShownInv
    <3>4. "insert" \notin faults' =>
             \A s \in State \ pending' : accounts'[s].types \subseteq shown[s]
      BY <3>1, <3>2, <3>3
    <3> QED
      BY <1>1, <1>6, <3>4 DEF FollowInv, ShownInv
  <2>2. CASE written # changed
    <3>1. pending' = {}
      BY <1>5, <2>2 DEF ToIdle
    <3>2. "insert" \notin faults' => written = {} /\ "insert" \notin faults
      BY <1>5, <2>2
    <3>3. "insert" \notin faults' => \A s \in State : accounts'[s] = accounts[s]
      BY <1>5, <3>2
    <3> QED
      BY <1>1, <1>6, <3>1, <3>2, <3>3 DEF FollowInv, ShownInv
  <2> QED
    BY <2>1, <2>2
<1>9. ASSUME Lossless' PROVE Follows'
  <2>1. Follows /\ Lossless /\ ShownInv
    BY <1>9, LossStays DEF FollowInv, Next
  <2>2. table = interfaces
    BY <1>5, <1>9 DEF Lossless
  <2>3. /\ OnStates' = OnStates /\ \A k : Later(k)' = Later(k)
    <3>1. OnStates' = OnStates
      BY <1>1 DEF OnStates, Unfinished, OnMessages
    <3> QED
      BY <1>1, <3>1 DEF Later
  <2>4. ASSUME NEW s \in State, NoWallet(s)
        PROVE  /\ Plain(New(s))
               /\ \A m \in Name : Settled(interfaces, Later(job), m, s, New(s))
               /\ commands <= 1 =>
                     Owned(New(s)) /\ New(s).types \subseteq shown[s] \cup MatchedBy(interfaces, s)
               /\ s \notin Rows(t) =>
                    \A m \in Name : Settled(interfaces, Later(job), m, s, accounts[s])
    BY <1>1, <2>1, <2>2, <2>4, JobSettles DEF t, New
  <2>5. ASSUME NEW s \in State
        PROVE  accounts'[s] = IF s \in written THEN New(s) ELSE accounts[s]
    BY <1>5
  <2>6. ASSUME NEW s \in State PROVE Later(job) \subseteq Coming(s)'
    <3>1. \A k \in OnStates : k # job => After(s, Reached(k)')
      <4>1. ASSUME NEW k \in OnStates, k # job PROVE After(s, Reached(k)')
        <5>1. tasks[k].last = Start
          BY <1>1, <4>1, OthersAhead
        <5>2. Reached(k)' = Start
          <6>1. k # job'  \/ pc' = "idle"
            BY <1>5, <4>1 DEF ToIdle
          <6> QED
            BY <1>1, <5>1, <6>1 DEF Reached
        <5>3. After(s, Start)
          BY DEF After, Start
        <5> QED
          BY <5>2, <5>3
      <4> QED
        BY <4>1
    <3>2. {i \in OnStates : job < i} \subseteq {i \in OnStates' : After(s, Reached(i)')}
      BY <1>1, <2>3, <3>1, OthersAhead
    <3>3. Coming(s)' = {What(tasks[k]) : k \in {i \in OnStates' : After(s, Reached(i)')}}
                          \cup ToMake(rest)
      BY <1>1 DEF Coming
    <3> QED
      BY <3>2, <3>3 DEF Later
  <2>7. ASSUME NEW s \in State, After(s, Reached(J)')
        PROVE  Later(job) \cup {What(t)} \subseteq Coming(s)'
    <3>1. job \in {i \in OnStates' : After(s, Reached(i)')}
      BY <1>6, <2>3, <2>7
    <3>2. Coming(s)' = {What(tasks[k]) : k \in {i \in OnStates' : After(s, Reached(i)')}}
                          \cup ToMake(rest)
      BY <1>1 DEF Coming
    <3> QED
      BY <2>6, <3>1, <3>2 DEF t
  <2>8. DataInv'
    <3>1. ASSUME NEW s \in State, NoWallet(s), NEW m \in Name
          PROVE  Settled(interfaces, Coming(s)', m, s, accounts'[s])
      <4>1. CASE s \in written
        BY <2>4, <2>5, <2>6, <3>1, <4>1, DueGrows
      <4>2. CASE s \notin written /\ Settled(interfaces, Later(job), m, s, accounts[s])
        BY <2>5, <2>6, <3>1, <4>2, DueGrows
      <4>3. CASE s \notin written /\ After(s, Reached(J)')
        <5>1. Coming(s) \subseteq Coming(s)'
          BY <1>6, <2>7, <3>1, <4>3
        <5> QED
          BY <2>1, <2>5, <3>1, <4>3, <5>1, DueGrows DEF Follows, DataInv
      <4>4. CASE /\ s \notin written /\ ~After(s, Reached(J)')
                 /\ ~Settled(interfaces, Later(job), m, s, accounts[s])
        <5>1. s \in Rows(t)
          BY <2>4, <3>1, <4>4
        <5>5. After(s, t.last)
          BY <3>1, <5>1, StateRows DEF Ground, t
        <5>2. CASE written = changed
          <6>1. s \notin batch
            BY <1>7, <2>4, <3>1, <4>4, <5>2
          <6>2. Reached(J)' = place' /\ pc' # "idle"
            <7>1. pc' = "written" /\ job' = J
              BY <1>5, <5>2
            <7> QED
              BY <7>1 DEF Reached
          <6>3. PICK x \in batch : place' = x
            BY <1>2, <6>2
          <6>4. ~Before(s, x) /\ x # s
            BY <1>2, <5>1, <6>1
          <6>5. s \in Nat \X Nat /\ x \in Nat \X Nat
            BY <1>7, <3>1, RescanAssumption DEF RescanAssumption
          <6>6. Before(x, s)
            BY <6>4, <6>5 DEF Before
          <6> QED
            BY <4>4, <6>2, <6>3, <6>6 DEF After
        <5>3. CASE written # changed
          <6>1. pc' = "idle"
            BY <1>5, <5>3 DEF ToIdle
          <6>2. Reached(J)' = tasks'[J].last
            BY <6>1 DEF Reached
          <6>3. Reached(J)' = t.last
            BY <1>1, <6>2 DEF t
          <6> QED
            BY <4>4, <5>5, <6>3
        <5> QED
          BY <5>2, <5>3
      <4> QED
        BY <4>1, <4>2, <4>3, <4>4
    <3> QED
      BY <1>1, <3>1 DEF DataInv
  <2>9. DataOK'
    <3>1. ASSUME NEW s \in State, NoWallet(s)
          PROVE  accounts'[s] \in Data /\ accounts'[s].types \cap Wallet = {}
      BY <2>1, <2>4, <2>5, <3>1 DEF Follows, DataOK, Plain
    <3> QED
      BY <1>1, <2>1, <3>1 DEF Follows, DataOK
  <2>10. pc' # "idle" => job' = job /\ contract' = contract
    BY <1>5 DEF ToIdle
  <2>11. ContractInv'
    <3>1. ASSUME pc' # "idle", UsesContract(tasks[J])
          PROVE  /\ contract' \in Described(tasks[J].name)
                 /\ Fits(interfaces, Later(J)', tasks[J].name, contract')
      <4>1. Later(J)' = Later(job) /\ contract' = contract
        BY <2>3, <2>10, <3>1
      <4> QED
        BY <1>1, <2>1, <3>1, <4>1 DEF Follows, ContractInv
    <3>2. pc' # "idle" => job' = J
      BY <2>10
    <3>3. pc' # "idle" /\ UsesContract(tasks'[job']) =>
             /\ contract' \in Described(tasks'[job'].name)
             /\ Fits(interfaces', Later(J)', tasks'[job'].name, contract')
      BY <1>1, <3>1, <3>2
    <3> QED
      BY <3>2, <3>3 DEF ContractInv, UsesContract, OnMessages
  <2>12. MeaningInv' /\ ScriptInv(rest', interfaces')
    BY <1>1, <2>1, <2>3 DEF Follows, MeaningInv
  <2>13. AloneInv'
    <3>1. ASSUME commands <= 1, NEW s \in State, NoWallet(s)
          PROVE  /\ \A r \in accounts'[s].runs : r[1] \in accounts'[s].types
                 /\ accounts'[s].types \subseteq shown[s] \cup MatchedBy(interfaces, s)
      BY <2>1, <2>4, <2>5, <3>1 DEF Follows, AloneInv, Owned
    <3>2. ASSUME commands <= 1, pc' # "idle", UsesContract(tasks[job'])
          PROVE  contract' = interfaces[tasks[job'].name]
      BY <1>1, <2>1, <2>10, <3>2 DEF Follows, AloneInv
    <3> QED
      BY <1>1, <2>1, <2>3, <3>1, <3>2 DEF Follows, AloneInv, UsesContract, OnMessages
  <2> QED
    BY <2>8, <2>9, <2>11, <2>12, <2>13 DEF Follows
<1> QED
  BY <1>8, <1>9 DEF FollowInv

\* What the indexer's parser makes of a state is right.
LEMMA ParsedFollows ==
  ASSUME NEW table, TableOK(table), NEW s, NoWallet(s)
  PROVE  /\ Plain(Parsed(table, s)) /\ Owned(Parsed(table, s))
         /\ \A n \in Name : \A D : Settled(table, D, n, s, Parsed(table, s))
<1> DEFINE types == MatchedBy(table, s)
           runs == UNION {{n} \X table[n].methods : n \in types}
           a == [types |-> types, runs |-> runs]
<1>1. \A n \in types : n \in Name /\ table[n] \in Described(n) /\ table[n] \in Interface
                       /\ Matches(table[n], s)
  BY InterfacesOf DEF TableOK, MatchedBy
<1>2. types \subseteq Name /\ types \cap Wallet = {}
  BY <1>1, NoWalletMatches
<1>3. runs \subseteq Name \X UNION {i.methods : i \in Interface}
  BY <1>1
<1>4. \A n \in types : {r \in runs : r[1] = n} = {n} \X table[n].methods
  OBVIOUS
<1>5. \A r \in runs : r[1] \in types
  OBVIOUS
<1> HIDE DEF runs
<1>6. a \in Data /\ a.types = types /\ a.runs = runs
  BY <1>2, <1>3 DEF Data
<1>7. Parsed(table, s) = a
  BY DEF Parsed, runs
<1> HIDE DEF a
<1>8. ASSUME NEW n \in Name, NEW D PROVE Settled(table, D, n, s, a)
  <2>1. CASE n \in types
    <3>1. Differing(a, n, table[n]) = {}
      BY <1>4, <1>6, <2>1 DEF Differing, Runs
    <3> QED
      BY <1>6, <2>1, <3>1 DEF Settled
  <2>2. CASE n \notin types
    BY <1>6, <2>2 DEF Settled
  <2> QED
    BY <2>1, <2>2
<1> QED
  BY <1>2, <1>5, <1>6, <1>7, <1>8 DEF Plain, Owned

\* At the start everything was parsed.
LEMMA StartFollows ==
  ASSUME Init
  PROVE  FollowInv
<1>1. PICK known \in SUBSET Description :
        /\ interfaces = [n \in Name |->
              IF \E d \in known : d.name = n
              THEN (CHOOSE d \in known : d.name = n).interface ELSE None]
        /\ accounts = [s \in State |-> Parsed(interfaces, s)]
        /\ shown = [s \in State |-> accounts[s].types]
        /\ tasks = <<>> /\ rest = <<>> /\ commands = 0
        /\ pc = "idle" /\ pending = {} /\ faults = {}
  BY Zenon DEF Init
<1>2. TableOK(interfaces)
  <2>1. ASSUME NEW n \in Name, NEW d \in known, d.name = n
        PROVE  interfaces[n] \in Described(n)
    <3>1. /\ (CHOOSE e \in known : e.name = n) \in known
          /\ (CHOOSE e \in known : e.name = n).name = n
      BY <2>1
    <3>2. interfaces[n] = (CHOOSE e \in known : e.name = n).interface
      BY <1>1, <2>1
    <3> QED
      BY <3>1, <3>2 DEF Described
  <2>2. ASSUME NEW n \in Name, \A d \in known : d.name # n
        PROVE  interfaces[n] = None
    BY <1>1, <2>2
  <2> QED
    BY <2>1, <2>2 DEF TableOK
<1>3. Unfinished = {} /\ OnStates = {}
  <2>1. DOMAIN tasks = {}
    BY <1>1
  <2> QED
    BY <2>1 DEF Unfinished, OnStates
<1>4. \A s \in State : accounts[s] = Parsed(interfaces, s) /\ shown[s] = accounts[s].types
  BY <1>1
<1>5. \A s \in State : NoWallet(s) =>
        /\ Plain(accounts[s]) /\ Owned(accounts[s])
        /\ \A n \in Name : \A D : Settled(interfaces, D, n, s, accounts[s])
  BY <1>2, <1>4, ParsedFollows
<1>6. ScriptInv(rest, interfaces)
  BY <1>1, RangeOf, ShortOrder, MadeOf DEF ScriptInv
<1>7. DataOK /\ DataInv /\ ContractInv /\ MeaningInv /\ AloneInv
  BY <1>1, <1>2, <1>3, <1>4, <1>5
     DEF DataOK, TableOK, Plain, Owned, DataInv, ContractInv, MeaningInv, AloneInv
<1>8. ShownInv
  BY <1>1, <1>4 DEF ShownInv
<1> QED
  BY <1>6, <1>7, <1>8 DEF FollowInv, Follows

\* Every step keeps the invariant.
LEMMA StepFollows ==
  ASSUME Ground, FollowInv, [Next]_vars
  PROVE  FollowInv'
<1>1. CASE UNCHANGED vars \/ \E m \in Message : SaveMessage(m) \/ Merge(m)
  <2>1. UNCHANGED <<interfaces, tasks, rest, commands, accounts, shown, pc, job, contract,
                    pending, place, faults>>
    BY <1>1 DEF vars, service, database, SaveMessage, Merge
  <2>2. ShownInv'
    BY <2>1 DEF FollowInv, ShownInv
  <2>3. ASSUME Lossless' PROVE Follows'
    <3>1. Follows
      BY <2>1, <2>3 DEF FollowInv, Lossless
    <3>2. Unfinished' = Unfinished /\ \A k \in OnStates : Reached(k)' = Reached(k)
      BY <2>1 DEF Unfinished, Reached
    <3>3. /\ OnStates' = OnStates /\ \A k : Later(k)' = Later(k)
          /\ DataOK' /\ DataInv' /\ MeaningInv' /\ ScriptInv(rest', interfaces')
      BY <2>1, <3>1, <3>2, QueueStays
    <3>4. ContractInv' /\ AloneInv'
      BY <2>1, <3>1, <3>3
         DEF Follows, ContractInv, AloneInv, UsesContract, OnMessages
    <3> QED
      BY <3>3, <3>4 DEF Follows
  <2> QED
    BY <2>2, <2>3 DEF FollowInv
<1>2. CASE RunStatement
  BY <1>2, TaskFollows, OtherStatementFollows
<1>3. CASE WriteBatch
  BY <1>3, MessagesFollow, StatesFollow
<1> QED
  BY <1>1, <1>2, <1>3, CommandFollows, CommandFailsFollows, FetchFollows, InsertFollows,
     SaveFollows, FinishFollows, AbandonFollows DEF Next

\* With no task left nothing is to come: the data is that of the interfaces.
LEMMA FollowsAtEnd ==
  ASSUME FollowInv
  PROVE  ParsedDataFollowsInterfaces
<1> SUFFICES ASSUME rest = <<>>, Unfinished = {}, Lossless, NEW s \in State, NoWallet(s)
             PROVE  LET matched == MatchedBy(interfaces, s)
                        Kept(runs) == {r \in runs : commands > 1 => r[1] \in matched}
                    IN [accounts[s] EXCEPT !.runs = Kept(@)] = Parsed(interfaces, s)
  BY Zenon DEF ParsedDataFollowsInterfaces
<1> DEFINE a == accounts[s]
           matched == MatchedBy(interfaces, s)
           kept == {r \in a.runs : commands > 1 => r[1] \in matched}
           runs == UNION {{n} \X interfaces[n].methods : n \in matched}
<1>1. Follows /\ commands \in Nat
  BY DEF FollowInv, ShownInv
<1>2. Coming(s) = {}
  <2>1. OnStates = {} /\ ToMake(rest) = {}
    BY MadeOf DEF OnStates, ToMake
  <2> QED
    BY <2>1 DEF Coming
<1>3. /\ \A n, types : ~Comes(Coming(s), n, types)
      /\ \A n, g : ~Reruns(Coming(s), n, g)
  BY <1>2 DEF Comes, Reruns
<1>4. a \in Data
  BY <1>1 DEF Follows, DataOK
<1>5. ASSUME NEW n \in Name
      PROVE  /\ n \in matched => n \in a.types /\ Runs(a, n) = {n} \X interfaces[n].methods
             /\ n \notin matched => n \notin a.types
  <2>1. Settled(interfaces, Coming(s), n, s, a)
    BY <1>1 DEF Follows, DataInv
  <2>2. CASE n \in matched
    <3>1. n \in a.types /\ Differing(a, n, interfaces[n]) = {}
      BY <1>3, <2>1, <2>2 DEF Settled
    <3> QED
      BY <2>2, <3>1 DEF Differing
  <2>3. CASE n \notin matched
    BY <1>3, <2>1, <2>3 DEF Settled
  <2> QED
    BY <2>2, <2>3
<1>6. a.types = matched
  <2>1. a.types \subseteq Name /\ matched \subseteq Name
    BY <1>4 DEF Data, MatchedBy
  <2> QED
    BY <1>5, <2>1
<1>7. kept = runs
  <2>1. commands <= 1 => \A r \in a.runs : r[1] \in a.types
    BY <1>1 DEF Follows, AloneInv
  <2>2. kept = {r \in a.runs : r[1] \in matched}
    BY <1>1, <1>6, <2>1
  <2>3. matched \subseteq Name
    BY DEF MatchedBy
  <2>4. \A r : r \in kept <=> \E n \in matched : r \in Runs(a, n)
    BY <2>2 DEF Runs
  <2>5. \A r : r \in runs <=> \E n \in matched : r \in {n} \X interfaces[n].methods
    OBVIOUS
  <2>6. \A n \in matched : Runs(a, n) = {n} \X interfaces[n].methods
    BY <1>5, <2>3
  <2> HIDE DEF a, matched, kept, runs
  <2>7. \A r : r \in kept <=> r \in runs
    BY <2>4, <2>5, <2>6
  <2> QED
    BY <2>7
<1> HIDE DEF a, matched, kept, runs
<1>8. [a EXCEPT !.runs = kept] = [types |-> matched, runs |-> runs]
  BY <1>4, <1>6, <1>7 DEF Data
<1>9. Parsed(interfaces, s) = [types |-> matched, runs |-> runs]
  BY DEF Parsed, matched, runs
<1> QED
  BY <1>8, <1>9 DEF a, kept, matched

\* When all commands and all tasks are done, the parsed data of every state is
\* what the parser would make of it with the interfaces that there are now,
\* whatever the commands changed, in whatever batches and tries the tasks were
\* done, and whether ClickHouse still shows what states were before, unless a
\* failure lost something.
THEOREM DataFollowsInterfaces == Spec => []ParsedDataFollowsInterfaces
<1>1. Init => FollowInv
  BY StartFollows
<1>2. TypeOK /\ rest \in Scripts /\ RescanInv /\ FollowInv /\ [Next]_vars => FollowInv'
  <2>1. TypeOK /\ rest \in Scripts /\ RescanInv => Ground
    BY DEF RescanInv, MessagesInv, Ground
  <2> QED
    BY <2>1, StepFollows
<1>3. FollowInv => ParsedDataFollowsInterfaces
  BY FollowsAtEnd
<1> QED
  BY <1>1, <1>2, <1>3, RescanCorrect, PTL DEF Spec
=============================================================================
