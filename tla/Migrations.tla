----------------------------- MODULE Migrations ------------------------------
(***************************************************************************)
(* The migrate command of cmd/db/db.go: it brings the schemas of           *)
(* PostgreSQL and ClickHouse up or down, each behind a lock of its own,    *)
(* without a transaction over the two.  The migrators are external, those  *)
(* of bun as newMigrators configures them: Lock fails on a lock that is    *)
(* taken; Migrate lists what is not marked and, one by one, marks it as    *)
(* one more group and only then runs its Up; Rollback lists the last group *)
(* and unmarks each before it runs its Down.  A call or the process may    *)
(* stop anywhere, and a mark then stands for a migration that is not       *)
(* there; markApplied makes nothing but marks.  Nothing else runs beside   *)
(* the command "unlock", which is for locks left by "lock", by a process   *)
(* that died and by an unlock that failed.                                 *)
(*                                                                         *)
(* UnlockAtOnce is a faulty variant of Released; no action uses it.        *)
(***************************************************************************)
EXTENDS Naturals, FiniteSetsExt

CONSTANTS
    Operator,     \* who runs commands
    Versions,     \* of the program: it ships the migrations 1..v
    MaxCommands   \* bound: commands that are run

MigrationsAssumption ==
    /\ Versions \subseteq Nat \ {0} /\ MaxCommands \in Nat
    /\ \E last \in Versions : \A v \in Versions : v <= last

Store    == {"pg", "ch"}
Migration == 1..Max(Versions)

VARIABLES
    applied,  \* the marks, by store and migration: its group, 0 without one
    has,      \* by store: the migrations its schema has
    unrun,    \* by store: those marked whose Up has not ended since
    locked,   \* by store: whether its lock is taken
    cmd,      \* by operator: the command, "none" when it is over
    ver,      \* the version of the program that runs it
    at,       \* its step, with a store and perhaps a migration, or "return", "idle"
    todo,     \* the migrations it has listed and not yet marked
    group,    \* the group it marks them as
    held,     \* the locks it has deferred to release
    count     \* how many commands were run

schema  == <<applied, has, unrun>>
process == <<cmd, ver, todo, group>>
vars == <<schema, locked, process, at, held, count>>

Init ==
    /\ applied = [s \in Store |-> [m \in Migration |-> 0]]
    /\ has = [s \in Store |-> {}] /\ unrun = [s \in Store |-> {}]
    /\ locked = [s \in Store |-> FALSE]
    /\ cmd = [o \in Operator |-> "none"] /\ ver = [o \in Operator |-> 0]
    /\ at = [o \in Operator |-> <<"idle">>]
    /\ todo = [o \in Operator |-> {}] /\ group = [o \in Operator |-> 1]
    /\ held = [o \in Operator |-> {}]
    /\ count = 0

Idle(o)    == at[o] = <<"idle">>
Goto(o, l) == at' = [at EXCEPT ![o] = l]
Move(o, l) == Goto(o, l) /\ UNCHANGED process
Leave(o, l) ==
    /\ Goto(o, l)
    /\ cmd' = [cmd EXCEPT ![o] = "none"] /\ ver' = [ver EXCEPT ![o] = 0]
    /\ todo' = [todo EXCEPT ![o] = {}] /\ group' = [group EXCEPT ![o] = 1]
Return(o) == Leave(o, IF held'[o] = {} THEN <<"idle">> ELSE <<"return">>)

First(c) == CASE c \in {"up", "down", "lock"} -> <<"lock", "pg">>
              [] c = "unlock" -> <<"unlock", "pg">>
              [] c = "markApplied" -> <<"list", "pg">>

Begin(o, c, v) ==
    /\ Idle(o) /\ count < MaxCommands
    /\ \A p \in Operator : "unlock" \in {c, cmd[p]} => Idle(p)
    /\ cmd' = [cmd EXCEPT ![o] = c] /\ ver' = [ver EXCEPT ![o] = v]
    /\ Goto(o, First(c))
    /\ count' = count + 1
    /\ UNCHANGED <<schema, locked, todo, group, held>>

\* Up and down release their locks by defer; the command "lock" does not.
Lock(o, s) ==
    /\ at[o] = <<"lock", s>>
    /\ IF locked[s]
       THEN UNCHANGED <<locked, held>> /\ Return(o)
       ELSE /\ locked' = [locked EXCEPT ![s] = TRUE]
            /\ held' = IF cmd[o] = "lock" THEN held
                       ELSE [held EXCEPT ![o] = @ \cup {s}]
            /\ IF cmd[o] # "lock" THEN Move(o, <<"list", s>>)
               ELSE IF s = "pg" THEN Move(o, <<"lock", "ch">>) ELSE Return(o)
    /\ UNCHANGED <<schema, count>>

-----------------------------------------------------------------------------
(* Migrate, which also only marks, and Rollback.                           *)

\* The program knows only the migrations it ships, but the last group's number
\* is that of all.
Group(s) == Max({applied[s][m] : m \in Migration})
Unapplied(o, s) == {m \in 1..ver[o] : applied[s][m] = 0}
Undone(o, s) ==
    LET last == Max({applied[s][m] : m \in 1..ver[o]})
    IN  {m \in 1..ver[o] : applied[s][m] = last /\ last > 0}

\* markApplied returns when PostgreSQL has nothing new.
List(o, s) ==
    /\ at[o] = <<"list", s>> /\ UNCHANGED held
    /\ LET ms == IF cmd[o] = "down" THEN Undone(o, s) ELSE Unapplied(o, s)
       IN IF cmd[o] = "markApplied" /\ s = "pg" /\ ms = {} THEN Return(o)
          ELSE /\ Goto(o, <<"mark", s>>)
               /\ todo' = [todo EXCEPT ![o] = ms]
               /\ group' = [group EXCEPT ![o] = Group(s) + 1]
               /\ UNCHANGED <<cmd, ver>>
    /\ UNCHANGED <<schema, locked, count>>

\* What comes next: the last one first on the way down.
IsNext(o, m) ==
    m \in todo[o] /\ \A k \in todo[o] : IF cmd[o] = "down" THEN k <= m ELSE m <= k

\* Of two marks, made by commands that both had listed it, either may count.
Mark(o, s, m) ==
    /\ at[o] = <<"mark", s>> /\ IsNext(o, m)
    /\ \E g \in IF cmd[o] = "down" THEN {0}
               ELSE {group[o]} \cup ({applied[s][m]} \ {0}) :
          applied' = [applied EXCEPT ![s][m] = g]
    /\ unrun' = [unrun EXCEPT ![s] = IF cmd[o] = "down" THEN @ \ {m}
                                     ELSE @ \cup {m}]
    /\ todo' = [todo EXCEPT ![o] = @ \ {m}]
    /\ Goto(o, IF cmd[o] = "markApplied" THEN at[o] ELSE <<"run", s, m>>)
    /\ UNCHANGED <<has, locked, cmd, ver, group, held, count>>

\* Its Up or Down.
Run(o, s, m) ==
    /\ at[o] = <<"run", s, m>>
    /\ IF cmd[o] = "down"
       THEN has' = [has EXCEPT ![s] = @ \ {m}] /\ UNCHANGED unrun
       ELSE /\ has' = [has EXCEPT ![s] = @ \cup {m}]
            /\ unrun' = [unrun EXCEPT ![s] = @ \ {m}]
    /\ Move(o, <<"mark", s>>)
    /\ UNCHANGED <<applied, locked, held, count>>

\* A call fails; a Down may have taken effect in part.
CallFails(o, s) ==
    /\ \/ at[o] \in {<<"list", s>>, <<"mark", s>>} /\ UNCHANGED has
       \/ \E m \in Migration :
             /\ at[o] = <<"run", s, m>>
             /\ \/ UNCHANGED has
                \/ cmd[o] = "down" /\ has' = [has EXCEPT ![s] = @ \ {m}]
    /\ UNCHANGED held /\ Return(o)
    /\ UNCHANGED <<applied, unrun, locked, count>>

\* What is unlocked as soon as a store has been changed.
UnlockAtOnce(s) == {s}
Released(s) == {}

\* All that was listed is done.
Succeed(o, s) ==
    /\ at[o] = <<"mark", s>> /\ todo[o] = {}
    /\ held' = [held EXCEPT ![o] = @ \ Released(s)]
    /\ locked' = [x \in Store |-> locked[x] /\ x \notin Released(s)]
    /\ IF s = "ch" THEN Return(o)
       ELSE Move(o, <<IF cmd[o] = "markApplied" THEN "list" ELSE "lock", "ch">>)
    /\ UNCHANGED <<schema, count>>

Change(o, s) ==
    \/ List(o, s) \/ Succeed(o, s) \/ CallFails(o, s)
    \/ \E m \in Migration : Mark(o, s, m) \/ Run(o, s, m)

-----------------------------------------------------------------------------
\* The deferred calls, the last one first; one that fails is logged.
Release(o) ==
    /\ at[o] = <<"return">>
    /\ LET s == IF "ch" \in held[o] THEN "ch" ELSE "pg" IN
       /\ held' = [held EXCEPT ![o] = @ \ {s}]
       /\ locked' \in {[locked EXCEPT ![s] = FALSE], locked}
    /\ Return(o)
    /\ UNCHANGED <<schema, count>>

Unlock(o, s) ==
    /\ at[o] = <<"unlock", s>>
    /\ locked' = [locked EXCEPT ![s] = FALSE]
    /\ IF s = "pg" THEN Move(o, <<"unlock", "ch">>) ELSE Leave(o, <<"idle">>)
    /\ UNCHANGED <<schema, held, count>>

\* The process dies, or a call fails before it did anything and it returns.
Die(o) ==
    /\ ~Idle(o) /\ Leave(o, <<"idle">>)
    /\ held' = [held EXCEPT ![o] = {}]
    /\ UNCHANGED <<schema, locked, count>>

Next ==
    \E o \in Operator :
        \/ \E c \in {"up", "down", "lock", "unlock", "markApplied"}, v \in Versions :
               Begin(o, c, v)
        \/ \E s \in Store : Lock(o, s) \/ Change(o, s) \/ Unlock(o, s)
        \/ Release(o) \/ Die(o)

Spec == Init /\ [][Next]_vars

-----------------------------------------------------------------------------
\* When a command "up" has gone through both stores, each of the migrations it
\* ships is marked in both, and each is there in both but for those that a
\* markApplied only marked, or an earlier "up" marked before it failed at them
\* or died: the migrators never run these again, and report success.  This is
\* whatever others run meanwhile, fail at or leave locked; a "down" between
\* the two stores would leave the first one behind.
UpBringsBoth ==
    [][\A o \in Operator :
          cmd[o] = "up" /\ Succeed(o, "ch") =>
              \A s \in Store, m \in 1..ver[o] :
                 applied'[s][m] > 0 /\ (m \in has'[s] \/ m \in unrun'[s])]_vars
-----------------------------------------------------------------------------
\* The inductive invariant of UpBringsBoth, in named parts.
TypeOK ==
    /\ applied \in [Store -> [Migration -> Nat]]
    /\ has \in [Store -> SUBSET Migration] /\ unrun \in [Store -> SUBSET Migration]
    /\ locked \in [Store -> BOOLEAN]
    /\ cmd \in [Operator -> {"none", "up", "down", "lock", "unlock", "markApplied"}]
    /\ ver \in [Operator -> Versions \cup {0}]
    /\ at \in [Operator -> {<<"idle">>, <<"return">>}
                               \cup ({"lock", "list", "mark", "unlock"} \X Store)
                               \cup ({"run"} \X Store \X Migration)]
    /\ todo \in [Operator -> SUBSET Migration]
    /\ group \in [Operator -> Nat \ {0}]
    /\ held \in [Operator -> SUBSET Store]

\* A lock is held by one command; while "unlock" runs, nothing else does.
LocksHeld ==
    /\ \A o \in Operator : \A s \in held[o] :
          locked[s] /\ \A p \in Operator \ {o} : s \notin held[p]
    /\ \A o \in Operator :
          at[o] \in {"unlock"} \X Store => \A p \in Operator \ {o} : Idle(p)

\* What the commands hold at their steps.
Migrating(o) == cmd[o] \in {"up", "down"}
Running(o, s) == \E m \in Migration : at[o] = <<"run", s, m>>
Changing(o, s) == at[o] \in {<<"list", s>>, <<"mark", s>>} \/ Running(o, s)
BehindPostgres(o) == at[o] = <<"lock", "ch">> \/ Changing(o, "ch")
HeldAt ==
    \A o \in Operator :
        /\ Idle(o) \/ at[o] \in {"unlock"} \X Store => held[o] = {}
        /\ at[o] \in {"unlock"} \X Store => cmd[o] = "unlock"
        /\ at[o] = <<"return">> => held[o] # {}
        /\ Migrating(o) => /\ BehindPostgres(o) => "pg" \in held[o]
                           /\ \A s \in Store : Changing(o, s) => s \in held[o]
        /\ at[o] \in {"lock"} \X Store => Migrating(o) \/ cmd[o] = "lock"
        /\ \A s \in Store :
              /\ Changing(o, s) => Migrating(o) \/ cmd[o] = "markApplied"
              /\ Running(o, s) => Migrating(o)

\* What an "up" has not marked yet is on its list; PostgreSQL keeps the marks
\* while its lock is held.
ListedUp ==
    \A o \in Operator, s \in Store :
        cmd[o] = "up" /\ (at[o] = <<"mark", s>> \/ Running(o, s)) =>
            \A m \in 1..ver[o] : applied[s][m] > 0 \/ m \in todo[o]
PostgresUp ==
    \A o \in Operator :
        cmd[o] = "up" /\ BehindPostgres(o) =>
            \A m \in 1..ver[o] : applied["pg"][m] > 0

\* What a mark stands for, also while a Down runs that markApplied overtook.
Stands(s, m) == applied[s][m] > 0 => m \in unrun[s] \/ m \in has[s]
Undoing ==
    \A o \in Operator, s \in Store, m \in Migration :
        cmd[o] = "down" /\ at[o] = <<"run", s, m>> =>
            applied[s][m] = 0 \/ m \in unrun[s]
MarksStand == Undoing /\ \A s \in Store, m \in Migration : Stands(s, m)

UpInv == LocksHeld /\ HeldAt /\ ListedUp /\ PostgresUp /\ MarksStand
=============================================================================
