-------------------------------- MODULE Rescan -------------------------------
(***************************************************************************)
(* Rescan tasks: the contract command changes the table of interfaces and  *)
(* operations and appends tasks (cmd/contract); the rescan service takes   *)
(* the oldest unfinished task and brings the parsed data of all states or  *)
(* messages it concerns up to date, batch by batch, keeping its place in   *)
(* the task's row (app/rescan, repository/rescan).                         *)
(*                                                                         *)
(* A command is a list of statements, each in a transaction of its own.    *)
(* Rows are chosen from ClickHouse, and read and written in Postgres; each *)
(* ClickHouse write adds a row, and older rows are seen until they are     *)
(* merged.  The indexer meanwhile saves messages again that are stored     *)
(* already, before or after they were delivered; states and messages it    *)
(* saves for the first time are left out.  Commands run one at a time.     *)
(* What a message is parsed as is left out: no property reads it.          *)
(***************************************************************************)
EXTENDS Contracts, Sequences, SequencesExt

CONSTANTS
    Description,    \* what a file may say of a contract:
                    \*   [name, interface, operations]
    Message,        \* messages,
    MsgOf,          \* each with its [address, lt, outgoing, id]; the lt is
                    \*   that of its transaction, 0 if it never has one
    Unsteady,       \* messages the indexer saves again
    SelectLimit,    \* rows of a batch
    Events          \* bound on commands, failing calls and saves together

\* A state has a positive logical time; a message whose transaction is not
\* known has 0.  The code finds get-methods by their names, so an interface
\* has one of a name.
ASSUME RescanAssumption ==
    /\ SelectLimit \in Nat \ {0} /\ Events \in Nat
    /\ State \subseteq Nat \X (Nat \ {0}) /\ IsFiniteSet(State)
    /\ Message \cap State = {} /\ IsFiniteSet(Message)
    /\ \A m \in Message : MsgOf[m].address \in Nat /\ MsgOf[m].lt \in Nat
    /\ Unsteady \subseteq Message
    /\ \A d \in Description :
          d.name \in Name /\ \A op \in d.operations : op.contract = d.name
    /\ IsFiniteSet(UNION {d.operations : d \in Description})
    /\ IsFiniteSet(UNION {d.interface.methods : d \in Description})
    /\ IsFiniteSet(Name)
    /\ \A d \in Description :
          /\ d.interface # None
          /\ \A g, h \in d.interface.methods : g[1] = h[1] => g = h

\* An operation is a record [contract, outgoing, id, name, version]; its
\* primary key is the first three fields.
Unparsed == [name |-> "unparsed"]

VARIABLES
    interfaces,     \* contract_interfaces
    operations,     \* contract_operations
    tasks,          \* rescan_tasks in the order of their id
    rest,           \* statements the running command still has to execute
    commands,       \* commands started
    accounts,       \* parsed data of the states, in Postgres
    shown,          \* types of each state that ClickHouse shows
    lts,            \* the logical time each message has in Postgres
    newest,         \* that of its last row in ClickHouse
    listed,         \* those of all its rows there
    pc,             \* where the service is
    job,            \* number of its task, whose row is locked
    contract,       \* interface read with the task
    pending,        \* states still to be inserted into ClickHouse
    copies,         \* messages to be inserted, with the times read of them
    place,          \* checkpoint to be saved
    cache,          \* interfaces kept by the parser, or None
    seen,           \* history: messages rescanned by the task so far,
    astray,         \*   and those it may miss as their rows went back
    events,         \* calls that failed and messages saved
    faults          \* history: what was lost

database == <<interfaces, operations>>
saved    == <<lts, newest, listed>>
service  == <<pc, job, contract, pending, copies, place>>
history  == <<seen, astray>>
vars == <<interfaces, operations, tasks, rest, commands, accounts, shown,
          saved, service, cache, history, events, faults>>

Start == <<0, 0>>

-----------------------------------------------------------------------------
(* The contract command.                                                   *)

\* Statements: "insert", "update" and "drop" of an interface, "add", "change"
\* and "delete" of an operation, "disown" all operations of a contract, and
\* "task".  With keepGoing the command only logs an error.
Task(type, name, methods, op) ==
    [type |-> type, name |-> name, methods |-> methods, op |-> op,
     done |-> FALSE, last |-> Start]
Statement(do, arg, keepGoing) ==
    [do |-> do, arg |-> arg, keepGoing |-> keepGoing]
InterfaceTask(type, name, methods) == Task(type, name, methods, Unparsed)
OperationTask(type, op) == Task(type, op.contract, {}, op)
ForEach(F(_), ops) == LET s == SetToSeq(ops) IN [k \in DOMAIN s |-> F(s[k])]
Only(condition, s) == IF condition THEN s ELSE <<>>

\* addInterfaces
AddStatements(d) ==
    <<Statement("insert", d, TRUE),
      Statement("task", InterfaceTask("add_interface", d.name, {}), TRUE)>>
    \o FlattenSeq(ForEach(LAMBDA op :
           <<Statement("add", op, TRUE),
             Statement("task", OperationTask("upd_operation", op), TRUE)>>,
           d.operations))

\* updateInterface; operations are compared by name.
UpdateStatements(d) ==
    LET old     == interfaces[d.name]
        new     == d.interface
        oldOps  == {op \in operations : op.contract = d.name}
        deleted == {op \in oldOps : \A q \in d.operations : q.name # op.name}
        added   == {op \in d.operations : \A q \in oldOps : q.name # op.name}
        changed == d.operations \ (oldOps \cup added)
        Each(do, ops)    == ForEach(LAMBDA op : Statement(do, op, FALSE), ops)
        Rescan(task)     == <<Statement("task", task, FALSE)>>
        Of(type, ops)    == FlattenSeq(
                                ForEach(LAMBDA op : Rescan(OperationTask(type, op)), ops))
        Methods(type, g) == Only(g # {}, Rescan(InterfaceTask(type, d.name, g)))
    IN  Only(old # new, <<Statement("update", d, FALSE)>>)
        \o Each("delete", deleted) \o Each("change", changed) \o Each("add", added)
        \o Only(MatchingDiffers(old, new),
                Rescan(InterfaceTask("upd_interface", d.name, {})))
        \o Methods("add_get_method", Added(old.methods, new.methods))
        \o Methods("upd_get_method", Changed(old.methods, new.methods))
        \o Methods("del_get_method", Deleted(old.methods, new.methods))
        \o Of("del_operation", deleted)
        \o Of("upd_operation", added \cup changed)

\* deleteInterface
DeleteStatements(n) ==
    <<Statement("disown", n, FALSE), Statement("drop", n, FALSE)>>
    \o ForEach(LAMBDA op : Statement("task", OperationTask("del_operation", op), FALSE),
               {op \in operations : op.contract = n})
    \o <<Statement("task", InterfaceTask("del_interface", n, {}), FALSE)>>

\* Commands leave the interfaces of wallets alone.
Command ==
    /\ rest = <<>> /\ commands + events < Events
    /\ commands' = commands + 1
    /\ \E d \in {e \in Description : e.name \notin Wallet} :
          \/ rest' = AddStatements(d)
          \/ interfaces[d.name] # None /\ rest' = UpdateStatements(d)
          \/ interfaces[d.name] # None /\ rest' = DeleteStatements(d.name)
    /\ UNCHANGED <<database, tasks, accounts, shown, saved, service, cache,
                   history, events, faults>>

Key(op) == <<op.contract, op.outgoing, op.id>>

\* Whether the database takes the statement.
Accepts(st) ==
    LET Unlike(d) == \A n \in Name \ {d.name} :
                        interfaces[n] # None => ~Clash(interfaces[n], d.interface)
    IN CASE st.do = "insert" -> interfaces[st.arg.name] = None /\ Unlike(st.arg)
         [] st.do = "update" -> Unlike(st.arg)
         [] st.do = "drop"   -> interfaces[st.arg] # None
         [] st.do = "add"    ->
                \A op \in operations :
                    /\ Key(op) # Key(st.arg)
                    /\ <<op.contract, op.name>> # <<st.arg.contract, st.arg.name>>
         [] st.do = "change" ->
                /\ \E op \in operations : Key(op) = Key(st.arg)
                /\ \A op \in operations :
                      <<op.contract, op.name>> = <<st.arg.contract, st.arg.name>>
                         => Key(op) = Key(st.arg)
         [] st.do = "delete" -> \E op \in operations : op.name = st.arg.name
         [] OTHER -> TRUE

\* An operation is deleted by its name alone, whatever its contract.
Execute(st) ==
    /\ interfaces' =
          CASE st.do \in {"insert", "update"} ->
                   [interfaces EXCEPT ![st.arg.name] = st.arg.interface]
            [] st.do = "drop" -> [interfaces EXCEPT ![st.arg] = None]
            [] OTHER -> interfaces
    /\ operations' =
          CASE st.do = "add"    -> operations \cup {st.arg}
            [] st.do = "change" -> {op \in operations : Key(op) # Key(st.arg)}
                                   \cup {st.arg}
            [] st.do = "delete" -> {op \in operations : op.name # st.arg.name}
            [] st.do = "disown" -> {op \in operations : op.contract # st.arg}
            [] OTHER -> operations
    /\ tasks' = IF st.do = "task" THEN Append(tasks, st.arg) ELSE tasks

\* What is left after an error: all the rest is given up, or what was not
\* inserted goes without its task.
AfterError ==
    IF ~Head(rest).keepGoing THEN <<>>
    ELSE IF Head(rest).do = "task" THEN Tail(rest) ELSE Tail(Tail(rest))

RunStatement ==
    /\ rest # <<>>
    /\ IF Accepts(Head(rest))
       THEN Execute(Head(rest)) /\ rest' = Tail(rest) /\ UNCHANGED faults
       ELSE /\ rest' = AfterError
            /\ faults' = IF Head(rest).keepGoing THEN faults
                         ELSE faults \cup {"command"}
            /\ UNCHANGED <<database, tasks>>
    /\ UNCHANGED <<commands, accounts, shown, saved, service, cache, history,
                   events>>

Fail == commands + events < Events /\ events' = events + 1

\* A statement fails, or the command dies.
CommandFails ==
    /\ rest # <<>> /\ Fail
    /\ rest' \in {AfterError, <<>>}
    /\ faults' = faults \cup {"command"}
    /\ UNCHANGED <<database, tasks, commands, accounts, shown, saved,
                   service, cache, history>>

-----------------------------------------------------------------------------
(* The rescan service.                                                     *)

Unfinished == {k \in DOMAIN tasks : ~tasks[k].done}
Oldest     == CHOOSE k \in Unfinished : \A j \in Unfinished : k <= j
OnMessages(t) == t.type \in {"upd_operation", "del_operation"}

\* The task's contract, or its operation, is not in the database any more.
Orphaned(t) ==
    \/ t.type \notin {"del_interface", "del_operation"} /\ interfaces[t.name] = None
    \/ t.type = "upd_operation"
       /\ \A op \in operations : Key(op) # Key(t.op)

\* GetUnfinishedRescanTask
Fetch ==
    /\ pc = "idle" /\ Unfinished # {} /\ ~Orphaned(tasks[Oldest])
    /\ pc' = "fetched" /\ job' = Oldest
    /\ contract' = interfaces[tasks[Oldest].name]
    /\ UNCHANGED <<database, tasks, rest, commands, accounts, shown, saved,
                   pending, copies, place, cache, history, events, faults>>

NoCopies == [m \in {} |-> 0]
ToIdle ==
    /\ pc' = "idle" /\ job' = 0 /\ contract' = None
    /\ pending' = {} /\ copies' = NoCopies

\* Where a row stands: the place read from Postgres, and those that rows of
\* ClickHouse show.
Place(x) == IF x \in State THEN x ELSE <<MsgOf[x].address, lts[x]>>
Listed(x) ==
    IF x \in State THEN {x} ELSE {<<MsgOf[x].address, lt>> : lt \in listed[x]}

Before(p, q) == p[1] < q[1] \/ (p[1] = q[1] /\ p[2] < q[2])

AfterByColumn(p, last) == last[2] = 0 \/ (last[1] <= p[1] /\ last[2] < p[2])
AfterAddress(p, last) == last[2] = 0 \/ last[1] <= p[1]
AfterOrAt(p, last) == last[2] = 0 \/ ~Before(p, last)

\* The condition on the checkpoint is left out at logical time 0.
After(p, last) == last[2] = 0 \/ Before(last, p)
ListedAfter(x, last) == {p \in Listed(x) : After(p, last)}

\* MatchStatesByInterfaceDesc
MatchingStates(t) ==
    {s \in State :
        \/ t.type # "add_interface" /\ t.name \in shown[s]
        \/ t.type # "del_interface" /\ Matches(contract, s)}

\* MatchMessagesByOperationDesc: from the first addresses of the contract only.
Addresses(t) == {s[1] : s \in {u \in State : t.name \in shown[u]}}
OfOperation(op, addresses) ==
    {m \in Message : /\ MsgOf[m].address \in addresses
                     /\ MsgOf[m].outgoing = op.outgoing /\ MsgOf[m].id = op.id}
MatchingMessages(t) ==
    LET left == {a \in Addresses(t) : t.last[1] <= a}
    IN OfOperation(t.op, {a \in left :
                             Cardinality({b \in left : b < a}) < SelectLimit})

Rows(t) ==
    {x \in IF OnMessages(t) THEN MatchingMessages(t) ELSE MatchingStates(t) :
        ListedAfter(x, t.last) # {}}

\* DISTINCT: of the rows of one message, any counts.
Listings(t) ==
    {at \in [Rows(t) -> UNION {ListedAfter(x, t.last) : x \in Rows(t)}] :
        \A x \in DOMAIN at : at[x] \in ListedAfter(x, t.last)}

\* LIMIT of the rows in order; rows of one place come in any order.
Firsts(at) ==
    {b \in SUBSET DOMAIN at :
        /\ Cardinality(b) = IF Cardinality(DOMAIN at) < SelectLimit
                            THEN Cardinality(DOMAIN at) ELSE SelectLimit
        /\ \A x \in b, y \in DOMAIN at \ b : ~Before(at[y], at[x])}

\* rescanStartWorkers: the checkpoint after rows read in the order of s.
Checkpoint(s) ==
    FoldLeft(LAMBDA last, x : IF \/ last[1] <= Place(x)[1]
                                 \/ last[2] <= Place(x)[2]
                              THEN Place(x) ELSE last,
             Start, s)

UsesCache(t) == t.type \in {"add_get_method", "upd_get_method"}

\* The interfaces the parser sees: those it has kept, unless ten seconds have
\* passed or the process was started again.
Tables(t) == {interfaces} \cup (IF UsesCache(t) THEN {cache} \ {None} ELSE {})

\* The orders the rows of a table may come in.
Orders == {f \in [Name -> 1..Cardinality(Name)] :
              \A m, n \in Name : m # n => f[m] # f[n]}

\* A batch of states is parsed again and the states that changed are written
\* to Postgres one by one, until all are or a statement fails.
WriteStates(t, batch) ==
    \E table \in Tables(t), order \in Orders :
        LET new     == [s \in batch |->
                           Rescanned(accounts[s], s, t, contract, table, order)]
            changed == {s \in batch : new[s] # accounts[s]}
        IN \E written \in SUBSET changed :
              /\ accounts' = [s \in State |->
                                 IF s \in written THEN new[s] ELSE accounts[s]]
              /\ cache' = IF UsesCache(t) THEN table ELSE cache
              /\ IF written = changed
                 THEN /\ pc' = "written" /\ pending' = changed
                      /\ UNCHANGED <<job, contract, copies, events>>
                 ELSE ToIdle /\ Fail
              /\ faults' = faults
                    \cup (IF table # interfaces THEN {"cache"} ELSE {})
                    \cup (IF written \notin {{}, changed} THEN {"insert"} ELSE {})
              /\ UNCHANGED history

\* Any of a batch may be parsed differently; a copy of one the indexer does not
\* save again says what ClickHouse has.  A message that a row without its logical
\* time brought takes the task past others of its address.
WriteMessages(batch, at) ==
    /\ \E updated \in SUBSET (batch \cap Unsteady) : copies' = [m \in updated |-> lts[m]]
    /\ seen' = seen \cup batch
    /\ astray' = astray \cup
          {m \in Message : \E q \in batch : /\ at[q][2] = 0 /\ lts[q] > 0
                                            /\ MsgOf[q].address = MsgOf[m].address}
    /\ pc' = "written"
    /\ UNCHANGED <<accounts, pending, cache, events, faults, job, contract>>

\* The rows of a batch are read in any order.
WriteBatch ==
    /\ pc = "fetched" /\ Rows(tasks[job]) # {}
    /\ UNCHANGED <<database, tasks, rest, commands, shown, saved>>
    /\ \E at \in Listings(tasks[job]) : \E batch \in Firsts(at) :
          /\ IF OnMessages(tasks[job]) THEN WriteMessages(batch, at)
             ELSE WriteStates(tasks[job], batch)
          /\ IF pc' = "idle" THEN place' = Start
             ELSE \E s \in SetToSeqs(batch) : place' = Checkpoint(s)

\* UpdateAccountStates, UpdateMessages: ClickHouse gets new rows; the old ones
\* of states may be merged.
InsertRows ==
    /\ pc = "written"
    /\ pc' = "inserted" /\ pending' = {} /\ copies' = NoCopies
    /\ \E merged \in BOOLEAN :
          shown' = [s \in State |->
                       IF s \notin pending THEN shown[s]
                       ELSE accounts[s].types \cup (IF merged THEN {} ELSE shown[s])]
    /\ newest' = [m \in Message |->
                     IF m \in DOMAIN copies THEN copies[m] ELSE newest[m]]
    /\ listed' = [m \in Message |->
                     listed[m] \cup {copies[q] : q \in DOMAIN copies \cap {m}}]
    /\ UNCHANGED <<database, tasks, rest, commands, accounts, lts, job,
                   contract, place, cache, history, events, faults>>

\* SetRescanTask after a batch.
SavePlace ==
    /\ pc = "inserted"
    /\ ToIdle /\ place' = Start
    /\ tasks' = [tasks EXCEPT ![job].last = place]
    /\ UNCHANGED <<database, rest, commands, accounts, shown, saved, cache,
                   history, events, faults>>

\* SetRescanTask when nothing was left.
Finish ==
    /\ pc = "fetched" /\ Rows(tasks[job]) = {}
    /\ ToIdle /\ seen' = {} /\ astray' = {}
    /\ tasks' = [tasks EXCEPT ![job].done = TRUE]
    /\ UNCHANGED <<database, rest, commands, accounts, shown, saved, place,
                   cache, events, faults>>

\* A call fails or the process stops: the transaction is rolled back, what was
\* written to Postgres stays.  A second try finds no difference to insert.
Abandon ==
    /\ pc # "idle" /\ Fail
    /\ ToIdle /\ place' = Start
    /\ faults' = faults \cup (IF pending # {} THEN {"insert"} ELSE {})
    /\ UNCHANGED <<database, tasks, rest, commands, accounts, shown, saved, cache,
                   history>>

-----------------------------------------------------------------------------
(* The indexer, and ClickHouse.                                            *)

\* AddMessages: a message comes with its logical time or, from the block of its
\* other end, without.  Postgres keeps what it has of the source; ClickHouse
\* gets a row, or that insert fails.
SaveMessage(m) ==
    /\ m \in Unsteady /\ Fail
    /\ \E lt \in {0, MsgOf[m].lt} :
          /\ lts' = IF MsgOf[m].outgoing THEN lts ELSE [lts EXCEPT ![m] = lt]
          /\ \/ UNCHANGED <<newest, listed>>
             \/ /\ newest' = [newest EXCEPT ![m] = lt]
                /\ listed' = [listed EXCEPT ![m] = @ \cup {lt}]
    /\ UNCHANGED <<database, tasks, rest, commands, accounts, shown, service,
                   cache, history, faults>>

\* Only the last row of a message remains.
Merge(m) ==
    /\ listed[m] # {newest[m]}
    /\ listed' = [listed EXCEPT ![m] = {newest[m]}]
    /\ astray' = IF Unfinished # {} /\ \E lt \in listed[m] : lt > newest[m]
                 THEN astray \cup {m} ELSE astray
    /\ UNCHANGED <<database, tasks, rest, commands, accounts, shown, lts, newest,
                   service, cache, seen, events, faults>>

-----------------------------------------------------------------------------
\* ParseAccountData: what the indexer's parser makes of a state.
Parsed(table, s) ==
    [types |-> MatchedBy(table, s),
     runs  |-> UNION {{n} \X table[n].methods : n \in MatchedBy(table, s)}]

\* Interfaces were added, those of wallets among them, and everything was
\* parsed with them.
Init ==
    \E known \in SUBSET Description :
        /\ \A d, e \in known :
              d # e => d.name # e.name /\ ~Clash(d.interface, e.interface)
        /\ \A d \in Description : d.name \in Wallet => d \in known
        /\ interfaces = [n \in Name |->
              IF \E d \in known : d.name = n
              THEN (CHOOSE d \in known : d.name = n).interface ELSE None]
        /\ operations = UNION {d.operations : d \in known}
        /\ accounts = [s \in State |-> Parsed(interfaces, s)]
        /\ shown = [s \in State |-> accounts[s].types]
        /\ lts \in {f \in [Message -> UNION {{0, MsgOf[m].lt} : m \in Message}] :
                      \A m \in Message :
                         f[m] \in {MsgOf[m].lt} \cup (IF m \in Unsteady THEN {0} ELSE {})}
        /\ newest = lts /\ listed = [m \in Message |-> {lts[m]}]
        /\ tasks = <<>> /\ rest = <<>> /\ commands = 0
        /\ pc = "idle" /\ job = 0 /\ contract = None /\ place = Start
        /\ pending = {} /\ copies = NoCopies
        /\ cache = None /\ seen = {} /\ astray = {} /\ events = 0 /\ faults = {}

Next ==
    \/ Command \/ RunStatement \/ CommandFails
    \/ Fetch \/ WriteBatch \/ InsertRows \/ SavePlace \/ Finish
    \/ Abandon
    \/ \E m \in Message : SaveMessage(m) \/ Merge(m)

\* The loop goes on while the process runs.
Fairness == WF_vars(Fetch \/ WriteBatch \/ InsertRows \/ SavePlace \/ Finish)

Spec == Init /\ [][Next]_vars /\ Fairness

-----------------------------------------------------------------------------
(* Properties.                                                             *)

Lossless == faults \ (IF commands > 1 THEN {} ELSE {"insert"}) = {}
NoWallet(s) ==
    \A d \in Description : d.name \in Wallet => ~Matches(d.interface, s)

\* When the queue is empty and no task was lost, every state that is no
\* wallet has the parsed data it would get if it were parsed anew: tasks were
\* made for all differences and did what was needed, in batches, each with the
\* interface as it was when the task ran.  After several commands there may be
\* executions left of interfaces that are gone or do not match the state any
\* more: a task on a method drops their type, and the task of the deletion or
\* of the update does not find the state any more.  One command survives a
\* failed insert into ClickHouse, since its tasks find a state by the new
\* description too.
ParsedDataFollowsInterfaces ==
    rest = <<>> /\ pc = "idle" /\ Unfinished = {} /\ Lossless =>
        \A s \in State : NoWallet(s) =>
            LET matched == MatchedBy(interfaces, s)
                Kept(runs) == {r \in runs : commands > 1 => r[1] \in matched}
            IN [accounts[s] EXCEPT !.runs = Kept(@)] = Parsed(interfaces, s)

\* A task on an operation is finished when every message of the contract's
\* addresses was rescanned, in however many batches and tries, whatever the
\* order of the rows, and although the indexer saves messages with and without
\* their logical time meanwhile.  It leaves out
\*   - messages of the transaction of one that was rescanned, which come one
\*     batch too late;
\*   - those astray: the others of an address of which a batch has a message
\*     that ClickHouse showed without its logical time and Postgres has with it,
\*     since the checkpoint goes there at once, and those whose row with the
\*     logical time was replaced by one without;
\*   - those of contracts with more addresses than a batch has rows.
SameTransaction(m, q) ==
    MsgOf[m].address = MsgOf[q].address /\ MsgOf[m].lt = MsgOf[q].lt
Covered(m) == m \in astray \/ \E q \in seen : SameTransaction(m, q)
OperationSeesAll ==
    [][\A k \in Unfinished :
          tasks'[k].done /\ OnMessages(tasks[k]) =>
              LET t == tasks[k]
              IN Cardinality(Addresses(t)) > SelectLimit
                 \/ \A m \in OfOperation(t.op, Addresses(t)) : Covered(m)]_vars

\* The stored checkpoint of a task goes forward, to later rows only, so that a
\* batch is done twice only after an error.  The exception is a message that
\* Postgres has without logical time: it takes the checkpoint to 0, from where
\* all of its address comes again, but never to an address before.
CheckpointAdvances ==
    [][\A k \in DOMAIN tasks :
          LET old == tasks[k].last  new == tasks'[k].last
          IN new # old =>
                \/ Before(old, new)
                \/ OnMessages(tasks[k]) /\ new[2] = 0 /\ old[1] <= new[1]]_vars

\* The queue empties, or comes to a task whose contract or operation is gone,
\* or to one that meets a message without logical time: its checkpoint may go
\* to 0, and then the same batch comes for ever.
Endless(t) ==
    /\ OnMessages(t)
    /\ \E m \in OfOperation(t.op, Addresses(t)) : lts[m] = 0
QueueMovesOn ==
    []<>(\/ Unfinished = {} \/ Orphaned(tasks[Oldest]) \/ Endless(tasks[Oldest]))
-----------------------------------------------------------------------------
\* The inductive invariant of OperationSeesAll and CheckpointAdvances, in
\* named parts.
Ops       == UNION {d.operations : d \in Description}
Interface == {d.interface : d \in Description}
Method    == UNION {Names(i.methods) : i \in Interface}
TaskRow ==
    [type : {"add_interface", "upd_interface", "del_interface",
             "add_get_method", "upd_get_method", "del_get_method",
             "upd_operation", "del_operation"},
     name : Name, methods : SUBSET Method, op : Ops \cup {Unparsed},
     done : BOOLEAN, last : Nat \X Nat]

\* The parsed data is not typed here.
TypeOK ==
    /\ interfaces \in [Name -> Interface \cup {None}]
    /\ operations \subseteq Ops
    /\ tasks \in Seq(TaskRow)
    /\ pc \in {"idle", "fetched", "written", "inserted"}
    /\ job \in Nat /\ place \in Nat \X Nat
    /\ pending \subseteq State /\ seen \subseteq Message /\ astray \subseteq Message
    /\ lts \in [Message -> Nat] /\ newest \in [Message -> Nat]
    /\ listed \in [Message -> SUBSET Nat]

\* A message has the logical time of its transaction or none, everywhere.
LtsOK ==
    /\ DOMAIN copies \subseteq Message
    /\ \A m \in DOMAIN copies : copies[m] \in {0, MsgOf[m].lt}
    /\ \A m \in Message : /\ lts[m] \in {0, MsgOf[m].lt}
                         /\ listed[m] \subseteq {0, MsgOf[m].lt}
                         /\ newest[m] \in listed[m]

\* The service is at the first unfinished task, and none after it has begun.
InTurn ==
    /\ pc # "idle" => job \in Unfinished /\ \A k \in Unfinished : job <= k
    /\ \A k \in Unfinished :
          (\E j \in Unfinished : j < k) => tasks[k].last = Start

\* A task on states is at a place of one; the place to be saved is behind the
\* one in the task's row, but for that of a message without logical time.
PlaceOK ==
    /\ \A k \in DOMAIN tasks : OnMessages(tasks[k]) \/ tasks[k].last = Start
                                  \/ tasks[k].last[2] > 0
    /\ pc \in {"written", "inserted"} =>
          \/ place[2] > 0 /\ Before(tasks[job].last, place)
          \/ /\ OnMessages(tasks[job]) /\ place[2] = 0
             /\ tasks[job].last[1] <= place[1]

\* The messages of a task on an operation that are not behind its checkpoint
\* were rescanned, or others of their transaction, or are astray.  It writes no
\* states to ClickHouse.
Ahead(m, last) == last[1] <= MsgOf[m].address /\ ListedAfter(m, last) # {}
SeenOrAhead(t, last) ==
    \A m \in OfOperation(t.op, Addresses(t)) : Ahead(m, last) \/ Covered(m)
MessagesInv ==
    /\ \A k \in Unfinished :
          OnMessages(tasks[k]) => SeenOrAhead(tasks[k], tasks[k].last)
    /\ pc \in {"written", "inserted"} /\ OnMessages(tasks[job]) =>
          SeenOrAhead(tasks[job], place)
    /\ pending # {} => pc = "written" /\ ~OnMessages(tasks[job])

RescanInv == LtsOK /\ InTurn /\ PlaceOK /\ MessagesInv
-----------------------------------------------------------------------------
\* The inductive invariant of ParsedDataFollowsInterfaces, in named parts.
\* What a task on states does does not depend on its progress; what those do
\* that a script still makes, but for one that goes with an insert that may
\* fail; what those do that come after task k, and those that come to state s.
Whole    == {"add_interface", "upd_interface", "del_interface"}
ByMethod == {"add_get_method", "upd_get_method", "del_get_method"}
What(t) == <<t.type, t.name, t.methods>>
Made(script) ==
    {What(st.arg) : st \in {x \in Range(script) :
                               x.do = "task" /\ ~OnMessages(x.arg)}}
ToMake(script) ==
    IF script # <<>> /\ Head(script).do = "insert" THEN {} ELSE Made(script)
Reached(k) ==
    IF k = job /\ pc \in {"written", "inserted"} THEN place ELSE tasks[k].last
OnStates  == {k \in Unfinished : ~OnMessages(tasks[k])}
Later(k)  == {What(tasks[j]) : j \in {i \in OnStates : k < i}} \cup ToMake(rest)
Coming(s) ==
    {What(tasks[k]) : k \in {i \in OnStates : After(s, Reached(i))}} \cup ToMake(rest)

Comes(due, n, types) == \E w \in due : w[1] \in types /\ w[2] = n
Reruns(due, n, g) ==
    \E w \in due : w[1] = "upd_get_method" /\ w[2] = n /\ g \in w[3]

\* The data a of state s is right about contract n, or tasks put it right: one
\* on the interface, or ones on the methods whose executions differ.
Runs(a, n) == {r \in a.runs : r[1] = n}
Differing(a, n, i) ==
    (Runs(a, n) \ ({n} \X i.methods)) \cup (({n} \X i.methods) \ Runs(a, n))
Settled(table, due, n, s, a) ==
    IF n \in MatchedBy(table, s)
    THEN \/ Comes(due, n, Whole)
         \/ /\ n \in a.types
            /\ \A r \in Differing(a, n, table[n]) :
                  r[2][1] \in Names(table[n].methods) /\ Reruns(due, n, r[2][1])
    ELSE n \in a.types => Comes(due, n, {"upd_interface", "del_interface"})
DataInv ==
    \A s \in State : NoWallet(s) =>
        \A n \in Name : Settled(interfaces, Coming(s), n, s, accounts[s])

\* The interface the service works with is that of the table, or else tasks
\* make up for the difference.
Described(n) == {d.interface : d \in {e \in Description : e.name = n}}
UsesContract(t) == ~OnMessages(t) /\ t.type # "del_interface"
Fits(table, due, n, i) ==
    \/ Comes(due, n, {"upd_interface", "del_interface"})
    \/ /\ table[n] # None /\ ~MatchingDiffers(i, table[n])
       /\ \A g \in Changed(i.methods, table[n].methods) : Reruns(due, n, g)
ContractInv ==
    pc # "idle" /\ UsesContract(tasks[job]) =>
        LET n == tasks[job].name
        IN contract \in Described(n) /\ Fits(interfaces, Later(job), n, contract)

\* What a task takes away is not in the table, or a later task restores it.
Meant(table, w) ==
    table[w[2]] # None =>
        LET g == Names(table[w[2]].methods) IN
        /\ w[1] # "del_interface"
        /\ w[1] = "add_get_method" => w[3] \subseteq g
        /\ w[1] = "del_get_method" => w[3] \cap g = {}
MeaningInv ==
    \A k \in OnStates :
        Meant(interfaces, What(tasks[k])) \/ Comes(Later(k), tasks[k].name, Whole)

\* The order of statements: the one that changes the table is before all tasks,
\* an insert before everything; tasks on the interface are before those on
\* methods, and neither is behind an operation that may be left out.
Changing == {"insert", "update", "drop"}
Misplaced(x, y) ==
    \/ y.do = "insert"
    \/ x.do \in Changing \cup {"task"} /\ y.do \in Changing
    \/ y.do = "task" /\ y.arg.type \in Whole
       /\ x.do = "task" /\ x.arg.type \in ByMethod
    \/ y.do = "task" /\ ~OnMessages(y.arg) /\ x.do = "add" /\ x.keepGoing
InOrder(script) ==
    \A i, j \in DOMAIN script : i < j => ~Misplaced(script[i], script[j])

\* A statement that changes the table is followed by the tasks this calls for.
Followed(table, made, st) ==
    /\ st.keepGoing => st.do \in {"insert", "add", "task"}
    /\ st.do = "insert" => /\ Comes(made, st.arg.name, {"add_interface"})
                           /\ \A w \in made : w[1] = "add_interface"
    /\ st.do = "drop" => /\ Comes(made, st.arg, {"del_interface"})
                         /\ \A w \in made : w[2] = st.arg
    /\ st.do = "update" =>
          LET n == st.arg.name  new == st.arg.interface IN
          /\ table[n] # None
          /\ MatchingDiffers(table[n], new) => Comes(made, n, {"upd_interface"})
          /\ \A g \in Changed(table[n].methods, new.methods) : Reruns(made, n, g)
          /\ \A w \in made : w[2] = n /\ Meant([table EXCEPT ![n] = new], w)
Steady(script) == \A st \in Range(script) : st.do \notin Changing
ScriptInv(script, table) ==
    /\ InOrder(script)
    /\ \A st \in Range(script) : Followed(table, Made(script), st)
    /\ Steady(script) => \A w \in Made(script) : Meant(table, w)

\* ClickHouse shows at least the types of a state, unless it missed an insert.
ShownInv ==
    /\ "insert" \notin faults =>
          \A s \in State \ pending : accounts[s].types \subseteq shown[s]
    /\ tasks = <<>> => "insert" \notin faults
    /\ commands \in Nat /\ (commands = 0 => rest = <<>> /\ tasks = <<>>)

\* With one command, no task meets another interface than its command left,
\* those on methods find all interfaces done, and all that was run is of a type
\* the state has.
AloneInv ==
    commands <= 1 =>
        /\ tasks # <<>> => Steady(rest)
        /\ pc # "idle" /\ UsesContract(tasks[job])
              => contract = interfaces[tasks[job].name]
        /\ \A k \in OnStates : tasks[k].type \in ByMethod =>
              \A w \in Later(k) : w[1] \notin Whole
        /\ \A s \in State : NoWallet(s) =>
              /\ \A r \in accounts[s].runs : r[1] \in accounts[s].types
              /\ accounts[s].types \subseteq shown[s] \cup MatchedBy(interfaces, s)

\* Names, interfaces and data, and that no state but those of wallets has the
\* type of one.
Data == [types : SUBSET Name,
         runs : SUBSET (Name \X UNION {i.methods : i \in Interface})]
DataOK ==
    /\ \A n \in Name : interfaces[n] \in Described(n) \cup {None}
    /\ \A s \in State : NoWallet(s) =>
          accounts[s] \in Data /\ accounts[s].types \cap Wallet = {}

Follows ==
    /\ DataOK /\ DataInv /\ ContractInv /\ MeaningInv
    /\ ScriptInv(rest, interfaces) /\ AloneInv
FollowInv == ShownInv /\ (Lossless => Follows)
=============================================================================
