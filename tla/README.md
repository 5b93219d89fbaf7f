# Anton: a TLA+ development

Anton is a distributed indexer of the TON blockchain.  Several pods run the
same process (`src/cmd/indexer/indexer.go`).  They elect a leader through
Redis; the leader looks up each masterchain block with its shard blocks and
writes their ids to the Kafka topic `unseen-blocks`; every pod, the leader
included, consumes that topic in one consumer group, fetches the transactions
of the blocks, saves them to PostgreSQL and ClickHouse and broadcasts the
account states to the topic `broadcast-messages`; every pod also consumes that
second topic, in a group of its own, and streams it to its gRPC subscribers.

This directory holds the specification of that system: modules, the TLC
configurations that check them, and proofs checked by TLAPS.

## Inventory

| Part | Source (under `src/`) | State | Operations | What is hard |
|---|---|---|---|---|
| Leader election | `internal/leader_election/leaderelection.go`, `config.go` | Redis key and its life; `isLeader`, `lastLeadershipTime`; running callbacks | `Run`, `tryAcquireLeadership`, `ownLeadership`, `loseLeadership` | the key expires between two Redis calls; calls fail after taking effect; long callbacks; crashes |
| Block producer | `internal/leader_election/callbacks/unseen.go` | per term: channel `blockIds`, counter `masterSeq`, workers, context | `OnStartLeading`, `OnStopLeading`, `ProduceBlockIdsLoop`, `ProcessBlockId` | workers race on the counter and send into the channel they receive from; terms overlap; retries |
| Block consumer | `internal/kafka/unseen_block_info/client.go`, `internal/benchmark/benchmark.go` | batch, positions and committed offsets, `totalProcessedBlocks` | `ConsumeLoop`, `ProduceSync` | partial failure of a batch, rebalances under a batch, crashes between processing and commit, benchmark exits |
| Block saver | `internal/app/indexer/{indexer,fetch,save}.go`, repositories `msg`, `account`, `tx`, `block` | tables of messages, account states, latest states, transactions, blocks, code by hash | `getBlockTxs`, `saveBlock`, `uniqMessages`, `insertData` and the `Add...` calls, retries | statements are not one transaction; retries run over changed objects; two blocks that share a message are saved at the same time |
| Stream gateway | `internal/kafka/broadcast/client.go`, `internal/proto/v1/get_data_stream/` | subscriber map, subscriber channels, the consumer's channel | `Consume`, `StartBroadcasting`, `Subscribe`, `Unsubscribe`, `Broadcast`, `V1GetDataStream` | slow subscribers, re-used subscription ids, shutdown order |
| Group purge | `internal/leader_election/callbacks/expired.go` | `lastSeen` per group, `leaderCtx` | `purgeOutdatedGroups`, start and stop callbacks | a goroutine that outlives its term; groups that come back between describe and delete |
| Chain fetcher | `internal/app/fetcher/` | caches of shards, accounts, libraries | `UnseenBlocks`, `UnseenShards`, `BlockTransactions`, `getTransaction`, `getAccount` | recursion over shard parents, early returns of goroutine pairs, caches cleared by the call that fills them |
| Rescan | `internal/app/rescan/`, `internal/core/repository/rescan` | tasks with a checkpoint, interface and minter caches | `rescanLoop`, `rescanRunTask`, one handler per task type, `getRecentAccountState`, `getAccountStateForMessage` | batches, checkpoints, failures in between; caches that many workers share |
| Contracts | `internal/core/repository/contract/`, `cmd/contract/interface.go` | interfaces, operations, their cache with a clearing time | cache getters and setters, add/update/delete commands | stale entries, tasks that overlap |
| LRU | `lru/cache.go` | queue and map | `Put`, `Get`, `Keys` | capacity boundary; used as a cache of caches |
| Parser, ABI, addresses | `internal/app/parser/`, `abi/`, `addr/` | none | classification and encodings | data, not control |
| Queries and HTTP API | `internal/app/query/`, `internal/api/http/`, filters, aggregates, history | none of their own; a client's cursor | listing handlers, count and selection | rows are counted in one database and read from the other, page after page, while pods save |
| Database command | `cmd/db/db.go` | two migration tables with two locks; the batch of a copy loop | `migrate up`, `down`, `lock`, `unlock`, `markApplied`; `transferCodeData`, `clearCodeData` | two stores without a common transaction; locks left behind; batch bounds and restarts of the copy while states are saved |
| Other commands | `cmd/benchmark`, `cmd/web`, `cmd/indexer` | none | start order, statistics | |

What makes each part correct:

* election: at most one leader, a stale leader steps down, a leader emerges
  after a crash, start and stop callbacks stay paired;
* producer: no block number is skipped or lost, a failed one is retried, a
  stopped term ends, no worker blocks for ever in its own channel;
* consumer: offsets cover only records that were dealt with, records come
  again only after a crash or a rebalance, every record is dealt with in the
  end, a pod reports the end of a benchmark once;
* saver: a master block's row is written after the rest of the block, a
  processed record is whole and was broadcast, the latest account state is the
  newest, a message keeps both of its ends, a retry changes nothing;
* stream: what a subscriber gets is in order, a subscriber leaves the map when
  its handler ends, a full channel delays nobody;
* purge: an empty group is deleted while a pod leads, and no purge outlives the
  leadership;
* fetcher: every shard block between two masterchain blocks is found once; a
  fetched block has each transaction once, with its account's state, and a
  fetch ends whichever calls fail;
* queries: a walk through the pages of a listing shows what was there when it
  began, and nothing twice;
* database command: code and data can be read at every moment of their move, the
  commands end, and an `up` that succeeds has gone through both databases, of
  which each mark stands for a migration that is there or was only marked;
* rescan and contracts: when the queue is empty the parsed data is what the
  interfaces of now give, a checkpoint passes no row that was not rescanned and
  does not go back, unless a message has lost its logical time, the queue moves
  on, and what the caches say of an account's past is its past.

## Modules

| Module | Models | State ↔ code |
|---|---|---|
| `LeaderElection` | every pod's `Run` loop against one Redis key | `owner`/`ttl` is the key, `age` the time since `lastLeadershipTime`, `pc` the place in a pass of `tryAcquireLeadership`, `active` the callbacks running, `phase`/`due` the ticker and the one tick its channel buffers |
| `LeaderElectionProofs` | theorems of the election | |
| `BlockProducer` | terms of `ProduceBlockIdsLoop` | `from`, `masterSeq`, `blockIds`, `cancelled` per term; `pc`/`id` per worker; `topic` and `saved` for the surroundings |
| `BlockLoss` | `BlockProducer` with a history over several terms | `loaded`, `skipped`: which numbers fell to the race of `Add` and `Load` |
| `BlockProducerProofs` | theorems of the producer | |
| `BlockConsumer` | the pods of the group `block-processors` | `committed`, `owner`, `position` in Kafka; `todo`, `running`, `upto`, `failed` for the batch of a pod; `processed`, `isFinished`, `finished` for benchmarks |
| `WorkQueue` | what the topic and its group promise, an abstract queue | `committed`; `hand` of a worker; `saved` and `missed` records |
| `BlockConsumerProofs` | theorems of the consumer group and the refinement of `WorkQueue` | |
| `BlockSaver` | `processBlockFunc` with `saveBlock` of every pod on common tables | `kv`, `states`, `latest`, `rows`, `txs`, `masters`, `shards` are the tables; `pc`/`left` the place in `insertData` and its loops, `cast` the broadcasting goroutine, `known`/`skip` the outcome of `getMessageSource`, `bare`/`bared` the account states that lost their code, in this task and in the fetcher's cache |
| `BlockSaverProofs` | theorems of the save | |
| `StreamGateway` | `Consume`, `StartBroadcasting`, the `Broadcaster` and the calls of `V1GetDataStream` in one pod | `written`/`position`/`fetched` for the topic and its consumer; `data`, `offering`, `left` for the goroutine in `Broadcast`; `subs` and `queue` for the map of channels; `at`, `hand` per call; `got` and `due` remember what a client was sent and should have been |
| `StreamGatewayProofs` | theorems of the gateway | |
| `Contracts` | pure operators: which interfaces match a state, what differs between two descriptions, what a task does to the parsed data of one state | an account state is its `<<address, last_tx_lt>>`, its parsed data a record of `types` and `runs` (`types`, `executed_get_methods`) |
| `Rescan` | `cmd/contract`, the rescan service and its repositories | `interfaces`, `operations`, `tasks` are the tables; `rest` the statements a command still has to run; `accounts` and `lts` are PostgreSQL, `shown`, `listed` and `newest` what ClickHouse shows of states and of messages; `pc`, `job`, `contract`, `pending`, `copies`, `place` the pass of `rescanLoop`; `cache` the parser's interfaces; `seen`, `astray` and `faults` are history |
| `RescanProofs` | theorems of the rescan | |
| `GroupPurge` | the goroutines of `RemoveUnusedBroadcastTopics` | `term`/`leading` is `leaderCtx`; per goroutine `listens` is the context its select waits for or its purge uses, `ticks` its ticker, `lastSeen` its map as ages; `members` and `exists` are Kafka's groups |
| `UnseenShards` | `GetUnseenBlocks`, `UnseenBlocks`, `UnseenShards`, `getNotSeenBlocks` with the block cache | `tips` and `parents` are the chain; `masters`, `shards` are `blocksCache`; `pc`, `cur`, `waited` the place of a worker in the call; `found` the answers |
| `BlockFetch` | `getBlockTxs`, `BlockTransactions`, `getTransaction`, `getAccount`, libraries | `at`/`after` the loop over pages, `results` the buffered channel, `reader` the two receives, `txAt`/`accAt` the two goroutines with the value each has to send, `cached`/`cleared` the account cache |
| `Query` | five listings of the HTTP API, their filters and a client that pages | `stored`, `latest` are PostgreSQL, `counted` ClickHouse; `saving` the place of a pod's save; `pc`, `after`, `total`, `page` the request; `answers` what the client got |
| `CodeData` | `transferCodeData`, `clearCodeData`, `AddAccountStates`, `getCodeData` | `rows`/`inline` and `chRows`/`chInline` are the two databases' states and what code and data they hold themselves, `kv` the key-value tables; `from`, `next` the bounds of a batch, `reached` where a command may be started again |
| `Migrations` | `up`, `down`, `lock`, `unlock`, `markApplied`, with bun's `Migrate` and `Rollback` migration by migration | `applied` and `locked` are the tables of both migrators, `has` what the schemas really contain; `at`, `todo`, `group` the place of a command, `held` its deferred unlocks; `unrun`, the marks without their migration, is history |
| `LruCache` | operators: `Get`, `Put`, `Keys` of `lru/cache.go` | the list from the front, with the map's values |
| `AccountPast` | the minter cache and the interface cache of the rescan service and the queries that fill them | `minters` and `interfaces` are the caches, `past` the account states in ClickHouse; `pc`, `question` a worker's request, `read` what is left of the answer it puts in the cache |
| `MCCallbacks` | `BlockProducer` beside `GroupPurge`, the leader's two callbacks | |
| `Parts` | six parts that share no state of the models, one in each behaviour: `UnseenShards`, `BlockFetch`, `Query`, `CodeData`, `Migrations`, `AccountPast` | `use` says which; the instances are `Find`, `Fetch`, `Walk`, `Move`, `Migrate`, `Recall` |
| `MCParts` | a small instance of each part | |
| `WalkProofs` | theorems of the walk and of the search for shard blocks | |
| `PartsProofs` | theorems of the move, the migrations, the fetch and the caches of the rescan | |
| other `MC...` | symmetry sets, values and a constraint for the runs of the module they extend | |

Every action is one step of the code between two points where another actor
can act: one Redis call, one channel operation, one Kafka call, one goroutine's
end.  In `LeaderElection` one action is one Redis call or one callback; in
`BlockProducer` the failed send, the counter's `Add` and the `Load` with its
send are separate actions because the code does them in separate steps.

`BlockConsumer` implements `WorkQueue`: `Queue == INSTANCE WorkQueue WITH ...`
maps its state, the records in a pod's hands being those fetched, running or
waiting to be; `QueueKept` is the abstract specification, checked by `BC_group` and
proved by `QueueImplemented`.  A poll takes records, the end of a goroutine
finishes one, a crash or a panic gives them back, a commit may only cover what
is saved or missed.

Some operators are immediately preceded by a variant that no action uses
(`SetAlways` before `SetIfAbsent`, `DropToken` before `Requeue`, and so on).
Each is the slip of a plausible bug; substituting it makes TLC report the
property that guards against that slip.

### Choices worth knowing

* **Election time.**  Time is discrete.  The key carries its remaining life and
  a pod the age of its last renewal, saturated just above `ElectionTimeout`,
  the only value the code compares it with.  `CallDelay` and `CallbackDelay`
  bound how long a slow pass stays at one place; a prompt pass takes no time.
* **Redis.**  `Get` of a missing key returns `redis.Nil`, which the code
  takes for an error and ends the pass; its later branch for the empty value
  is not reachable.  `Expire` on a missing key is no error.  A call that
  returns an error may have taken effect.
* **Identity.**  A process takes a new `NodeID` at each start
  (`cmd/indexer/indexer.go:199`), so a crashed pod does not come back under
  its old name; a restarted one is another element of `Node`.
* **Terms.**  `BlockProducer` lets any number of terms be active at once, as
  `OnStopLeading` only cancels a context and as the election does not exclude
  two leaders.
* **Kafka.**  A topic's log is a set of records with offsets.  The client's
  position moves with each fetch and is set to the committed offset by an
  assignment only; the broker accepts a commit from a member that no longer
  owns the partition within a generation it has not noticed the end of.
* **Saving.**  A pod saves one block at a time (`UNSEEN_BLOCK_WORKERS = 1`);
  savers at the same time are goroutines of different pods.  An error of the
  PostgreSQL insert of transactions is lost, so a block may be stored without
  them although its save succeeded (`tx.go:116-131`); `MasterRowIsLast` says so
  in its last part.  A basechain message whose source is not stored yet is
  not stored at all, and not made up for later.
* **Gateway.**  A topic with one partition and a group of one member.  A
  client that goes while there is nothing for it stays in the subscriber map
  until the next value, since its handler waits for its channel only; so
  the second part of `GatewayGoesOn` has something in the channel as a premise,
  and `GracefulStop` would wait for such a handler.  A second subscription under
  an id takes over its entry, and the end of the first removes that entry:
  hence `Unshared` in the properties.
* **Rescan.**  A command is the list of its statements, each a transaction of
  its own.  States are selected from ClickHouse by the types it shows, and
  changed in PostgreSQL first; `shown` and `accounts` are the two stores.  What
  may be lost is remembered in `faults`, and `ParsedDataFollowsInterfaces`
  leaves out the behaviours in which it was: the exceptions say precisely
  which failures nothing makes up for.  One table of interfaces is used for a
  whole batch.  No command of this repository starts the rescan service; the
  module models `Start` as if one did.

  Messages are selected by any of the rows that ClickHouse has of them and read
  from PostgreSQL, which gives the checkpoint; the indexer saves some of them
  again, delivered or not, so that one has the logical time of its transaction
  or 0, in each store by itself.  Both reads are one step: a save between them
  is one whose row has not come to ClickHouse yet, which `SaveMessage` allows.
  What a message is parsed as is left out, and with it which rows of
  `UpdateMessages` a failure leaves unwritten: the task comes to all of them
  again, and no property reads them.
* **Purge.**  Kafka deletes no group with members and says so for that group
  alone; the code takes it for done.  Time passes only while no purge loop has
  something to do.
* **Several terms.**  A number below the last saved block may be missing from
  the topic; `LossIsExplained` lists the reasons there are: the first number of a
  term, the race on the counter, and a term that still has it in hand, which may
  have ended and then never writes it.
* **Chain.**  Shards split and merge between two masterchain blocks that name
  them, never inside one, as TON requires; a chain may begin with masterchain
  blocks that name no shards.
* **Fetch.**  A transaction has two goroutines that send on unbuffered
  channels.  When the first value is an error nobody receives the second; the
  goroutine that holds it is left for good.  `WholeAnswer` says that only a
  failed fetch leaves one, `FetchEnds` that nobody waits for it.
* **Queries.**  A client takes the lt of a page's last row as its next cursor,
  so rows with that same lt are skipped: `WalkComplete` says so.  Labels are
  paged by an offset and may repeat when one is inserted before it.  What
  ClickHouse has not counted decides whether there is a page at all.
* **Move of code and data.**  An operator clears only after a transfer has
  finished, and starts a failed command again from the beginning or from the
  bound in its error.  In the run two states share their code.
* **Migrations.**  Operators may run any commands at the same time but
  `unlock`, which takes away locks that are in use by design.  bun is external:
  the migrators are built without an option (`db.go:37-38`), so a migration is
  marked before its Up runs and unmarked before its Down.  `markApplied`
  (`db.go:286`) takes no lock and may mark beside an `up`.
* **Caches of the rescan.**  The answer of a cache is judged by what its reader
  knew of the account: no cache notices newer states (see below).
* **Configuration as state.**  What may go wrong in a behaviour, the
  benchmark's target and its mode are variables that Init chooses and no action changes,
  so that one run covers several configurations.

## Runs

| Run | Instance | Shows |
|---|---|---|
| `LE_election` | 2 pods, TTL 7, timeout 3, period 2, two callbacks; five choices of what goes wrong, from nothing to slow passes with all calls failing | prompt passes: a leader renewed within `ElectionTimeout` owns the key (`ConfirmedLeaderOwnsLock`), two pods never lead unless `Expire` fails (`OneLeaderUnlessExpireFails`); any passes: callbacks are paired (`CallbacksFollowLeadership`), a leader without the key steps down (`StaleLeaderStepsDown`); with a working Redis a leader emerges (`LeaderEmerges`) and stays (`StableLeader`) |
| `LE_callback` | 2 pods with the shipped timings, callbacks of up to 12 units | a counterexample: two leaders (`AtMostOneLeader`) |
| `BP_safe` | 2 terms of 2 workers, blocks 2 to 6 (2 to 4 once the second term runs), one lost acknowledgement, with a target and without | a term's tokens stay as many as its workers, so no send blocks (`TokensConserved`); a number missing below a saved block was skipped by the race, is one a term starts from or is in a term's hands (`LossIsExplained`) |
| `BP_live` | 1 term of 2 workers, blocks 2 to 5, with a target and without; or 2 terms of the purge with one group, one failing call | `LoopEnds`, `TokenEventuallyProduced`; `PurgeFollowsLead`: an empty group is deleted while the pod leads, purges end with the leadership |
| `BP_skip` | 1 term of 2 workers | a counterexample: a number is skipped (`NoBlockSkipped`) |
| `BC_group` | 2 pods, a partition of 2 records, 2 goroutines, one crash, one revocation, all faults, in and out of benchmarks with target 0, 1 or none | the group implements `WorkQueue` (`QueueKept`); `CommittedIsSettled`, `ReportedOnce`, `CommitsAdvance`, `RepeatsNeedRebalance`, `EveryRecordSettled` |
| `BC_lost` | 2 pods, a partition of 3 records, failing records | a counterexample: a committed record is not saved (`CommittedIsSaved`) |
| `BS_save` | 2 pods with one goroutine each, 2 blocks with a common account, a basechain, a masterchain and an external message, 2 tries; five choices of what goes wrong | `MasterRowIsLast`, `DoneIsWhole`, `StoredHasSource`, `LatestAdvances` in all of them; `EndsKeptInOrder` when the blocks come once and in turn; `CodeKeptWithoutRetry` when no call fails and nothing is redelivered |
| `BS_code` | 1 pod, failing statements | a counterexample: stored code is overwritten with nothing (`CodeStays`) |
| `GW_stream` | 2 calls, 2 ids, channels of 2, 3 values or lost places in the group; two choices of what goes wrong | `StreamInOrder`, `SubsAreServed`, `NoneMissedUntilFull`, `GatewayGoesOn` |
| `RS_rescan` | 3 contracts, one a wallet, with 1 or 3 descriptions, 3 states, 7 messages, one of which is saved again, batches of 2, two events (commands, failures or saves) | `ParsedDataFollowsInterfaces`, `OperationSeesAll`, `CheckpointAdvances`, `QueueMovesOn` |
| `PT_parts` | six parts, one in each behaviour (bounds below) | find: `FoundOnce`; fetch: `WholeAnswer`, `FetchEnds`; walk: `WalkComplete`, `EachOnce`; move: `CodeReadable`, `CommandEnds`; migrate: `UpBringsBoth`; recall: `AnswersFitPast` |

The runs check no type invariant: that of every module but `GroupPurge` is
proved for every instance, alone or as a part of an inductive invariant (see
Proofs).

### Why the bounds are enough

* Election: the shipped timings are 10, 5 and 2 seconds
  (`leaderelection.go:31-33`), and `LE_callback` uses them.  `LE_election`
  shrinks them but keeps what matters, `ElectionTimeout + RenewalPeriod <
  LeaderTTL`, with room for the slow steps.  Two pods let one hold a stale
  view while the other takes over; the theorems cover any number.
* Producer: two workers are enough for the race on the counter, two terms for
  an overlap.  A number lies behind a skipped one only when a term goes four
  blocks far, so the chain has that many for a term alone; `FewBlocks` cuts it to
  three once the second term runs.  Both terms hand on what the chain has then.
* Purge: two terms are enough for one goroutine to be overtaken by the next;
  the groups do not influence each other but through the list of a poll, and
  one group is deleted, comes back and is gone again.  The limit is longer than
  the interval, as in the code.
* Consumer: two pods and one partition are enough for a batch to lose its
  partition and for another pod to commit further.  Two records make a batch
  that half fails.  Target 1 lies inside a batch, so that the exits in the
  middle of a batch and at the head of the loop are both taken.
* Saver: two blocks with two savers give every interleaving of two saves on
  one account and one message; the second try is the one that meets what the
  first left behind, in the tables and in the Go objects.  Statements fail
  alone and with savers at the same time, records come twice alone and at the
  same time; all faults at once would only multiply the states.
* Gateway: two calls share an id or not, so that one may replace or remove
  the other's entry.  A channel of 2 can hold something without being full; with
  three values one of them meets a full channel.
* Rescan: three states and batches of two make two batches, with a place to
  keep between them; addresses and logical times run against each other, so
  that comparing them column by column differs from comparing tuples.  Three
  descriptions of one contract change each kind of difference: methods added,
  changed and deleted, matching by methods and by place, operations added,
  changed and deleted.  Two events are two commands, or a command with a failure
  or with a message saved again, which is one of three at its address.
* Find: one worker that looks blocks up again and again with caches that may be
  cleared at each store meets every content of the cache that two would leave,
  since the chain never changes what was looked up; two masterchain blocks with up to two
  new blocks a shard contain splits, merges and shards without new blocks.
* Fetch: two blocks, a page of two, so that the shard block's four transactions
  take two pages; accounts with code (shared by two transactions), without, gone
  and skipped; one failing call, after which the other goroutine is left over.
* Walk: four old rows of three accounts, two with one lt; two blocks, one newer,
  one late; pages of one and two, each listing in each order.
* Move: four old states, two with one lt and two with one hash, one saved anew
  and one saved again; batches of one and two; one failure.
* Migrate: two operators, two versions of the program, three commands: one may
  leave a lock, half its migrations or a mark without one, two more meet.
* Recall: caches of one account with two states each, so that both levels evict;
  three states of two accounts and two workers, who fill, replace and read.

### Fairness

* `LE_election`: time passes and a pass that was started goes on.  Nothing obliges
  a pod to boot or crash, or a Redis call to succeed; the properties about a
  working Redis say so in their premise.
* `BP_live`: the Go scheduler runs every goroutine; `select` picks among ready
  cases at random, so a worker whose context is done and whose channel is
  ready returns in the end (strong fairness of `Quit`); outages of the chain
  and of Kafka end (strong fairness of the successful outcomes), and the chain
  grows.  The last two are assumptions about the surroundings, not the code.
* `BC_group`: the broker assigns partitions while the group has a member,
  processes are restarted, and goroutines run.  Polls, records and commits may
  fail for ever.
* `BS_save` checks safety only and assumes no fairness.
* `GW_stream`: both goroutines of the pod and its handlers run, and a handler
  that wants the write lock gets it between two broadcasts, since a waiting
  writer keeps new readers of a `sync.RWMutex` out.  Clients may stall for ever.
* `BP_live`, purge: time passes and the goroutines run; Kafka's calls may fail
  a bounded number of times.
* `PT_parts`: the goroutines of a fetch run and each call to the node returns,
  with an answer or an error, in the end by its timeout; the command that moves
  data goes on.  Nothing obliges an operator to run a command or it to fail.
* `RS_rescan`: the loop of the service goes on while the process runs; commands
  and failures are bounded, so it is not held up for ever.  The queue may end up
  empty: the run ignores deadlocks, as nothing is left to do then.

## What the counterexamples say

* `LE_callback`: the `OnStartLeading` callbacks run inside the renewal pass,
  before `Expire`.  `ProduceUnseenBlocks` may retry the database for up to a
  minute; the key lives ten seconds.  It expires and a second pod leads as
  well.  With callbacks that return at once this cannot happen, as
  `LE_election` and the theorem `SingleLeader` show.
* `BP_skip`: `masterSeq.Add(1)` and `masterSeq.Load()` are two steps.  Two
  workers that both add before either loads send the same number twice and
  the one below it never.
* `BC_lost`: a failed record makes the loop poll again without committing,
  but its position is already behind the batch.  The next batch that succeeds
  commits an offset that covers the failed record.
* `BS_code`: `AddAccountStates` takes code and data out of the account states
  before it writes them by their hashes.  If a later statement fails, the
  retry has nothing left to write and writes that, over the stored code; the
  account states in the fetcher's cache are changed as well.

Seen in the code and not the subject of a run: the timings that
`config.go:40-55` would accept (nobody calls `validate`) do not imply
`ElectionTimeout + RenewalPeriod < LeaderTTL`, which one leader needs; the
first number a term sends is `fromBlock + 1`, so the block that `FROM_BLOCK`
names is not indexed, nor the block after the last saved one when a term
starts; a commit after a rebalance may move the committed offset back, which
`CommitsAdvance` therefore excludes by its premise; a pod without
`BENCHMARK_TARGET_BLOCKS_NUMBER` panics on its first poll even outside a
benchmark; one that reached its target keeps its partitions although it polls
no more.

Of the other parts:

* The upsert of a message overwrites the destination columns with those of the
  message in hand, set or not (`msg.go:185`).  When the record of the source's
  block is delivered again after the destination's block was saved, the
  destination is erased, although "we update destination transaction and
  parsed data" is said of a destination that arrives (`msg.go:180-181`).
  `EndsKeptInOrder` therefore speaks of blocks that come once and in turn;
  `DestinationStays` in `BlockSaver` is the property that fails.
* The error of `DescribeGroups` as a whole is never looked at
  (`expired.go:71-79`): the poll then knows no group and forgets all ages.  A
  group is judged by the polls alone: one that had a member between two polls may
  be deleted, though only groups unused for the whole limit are meant to be.
* `getShardsInfo` wraps a nil error when a block names no shards
  (`fetcher/block.go:39-41`), so the answer passes for a good one; the walk of
  the next block then reaches the zero state and fails on every try.
* `findLibraries` finds a library only when the whole code is one: its loop over
  references never runs (`libraries.go:43`); the node is asked all the same.
* Accounts with a range of blocks are ordered by `block_seq_no` while the cursor is
  `last_tx_lt`; that listing is left out of `Query`.
* The cache of minters counts the last state of a window of 64 as valid for
  good, although an account may have later changes (`rescan/account.go:30-36`);
  and a change at exactly the asked lt is passed over when the boundary
  `itemTxLT > nextTxLT` meets a cache that another worker has just replaced
  (`rescan/cache.go:72`).  `interfacesCache` is emptied by eviction only.
* The query of interface changes compares `hasAll(types, next_types)` with
  itself (`account.go:401`): losing an interface while others stay is no change.
* `lru/cache.go:53` says a value is never updated; the caches of the rescan do.
* `clearCodeData` and `transferCodeData` never end when more states than the
  limit have one lt: the row at the offset is then the first of the batch again.
* A migration that fails, or at which the process dies, stays marked although it
  was not run: the next `up` passes it over and reports success, until an
  operator removes the mark.  `UpBringsBoth` has it as an exception, beside what
  `markApplied` marked.
* A process that dies while it migrates leaves its locks, and PostgreSQL ahead of
  ClickHouse, until `unlock` and another `up`.  `down` rolls back the last group
  of each store, which after a half `up` are not of one command.

In the rescan, which `RS_rescan` states as exceptions of its properties:

* A task on a get-method resets the types of a state to the interfaces of now
  (`parser/account.go:202-205`).  If an interface was deleted in between, the
  task of that deletion finds the state no more, and its executions stay,
  although `deleteInterface` "removes associated parsed data"
  (`cmd/contract/interface.go:558`).
* Rows that share their address and logical time across the end of a batch are
  skipped: outgoing messages of one transaction do (`msg.go:312-326`).
* A task on an operation finishes when the first addresses of the contract, as
  many as a batch has rows, have no message left, although it "iterates through all
  messages" (`core/rescan.go:42-45`).
* An `updateInterface` that fails after the interface was written finds no
  difference when it is run again, and makes no tasks.  Changing the id of an
  operation under its name always fails that way, since `UpdateOperation`
  looks for the new primary key.  `DeleteOperation` deletes by name, whatever the
  contract.
* A batch written to PostgreSQL whose insert into ClickHouse failed is never
  inserted.
* A get-method task that uses a table of interfaces up to ten seconds old may
  find no such method, and is finished all the same.
* A task whose contract or operation is gone stays at the head of the queue
  for ever; `QueueMovesOn` ends there.
* A message that is not delivered yet (`save.go:169-181`), or whose upsert erased
  its destination, has logical time 0.  When it is the last of a batch the
  checkpoint is `(address, 0)`, and `msg.go:325` leaves the condition on it
  out: the task then begins its address again, and never ends when nothing of
  the batch lies at a later address.  Hence the exceptions of
  `CheckpointAdvances` and, by `Endless`, of `QueueMovesOn`.
* ClickHouse may still show such a message without a logical time when PostgreSQL
  has it: it comes early in its address and takes the checkpoint past the
  messages in between (`rescan.go:223-229`), which are never rescanned.
  `OperationSeesAll` calls them `astray`.

## Proofs

TLC checks the instances above; the theorems hold for every value of the
constants that satisfies the named assumptions.  Each module declares its own
(`...Assumption`); some theorems have a further hypothesis, named with them
below.  Most inductive invariants stand at the end of the module they are
about, in named parts, so that TLC can check them on small instances, as it did
before they were proved.

* `LeaderElectionProofs` (`NodeAssumption`, `TimingAssumption`,
  `EnvironmentAssumption`)
  * `TypeCorrect`: type correctness.
  * `ConfirmedLeader`: with prompt passes and `ElectionTimeout < LeaderTTL`, a
    leader renewed within `ElectionTimeout` owns the key, whichever calls
    fail.  The invariant adds three parts: the key is absent exactly when it
    has no life (`LockInv`); from the answer of `Get` to the end of the pass
    the pod owns the key (`PassInv`), true because no time passes in a prompt
    pass; the key's remaining life and the age of the renewal add up to at
    least `LeaderTTL` (`AgeInv`).
  * `SingleLeader`: with `ElectionTimeout + RenewalPeriod < LeaderTTL`, two
    pods never lead at once unless `Expire` fails.  The invariant adds that a
    waiting leader's key outlives its wait for the next tick (`LeadInv`);
    that is where the `RenewalPeriod` comes in, since a leader notices its
    timeout only at a tick.
  * `CallbacksPaired`: start and stop callbacks are paired, whatever the
    timings and the failures.  `CallbackInv` says which callbacks are active at
    each place of a pass.
  * `LeaderIsStable` and `SingleSlowLeader`: with slow passes but no failing
    calls a leader leads until its process ends, and there is one at most.
    Both need `StableTimings`: the key outlives the four calls behind a
    renewal and the wait for the next tick, and outlives the first pass with
    all its callbacks.  The shipped 10, 5 and 2 seconds satisfy it when no
    Redis call takes 2 seconds and the callbacks return in time, and
    `LE_callback` shows what happens otherwise; the constants of
    `LE_election` satisfy it.  No bound of it can be spared: TLC loses the
    leader in an instance where any one of them is missed by one.  `HoldInv`
    adds what is left of the key's life at each place of an owner's pass.
* `BlockProducerProofs` (`ProducerAssumption`)
  * `ProducerTypeCorrect`: type correctness, together with `UnstartedInv`.
  * `TokensAreConserved`: channel, hands and dropped tokens add up to the
    number of workers, for every number of workers and terms; so no send
    blocks.  The proof counts the workers that hold a token before and after
    each step.
  * `LossExplained`: a number below the last saved block is missing from the
    topic only for the reasons `LossIsExplained` names, over any number of
    terms.  `LossInv` follows a number from the moment `masterSeq` passes it:
    what a term took on is written, skipped, in its hands or beyond the
    benchmark (`TakenAccounted`), what it holds it took on (`TokensTaken`),
    and no number lies between the ranges of the terms (`NoGapBetween`).
* `BlockConsumerProofs` (`ConsumerAssumption`)
  * `ConsumerTypeCorrect`: type correctness.
  * `CommittedSettled`: committed offsets cover only records that were saved
    or whose failure was reported, for any number of pods, partitions,
    crashes and rebalances.  The invariant adds that what lies below a
    position or a batch's end is settled or in its pod's hands
    (`PositionInv`, `BatchInv`), and that a pod that commits has empty hands
    (`HandsInv`).
  * `CommittedSaved`: if neither polls nor records fail, they cover only saved
    records.
  * `QueueImplemented`: every behaviour of the group is one of `WorkQueue`.
    Each action maps to a step of the queue or to none; that a goroutine
    finishes exactly one record needs that what waits and what runs is disjoint
    (`Disjoint`), and that a poll leaves nothing behind needs the strengthened
    invariant of `CommittedSettled`.
  * `PodsReportOnce`: a pod reports the end of its benchmark once, however many
    of its goroutines see the target.  The proof counts the pods that
    reported; `NoWorkInv` deals with the target 0, at which no pod polls.
  * `CommitsOnlyAdvance`: without a rebalance offsets never move back.
    `OwnBatchInv`: a batch belongs to the owner of its partitions, whose
    position is where it ends.
  * `NoRepeatsAlone`: without a crash or a rebalance a settled record does not
    run again.  `ReadOnceInv`: positions begin at 0 and pass a record once
    (`AssignedOnce`, `ReadBelow`), and what was read is in one place, waiting,
    running or settled (`WaitsOnce`).
* `BlockSaverProofs` (`SaverAssumption`)
  * `SaverTypeCorrect`: type correctness.  `PlacesOK` holds what it needs to
    be inductive: a saver that is not idle has a block, the broadcast runs
    only during an insert, a lookup has only messages left.
  * `SourceIsStored`: no basechain message is stored without its source.  The
    invariant adds that a saver past its lookups has in hand the source of
    every message it has not skipped (`LookupInv`) and that the message loop
    contains no skipped message (`SkipInv`).
  * `MasterRowComesLast`: the row of a master block comes after everything
    else but the rows of its shards.  `ProgressInv` says what is stored at
    each place of `insertData`; it survives the steps of other savers because
    the tables only grow (`TablesGrow`) and rests on `SkipInv`, since a
    skipped message would leave a needed row out.
  * `ProcessedIsWhole`: a processed record has its rows and was broadcast.
    `JoinInv` ties the places of the two goroutines and `failed` to the tables.
  * `LatestNeverGoesBack`: the latest state of an account never moves back.
  * `CodeIsKept`: when no statement fails and nothing is delivered twice, the
    code of every saved state is stored, however many savers share accounts and
    code.  `CodeInv` adds that each block has one saver, once
    (`HandledOnce`), which finds its states with their code until it has
    written it (`Dressed`).
  * `EndsAreKept`: when records come once and in turn, a message whose two
    blocks are saved has both ends, whatever fails and is tried again.  It
    needs `SentFirst`: the block of a message's source is not behind that of
    its destination, as a block names the shard blocks its messages come from;
    `EndsKeptInOrder` is false without it, the saver then takes the source for
    missing and skips the message.  `SerialInv` puts the blocks in a line,
    `EndsInv` says what each place of a save has made sure of.
* `StreamGatewayProofs` (`GatewayAssumption`)
  * `GatewayTypeCorrect`: type correctness.
  * `SubscribersAreServed`: the subscriber map holds only calls that run, and
    every serving call whose id nobody else used.  The invariant adds that a
    call which has not subscribed has no id (`NewHasNoId`): only then does a
    new subscriber make somebody's id a shared one.
  * `NothingMissedUntilFull`: a subscriber with an id of its own gets every
    value until its channel was full, for every size of the channels.
    `DueInv`: until then its stream is what was broadcast but for the value
    that is still to be offered (`InStep`), afterwards the stream only grows
    (`Saturated`).
  * `StreamsInOrder`: every client gets the values in the topic's order and
    none twice, unless the consumer loses its place.  `OrderInv`: what was
    fetched comes after the value at hand, which comes after everything in a
    stream it was not offered to yet (`FetchInOrder`, `StreamsBehind`).
* `RescanProofs` (`RescanAssumption`: finitely many states and messages,
  logical times of states above 0, an operation belongs to its description's contract;
  finitely many names, operations and get-methods, and an interface has one
  get-method of a name, as the parser, its cache and `diffInterface` look them
  up by name)
  * `RescanTypeCorrect`: type correctness.  It needs that what is left of a
    command is a script (`Scripts`): each statement has its argument, and one
    that goes on without a task is not the last.  A command is put
    together by `FlattenSeq` from sets in any order, and a task is chosen by
    `Min` over finite sets, so these operators are reasoned about by induction
    over lengths and cardinalities.
  * `CheckpointsAdvance`: a stored checkpoint goes back only to the beginning
    of its address, at a message without logical time.  `InTurn`: the
    service works on the first unfinished task, and none after it has a
    checkpoint; `PlaceOK`: the place it is going to store is that of a row
    behind the stored one.  It needs that a message has its logical time
    or none in all its rows and copies (`LtsOK`).
  * `OperationsSeeAll`: a task on an operation is finished only when all its
    messages were rescanned, with the exceptions that `OperationSeesAll`
    names, however the messages are saved meanwhile.  `MessagesInv`: a message
    that the checkpoint would leave out, in the rows ClickHouse has of it, was
    rescanned, or another one of its transaction, or is astray; it rests on
    the lemma that the checkpoint after a batch is the place of one of its
    rows, and that what a limited batch leaves out is not before any of them
    (`LeftOutIsLater`).
  * `DataFollowsInterfaces`: once commands and tasks are done, the parsed data
    of every state that is no wallet is what its interfaces make of it, unless
    a failure lost something.  `FollowInv`: whatever is wrong about a state's
    data, contract by contract and method by method, is put right by a task
    still to come to it (`Settled`): one that is unfinished and whose checkpoint
    is before the state, or one that the command at hand has still to make
    (`Coming`).  So with nothing left to come nothing is wrong.  It holds
    because every change of the table is followed by the tasks it calls for,
    in an order in which no failed statement parts them (`ScriptInv`); because
    a task settles its own contract and leaves the others alone, and where the
    table is not any more what the task was made for or read with it, a later
    task makes up for that (`MeaningInv`, `ContractInv`); and because ClickHouse, where states are
    looked for, shows at least the types they have (`ShownInv`), or, after
    a lost insert and a single command, those and the types they should have
    (`AloneInv`).  TLC finds `RescanInv` and `FollowInv` kept on the instance
    of `RS_rescan`.
* `WalkProofs` (`PartsAssumption`: the assumptions of the parts, of which it
  uses `QueryAssumption` for the walk)
  * `ShardsFoundOnce`: whatever finders share the caches, no shard block is
    found twice and none is missed.  `FindInv` says of the chain that later
    masterchain blocks name later shard blocks (`TipsGrow`) and that behind a
    new block is one that is new too or was named before (`Behind`); so what
    is new lies between two masterchain blocks (`New`), and no two such sets
    meet.  The caches only hold what the chain has (`CacheInv`), and a walk
    down the parents, a recursion by the depth of the walk, returns each new
    block once and no other.
  * `WalkTypeCorrect`: type correctness.
  * `ShownOnce`: no page shows a row of an earlier one.  `WalkInv`: the cursor
    is behind what was shown and before what is to come (`CursorBetween`),
    and an account's latest row is at least what was shown of it
    (`LatestShown`).
  * `EveryRowComes`: a walk shows every row there was at its start, but for
    those `WalkComplete` names.  `ComeInv`: until the end such a row is ahead
    of the cursor, on the page at hand, or has the lt of the last row of a
    page.  Labels are paged by an offset: for them the proof counts the labels
    before the row, which saves only add to.
* `PartsProofs` (`PartsAssumption`)
  * `MoveTypeCorrect`: type correctness of the move.
  * `CodeCanBeRead`: a stored state can be read with its code and data at any
    time of the move.  `MoveInv`: a save stores code and data before the row
    (`SavedFirst`), what a row has lost in either database is in the key-value
    store (`NothingLost`), and so is everything a transfer has passed
    (`Transferred`), which is why a clear after it loses nothing.
  * `BothAreUp`: an `up` that has gone through both stores leaves both with
    a mark for all it ships, and with what is marked, unless it was only
    marked.  `UpInv`: a lock has one holder and is not released under it
    (`LocksHeld`), who holds which at each step (`HeldAt`), what is not marked
    is on the list (`ListedUp`), PostgreSQL keeps its marks while the lock is
    held (`PostgresUp`), and each mark stands for something, also
    beside a `down` that a `markApplied` overtook (`MarksStand`).
  * `AnswerIsWhole`: a fetch without an error is whole, and only a failed call
    leaves a goroutine behind.  `FetchInv` follows a transaction from the list
    (`ListedInv`) through the two goroutines that read it (`AccountInv`) and
    the channel (`ResultsInv`) to the answer (`GotInv`); that the answer has
    all of a block's transactions is the pigeonhole principle, for as many
    different ones as the pages listed (`PagesInv`).
  * `PastAnswersFit`: what the service takes for an account's past was its
    past when it was read.  `PastInv`: each entry of the two caches fits the
    account as its reader saw it (`StateFits`, `TypesRead`), and what a worker
    still has to put in are consecutive changes, with the last unless the query's
    limit cut it off (`Consecutive`).  The list of a cache is reasoned about
    as a whole: `Get` and `Put` only leave out, move or add entries.

A run names properties of `Parts`, so the theorems about its parts are stated
of `PartsSpec`: a behaviour of it is one of each part (`WalkIsPart`,
`EachIsPart`), which steps while it is in use.  `MigrationsAssumption` and
`FetchAssumption` say what the code's data has: versions are positive and one
is the last; a transaction is listed once, in one block.

Only model-checked:

* the properties under fairness, which TLAPS does not prove (nor anything about
  ENABLED): `StaleLeaderStepsDown`, `LeaderEmerges`, `LoopEnds`,
  `TokenEventuallyProduced`, `PurgeFollowsLead`, `EveryRecordSettled`,
  `GatewayGoesOn`, `QueueMovesOn`, `FetchEnds`, `CommandEnds`.

## Not modelled, and the plan

Next in the plan:

1. `GroupPurge`: a purger listens to its own term or a later one, as an
   invariant and a theorem.
2. `Pipeline`: producer, topic and consumers composed, with an abstract
   specification (each block number is saved, reported or explained by
   `BlockLoss`) that they implement.

Of the parts already modelled, still outside: the wait for a benchmark's start,
the benchmark's statistics, and `Stop` of the indexer.  In `BlockSaver` data by
hash is treated as code by hash and transactions are stored all or none.

In `Rescan`: get-methods with arguments (one that got arguments after its task
was made ends the process, `parser/get.go:96-98`, and does so again at the
next start), definitions, columns derived from results, payloads that cannot be parsed,
states with logical time 0, files with several interfaces, commands at the
same time, commands about wallets, what a message is parsed as, and states and
messages that are saved for the first time while a task runs.

Left aside for good: the data the parser extracts, ABI and addresses
(encodings and a C emulator), aggregates and history (single queries whose
meaning is the database's), conditions of the filters that only select fewer
rows, the benchmark's statistics, the set-up of servers and signal handling,
generated code, deployment files, and the wording of logs and errors.  Several small
parts are checked in one run, `PT_parts`, since they share nothing; their modules
stand alone.
