# mock-server: TLA+ verification

mock-server is a Go service that mocks HTTP endpoints (static, proxied, or computed
by a Python script) and message pools (rabbitmq queues and kafka topics), which an
ESB record can link so that what is read from one is written to the other. This
directory models the parts of it that are concurrent or can fail half-way, checks
them with TLC and proves the core of them with TLAPS. Paths below are relative to
the repository; `internal/` is where the program is.

## 1. The system

| Component | State | Operations | Modules |
|---|---|---|---|
| blocking queue, `util/blocking_queue.go` | deque, closed flag, two condition variables | Put, Get, Close | `BlockingQueue`, `ClosableQueue` |
| task scheduler, `brokers/mp_task_scheduler.go` | two queues, the set `running_read_tasks`, the error channel, worker goroutines | submit read and write tasks, worker loops, Stop | `TaskScheduler` |
| broker tasks, `brokers/{rabbitmq,kafka,esb}.go` | the running tasks, `t.msgs`, broker queues, the task messages in the database | read, write, forward, their failures | `BrokerTasks`, `Delivery` |
| pool registry, `brokers/registry.go`, `database/message_pools.go` | documents and broker endpoints | AddMessagePool, RemoveMessagePool, GetMessagePool | `PoolRegistry` |
| ESB records, `database/esb_records.go`, `server/esb_brokers_api.go` | documents, mapper files | add, remove, look up | `ScriptStore` (records and files), `BrokerTasks` (their use) |
| worker watcher, `coderun/watcher.go`, `coderun/docker-provider` | channels `workers` and `repair`, `workerByPort`, docker containers | Init, BorrowWorker, Return, repairLoop, Stop | `WorkerWatcher` |
| script runner, `RunScript`, `coderun/worker/main.go`, `coderun/scripts/runner.go` | who holds a worker, `data.json`, python processes | run a script with a deadline on both sides | `ScriptRunner` |
| component control, `control/components.go`, `server/server.go` | the application's context, the components switched on | Start, Wait, Stop | `Components` |
| routes, `database/routes.go` and the handlers | collection, cache, RWMutex | add, update, remove, look up | `Routes`, `RouteMap` |
| dynamic scripts, `server/dynamic_routes_api.go`, `util/file_storage.go` | script files beside the collection | POST, PUT, DELETE, GET, running a script | `ScriptStore` |
| database connection, `database/mongo.go` | client | InitDB, Disconnect | partly, in `Components` |
| configuration, logging, formats, image builder | fixed after start-up | | not modelled |

How they interact. A gin handler runs in a goroutine of its own. A request for a
pool looks the pool up (registry), makes a task and submits it to the scheduler.
The scheduler's workers take tasks from two blocking queues. A read task records
each message in the database and hands batches to the ESB, which may run a mapper
script (watcher, script runner) and submits write tasks of the linked pool: the
scheduler is therefore fed by its own workers. A request for a mocked path looks the
route up and answers, forwards, or borrows a worker and runs a script. On shutdown
the application's context is cancelled, then the HTTP server, the scheduler and the
watcher are stopped in that order, and the database is disconnected.

What is hard about it, with the property that answers it (`PROJECT.json` lists
every hazard at its line):

- condition variables with barging: lost wake-ups (`GetterWakeups`, `PutterWakeups`);
- critical sections that are adjacent but not one (insert the mark, then put the
  task; remove the mark after the task): `SingleReader`, `RunningIsExact`;
- bounded channels, some sent to outside a select: `SendsNeverBlock`, and the error
  channel nobody reads: `TasksAreServed`;
- containers that fail while their worker is lent, inspected or repaired:
  `OneTokenPerWorker`, `RepairRestores`, `NothingElseSurvivesStop`;
- shutdown while everything still runs: `StopReturns`, `ShutdownWithoutPanic`,
  `StopIsOrderly`, `SignalEndsProcess`, and the order of the components' Stops, on
  which the watcher relies when it closes its channels: `ImplementsWatcher`;
- a cache filled outside the write lock: `ImplementsRouteMap`;
- kafka messages that were read and not committed are given out again, and some arrive
  after the task that wrote them has failed: `NeverDuplicated`, `DeliversInOrder`,
  `QueuedIsListed`;
- failure between two steps: `RabbitRecordsFirst`, `RecordedFirst`,
  `AnsweredIsDone`, `DeleteCanBeRepeated`, `UntouchedIsWhole`;
- deadlines that race answers and deliveries: `ReadTasksEnd`, `NeverDuplicated`,
  `RunsOnOwnArgs`, `EveryCallEnds`;
- files named and written with no lock: `ServesOwnCode`.

## 2. Modules

**ClosableQueue** is the abstract FIFO queue with Close. **BlockingQueue** is the
implementation: one action per critical section, from Lock (or wake-up) to Unlock
(or Wait). `waitEmpty` and `wakeEmpty` are the goroutines parked on `q.empty` and
those taken off its list that have not won the mutex yet; the same for `q.full`,
where the element of the interrupted Put goes along. It is shown to implement
ClosableQueue, and **TaskScheduler** is built from two instances of ClosableQueue:
its queues are unbounded, so a Put never parks.

**TaskScheduler** has `running` for `running_read_tasks`; `pending` holds the ids
between the Insert and the Put of `submitReadTask`. A worker goes through
`get, run, report, remove`; Stop is statement by statement, since the order of its
statements is what matters. The error channel is a count, bounded by `MaxErrors`.

**BrokerTasks** is what a task does between its start and its return. `rd[p]` is
the read task of pool p (there is one at most, which is what TaskScheduler
establishes), `wr[w]` the write task of worker w, `queue[p]` the broker's queue,
`readLog` and `writeLog` the task messages in the database. Kafka's polling
goroutine and the task that waits for the deadline are separate actions; a rabbitmq
task chooses at random among the cases of its select that are ready. A behaviour is
about one of the `Scenarios`: which pools are topics, how many messages are sent,
and which calls may fail (deadline, connect, connection, poll, record, submit, and
commit, and edits of the ESB record). One run therefore covers them all, and a scenario
without failures is `calm`.

Kafka is read with a consumer group that commits at intervals (kafka.go:106 to 110 set
no option about it). `rd[p].uncommitted` is what Poll returned and the group's offset does
not cover; `AutoCommit` covers a part of it, and Close the rest, unless it fails, which
kafka.go:115 does not notice. What was not committed is then put back at the head of the
topic (`GiveOutAgain`), as it is when the group's partitions are assigned anew while the
task reads (`Rebalance`; all readers of a pool are in one group). A message is a pair
of its number and a counter: `<<n, 0>>` is what a client sent, `<<n, k>>` the k-th message
that was given out again. So "listed twice" and "out of order" can still be said of what
the tasks do, apart from what the topic repeats. A kafka write task that fails leaves
what it had produced and not seen delivered in `late`, from where `LateArrives` brings
it to the topic at any later time, or never. `failed` is the history of such tasks.

**Delivery** is the abstract statement: a message is in one place, moves forward
only, to linked pools only, and may be lost; a message of `Repeat` (given out again)
begins in the queue of a topic instead of with a client. **BrokerTasksMC** gives the
pools a, b, the link a to b and the scenarios.

**PoolRegistry** has the documents, the endpoints that exist, and one record per
handler or task under way. Adding and removing a pool are two steps each, each of
which can fail before or after it took effect. The variable `orderly` tells clients
that coordinate from those that do not (see section 4). **PoolRegistryMC** gives
one pool a choice between a topic and a queue, and the other a topic.

**WorkerWatcher** treats a worker as a token that is in one of the two channels,
with a borrower, or with repairLoop. `boot` is Init with startNewWorker, which ends
in the loop or, when docker refuses, in Init's own Stop. The loop is one action per
call to docker and per send, so that a container can fail (`Fault`), a request can
borrow, and the context can be cancelled between any two. `workerByPort` is the set
`byPort` of workers with at most one of each `port`: a container that does not run
leaves its port free, `getFreePort` may give it to the next one, and an entry is
replaced, or deleted, by port (`Entry`). A start may fail before it did anything, leave
a container that was created, or one that runs although the call returned an error
(`StartContainerFails`). A restart may be refused, and is refused to a container that is
dead or whose port another one took (`Restartable`); the loop ignores the error and
inspects again. `orphans` is the history of the containers the watcher lost in one of
these ways, or that docker was asked to remove and did not. By itself the module assumes
that Stop comes when no borrower is active.

**Components** discharges that assumption. It EXTENDS WorkerWatcher and adds the
main goroutine through Start, Wait and Stop, the requests and tasks under way
(`busy`), and how the process ends. The watcher's actions are conjoined with
UNCHANGED of the new variables; the scheduler appears by its contract, as
TaskScheduler establishes it: no task starts after its queues are closed, its Stop
waits for the running ones, and an error meanwhile panics. `cfg` ranges over
configurations with and without the HTTP server, brokers and code running.

**ScriptRunner** is a script's run on both sides: `caller[r]` in the server
(borrow, POST /run, the deadline, Return) and `job[r]` in the container (parse,
write `data.json` in two steps, python, which loads it, the response). The two sides
share nothing but the request, so either may be over while the other goes on. The end
of python and the end of `cmd.Run` are two steps: the context kills the python process
only (`Kill`), and `RunReturns` waits for every process that holds its output pipes, so
a child of the script (`children`) that never ends keeps the handler for ever.

**RouteMap** is the abstract map from paths to routes with atomic operations: what a
question may be answered. **Routes** is the collection with its cache and lock: a
write is one action under the write lock, with a database call that may fail before
or after it was applied; a lookup is up to three (cache, LoaderFunc, fill), which
other readers interleave with. After a failed write RouteMap allows either value.

**ScriptStore** stands on atomic collections of routes and ESB records and adds the
files: `os.Create` truncates in one step and the write follows in another, with no
lock; a POST adds its entry after that, a PUT finds the name first. A record may have
no mapper, and its DELETE never fails for a missing document. **ScriptStoreMC** adds
the symmetry sets: paths, codes and handlers are interchangeable.

The modules named *...Proofs* hold the theorems (section 5).

## 3. Runs

| Run | Configuration | Question |
|---|---|---|
| queue | capacity 2, 3 putters, 2 getters, 4 elements | are wake-ups ever lost, with Close at any time; is it a FIFO queue; do elements and parked calls make progress |
| scheduler | 2 pools, 2 write tasks, 2+2 workers, error capacity 1 | is a pool read once at a time, is a task run once, are marks exact, is every task served, does Stop return |
| scheduler_panic | one of each | does Stop keep the workers from panicking: **no** |
| components | 3 containers and 3 ports for 2 workers, a request and a task, 2 faults (exited, killed, dead, removed, or a call refused), 3 configurations | is a worker with one borrower at a time, do sends block, are containers removed, do killed workers come back, does the program keep the watcher's assumption, does a signal end it |
| routes | 2 paths, static and proxy, 2 readers, cache of 1 | is cache plus collection an atomic map |
| routes_proxy_update | proxy routes only | is an updated proxy URL what later readers get: **no** |
| brokers | 9 scenarios: rabbitmq a to b, or kafka a to rabbitmq b; 1 or 2 messages, 0 or 1 empty ones, up to 2 given out again, 1 write worker | is what a broker gives out moved forward once, in order, recorded before it is forwarded; is what is queued listed; do read tasks end; if nothing fails, is everything sent read at the end |
| broker_unrecorded | kafka, `AddTaskMessage` may fail | is a forwarded message recorded: **no** |
| pools | 2 pools, 2 topics and a queue, 2 handlers | do document and endpoint agree with what was answered |
| scripts | 2 routes, an ESB record, 2 codes, 2 handlers, 2 seconds | does a route or record run its own script, whole |
| scripts_same_second | two scripts may get their names in one second | the same: **no** |
| script_runner | 2 requests and a mapper batch for one worker | does a script run on its own arguments; does every call end, its script too |

**Bounds.** Every bound is a constant and named in its module. Two of everything
that competes (readers, workers, handlers, borrowers) is enough for a race of two;
the queue has three putters so that a woken one, a parked one and a barging one
coexist, with a capacity of two so that a slot can be free while another is taken.
`MaxErrors` 1 makes the error channel full after one error. Three containers are the
two initial ones and a replacement; with `MaxFaults` 2 both workers fail, or one and
its replacement, or docker also refuses a call. Three ports let the replacement get a
new one or that of the worker that exited; of the unused ones, and of the containers
not yet created, `getFreePort` and `NextId` take one by CHOOSE, since they are alike.
`CacheSize` 1 makes every second
lookup evict; `MaxUnknown` bounds the values a path may have after failed writes.
In a broker scenario with one message every failure is possible, which suffices for
properties of each message alone; order needs two messages, and the scenarios with
two have the deadline or the connection failures but not both, to stay small. A
scenario with `again` 1 has a message that is given out again with deadlines and poll
errors around it, one with 2 has both messages or one of them twice; in another, of
two messages, a kafka write fails with both of them under way. An empty message (a
closed channel delivers them without end) needs one, `empty`. A
script needs a name per second: `MaxTime` 1 gives two, so that a route created anew
can have another name than the one a pending PUT found, for the mappers separately.
In script_runner one worker is what the three callers compete for; with more workers
each container is a copy of this one.

CHECK_DEADLOCK is off where the system really stops: after Stop or a panic
(scheduler), at the end of the process (components), when every call is over
(script_runner).

**Fairness.** Goroutines that can run do run: weak fairness on each worker loop, on
a handler between Insert and Put, on the main goroutine in Start and Stop, on the
watcher's goroutines, on a lookup, on both sides of a script. A woken Put and a Get
are fair since `sync.Mutex` hands itself over to starving goroutines. A task returns
since it runs under `context.WithTimeout`, and a borrower since BorrowWorker and
RunScript have deadlines; an HTTP request need not end (it may be forwarded to a
service that never answers), and a Python script need not either, nor a process that it
started. Docker refuses `MaxFaults` calls at most: after that a restart that is possible
succeeds. In BrokerTasks the
cases of a select are fair one by one, since select chooses uniformly at random among
the ready; the kafka poll returning a message is strongly fair, since Poll returns nil
only if there was nothing within 500 ms and then is called again. Reading a pool is
fair in that module: clients keep asking. Nobody is obliged to submit, put, close,
write, fail or send a signal.

## 4. What the runs show

**Holds**, for the instances above: everything listed under the passing runs in
`PROJECT.json`. Some remarks on what the properties do and do not say:

- `ParkedPutReturns` allows a closed queue, because Close broadcasts `q.empty`
  only: a Put parked on a full bounded queue that is closed with `clear` stays
  parked. Only tests build bounded queues.
- `RunningIsExact` and `TasksAreServed` are about the time before Stop: Close clears
  the queue of read tasks and leaves their marks.
- `SignalEndsProcess` says that the process ends, not that it ends well: a signal
  during Start panics where a component is not up yet (components.go defers Stop only
  after Start returned), `Shutdown` past its five seconds calls `zlog.Fatal`, and a
  task that fails while the scheduler stops panics (finding 1). `StopIsOrderly` says
  what holds of the ends that are not of this kind.
- `NothingElseSurvivesStop` excepts the containers the watcher has lost, `orphans`, and
  TLC refutes it without the exception, by each of these ways: docker was asked to remove
  one and did not (watcher.go:179 and 266 ignore the error, nothing retries); its start
  was reported to have failed (line 142), having taken effect or not; its entry was
  replaced, or deleted, under the port that a later container was given (153, 180). The
  last takes a worker that exits while Init runs, or three faults in repairLoop, one
  more than the run has. What the property says is that there is no fourth way, and the
  theorem `NothingSurvives` that there is none with any number of faults.
- `RepairRestores` is about workers that can be restarted. One that is dead, or whose
  port another container took while it was down, goes round in repairLoop (restart,
  ignored error, inspect) until the shutdown; the other workers are served between its
  rounds. Docker refuses finitely many calls there; if it refused every restart no
  worker would come back.
- `RunsOnOwnArgs` has one exception: a request in the same container that is past its
  deadline. Its handler there is not stopped between reading the request and
  `exec.CommandContext`, and may write `data.json` after the next borrower's handler
  did. Without the exception TLC refutes the property.
- `EveryCallEnds` says that the caller is answered, its worker is returned and python is
  killed, but not that the handler in the container ends: `exec.CommandContext` kills
  only python, and `cmd.Run` (runner.go:58) waits for a child of the script that has its
  output open. Without that exception TLC refutes the property.
- `ImplementsRouteMap` leaves out the URL of proxy routes, because of finding 2.
- `RabbitRecordsFirst` is `RecordedFirst` of rabbitmq pools; for kafka pools it is
  finding 3.
- `SentIsReadAtTheEnd` holds in calm behaviours only. A deadline that passes while
  messages are in `t.msgs` or with the consumer loses them, as does every failure:
  README.md:13 of the repository ("send messages to the first queue and read them
  from the second") has no such condition.
- `NeverDuplicated` and `DeliversInOrder` speak of one time that a broker gives a message
  out. A kafka message of which the offset was not committed is read, listed and
  forwarded again; of the numbers clients sent neither property would hold.
- `QueuedIsListed` excepts the messages of write tasks that failed: kafka.go:222 returns
  with messages under way, which are then in the topic and never in the list.
- `LogsInOrder` leaves out what kafka gives out again, and the messages of failed kafka
  write tasks, which may arrive after those of the next task.
- `LogsInOrder` is for one write worker; with two a later batch overtakes. It and
  the second half of `NeverDuplicated` need links that make no cycle: the code stores
  an ESB record that closes one (esb.go:57), and a message that comes round is then
  listed again.
- `AnsweredIsDone` and `DeleteCanBeRepeated` hold for orderly clients, those that
  give every pool its own queue and do not delete a pool while they create or use
  it, and if kafka reports no error for a single topic (kafka.go:340 does not look
  at `result.Error`). Without the first condition TLC finds a DELETE that removes
  the topic, a POST that makes it anew, the removal of the document, and a topic
  without a pool; the other way round a pool without its topic.
- `ServesOwnCode` allows a file that is being rewritten: `Write` truncates first.

**Findings** (violation runs):

1. `scheduler_panic`: Stop closes the error channel (mp_task_scheduler.go:68) before
   it waits for the workers; a worker that reports an error then sends on a closed
   channel and panics. components.go:78 calls the step "wait for brokers shutdown".
2. `routes_proxy_update`: `updateRoute` (routes.go:85) writes `response` and
   `script_name`, never `proxy_url`, and caches the new route. The update is lost
   with the next eviction or restart.
3. `broker_unrecorded`: kafka.go:144 tests `err` where `databaseErr` was assigned;
   a message whose recording failed is forwarded nevertheless.
4. `scripts_same_second`: `GenUniqueFilename` (file_storage.go:110) has the
   resolution of a second; two routes created in one second share a script.

**Observations** without a run, since nothing in the repository promises otherwise:

- a rabbitmq read task does not look whether the delivery channel was closed
  (rabbitmq.go:180): after a lost connection it records and forwards empty messages
  until its deadline; and `connectAndPrepare`, when it fails after Dial, leaves the
  connection open;
- docker reports a paused container as running; `processWorkerInfo` then puts two
  tokens of it into the channels. With "paused" in `Faults` TLC refutes
  `OneTokenPerWorker` and `SignalEndsProcess`; nothing in the program pauses containers;
- an inspection that fails in BorrowWorker (watcher.go:239) drops the worker, so the
  pool shrinks; a container that was created and could not be started is left over. A
  request whose container died may, with the port given out again, talk to the container
  that has it now (RunScript builds the URL from the port); ScriptRunner lets such a
  request fail instead;
- the server listens before the scheduler and the watcher are initialised: a request
  in that time panics in its handler, or waits for a worker until its deadline;
- the in-memory database server of database.go:16 is shadowed by a local variable, so
  that Stop does not reach it, and `Disconnect` runs under the context that the
  shutdown has cancelled;
- an error of UpdateOne leaves the result nil, and routes.go:90 dereferences it
  before it tests the error: the handler panics and gin answers 500;
- PUT of a dynamic route answers 204 before it writes the file; DELETE of an ESB
  record that does not exist answers 204; script and mapper files are never removed;
- task messages are not removed with their pool, so that a pool made anew under the
  same name shows the old ones;
- `WrapArgsForEsb` does not escape quotes in a message, and runner.go:68 turns every
  `'` of a script's output into `"`.

## 5. Proofs

TLC checks small instances; the theorems below hold for every value of the constants
under the assumptions named in the modules (`QueueAssumption`, `WatcherAssumption`
and so on: a set is finite, there is a worker, a model value is not in a set).
Where a theorem needs more, it says so. Each safety theorem follows the same three
facts: the invariant holds initially, every action preserves it (one step per
action), and it implies the property. The invariant that is proved is stronger than
the property, since the property alone is not inductive.

| Module | Theorems | The invariant, and why it is needed |
|---|---|---|
| `BlockingQueueProofs` | `TypeCorrect`, `CapacityIsKept`, `GettersAreWoken`, `PuttersAreWoken`, `Refinement` | the number of woken goroutines covers the elements (free slots) as long as somebody is parked. The lemmas count finite sets: waking one moves it from one set to the other. `Refinement` maps every critical section to an operation of ClosableQueue or a stutter |
| `TaskSchedulerProofs` | `TypeCorrect`, `ReadersExclude`, `MarksAreExact`, `TakenOnce` | `OnePlace`: a pool's mark, its place in the queue and the worker that runs it exclude each other; `Marked` and `Exact` relate the mark to them. `TakenOnce` has an invariant of its own: a write task is new, queued once, or taken |
| `PoolRegistryProofs` | `TypeCorrect`, `AnswersHold`, `DeletesCanBeRepeated` | orderly clients: at each step of a handler what it has already done still holds, because nobody else works on its pool or owns its queue |
| `ComponentsProofs`, the watcher alone | `WatcherTypeCorrect`, `OneToken`, `SendersHaveRoom`, `NothingSurvives` | nothing pauses a container. A token is in one place, a dead container is nobody's token, and the tokens there are plus those repairLoop still owes are counted against `WorkerCnt`, the capacity of both channels: so a sender always has room. `Mapped`, on top of it: what may run is in the map, about to be, or lost (`orphans`), and the map has one entry of a port, whatever starts, refusals and ports do |
| the whole program | `ImplementsTheWatcher`, `OrderlyStop`, `OneTokenInProgram`, `WatcherIsSafeInProgram`, `ComponentsTypeCorrect` | at each stage of Stop, who may still use the watcher. With it every step of the program is a step of WorkerWatcher or a stutter, and the theorems about the watcher carry over to the program |
| `RoutesProofs` | `TypeCorrect`, `NoRouteIsFatal`, `Refinement` | `Agree`: the document and the cached route of a path are both among the values clients may expect of it, up to the URL of a proxy route (finding 2), and a route that was loaded and not yet filled in is still the one stored, as no write comes between the two. Each action writes, loads, fills, answers or changes nothing that RouteMap sees. `Safe`: whatever is stored or cached has an URL that parses |
| `ScriptRunnerProofs` | `TypeCorrect`, `OwnArguments` | a worker has one caller; how far a job is follows its caller unless the caller gave up; what a python process loaded is what the last writer of the file wrote |
| `ScriptStoreProofs` | `TypeCorrect`, `OwnCode`, `UntouchedAreWhole` | no two scripts get a name in the same second (otherwise finding 4). A file name belongs to one path for ever, a handler writes only files of its path, and a path that no handler works on has a whole file |
| `BrokerTasksProofs` | `TypeCorrect`, `OnePlace`, `Refinement`, `RecordsFirst`, `NoDuplicates`, `ListedInOrder` | see below |

**The broker tasks** are proved about for any pools, links, messages, write workers
and scenarios. The messages are in boxes: the batches of the scheduler, a worker's
task, what a failed task has under way, and the queue, the consumer and `t.msgs` of each
pool. Every step is shown to be one of a few kinds (a read task keeps, submits,
receives, ...: `ReadWorks`, `WriteWorks`), and every kind to have a *flow*: a function
from the spots of the boxes after the step to the spots their messages had before it.
What the theorems need follows from the shape of the flow alone. Messages enter by two
doors: a client's batch, behind everything else, and the head of a topic, where kafka
gives some out again, as messages with new counters.

- A flow is one to one on messages and goes along the places of Delivery, so that a
  message is never at two spots (`Placed`, by induction; `Old` says that those in the boxes
  have entered, so that what enters is new): hence `OnePlace`, and `Refinement` step by
  step. Neither has a hypothesis. `Refinement` is of Delivery, which says nothing of the
  lists in the database.
- `RecordsFirst` has an invariant of its own (`First`): whatever is on its way to a
  pool, or in it, was recorded by the rabbitmq pool that feeds it. It supposes
  `OneFeeder`, no two pools linked to the same one: with two feeders the property as
  stated is false, since the other one records under its own name.
- No flow brings a message back, and with one worker none lets a regular message
  (sent by a client, not given out again, and not of a kafka write task that failed)
  overtake another regular one. The position along the way, `Level`, is a multiple of the
  rank of the pool plus the depth of the box in it, and a rank exists when the links make
  no cycle (`Acyclic`; as a pool has one link at most, messages then travel along one
  line of pools, and `InLine` says that regular ones get smaller along it). A list of task
  messages is extended with the message that leaves the box furthest along, so
  `ListsInOrder` says: each list is without repetition, its regular messages are sorted,
  and it is behind everything that can still be listed in it. A step may make messages
  irregular, by a failed write, never regular: the invariant is first restricted to those
  that stay regular (`FewerInOrder`) and then carried over the step. `Held` keeps the messages
  that a topic may give out again on the line. All this is `Ordered`; it gives
  `NoDuplicates` for any number of workers and, for one (`OneWriter`), `ListedInOrder`.

The links of the run (a to b) satisfy all three hypotheses.

**Only model-checked.** All liveness (`ParkedPutReturns`, `TasksAreServed`,
`StopReturns`, `RepairRestores`, `SignalEndsProcess`, `ReadTasksEnd`,
`SentIsReadAtTheEnd`, `EveryCallEnds` and so on): TLAPS has no rules for fairness and
ENABLED here; and, of the invariants, `QueuedIsListed`. Every other invariant, action
property and refinement of a passing run is stated by a theorem, under the hypotheses
named above. The violation runs are counterexamples and need no proof.

## 6. Not modelled

- What messages, routes and scripts contain, and what a mapper computes: a message
  keeps its identity through a mapper, and a script is one of a few codes.
- Inside the brokers, mongo, docker and their client libraries: a call succeeds, or
  fails before or after its effect, where that makes a difference. Retries that a library
  makes are part of the call; in particular a kafka producer that sends a message twice,
  because the first answer was lost, is left out (`enable.idempotence` is off), so
  `NeverDuplicated` is about the program and the consumer group, not about such a producer.
- A container that docker reports as OOM-killed and running at once is left out like a
  paused one (see the observations).
- The caches of pools and ESB records, which repeat those of `routes.go` line by line:
  `Routes` stands for them, and PoolRegistry and ScriptStore use atomic collections.
- The handlers that only read (lists, one kind of route, task messages).
- Configuration, logging, templates, parsing and formatting, the image builder and the
  playground command: fixed after start-up, or without state.
- The connection to mongo but for its being open or not while others use it.
- A crash of the server. Collections and script files survive it, tasks do not and
  are nowhere written down; the loss of a cache is covered by eviction in `Routes`.
- A request to the scheduler or the watcher before its Init (see the observations).

## 7. Plan

The modules of the plan are written (queue, scheduler, broker tasks, registry,
watcher, control, script runner, routes, scripts) and their safety is proved. Left,
in order of worth:

1. `LogsInOrder` with several write workers for what one client's batch contains,
   which needs no hypothesis on the workers;
2. `RecordsFirst` with several feeders, of a property that says which of them
   forwarded a message;
3. `QueuedIsListed` as a theorem, and larger broker scenarios: two feeders of one pool,
   and a chain of three pools.
