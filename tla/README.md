# QuickMPC: TLA+ models, checks and proofs

QuickMPC is a secret-sharing multi-party computation service. Every party runs the same
containers; a library client (libc) sends each party its share of the data and asks for
computations, and no party ever sees the data. This directory models the concurrent and
distributed core of the code and the arithmetic on shares, checks it with TLC on small
instances, and proves with TLAPS, for every instance, the safety of every concurrent component and
the arithmetic on shares up to the comparison protocols over the field.

## 1. Inventory

All paths are below `src/src/`. `mc/` stands for `ManageContainer`, `cc/` for
`ComputationContainer`, `db/` for `DbContainer`.

| Component | State | Operations | Interacts with |
|---|---|---|---|
| Lock set, `mc/Utils/lockset.go` | `sync.Map` of key to channel; detached sender goroutines | `Lock`, `Unlock`, `get_chan` | every request goroutine of the management container |
| Database client, `mc/Client/ManageToDbGate` | the global lock set `ls`; rows in the share and result buckets | `InsertShares`, `DeleteShares`, `GetSchema`, `InsertModelParams`, `GetComputationResult`, `GetDataList` | DbGate (one gRPC stream per query); the computation container writes the result bucket too |
| Barrier, `mc/Client/ManageToManageContainer`, `mc/Server/ManageToManageContainer` | `count_map` of counters (count, mutex, channel), `mu_inc` | `Sync` (client and handler), `increment`, `load`, `Wait` | the same component of the other parties |
| Upload, `mc/Server/LibcToManageContainer/L2m.go` | none of its own | `SendShares`: authorize, insert, `Sync`, roll back at the others, answer | database client, barrier, `DeleteShares` requests to the other parties |
| Other handlers of L2m.go | none | `DeleteShares`, `GetSchema`, `GetComputationResult`, `SendModelParam`, `GetDataList`, `ExecuteComputation`, `Predict` | database client, computation container |
| DbGate, `db/DbGate` | none (forwards queries to the database) | `ExecuteQuery`, answers in numbered pieces | management and computation containers |
| Transaction queue, `cc/TransactionQueue` | `std::queue`, mutex, two condition variables, bound | `push`, `pop` | job manager |
| Job manager, `cc/Job/JobManager.hpp`, with the ForJob client and server | request queue, job id queue, running threads | `pushJobReq`, `runJobManager`, `sendJobInfo`, `asyncRun`, id return | the job managers of all parties, the threads of jobs |
| Share exchange, `cc/Share/Networking.hpp`, `cc/Share/AddressId.hpp`, `cc/{Client,Server}/ComputationToComputationContainer` | mailbox: map of (party, share id, job id) to value | `open`, `send`, `ExchangeShare(s)`, `recons`, `getShare(s)` | threads of every job at every party |
| Run of a job or prediction, `cc/Job/JobBase.hpp`, `cc/Job/JobStatus.hpp`, `cc/Model` | status of the run; its row in the result bucket | the constructor, `run`, `readDb`, `compute`, `writeDb`, `nextStatus`, the answer of `Predict` | job manager, database through `cc/Client/AnyToDb` |
| Database client, `cc/Client/AnyToDb` | statics of `getCas` and `getLogicalCounter` | `executeQuery` with its repetition, keys of inserted rows | DbGate |
| Tables, `cc/Client/ComputationToDbGate` | a table of shares | `readShare`, `hjoin`, `vjoin`, `hjoinShare`, `parseRead` | jobs |
| Numbers, `cc/PrimeField`, `cc/FixedPoint` | values | the arithmetic operators, `getInv`, `modsqrt`, `legendre` | shares |
| Shares, `cc/Share` | a share per party | constants and shares, Beaver multiplication, inverse, root, remainder, `LTZ` and `Floor`, the protocols over the field | share exchange, triples, random numbers |
| Triples, `cc/TripleHandler`, `cc/Client/ComputationToBts` | queues of triples, one per thread | `getTriple`, `readTriples` | triple service (outside the repository) |
| Random, `cc/Random` | a vector of random numbers | `generateRand` | all jobs |

What is hard here, and what would make each part correct:

* **Lock set.** The lock is a goroutine blocked in a send. Two goroutines may name a key for
  the first time together; an `Unlock` only starts another sender. Right: one holder per key,
  and a free key is never lost.
* **Database client.** Every operation is a check, a gap and a write; locks are taken per id
  and, by deletions, several in the order the client named them; a stream can fail while DbGate
  goes on with the query, which may then land when the lock is long released. Right: rows change
  under their lock, the check is fresh when used, requests do not block each other for ever, and
  a late query is the only exception.
* **Barrier.** Counters are created, stored and deleted by separate map operations while other
  handlers load them; requests fail, are late and are repeated. Right: nobody leaves before all
  have come; when all have come everybody leaves.
* **Upload.** Each party decides alone, from its own insertion, to undo the upload at the
  others. Right: all hold the data or none.
* **Queue.** Lost wakeups, `notify_one` against `notify_all`, the bound. Right: a bounded FIFO
  whose callers return when they can.
* **Exchange and job ids.** Shares of all jobs meet in one mailbox and are told apart by job id
  and a share counter that starts at 0 in every thread; requests are repeated, those that start
  a job too. Right: a job takes only its own shares, threads stay in step and end, ids are
  neither lost nor doubled.
* **Runs of jobs.** The status lives in the thread and in the database, which is written by
  queries that fail and are repeated, whose first attempt may still land later, under keys made
  from a clock and an unlocked counter.
  Right: one row per run, never ahead of it, complete when it says so; every run ends.
* **Triples and random numbers.** Parties must multiply with triples that belong together, over
  refills and lost requests; the generator is shared without a lock. Right: nothing used twice.
* **Arithmetic.** Each party rounds its own share, masks cost precision, constants must enter
  once, protocols must be right for every mask. Right: what is opened is the plain result.
* **Tables.** Ids are nearly equal, repeated, missing and unsorted; each party has its own
  database. Right: the join the names promise, the same at every party.

The same list, line by line, is under `hazards` in `PROJECT.json`.

## 2. Modules

| Module | Models | Built on |
|---|---|---|
| `KeyedMutex` | abstract: one mutex per key | |
| `LockSet` | lockset.go; implements `KeyedMutex` | |
| `ShareStore` | the database client, query by query | `LockSet` (as `ls`) |
| `Barrier` | abstract: leave only after all have entered; a call may give up | |
| `SyncBarrier` | `Sync`, its handler, the counters; implements `Barrier` | |
| `SendShares` | an upload at all parties | `Barrier` (in place of `SyncBarrier`) |
| `BoundedQueue` | abstract: bounded FIFO, each call one atomic effect | |
| `TransactionQueue` | push, pop, mutex, condition variables; implements `BoundedQueue` | |
| `ShareExchange` | opening of values between the threads of jobs | |
| `JobManager` | the managers and the jobs they start | `ShareExchange` (as `ex`) |
| `JobRun` | the thread of a job or prediction and its row in the database | |
| `Randomness` | random numbers and triples drawn by the threads of jobs | |
| `PrimeField`, `FixedPoint` | the numbers, as operators | |
| `Share` | operators on shares and vectors of shares, for numbers given as parameters | |
| `Compare` | `LTZ`, `<`, `==` and `Floor`, one action per round | `Share` (as `sh`), `FixedPoint` |
| `CompareField` | the protocols over the field, as operators | `PrimeField` |
| `ValueTable` | reading of tables, the joins and their chain | |
| `Computation` | all of the arithmetic against reference definitions | the last five |
| `MC_*` | operations, keys, ids and inputs of the runs | |
| `*_proofs` | theorems; those of `LockSet` are in `ShareStore_proofs`, as theorems about `ls` for any requests and keys, those of `TransactionQueue` in `JobManager_proofs`, those of the five arithmetic modules in `Computation_proofs` | |

Operators whose comment begins with `Mutant:` are plausible mistakes; each is put in place of
the definition that follows it to see that the property of the run notices.

### How state and actions correspond to the code

**LockSet.** `set` holds the keys with a channel, `senders[k]` counts the goroutines blocked in
`ch <- struct{}{}`, `waiting[p]` is the key in whose receive `p` blocks, `held[p]` what it has
locked. `LockCall` is `Lock` up to the receive (with `get_chan`'s `LoadOrStore` and the first
sender), `LockReceive` the receive, `Unlock` the start of a new sender. The goroutine started
by `go` and its arrival at the send are one step: until it arrives nobody can receive, which
only delays.

**ShareStore.** A request is a goroutine with a program counter; a query is one step. `share`
and `result` are the two buckets, as sets of rows named by the request that inserted them (the
code uses a fresh UUID). `existPieceID` and `count` unlock on return and their caller locks
again (`UnlockAndLockAgain`). `Answers` and `Outcomes` say what a query can bring back: an
open that fails is an empty answer *without* an error (Client.go:59), which readers notice as a
JSON error and writers do not notice. A broken stream is an error at the client, which returns
and unlocks; DbGate runs the query without the stream's context (A2d.go:34), so the write is then
`late` and `Land` carries it out at any later time, or never. `RegisterJob` is the computation container, which writes the result bucket without the
lock. JSON and SQL text are abstracted to "the data parses" and to the rows they select.

**SyncBarrier.** A counter is a value in a map; its mutex and channel are shared by its copies
and named by a number `obj`. `load`, `Store` and `Delete` are separate steps; `inc[p]` is the
increment between load and Store inside `mu_inc`. The sender goroutine that `increment` starts
is in `senders`; `Wait` judges, receives from the channel of the counter it loaded first, and
deletes the counter at the end. `SyncFail` is an RPC that fails at the caller while the
request is lost, under way, or handled; `AfterFailure` is the choice between the repetition
(the channel becomes idle within 20 seconds) and giving up.

**SendShares.** One action per stretch of the handler between two points where other parties
can be seen: authorization, insertion with the call of Sync, the end of Sync, each deletion at
another party, the answer. `faults` is the bag of failures that have happened; a property names
those it tolerates. The error of Sync and of the deletion requests is not looked at by
the code, and has no effect on what the handler does next here either.

**TransactionQueue.** `Wait` releases the mutex and blocks in one step; `notify_all` sends every
sleeper back to the mutex; `Wakeup` is a wait that ends by itself, after which the predicate is
tested again.

**ShareExchange.** One thread per job and party. `Send` is a request to one party, of `Width`
shares; `ExchangeShares` is the handler, with the answer to a caller that still waits for this
very request; `SendFails` is a request that fails at the caller when it was lost, is still
under way (and will arrive late), or was read in part by the stream handler. `GetShare` waits
for its key, takes and erases. A value is represented by the job it was computed for.

**JobManager.** `runJobManager` of the party `SP` in its steps: request, id, one
`ExecuteComputeFromSP` per party (`SendJobInfo`, which starts the thread there), and round
again. `SendJobInfoFails` is a request that fails at the caller and is repeated by
`executeComputeFromSP`; it stays in `orphans`, and `StartOrphan` is its handling, at once, later
or never, which starts a second thread of the job there, a *twin*. `PushJobId` is the end of
SP's own thread, of a twin too. `JobFails` is an exception before the job opens its first value.
`overtaken` remembers what an earlier job under the id had not done with when a job was started:
`"thread"` if another party still ran a thread of it, `"leftover"` if a share or a request of it
was around. A twin's shares count as those of another job: it exchanges under the same addresses.

**JobRun.** One action per query. `executeQuery` is one attempt: carried out or not, answered or
not, repeated or thrown. An attempt that is given up stays in `left`; `Land` carries it out after
any later queries, since DbGate does not look at the stream's context. `compute` ends with a
result or an error, or, when another party's thread has failed, waits in `getShare` for ever
(`"stuck"`). The key of a row is drawn in two steps, since `counter++` on the static
is unlocked; `raced` remembers that two threads were between them. `clock` is the timestamp
without the 16 bits the counter replaces; it is assumed to tick before the counter has gone
round once (2^16 draws take longer than 2^16 ns). `readDb` of a data id without rows, and of an
empty table, is undefined behaviour in the code (a null pointer in the error handler,
`values[0]` of an empty vector) and therefore a choice: the container goes down, or the run
fails, or, for the empty table, goes on.

**Randomness.** `generateRand` is three steps of the shared vector. `TakeOutTriple` is
`getTriple` with the refill it may need; the service (external) hands each party the triples of
a job id in order. The jobs run one after the other under one id, as `JobManager` reuses it.

**Numbers and shares.** A `FixedPoint` is the integer it is times `Shift`; `*` and `%` cut off
towards zero as boost's integers do. `/` and `getInv` divide in boost's `cpp_dec_float`
(`DecQuotient`, external), which multiplies by the inverse of the divisor: where the quotient is
whole and the inverse is cut off, a unit is lost (6 / 3). The constant `CutOff` says of which
divisors the inverse is cut off; in the run, those with a prime factor other than 2 and 5. A shared value is a function of the parties, and an operation
says what every party computes: a constant is added by SP only, a product opens `x - a` and
`y - b` and rounds at each party. Masks, triples and draws are arguments, so a property
quantifies over them. `Share` is instantiated twice, for field elements and for fixed-point
numbers. Messages between the parties are those of `ShareExchange`; here an opening is the sum.

**Compare.** `LTZ` and `getFloor` take the low bits of a shared integer off, one in a round: a
`Round` masks the number with a random bit and a random even number, opens the sum and takes
its parity (`x`, `y`, `z` and `i` are the variables of the code). `Decide` opens the result of
`LTZ` and appends a verdict, or ends the process if it is between 0.05 and 0.95
(`pc = "exit"`); `==` makes two comparisons. All parties take a round together, since they meet
in the opened value.

**CompareField.** The protocols as operators on opened values with their random inputs as
arguments. That computing on shares is computing on the values is what `ArithmeticOpensRight`
shows for every operation they are made of. The polynomials of `Compare.hpp` are constants; the
instance has those of the field of 13 elements. `Draws` are the masks without 0 and `ProperBits`
the random bits below p: the code tests for neither, because of their probability.

**ValueTable.** A table is its column names and rows; an id is a number, equal to another when
they differ by at most `Eps`. A map keeps the first of nearly equal ids (`Emplaced`), and a search
in it finds, of several that are nearly equal to what is searched, the smallest. `hjoinShare`
asks the comparison of shares instead: sure about equal ids and about ids `ShareRes` apart, and
anything in between, anew in every call, so it is the set of the tables it may give. `ShareRes`
is the `Resolution` of `Compare` (`ShareResAssumption`), for which `ComparisonsAreRight` shows
just that. The range of `LTZ` is no limit to it: beyond it the result is not 0 or 1, but 0 or
less or 1 or more, on the right side, as the run's larger differences show. `readShare` sorts
the pieces, `parseRead` folds the joins.

## 3. Runs

| Run | Instance | What it shows |
|---|---|---|
| `LockSet` | 3 goroutines, 2 keys | The channel construction implements a mutex per key (`MutexSpec`), and a free key that somebody waits for is taken (`FreeKeyIsTaken`). Deadlock is not checked: goroutines may hold the keys the others wait for. |
| `ShareStore` | 3 requests, each any of 11 operations on 2 data ids and 1 job, failing streams whose queries land late or never | Every id is a mutex to the requests, through early returns and second locks; rows of an id change only under its lock or by a late write of a request that reports an error; the DELETE's SELECT is fresh but for a late deletion; two rows for a piece come only from requests that were at work together, late writes included; only a deletion of several ids holds a lock while it waits for one. Deadlock is not checked: crossed deletions do deadlock, and the last property says that nothing else can. |
| `SyncBarrier_once` | 3 parties, one call, up to 2 failing requests, no repetition | Nobody leaves early, `Sync` implements `Barrier`, everybody returns unless a party gave up. Deadlock is not checked: parties wait for ever for one that gave up. |
| `SyncBarrier_retry` | 3 parties, one repeated request | **Violated**: nobody leaves early. |
| `SendShares` | 3 parties, two uploads of one data id, the second a repetition or another piece; any two failures of six kinds | All parties hold the same rows of an id if none has reported an error, whatever failed, and, of an id with one piece, also after refused insertions; an acknowledged row that is gone was reported by another party; every handler answers unless a container refused the token or gave the barrier up. Deadlock is not checked: then the others wait. |
| `TransactionQueue` | 1 consumer, 2 producers, bound 2, 2 values | Bounded FIFO, no sleeper whose condition holds, a pop returns when there is something. |
| `ShareExchange` | 2 parties, 2 jobs, 2 rounds of 2 shares, one failing request | Only own shares, at most one round apart, every job ends. |
| `JobManager` | 2 parties, 2 jobs, 1 or 2 ids, failing jobs, one failing exchange or start request | Ids are conserved, but for one more use of an id for each repeated start that SP handled; jobs mix only if one was started under an id for which an earlier one still had a thread or had left something, or if a start was handled twice; a job is carried out unless one of its own threads fails, failed jobs hold all ids, a thread was overtaken or a start was handled twice. Deadlock is not checked: a failed thread leaves the threads of the other party waiting. |
| `JobRun` | 2 runs: a job and a prediction, or a job started twice; good, unknown, missing and empty inputs; 1 failure, a counter of 2 values, 2 ticks | Keys differ and each run has one row, unless two threads were in the counter at once; the row of a job is never ahead of it and at most one status behind, but for the status of an update that landed late; a completed row has its result; every run ends, or waits for a failed party, or the container goes down. |
| `Randomness` | 3 parties, 2 jobs of 3 products under one id, batches of 2, one failing request | Parties multiply with triples that belong together unless a batch was lost, a job failed or jobs overlapped; no triple is used twice whatever happens; no number is, unless two threads met in the generator. Deadlock is not checked: a failed job leaves the other parties waiting. |
| `Computation` | 2 parties, numbers with three digits after the point, `LTZ` with 4 rounds, the field of 13 with 4 bits; about 2750 cases and 168 comparisons | See below. |
| `Compare_constant` | the same, `==` with a constant | **Violated**: a share is equal to a constant when its value is. In the trace both are -1000 units. |

The properties of the run `Computation` are conjunctions of named parts, one per operation. A
pure operation is checked in the initial state that holds its inputs, a comparison over its
rounds.

| Property | Parts |
|---|---|
| `ComparisonsAreRight` | `<`, `==` and `Floor` of shared fixed-point numbers are right up to their resolution, and `LTZ` never ends the process (`LessIsRight`, `EqualIsRight`, `FloorIsRight`, `NeverUndecided`), whatever bits and masks are drawn. |
| `NumbersAreRight` | Inverses, roots and `legendre` of the field; `-0`; rounding of `*`, `/`, `getInv` and `%` of fixed-point numbers. |
| `ArithmeticOpensRight` | A constant enters once; products open to the product, whatever the shares and the triple, singly and as vectors; inverse, quotient and `%` by a positive number, within the units that the mask costs. |
| `RootOpensRight` | Newton's iteration of `sqrt` ends at the root, within a tolerance. |
| `FieldProtocolsAreRight` | Random bits, the gates and `subPrefixOr`, `subBitwiseLessThan`, `subHalfLessThan`, `comparisonTest` and `equalityTest`, `intervalTest`. |
| `TablesAreRight` | `hjoin`, `vjoin`, `hjoinShare`, the chain of joins, the order of the pieces. |

**Bounds.** Three goroutines are needed for two that wait on a third, and two keys for a cycle.
Three parties are the smallest number at which a counter can be one short (with two parties a
repeated request cannot stand for anybody else) and a Wait is judged more than once. Two
rounds let a late or repeated share of one round meet the next; two shares per request let a
stream break off in the middle; two jobs and one or two ids give reuse and its absence. Three
products with batches of two make a thread refill its queue between products and end with
triples left over. One failure in `JobRun` is a query that is given up, repeated and carried out
late, or a computation that gets stuck; a second one does not meet it in an instance this small
that TLC finishes, and the theorems about the rows hold for any number. One twin in `JobManager`
is one repeated start, the most that one failing request makes. A counter of two values that starts at its last one wraps at once. The
bounds `MaxErrors`, `MaxFaults`, `Rounds`, `Width`, `MaxIds` (ids of one deletion), `MaxJobNum`,
`Products`, `CounterSize`, `MaxClock` and `NewtonSteps` are constants or definitions of the
modules. Requests are symmetric only in `ShareStore`, which has no liveness property; party
numbers are ordered by the code. The field of 13 is the smallest whose elements need more than
three bits and whose order leaves a quotient by a power of two (`Q = 3`) for `modsqrt`; the
coefficient tables of `Compare.hpp` for p = 2^64 - 59 were evaluated apart and are 0 and 1 at
the points the protocols use (OR: 0 at 1, 1 at 2..65; AND: 1 at 65, 0 at 1..64), as those of
the instance are. Field elements, bit vectors and the bits that hide a number are enumerated in
full; fixed-point numbers, shares, triples and masks are samples chosen for their signs, for
values one unit apart and for shares that do not divide evenly.

**Fairness.** Weak fairness of each goroutine's or thread's steps and of each handler: the Go
and OS schedulers run what can run. `TransactionQueue` needs strong fairness of taking the
mutex: a thread that finds it free again and again gets it eventually, which pthread mutexes
give in practice and no weaker assumption yields. Failures, spurious wakeups and new calls are
never assumed to happen, nor is a late query or an orphaned start request assumed to be carried
out. `JobManager` assumes less, weak fairness of all of this together: its behaviours are finite.
In `SendShares` the client is assumed to send an upload to every party
it began to send it to, and in `ShareExchange` every job to be started at every party, as
`sendJobInfo` does. In `JobRun` the clock ticks (`WF_vars(Tick)`); that a run starts
is not assumed. `ShareStore`, `Randomness` and `Computation` have no liveness property;
that a comparison stops only at its end is shown by deadlock checking.

## 4. What disagrees with the repository's own words

* `SyncBarrier_retry`: `sync` repeats a request that may have been counted; the counter counts
  requests, not parties.
* `Compare_constant`: `Share == FixedPoint` (Compare.cpp:142) compares the constant with the
  share through boost's derived operator, for which *every* party makes a share of the constant;
  the shares add up to `n_parties` times it. A share equal to a negative constant is called
  different from it. For a positive constant an equal share is called equal, but so is one above
  the constant and up to `n_parties` times it.

Weaknesses that show as the exception in a property that holds:

| Property | Exception | Code |
|---|---|---|
| `DuplicatesOnlyFromOverlap` | The lock is released between the duplicate check and the insertion: overlapping uploads of a piece are both stored. A query counts as overlapping as long as DbGate runs it, which is longer than its request when the stream broke: its INSERT can land behind a later upload's check. With the failure kind `"partial"` (DbGate does not look at `results.Err()`) the property fails, so the run leaves it out. | ManageToDbGate/Client.go:166 |
| `IdsChangeUnderTheirLock`, `DeleteActsOnFreshCheck` | A write whose stream broke is reported as an error and lands without the lock; such a deletion can take the rows another deletion has just looked up. | ManageToDbGate/Client.go:57, A2d.go:34 |
| `LostRowIsReported` | The duplicate error starts the rollback like any other: an upload repeated by mistake erases the data at every party. | L2m.go:75 |
| `AllOrNothing` | A data id of several pieces, uploaded together or one after the other: after a refused insertion the deletion takes all pieces at the others, and the party whose insertion was refused keeps those it had. | L2m.go:80 |
| `UsableIdsKeepJobsApart`, `TriplesBelongTogether` | A job id goes back when SP's thread ends, while other parties may still use it or shares and requests of the job are left over. | JobManager.hpp:112 |
| `IdConservation`, `UsableIdsKeepJobsApart`, `JobsAreServed` | A start request that was handled although it failed is repeated: two threads of a job at a party, and at SP two returns of the id. | ComputationToComputationContainerForJob/Client.cpp:46 |
| `JobsAreServed` | A failed thread leaves the others waiting; at SP that keeps the id. A job overtaken by a thread may lose its shares to it. | JobManager.hpp:110 |
| `RowFollowsRun` | An UPDATE that was given up and repeated may land after newer ones: the row falls back to its status. | AnyToDb/Client.cpp:97, A2d.go:34 |
| `TriplesBelongTogether` | A batch served and lost puts a party ahead of the others for good. | ComputationToBts/Client.cpp:49 |
| `KeysApart`, `NumbersUsedOnce` | The counter of the keys and the vector of random numbers have no lock. | N1QL.cpp:173, Random.cpp:10 |
| none (`PredictCode`) | The codes of `Predict` are those of an older enumeration: a failed computation is answered OK. | Server.cpp:76 |
| `RunsEnd` | A missing or an empty table may end the container; a computation whose partner failed waits for ever in `getShare`. | JobBase.hpp:47, 133; ComputationToComputationContainer/Server.cpp:77 |
| `FieldProtocolsAreRight` | The bounds of `intervalTest` wrap when the opened number is `c1` or `c2 - 1`. | Compare.cpp:678 |
| `FieldProtocolsAreRight` | A mask of a gate that is 0, and random bits that make p or more, are not drawn again. | Compare.cpp:207, 240 |
| `NumbersAreRight` | `-0` is the modulus and differs from 0 under `==`. | PrimeField.hpp:53 |
| `NumbersAreRight` | `/` and `getInv` may be a whole unit short where the exact quotient is whole. | FixedPoint.hpp:121, 163 |
| `TablesAreRight` | Ids nearer than the resolution of `LTZ` are joined or not by `hjoinShare` as the masks fall; of nearly equal ids in one table `hjoin` and `vjoin` see only the first. | ValueTable.cpp:50, 82 |
| `TablesAreRight` | After a vertical join that drops a column the id column may have moved. | ValueTable.cpp:241 |

With the kind `"open"` of `ShareStore` an upload may be answered without an error and not be
stored; there is no property about it.

## 5. Theorems

Every theorem holds for every value of the constants that satisfies the modules' named
assumptions (finite sets of numbered parties, natural bounds) and those stated in it.

| Module | Theorem | Argument |
|---|---|---|
| `ShareStore_proofs` | `LockSetInvariant`, `LockSetMutualExclusion`, `LockSetImplementsMutex` | Of the lock set used in any way by any goroutines. Mutual exclusion is not inductive: a second sender would admit a second holder. `OneToken` adds that a registered key has exactly one of a sender and a holder. |
| | `StoreInvariant`, `TypesHold`, `OnlyDeletionsDeadlock` | `ReqOK` says for each point of a request which of its ids it holds, waits for and has yet to lock: all of them while it looks and writes, those already locked before, none when it is done. A request that waits and holds has locked one id and names another, so it is a deletion. |
| | `StoreLocksAreMutexes` | Composition: under `StoreInv` a step of the store is a step of the lock set, which implements the mutexes. |
| | `RowsChangeUnderLock`, `DeletionsAreFresh` | A write finds its request in possession of all its ids, and mutual exclusion makes it the only holder; a late write belongs to a request that reports an error. For the deletion, the rows found by the SELECT are kept as an invariant (`FreshInv`) over the steps of the others, whose writes are to ids they hold; a late deletion that takes them away was at work together with the request (`MetInv`). |
| | `DuplicatesNeedOverlap` | Under `"partial" \notin Failures`. A request past its check has met whoever inserted the same piece since; a request that began after another one was over, at the container and at DbGate, finds the row in its check. `met` is the history variable, and a request whose write is still running meets those that are called. |
| `SyncBarrier_proofs` | `BarrierInvariant`, `BarrierSafety`, `SyncImplementsBarrier` | Under `KeysDistinct` and `~CanReconnect`. The counter of a key is the number of *distinct* parties counted (`ArrivedInv`, with the history variable `arrived`). To keep it so, a request not yet counted is nowhere else (`RequestsInv`), the increment inside `mu_inc` holds the current count (`IncInv`), and a caller has sent nothing to the parties it has yet to reach (`TodoInv`). A party leaves at count = number of others, hence all have come. The two assumptions are needed: `SyncBarrier_retry` shows what happens without the second. |
| `ShareExchange_proofs` | `ExchangeInvariant`, `JobsDoNotMix` | Under `IdsDistinct`. Whatever is in flight (`NetInv`) or in a mailbox (`BoxInv`) is addressed by the job id of the job whose value it carries, and a running thread has its job's id (`ThreadsInv`); so the entry a thread finds under its id is a value of its own job. Lost, late, repeated and broken-off requests are all included; `overtaken` in `JobManager` is what happens without the assumption. |
| | `JobsRunInStep` | Under `IdsDistinct` and `Width > 0` (a request without shares keeps nobody waiting). A share of a round exists only if its sender has come to that round, and a thread leaves a round with a share of it from every other party; so nobody is two rounds ahead. |
| `SendShares_proofs` | `TypesHold`, `LostRowsAreReported` | For all six kinds of failure. `RowsKept`: a row that was stored and is missing has a party that left the barrier with an error and an upload of the same data id; `HandlerOK` carries that error to its answer. |
| | `UploadsAreAllOrNothing` | `CleanInv`, for the data ids to which the property applies: uploads of one piece follow each other; while one is under way those that have inserted agree on whether the row was there before (`Entering`); after the barrier a refused row is missing, a party that was asked has deleted, and a missing row has somebody who takes the others back (`Leaving`); between uploads everybody has the row or nobody (`Even`). The barrier is needed in `Entering`: nobody deletes before all have inserted. Where no error was reported, for any pieces and failures, `RowsKept` does it: every row that an answered upload stored is still there, and an upload answered everywhere was stored everywhere. |
| `JobManager_proofs` | `JobsInvariant`, `TypesHold`, `IdsAreConserved` | `RequestInv`: a request is new, in the queue once, with the manager, or was given to every party under one id. `IdInv`, with `Balance`: the copies of an id in the queue, its holders among SP's threads and the manager before SP is told are one more than the twins SP was made to start under it. It is a sum of cardinalities, kept by every step: a pop moves one, the return of an id moves one, an orphan at SP adds one on both sides. |
| | `JobsAreKeptApart` | `ApartInv`: until a job is overtaken or a start is handled twice, one job is *live* under an id, where live means that a thread runs or that a request or a share of it is anywhere. A share found under a thread's id is therefore of the thread's job. Failing jobs and requests are included. |
| | `QueueInvariant`, `QueueNoLostWakeup`, `QueueImplementsFifo` | `NoLostWakeup` needs that sleepers sleep on the variable of their own operation (`SleepInv`) and that one thread is in the body (`MutexInv`). The refinement maps a program counter to idle, called or done. They are about `TransactionQueue` by itself, for any threads and values. |
| `JobRun_proofs` | `RunsKeepTheirPhases`, `TypesHold`, `RunInvariant` | `PhaseInv` ties the status to the point of the thread. `LeftOK` says what the attempts given up may be: of queries the run has come to, with a status it has had. The rest of `RunInv` holds until two threads meet in the counter (`raced`). |
| | `KeysStayApart` | `KeysOK`: a key is from before the last tick, or counts back from the counter by one of the draws since; there are fewer draws than counter values, so the next key is new although the counter wraps, and a clock read before a tick gives a key of the past. |
| | `RegisteringIsIdempotent`, `RowsFollowRuns`, `CompletedHasResult` | `RowsOK`: every row has a key of its own, drawn by a run of its uuid, so a repeated or late INSERT finds its row. `FollowOK`: at each point of a run, its row has its status or the one before, or that of a late update. `ResultsOK`: the status COMPLETED is set by a run that has written its result. |
| `Randomness_proofs` | `NoTripleIsUsedTwice` | `QueueInv`: what was used and what is queued are disjoint, over all threads of a party, and below what was served (`ServedInv`); a batch is above it. |
| | `PartiesUseTheSameTriples` | `PairsInv`: two parties that are equally far have used and queued the same triples; one that is a product ahead has what the other will have after it. `StagesInv`: when a job starts everybody has made all products of those before, so the next batch is the same for all. |
| | `NoNumberIsDrawnTwice` | `NumbersOK`: until threads meet in the generator one is inside, and the vector has no number twice and none that was drawn, but for the one read and not yet removed. |
| `Computation_proofs` | `NumbersHold` | The group of the field. Euclid's lemma from the least multiple that p divides; Fermat from the product of all units, which a unit permutes; `modpow` is the power, by the halving of its exponent; `modsqrt` from `p = 4Q + 1`: a square to the power Q is 1 or -1, and `RootC` corrects the second. Euler's criterion for `legendre` from the same. For fixed-point numbers, what a truncated quotient loses is less than the divisor, and a decimal one loses the divisor at most (`DecQuotientFacts`), for any `CutOff`. |
| | `ArithmeticOpens` | A fold over the parties is a sum that does not depend on the order, is linear, and changes by c when one share does; cutting each share off loses less than a unit per party, a quotient at most one and one more for the quotient it is compared with. Beaver's product is an identity of sums, exact for fixed-point numbers until the last product since the triples are whole; the masked inverse is off by at most the mask. |
| | `FieldProtocols` | The opened numbers of a gate telescope to the powers of the sum (`Telescope`), so a gate evaluates its polynomial at 1 + the number of ones. `subPrefixOr` splits the places into blocks and marks the first that is not 0. Values of vectors are ordered as the vectors are lexicographically (`ValueOrder`). `subHalfLessThan` is a parity argument with p odd; the tests for `<` and an interval are case distinctions on which sums wrap. |

The provers cannot instantiate the library's induction theorems, which take an operator. The
proofs of `Computation_proofs` use the least counterexample instead: the set of numbers (or of
subsets of a finite set) at which a statement fails has a least member if it has any, and that
is a fact about sets (`LeastNumber`, `LeastSet`, from `WFMin`). Recursive functions and folds are
shown to satisfy their equations by the same means (`Recursion`, `FoldExists`).

The assumptions of these theorems: `FieldAssumption` (p is a prime 4Q + 1 with Q odd, `RootC`
squared is -1), `ShiftAssumption`, `CompareAssumption` (finitely many parties, one of them SP),
`TableAssumption` (the vectors have Lambda * Lambda bits, enough for p and fewer than p - 1; the
coefficient tables have the values they are made for; fewer parties than p) and
`CasesAssumption`, which says what an input is: shares and constants of the right kind, triples
whose third number is the product of the others and, for fixed-point numbers, whole, masks whole
and under an inverse positive (`getRand<FixedPoint>(1, 1000)`), numbers that `Fp2Pf` accepts,
draws in `Draws` and `ProperBits`. All are evaluated on the instance by TLC.

TLC finds every inductive invariant true on the instances of the runs as well. With these, every
invariant and every action property that a run checks of a concurrent component is a theorem, and
so are the four refinements (`LocksAreMutexes`, `BarrierSpec`, `FifoSpec`, and the lock set's own
`MutexSpec`, which is `LockSetImplementsMutex`) and three of the six properties of the arithmetic.
The conditions a theorem has are those of its property (`raced`, `overtaken`, `outOfStep`,
`overlap`, the failures that `AllOrNothing` tolerates) and the hypotheses named in the table. They
are facts of the code rather than of the proofs: section 4 says what happens without them.

Only model-checked:

* every liveness property (`FreeKeyIsTaken`, `SyncReturns`, `UploadsReturn`, `PopReturns`,
  `JobsEnd` of `ShareExchange`, `JobsAreServed`, `RunsEnd`), which rests on fairness and is outside
  what the proof system handles;
* `ComparisonsAreRight`: the errors of the rounds depend on how large the draws of the random
  bits, the numbers and their shares are against `Shift`, `K` and `M`; the bounds under which it
  holds in general are not worked out;
* `RootOpensRight`: the tolerance is that of the chosen inputs and number of iterations;
* `TablesAreRight`: ids that are equal up to `Eps` need not be so transitively, and the
  statements about `hjoin` and `vjoin` are about tables whose own ids are; its definitions sort and select with operators of the library about
  which no facts are at hand.

## 6. Not modelled

* Generated protocol code, configuration, logging, deployment scripts and tests: no state to
  check. The token authority and the triple service are outside the repository; the first
  appears as a verdict in `SendShares`, the second as `Batch` in `Randomness`.
* Matrices of shares: loops over the vector operations of `Share`.
* The jobs themselves, the models, GBDT, the optimizers and `Math`: numerical algorithms whose
  risk is precision and convergence, which small integers do not show. In `JobRun` a
  computation is one step.
* `Csprng` and the reduction of a random number to a range; infinite floating-point numbers and
  conversions of numbers to strings.
* Two predictions at once under job id 1000: what happens is that shares of one are taken for
  the other's, as for an overtaken job. `ShareExchange` and its theorems assume distinct ids.
* `Share % number` for a negative number.
* Two uploads whose sync keys are equal though their ids are not (`KeysDistinct`).
* `setMax`, `size` and `empty` of the queue, bulk insertion and deletion of AnyToDb: no caller
  but tests.

## 7. Plan

Done: the modules above, in this order: LockSet, ShareStore, SyncBarrier, SendShares,
TransactionQueue, ShareExchange, JobManager; then JobRun, Randomness, the numbers, Share,
Compare, CompareField, ValueTable and Computation; then the theorems of section 5, first those
about the concurrent components, then those about the arithmetic.

Next, in order of importance:

1. The error of a round of `LTZ` as a bound in the draws, and `ComparisonsAreRight` from it.
2. The joins for ids that are apart by more than `Eps` or equal.
3. SyncBarrier with keys used twice (`KeyOf` not injective).
