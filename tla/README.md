# A TLA+ model of cgminer

cgminer mines for a pool: it keeps stratum connections to several pools, makes
work from the jobs they announce, hands it to device threads, and sends back
the shares the devices find. These modules model the parts of it where threads
meet: the locks, the submission of shares, the list of pools, the connections,
the jobs and the work made of them, the queue of staged work, the control of the
devices, and, of the driver of the default build, its work, its nonces and its
tuner. What is not modelled, and why, is listed at the end.

File and line numbers refer to `src/` at the commit this directory lies beside.

## The system

The program is one process with these threads:

| Thread | Code | What it does |
|---|---|---|
| main scheduler | `main`, cgminer.c:6878 | makes work while fewer than `max_queue` + 1 are staged |
| device threads | `hash_driver_work`, cgminer.c:5401 | call the driver's `scanwork`, submit the shares found |
| `stratum_sthread`, one per pool | cgminer.c:4296 | sends the shares queued in `pool->stratum_q` |
| `stratum_rthread`, one per pool | cgminer.c:4189 | reads the connection, opens and closes it |
| `watchpool_thread` | cgminer.c:5594 | every 5 s: prunes shares, switches back to a better pool |
| `watchdog_thread` | cgminer.c:5680 | discards stale work, checks devices |
| API thread | api.c | one command at a time |
| S21: per board `fill_work`, `response` | driver-s21.c:1175, 1235 | take staged work and write it to the chips; read their nonces |
| S21: sensors, autotuner | driver-s21.c:824, 964 | read temperatures; move fans, voltage, frequency |
| restart threads, test threads | cgminer.c:2354, 6026 | short-lived |

They share memory under `control_lock`, `data_lock`, `stgd_lock`,
`sshare_lock`, `lp_lock`, `stratum_lock`, or under no lock.

### Components

For each: its state; its operations; what it shares with the others; what is
hard; what makes it correct.

* **Locks** (cgminer.h). A cglock is a mutex and a pthread rwlock. Operations
  `cg_rlock`, `cg_wlock`, `cg_dwlock`, `cg_runlock`, `cg_wunlock`. Used by
  everything. Hard: the downgrade, which unlocks before it locks again; writer
  starvation. Correct: it is a readers-writer lock, the downgrade is
  indivisible, a writer gets its turn. *Modelled: CgLock, RWLock.*
* **Share submission** (cgminer.c, util.c). A queue `stratum_q` per pool, the
  table `stratum_shares` and the counter `sshares`. Device threads push, the
  sthread sends and then enters, the rthread looks up answers and clears,
  watchpool prunes, the API removes the pool. Hard: answers before the entry,
  lost connections, retries against a two-minute limit, sleeping in `tq_pop`.
  Correct: each share's memory has one owner, is freed in the end, and is
  counted once; `sshares` is the number of shares waiting. *Modelled:
  StratumShares.*
* **Message ids** (`swork_id`). One counter for all pools, incremented under
  `sshare_lock` for shares and under no lock for requests. Hard: a late store sets
  it back. Correct: no two shares that wait get one id, since the table is keyed by
  it; they may. *Modelled: ShareIds.*
* **Pool list** (cgminer.c, api.c). `pools[]`, number, priority, enabled state
  and health of each, `enabled_pools`, `currentpool`. Operations:
  `switch_pools`, `add_pool`, `remove_pool`, `pool_died`, the API commands, the
  consequences of rejects. Hard: commands take several steps without a lock,
  and any thread may switch between them. Correct: priorities are a
  permutation, numbers are places, the current pool is listed, a switch finds a
  usable pool. *Modelled: PoolControl.*
* **Connections and failover** (cgminer.c, util.c). An rthread per pool,
  `lp_cond`, `idle`, `stratum_active`, `no_work`. Operations: `cnx_needed`,
  `wait_lpcurrent`, `restart_stratum`, `pool_died`, watchpool's failback. Hard:
  broadcasts missed between test and wait. Correct: miners get work as long as
  some pool can be reached, and the best such pool is used. *Modelled:
  PoolConnection.*
* **Staged work** (cgminer.c). The table `staged_work`, `gws_cond`,
  `getq->cond`. Operations: `hash_push`, `hash_pop`, `get_work`, `wake_gws`,
  `discard_stale`, `clear_pool_work`. Hard: two condition variables whose
  sleepers wake each other, work that goes stale anywhere. Correct: one holder
  per work, a bounded queue, nobody sleeps for ever, fresh work is mined.
  *Modelled: StagedWork, WorkCycle.*
* **Stratum protocol** (util.c). The job of each pool: extranonce, coinbase,
  merkle branch, difficulty. Operations `initiate_stratum`, `auth_stratum`,
  `parse_notify`, `parse_extranonce`, `parse_diff`, `gen_stratum_work`. Hard:
  a job is many fields, which messages replace in part or fail to replace, and
  the test that a pool is usable is apart from the making of work. Correct: work
  that is accepted is of one job and one session. *Modelled: StratumJob.*
* **Pool quotas** (`select_pool`, `adjust_quota_gcd`, `poolquota`). Hard: a search
  that uses up the quota of pools it passes, works given back or not, rescaling
  in unsigned arithmetic. Correct: each pool gets its quota in each round and no
  pool starves. *Modelled: PoolQuota.*
* **Block tracking** (`test_work_current`, `block_exists`, `set_curblock`). Hard:
  a flag that the wrong thread may take, a database that forgets. Correct: each
  block is noticed, and is new once. *Modelled: BlockTracker.*
* **Device control** (`hash_driver_work`, `mt_disable`, the schedule and the
  verdicts of `watchdog_thread`, `ascenable`, `ascdisable`). `deven`, `pause`, the
  semaphore and `status` of each device, all unlocked. Hard: test and wait are
  apart, posts add up. Correct: a device runs exactly when it should, and its
  silence is noticed. *Modelled: DeviceControl.*
* **Updates and restarts** (`signal_work_update`, `restart_threads`, the Avalon
  drivers' `sswork_update`). Flags raised by one thread and cleared by another.
  Correct: the last template reaches the device. *Modelled: DeviceTemplates.*
* **S21 driver** (driver-s21). A work in progress per board, one ring of nonces,
  the voltage setting and the temperatures. Hard: packets made of two jobs, a full
  ring, a mutex that an error path leaves locked. Correct: the ring is a queue,
  the job that stays is mined, voltage and fans follow. *Modelled: S21Board,
  S21Tuner.*
* **Thread primitives** (`tq_*`, `cgsem_*`, `cg_completion_timeout`). `tq_*` is
  part of StratumShares, a semaphore is a count in DeviceControl.
* **API server** (api.c). Groups, sockets, reply buffers. The commands that change
  state are in PoolControl, PoolQuota, DeviceControl and S21Tuner.

## Not modelled

* The rest of the S21 driver and the power supplies' drivers: bring-up of the
  boards, tables of register values, packets with checksums over i2c and serial
  lines. A single thread runs them before mining starts.
* The Avalon drivers but for the way of a template to the device; the S17, S19,
  C5 and L3 drivers. They are vendor code, for the most part register access and
  tables, 40000 of the 69000 lines here, and the default build has none of them.
  S21Board stands for the structure their nonce queues share.
* usbutils: claims between processes and hotplug. The default build has no USB.
* `hash_queued_work`, `fill_queue`, `get_queued`, `work_completed`, `dupalloc`,
  `isdupnonce`: nothing in the tree calls them. klist.c serves the API's string
  buffers only.
* Options, configuration, statistics, logging, hashing, vendored containers:
  parsing before any thread runs, counters for display, arithmetic with test
  vectors, third-party code.

So the modules cover a small part of the lines, and most of what threads of the
default build do to each other while it mines.

## Modules

Each module is one component; its header says what it abstracts. `X` stands for
a component, `MCX` gives its constants values that need definitions, `*.cfg`
are the runs, the modules with `Proofs` in their names the proofs.

| Module | Models | Granularity of a step |
|---|---|---|
| RWLock | the lock every cglock user relies on (abstract) | one hold |
| CgLock | cglock, refines RWLock | one pthread call |
| StratumShares | the life of a share | one critical section, send, or read of shared state |
| ShareIds | ids of messages, answers found by id | one load or store of `swork_id` |
| PoolControl | pool list, `switch_pools`, API commands | one critical section of `control_lock`; one pass over `pools[]` |
| PoolConnection | failover | one test, wait, or change of a connection |
| WorkCycle | what the staged queue promises of each work (abstract) | one move of a work |
| StagedWork | staged queue, refines WorkCycle | from one wait or lock of `stgd_lock` to the next |
| StratumJob | a pool's job and work made of it | one critical section of `data_lock`; one test |
| PoolQuota | quotas and their rounds | one `select_pool`, one command |
| BlockTracker | new blocks | one critical section of `test_work_current` |
| DeviceControl | enabling, pausing and judging devices | one access to an unlocked variable |
| DeviceTemplates | updates and restarts on the way to an Avalon 9 | the same |
| S21Board | works and nonces of the S21's boards | one critical section, or write to the line |
| S21Tuner | sensors, fans and voltage of the S21 | one round of a thread, up to a lock |

Three MC modules put components that do not interact side by side, so that one
run checks them: a variable `part` says which of them a behaviour is about, the
others stand still. MCCgLock has CgLock, S21Tuner and BlockTracker, MCDevices has
DeviceControl, DeviceTemplates and S21Board, MCWork has StagedWork, StratumJob and
PoolQuota. They restate the fairness of each part with `part` in its actions,
and each property of the instanced modules under its own name.

**CgLock.** `mutex`, `readers`, `writer` are the two pthread objects, `pc[t]`
the call thread `t` makes next. The refinement mapping reads each thread's mode
off its `pc`; a downgrading thread counts as writer until it has the read lock,
though it holds no rwlock at that moment.

**StratumShares.** Shares are elements of `Share`, found once each (`fresh`).
Per pool: `queue` and `frozen` are `stratum_q`; `spc`, `cur`, `last` the sthread
(`cur` its variable `work`, `last` the nonce, nonce2 and version it sent last);
`rpc`, `active`, `session`, `resumable`, `inflight` the rthread and its
connection (`session` is `nonce1`, `resumable` whether there is a `sessionid`,
`inflight` the shares sent whose answers have not been read); `table` and
`sshares` are under `sshare_lock`. Time is one action, `Age`: the 120 s of a
share are over. `tally`, `early` and `pruned` are history variables. Why the
rthread gives a connection up or wants it back is left open, except for
`sshares`, which `cnx_needed` reads only after it has refused a disabled pool.
Opening a connection takes two steps because the sthread may send from the
subscription on, before the authorization. `id[m]` is the message id a share got
from the sthread, or a request (`Request`) from the rthread: any id, since
`swork_id` may be set back (ShareIds). `Found(m)` is what an answer finds: an
entry with its id, of whichever share and pool, while the counter that goes down
is that of the pool the answer came from. `auth_stratum` and
`subscribe_extranonce` may take answers to shares for their own; the request's
own answer, and that to `suggest_difficulty`, are then read with the shares'.

**ShareIds.** How it comes that ids repeat. `swork_id++` is a load (`SLoad`,
`RLoad`) and a store (`SStore`, `RStore`). `rpc` is the request a connection has
got to, `loaded` the value of an increment begun. Device threads, retries and
the reasons to lose a connection are as free as they can be, since StratumShares
has them.

**PoolControl.** `pools[i]` is the code's `pools[i-1]`. `health` folds `idle`,
`stratum_active` and `stratum_notify` into three values. `api` is where the API
thread is in its command, with one label per unlocked step. `OtherSwitch` is any
other thread's `switch_pools(NULL)`. A `currentpool` read from outside the array
becomes `None`, and the model stops there. `raced` remembers that somebody
switched while a pool was being removed.

**PoolConnection.** Failover among enabled pools of fixed priorities. A pool
whose socket has something to read goes on to `select` unexamined (`RCheck`), and
so does one that `wait_lpcurrent` has let go on (`RRestart`). `conn`
holds what the connection has got to; `staged` is the set of pools staged work
comes from. `switch_pools` is two steps, the choice and the broadcast, and
`wait_lpcurrent` is two, the test (`decide`) and the wait, since no lock
connects them. Subscription and authorization are one step here.

**StagedWork.** One pool. `spc` and `mpc` are the scheduler and the device
threads; `woken` is a thread whose condition variable has been signalled and
which has yet to look again. `job` and `wjob` stand for `job_id`, by which
`stale_work` tells work apart; `max_expiry` and rolled work are left out.
`Place`, the refinement mapping to WorkCycle, says where a work is from who holds
it: with the scheduler it is made, in the table staged, with a device thread taken.

**StratumJob.** A field of the job stands for the notify it came from
(`field[f]`), `nonce1` and `coin1` for the subscription or `set_extranonce` that
the extranonce, and the coinbase's room for it, came from. A notify that fails
stops at one of the fields. `rpc` holds the result of `parse_notify` between the
unlock and the assignment to `stratum_notify`. `waiting` is a handshake that has
asked for its subscription (`Connect`) and has not read the answer: with version
rolling, `initiate_stratum` runs `parse_method` on all that comes first (`Reads`),
and a notify that fails there is taken for the answer (`rpc` "failed"), after
which the handshake is tried afresh. `early`, `last`, `since`, `leftover` and
`subscribed` are history, `early` being that `stratum_notify` was set while the
pool was not subscribed: before the answer, or after the connection was closed.
`spc` and `work` are the scheduler's test and work, then the device thread's. A
`client.reconnect` is left out, also inside a handshake, where it would start
another one.

**PoolQuota.** `quota`, `quota_gcd`, `quota_used`, `global_quota_gcd` and
`rotating_pool` are the code's; `IntMod` and `LongMod` are the widths of its
arithmetic. `steady`, `due` and `net` are history: who was usable since the last
reset, what is promised to them, what they have had.

**BlockTracker.** A pool's job is the block it builds on. `pc`, `wpool` and
`wblock` are a thread in `test_work_current` and the work it was called with;
`news` counts. Blocks are numbered, which the code does by the order of their
arrival.

**DeviceControl.** `sem` is the count of `thr->sem`. Whoever sets a variable and
then posts has a state in between (`posting`, `wdev`). `idle` is the time since the
thread last reported.

**DeviceTemplates.** `loop`, `mainpc` and `rpc` are the mining threads, the main
loop and a restart thread; `notifier` is an rthread between the new job and the
flag. A call of `sswork_update` notes the restart flag (`Mark`), looks the current
pool up (`UpdateFind`, `RestartFind`), which `lpool` and `rpool` keep, and then
waits for the lock and sends.

**S21Board.** A packet records the job its merkle root is of and the job its
header is of, and whether it is of the work in progress. `pending` and `lost` are
history: what has been put in the ring and not been tried, until the ring has
once been full.

**S21Tuner.** Voltages are steps between two limits; of a temperature it matters
whether it is above the limit. A round of the autotuner is what it does up to the
next wait for the mutex. The mode of the autotuner is at least `ONLY_FANS`, as it
is by default; in mode 0 its thread returns (driver-s21.c:1099), and nothing here
is claimed.

The modules meet in what one leaves open and another models: why a connection
is wanted (StratumShares leaves it open, PoolConnection models it), when a pool
is usable (StagedWork and PoolControl let it change, PoolConnection says how),
where shares come from (StagedWork's `Mined`, StratumShares' `fresh`), whether a
job is whole (StagedWork takes it as one, StratumJob shows it), who restarts
devices (BlockTracker stops at the new block, DeviceTemplates goes on), and
whether a mining thread scans at all (S21Board leaves it open, DeviceControl
models it).

## Runs

| Run | Instance | Shows |
|---|---|---|
| cglock | 4 threads; 2 sensors, 3 voltages; 4 blocks, 2 pools | the lock's invariants, refinement of RWLock, writer progress; the supply's voltage moves in steps within its limits and arrives, heat runs the fans; a block is new once and noticed |
| shares_two_pools | 2 pools, a share each, 2 ids, `opt_lowmem` | types, one owner, `sshares`, counting |
| shares_live | 1 pool, 2 shares, 2 sessions | shares are settled, the queue moves, no freeze without removal |
| pools | up to 3 pools, failover and rotation | priorities and numbers of the list (`ListIsConsistent`), removal, switching |
| connections | 3 pools, 2 unsteady | the current pool's thread awake (`ConnectionInv`), miners get work, the best pool is used again |
| devices | a device; 2 pools, 2 templates; a board, 2 jobs, a ring of 2 | no lost wakeup, stopping and running (`RunsAsTold`), dying of devices; updates arrive; the ring is a queue, the job that stays is mined |
| work | 2 miners, 4 works, 2 jobs, `max_queue` 1; 2 notifies, 2 extranonces, 2 difficulties; 2 pools, quotas 0, 2, 3 | one holder, refinement of WorkCycle, no lost wakeup, fresh work; used jobs and accepted work whole (`UsedIsWhole`), difficulties; quotas kept (`SelectionIsFair`) and nobody starved |

And five runs end in a counterexample to something the code says of itself:

| Run | Property | What happens |
|---|---|---|
| shares_auth | AuthReadsAuth | a share's answer is read as that of `mining.authorize` (util.c:3029, 2232) |
| share_ids | IdIsUnique | two shares get one id, since a request increments `swork_id` unlocked (cgminer.c:4375, util.c:2225) |
| pools_remove | ActiveNotRemoved | a switch after removepool's test makes the pool current, and it is removed (api.c:2331, 326) |
| device_update | UpdateReaches | the main loop clears `opt_work_update` after a notify it has not seen (cgminer.c:6887, 272 of cgminer.h) |
| job_before_answer | JobFollowsAnswer | a notify before the answer to `mining.subscribe` leaves the pool usable with a coinbase of the nonce1 before (util.c:2937, 2922) |

`shares_two_pools` runs with `opt_lowmem` and one session so that two pools
stay within reach; the retries and changing sessions that it leaves out are in
shares_live. Ids repeat in both. Late answers to requests are left to the proofs,
which are for any set of requests: two pools' shares and requests together are out
of TLC's reach within the time of a run. `shares_two_pools` is also the run with
`Spurious`, in which a condition variable may return unsignalled. Without that (in
shares_live) a queue is frozen only when its pool is removed; with it the property
fails, because `tq_pop` waits without a loop (util.c:822) and the sthread takes
NULL for the end.
The two searches of `switch_pools` are in one run: `pool_strategy` is chosen in
the initial state. `device_update` has a single pool, so that it is the main
loop that loses the template and not a switch. Small properties of one component
that a run checks together are conjuncts of one: `ListIsConsistent`,
`ConnectionInv`, `RunsAsTold`, `UsedIsWhole`, `SelectionIsFair`, `TypesOK`.

Some properties except a case, because the code does not keep them in it, and
say so where they are stated: `CountedOnce` answers that come too early or too
late and shares whose id another message was given, `CountDrift` pools that have
shared an id, `AcceptedHasOneNonce1` (a part of `UsedIsWhole`) the time between a
`set_extranonce` and the next notify, and a `stratum_notify` set on a connection
closed already or before the answer to the subscription, `LastDiffWins` a
difficulty left over from before the session's subscription,
`ChangeKeepsQuota` a quota used less than nothing and a
divisor that does not divide the pool's quota, `RingIsQueue` a ring that has
been full, `RaisedReaches` a restart thread overtaken by a switch,
`RemovedNotCurrent` a switch while a pool is being removed,
`VoltageIsReached` and `HeatRunsFans` a mutex left locked. Each of these was
checked to fail without its exception, and each is a hazard in `PROJECT.json`.
A property is not evidence about the case it excepts. Of those cases, three are
shown to happen by runs of their own (`share_ids`, `job_before_answer`, and, for
`RemovedNotCurrent`, `pools_remove`), a negative `quota_used` does happen in `work`
without anybody starving (`PoolIsServed`), and three are covered by no property:
the overtaken restart thread, the ring after it was full, and the i2c mutex that
an error path leaves locked.

**Bounds.** Three pools are the least with a pool before, at and behind the
current one, and with a removed pool that is neither the first nor the last. Two
shares of one pool make a queue behind a share that is stuck. Two pools with a
share each make the table shared, and let the answer to one take the other's
entry. Four lock users make two readers and two writers. ShareIds: two shares
are the least that can share an id, eight ids (`MaxId`) give each pool its
requests. `MaxEnabled` bounds `enabled_pools`, which `disablepool` lets drift
upwards without end; `tally` and `pruned` are bounded by the shares. StratumJob:
two notifies are the least with a difficulty stacked behind another, and with a
job half replaced by the next (`MaxJob`; the proof is for any number), two
extranonces the least with one that is not of the session (`MaxNonce1`), or with
a session and one before it. StagedWork: four works are all that can be
allocated at once, `max_queue` + 1 staged, or one less and the scheduler's, and
one per miner. PoolQuota: quotas 2 and 3 have no common divisor and 0 none at
all; two changes (`MaxChanges`) make a rescaling from one divisor to another;
`MaxOut`, the unmined works of a pool, bounds the discards, which otherwise take
`quota_used` down without end; `IntMod` and `LongMod` keep the ratio, not the
size, of the widths, and a step that would take a counter past the end of an
int, where C leaves it undefined, is not taken (`CountersFit`; the run does not
get there). BlockTracker: the database (`Keep`, 7 in the code) is smaller than
the chain (`MaxBlock`), so that it forgets, and more than twice the delay of the
pools (`Lag`). DeviceControl: `MaxPosts` bounds commands and schedule changes
while posts are left over; sick comes before dead by one tick. S21Board: a ring
of two wraps, and is full, within a scan. S21Tuner: three voltages have both
limits and one between; every second round measures.

**Deadlock** is checked where the system cannot stop (connections, devices). The
shares' threads end when a pool is removed, PoolControl stops at an undefined
`currentpool`, and BlockTracker (run cglock) and StratumJob (run work) end with their
blocks and notifies; what else is in these two runs is kept from standing still by
`WriterProgress`, `HeatRunsFans`, `WaitEnds` and `PoolIsServed`.

**Symmetry** is used for the pools of PoolControl and, in shares_two_pools, for
the pools together with their shares, and for ids; these runs have no liveness property.

**Fairness.** Threads run on: each has weak fairness as a whole, never one of its
actions, so no branch of a step is forced. cglock: a call that was begun goes
on, and critical sections end, since no cglock is held across a wait; that a
thread ever wants the lock is not assumed. StratumShares: the sthread runs,
watchpool comes round every five seconds, time passes; the network, the pool
server and the devices owe nothing. PoolConnection: threads run on, miners always
want work, and a reachable server sends a message within 90 s (`select`'s limit,
after which the code takes it for dead); servers die and return at will, and the
properties say what they assume of that (`NetworkSettles`). StagedWork: scheduler
and device threads run on and a lost pool comes back; timeouts, unsignalled
wakeups, the watchdog and restart threads are *not* assumed to happen, so that
`WaitEnds` rests on the signals alone. PoolQuota: the scheduler goes on and staged
work is mined. BlockTracker: threads go on and the scheduler keeps staging work.
DeviceControl: threads, the watchdog, a command once begun, and time go on; nothing
is assumed of commands, of the schedule, or of how often a driver reports.
DeviceTemplates: `scanwork` returns, the main loop is woken (by the watchdog if by
nobody else), a restart thread ends. S21Board: the threads go on, `get_work`
returns, and the mutex is had by a thread that keeps trying for it (strong
fairness of `FillHang`, whose rival locks it a few times a second). S21Tuner: the
same of the i2c mutex, whose users sleep between their turns; nothing is assumed
of the API or the weather.

## Proofs

Every invariant and every action property of the passing runs, and both
refinements, are proved for every value of the constants that satisfies the
named `ASSUME`s; TLC checks them, and the liveness properties, on the instances
above. Each theorem `Spec => []Inv` rests on an inductive invariant, named
below; its proof has a lemma for the initial states, one for the steps (a step
of the proof per action), and a temporal step.

| Proofs in | About |
|---|---|
| CgLockProofs | CgLock, S21Tuner, BlockTracker, and their sum in MCCgLock |
| StratumSharesProofs, StratumCountProofs | StratumShares |
| PoolControlProofs | PoolControl |
| PoolConnectionProofs | PoolConnection |
| DevicesProofs | DeviceControl, DeviceTemplates, S21Board, and their sum in MCDevices |
| WorkProofs | StagedWork, WorkCycle, StratumJob, PoolQuota, and their sum in MCWork |
| NumberLemmas | least numbers, finite sets of numbers, and division, for the others |

**Assumptions.** `NoneAssumption`, `SharesAssumption` (finitely many shares,
each of one pool), `StagedAssumption` (finitely many blocks of memory, a job,
`max_queue` > 0), `DeviceAssumption` (a device is sick before it is dead),
`PrioAssumption` (priorities are natural numbers, no two the same),
`UnsteadyAssumption` (the unsteady pools are pools), `PoolControlAssumption`
(finitely many pools; the strategies are those of `enum pool_strategy`),
`JobAssumption` (which fields a job has; difficulties are numbers above zero),
`QuotaAssumption` (there is a pool; quotas are not negative and fit an int; a
long is wider than an int), `TunerAssumption` (the lower voltage is below the
higher one, there is a sensor), `BlockAssumption` (2 `Lag` < `Keep`) and
`BoardAssumption` (a ring has at least one place, `None` is no job). The last
five are hypotheses of their component's theorems and are assumed by MCWork,
MCCgLock and MCDevices, where TLC checks them. What is proved of one component
is proved again of the sum that a run checks, since there the others stand
still: `LockRunsAreSafe`, `TunerRunsAreSafe`, `BlockRunsAreSafe`,
`DeviceRunsAreSafe`, `WorkRunsAreSafe`, `WorkRunsAreFair`, `WorkRunsRefine`.

* **CgLock**: `LockCorrect`, `WriterAlone`, `CgLockImplementsRWLock`. `LockInv`
  is inductive: it ties the owners of the mutex and of the rwlock to the program
  counters, and says that nobody reads in the window of a downgrade. Mutual
  exclusion (`WriterAlone`, which follows from it and has no run of its own)
  needs the mutex half, because in that window the rwlock is free. The
  refinement follows step by step from it.
* **S21Tuner**: `SupplyMovesInSteps`. What the autotuner is about to set is one
  step from the setting (`WantInv`), and the setting is what the supply was
  told; the voltage the API may store meanwhile is clamped before it gets there.
* **BlockTracker**: `BlockIsNewOnce`, for any pools and any length of the chain.
  The database may forget a block only when no work can be of it any more
  (`NewsInv`). A new block pushes out the oldest entry, not the lowest, so the
  proof needs how far the database may be out of order: an entry is at most
  `Lag` above a later one (`OrderInv`), and work is at most `Lag` blocks behind
  (`LiveInv`). `Keep` different blocks, all of them no lower than the oldest
  less `Lag` and none above the chain, do not fit unless the oldest is dead
  (`OldestIsDead`, by the pigeonhole principle). That wants 2 `Lag` < `Keep`;
  with `Lag` + 1 < `Keep`, which this model assumed before, TLC finds a block
  that is new twice (`Keep` 4, `Lag` 2, a chain of 5). For the code, which keeps
  seven, it means that no pool may be more than three blocks behind.
* **StratumShares**: `SharesTypes`, `ShareHasOneOwner`. Ownership alone is not
  inductive: a step of the sthread moves `cur`, so the invariant `SharesInv`
  adds that an sthread with a share in hand has one of its own pool (`HandInv`),
  and that a queue holds shares of its own pool (`QueueInv`). Each step moves a
  set of shares from one place to another, or none; lemma `MovesKeepPartition`
  says that this keeps one owner per share.
* **StratumShares**: `CountDriftsByPruned`. The counter follows the table
  because a share entered was not there before (from `OneOwner`), an answer is to
  a message of the pool it came from and both messages and entries have their ids
  (`IdInv`, the strengthening), and so what it finds is of that pool while the
  pool's ids are `Apart`, which, once lost, they stay.
* **StratumShares**: `ShareIsCountedOnce`. A share is counted when it is freed,
  and once more by an answer that finds no entry. `AnswerInv`, the
  strengthening, says for whom there are answers on their way: a share in the
  table, or about to be entered, or freed because it was old, or of a connection
  that is about to be opened anew, or one whose id another message had, since
  only such an answer can have taken its entry. `QueueFreezesWithPool` holds under `Spurious
  = FALSE`: it is the unsignalled wakeup, and nothing else, that freezes the
  queue of a pool in use.
* **PoolControl**: `PoolTypes`, `PoolListIsConsistent`, `PoolRemovedNotCurrent`,
  `PoolSwitchFindsUsable`, for any number of pools, `PoolInv` being inductive.
  `poolpriority` and `remove_pool` take many steps in which priorities are no
  permutation. `PriorityInv` says what they are then: of the pools that have
  been given one, a permutation, and of the others still different; of the pools
  that will be left, a permutation. `TargetInv` keeps a command's pool in the
  list, `CurrentInv` the current pool unless a switch has raced with the
  removal. That the last step of each command ends in a permutation is counting
  (`NumberLemmas`). An index out of `pools[]` is nowhere but where the model has
  one.
* **PoolConnection**: `CurrentIsAwake`, for any number of pools. The rthread's
  connection is closed all the way from its last test to its sleep and back
  (`Closed`), and a switch takes connected pools only, or none. That a switch
  has a best pool to take is a fact about least numbers.
* **StagedWork**: `StagedWorkTypes`, `WorkHasOneHolder`, `QueueIsBounded`. One
  holder needs, beyond itself, in which labels the scheduler and a device thread
  hold something; the bound needs that the scheduler adds only after it saw
  `max_queue` or fewer, which nobody else can raise.
* **StagedWork implements WorkCycle**: `WorkImplementsCycle`. Every step is one
  move of one work, a discard of staged ones, or a stutter; one holder says that
  `Place` changes for no other work, the bound that a work is staged only with
  room for it. (`QueueBound` has no run of its own: it follows from the cycle,
  in which TLC checks it.)
* **StratumJob**: `JobTypes`, `JobUsedIsWhole`, `JobLastDiffWins`, for any
  number of notifies and sessions. `job_id` is the first field to be replaced,
  so a work whose job id is that of the last notify was made of the fields as
  they are now (`MadeInv`); unless `early`, a usable job is younger than the last
  subscription (`SessionInv`); the difficulties stacked are the last ones announced
  (`DiffInv`).
* **PoolQuota**: `QuotaIsFair`, `QuotaIsKept`, for any pools and any quotas. The
  reduced quotas are those of the last divisor (`ReducedInv`); a search counts
  each pool it passes, yet passes a pool only when nothing is promised to it any
  more (`SteadyInv`). The divisor is a recursive function, of which the proof
  needs one fact for all numbers, that it is at least 1; it is had from a least
  counterexample. That a counter rescaled in unsigned arithmetic fits an int
  again is part of the types. `ChangeKeepsQuota` was stated without the premise
  that the new divisor divides the pool's quota, and could not be proved: TLC
  has the counterexample with three pools and quotas 4, 6, 7 and 8, which the
  two pools of the run do not reach. The divisor found in one pass over the quotas
  need not divide those it has passed (cgminer.c:582; 4 and 6 give 3), though the
  comment at cgminer.c:558 calls it their greatest common one.
* **S21Board**: `BoardTypes`, `BoardRingIsQueue`, for any boards and size of the
  ring. The strengthening is that `p_wr` is `nonce_num` places behind `p_rd`
  (`PlaceInv`), until the ring has once been full.
* **DeviceControl**: `ControlTypeOK`, `ParkedForReasonHolds`, for any number of
  devices. The invariant `ControlInv` adds to the property the threads that have
  not come to their first wait: the post `main` gives them is what they will
  find. Each step that sets `deven` or clears `pause` leaves a post on its way,
  and each wait uses up one post and looks at both variables again before the
  next.
* **DeviceTemplates**: `TemplateTypes`, its type correctness.

Only model-checked: all liveness (`WriterProgress`, `WaitEnds`, `PoolIsServed` and the
others under "Fairness"), since the prover reasons neither about `ENABLED` nor about
fairness; and the five counterexamples, which are behaviours of an instance.

## Plan

Left to prove: what does hold of message ids (a share in the table is found by
no answer but its own, as long as `swork_id` is not set back); abstract
specifications that StratumShares and PoolConnection implement. Modules:
*UsbClaim*, and the packet protocols of the Avalon drivers.

Not covered by any property, and known: `sshare_sent` is written after an answer
may have freed the share (cgminer.c:4460); `disablepool` does not count
`enabled_pools` down, so that the last enabled pool can be disabled against the
refusal of api.c:320 (api.c:2287, in PoolControl's `DisablePool`); a failed send
may close the connection the rthread has just opened (util.c:1372); a connection
is closed between a send and `sshares++` (cgminer.c:4417); the sthread of a
removed pool that sleeps in `tq_pop` is never woken; a better pool may sleep
through a broadcast while the second-best is mined for (cgminer.c:5513); a
switch between two passes of `poolpriority` or `removepool` finds no pool of
some priority and takes `pools[choice]` (cgminer.c:3046), which PoolControl has
and `Rearranging` excepts; `work_block` is counted without a lock
(cgminer.c:3394); a switch tells the Avalon drivers nothing (cgminer.c:3114); a
nonce of the S21 is tried on the work in progress, whatever work it was found
for (driver-s21.c:1135).
