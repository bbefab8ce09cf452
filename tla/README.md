# Formal models of the Dandelion artifact's load generator and servers

This directory holds TLA+ models of the programs in this repository that
contain concurrent or stateful logic of their own, the TLC configurations that
check them, and theorems about them checked by TLAPS. `PROJECT.json` is the
index: it maps each definition to the source lines it stands for and lists the
runs, the hazards and the theorems.

Paths below are relative to `src/`. `client/` means `client/src/`, and
`frontend/` means `servers/firecracker/frontend/src/`.

## 1. The system

The repository is the artifact of a performance study. A **load generator**
(`client/`) sends HTTP requests to a **server under test** on another machine.
Several servers speak the same protocol: a dedicated server
(`servers/baremetal`), the same server inside Firecracker VMs behind a
**frontend** that owns the VMs (`servers/firecracker/frontend`), Spin components
(`servers/wasmtime`), a Hyperlight server, and Dandelion itself, which is not in
this repository. Some workloads call an **HTTP storage server**
(`http_storage`). Scripts deploy these programs, monitor the worker, and turn
the result files into plots.

Requests go to `/hot/<workload>` or `/cold/<workload>`. A hot request may reuse
a running instance; a cold one must pay for a fresh start. The client decides the
class of each request and, for Dandelion, which copy of a function it names;
the frontend has a pool of workers for each class.

### Components

| Component | State it keeps | Operations | Interacts through |
|---|---|---|---|
| Frontend pool (`frontend/main.rs`, `vm.rs`) | worker tasks, their VMs and snapshots, semaphore `PERMITS`, barrier, two queues, token and tracker | create (with retry), serve (hot, cold, from snapshot), relay, destroy, accept, shut down | HTTP from clients and to guests; Firecracker processes; `network.rs` |
| Host network (`frontend/network.rs`, `util.rs`) | taps, iptables rules, `ip_forward`, all of which outlive the process | set up and tear down for a VM and for the server | `sudo` commands, by main and all workers |
| Guest addresses (`network.rs`, baremetal `register_ready`) | none: formulas on both sides | address of VM *id*; *id* of an address | the guest's own IP address |
| Open-loop run (`client/open_loop.rs`) | timer thread, dispatcher, request tasks, two bounded channels, log | pace, dispatch, complete, record, collect, return | HTTP to the server; result files |
| Closed loop (`client/closed_loop.rs`) | shared counter, client tasks, record channel; search state | claim, finish, join, collect, judge | HTTP to the server; result files |
| Rate search (`client/main.rs`) | last good and bad rate, baseline median | coarse and fine sweep; doubling and bisection | calls an open-loop run per rate |
| Hot/cold mix (`client/main.rs`, `registration.rs`) | two atomic counters | draw a class, take a name | shared by all request tasks |
| Client set-up (`client/main.rs`, `registration.rs`) | none | poll readiness, register functions and compositions, pretest | HTTP to the server |
| Start times (`client/generator.rs`, `rate_change.rs`) | current time and second | next start; expand a CSV trace | consumed by the timer thread |
| Result files (`client/file_writing.rs`) | files on disk | truncate and write latencies, append statistics | `/stats` of the server |
| Dedicated server (`servers/baremetal`) | archive of timestamps | one handler per route, `/stats` drains the archive, `/stop` exits | storage server; frontend |
| Storage server (`http_storage`) | none | generate data, mirror, authorise, logs | dedicated server, Spin, Dandelion |
| Spin, Hyperlight, mock servers | none across requests | one handler per route | client |
| Monitoring (`servers/monitoring.py`) | samples | sample every 100 ms, dump | files |
| ETL (`doe-suite-config/does_etl_custom`) | a cached summary beside each input | extract, aggregate, plot | result files |

### What is hard about it, and what makes it correct

* **Frontend pool.** Up to hundreds of tasks start VMs in parallel, share a
  semaphore and a barrier, and fail in two ways (an error that is retried, a
  panic that nobody joins). A request is a value that moves from a connection
  into a queue into a worker, any of which may end first. *Correct* means:
  permits are not leaked; nobody serves early; each request is owned by one
  place and decided once by a worker of its class; a VM lives exactly as long as
  its role says; start-up and shut-down end.
* **Host network.** Its state survives crashes, and rules are a multiset changed
  by add and delete. *Correct*: rules do not accumulate over any history of
  crashes, retries and restarts; no set-up fails for what was left behind, and no
  cleaning cuts the traffic of a VM that is served; a clean exit leaves nothing of the run.
* **Open loop.** Five kinds of task end in any order, two of them unobserved.
  *Correct*: every start time is a request or a reported failure; the run
  returns; nothing of it is left when the next run begins; failures are counted.
* **Closed loop.** The number of requests is bounded by a counter that many
  clients race on, and the caller waits for an exact number of records while it
  holds a sender itself. *Correct*: exactly that many requests; the wait ends;
  the search ends and its last file is the peak.
* **Rate search.** Long sequences of legal results, with boundary arithmetic.
  *Correct*: brackets are real, no rate is measured twice (its file would be
  truncated), the baseline is the unloaded one.
* **Mix.** Wrapping arithmetic on shared counters. *Correct*: the share is exact
  under any interleaving, and cold copies take turns.
* **Set-up.** A long sequence of registrations, any of which may be refused or
  lose its connection, before names are drawn at random. *Correct*: every name
  the experiment may draw was posted, functions before the compositions that
  call them, and the client exits whatever the server does.
* **Traces.** Start times are drawn from rates that change by the second.
  *Correct*: each second gets the requests its rate asks for, up to what the
  rounding and the last interarrival of a slower second explain.
* **Statistics.** The server's archive is filled by its handlers and emptied by
  the client, which names the file by its own idea of the current run; timeouts,
  repeated measurements, downloads in the middle of a run and downloads that
  break off come between. *Correct*: each row is in one place, and a written
  measurement has the rows of what it counted as answered.
* **Log page.** Ten fetches end in any order and may fail, in three programs that
  are compared with each other. *Correct*: a page the client accepts is complete
  and in order, and does not depend on the timing.

`PROJECT.json` lists these hazards line by line, with the property that covers
each, or why none does.

## 2. Modules

| Module | Models | Role |
|---|---|---|
| `RequestService` | what the frontend promises its clients | abstract specification |
| `FirecrackerPool` | `frontend/main.rs`, `vm.rs` | component; refines `RequestService` |
| `FirecrackerPoolProofs` | | theorems |
| `VmNetwork` | `frontend/network.rs`, `util.rs` and the order main and workers call them in | component; uses `VmAddresses` |
| `VmAddresses` | the address formulas and `register_ready` | operators |
| `VmNetworkProofs` | | theorems about both |
| `RequestMix`, `RequestMixProofs` | `HotGenerator`, `FunctionId` | component and theorems |
| `RateTrace` | `generator.rs`, `rate_change.rs` | operators |
| `OpenLoop` | `run_open_loop`, `BenchLog` | component; draws its starts from `RateTrace` |
| `OpenLoopProofs` | | theorems |
| `Args` | the command line | what the client's modules share |
| `ClosedLoop` | `run_closed_loop`, `run_closed_loop_n_clients`, `request_loop` | component |
| `RateSearch` | `OpenSweep` and `OpenAdaptive` in `tokio_main` | component on top of `OpenLoop`'s result |
| `ClientMain` | the rest of `tokio_main`, `registration.rs` | composes `ClosedLoop` and `RateSearch` |
| `ClosedLoopProofs`, `ClientMainProofs` | | lemmas about the closed loop; theorems about the composition |
| `DedicatedServer` | routes, handlers, archive of `servers/baremetal` | component |
| `ServerStatistics` | `write_timestamps` and the runs around it | composes the server with the client's two loops |
| `ServerStatisticsProofs` | | theorems |
| `LogFanOut` | the log page in Rust (dedicated), Spin and Python, the storage server's logs, the client's check | component |
| `LogFanOutProofs` | | theorems |
| `MC...` | | constants for TLC |

`RateSearch` uses a run of the open loop as one step. `OpenLoop` justifies that:
its `RunReturns` says that the step ends, and `NothingLeftRunning` that no task of
it is left to disturb the next one. `ServerStatistics` looks at the same runs
from the side of the server: what happens between posting a request and having
its row in a file; it leaves out pacing and channels, and lets a closed loop post
in any order of answers and an open loop at any time. `VmNetwork` and
`FirecrackerPool` describe the same workers at two levels: the pool keeps one
bit per worker for "its network is set up", and `VmNetwork` splits the set-up
into its commands.

### How state and actions correspond to the code

**`FirecrackerPool`.** A step is the code between two awaits that another task
can observe. `pc[w]` is where worker `w` stands in its task: in `create`
(`permit`, `network`, `boot`, `probe`, `snapshot`), at the `barrier`, in the select
loop (`idle`), in `serve` (`start` and `load` of a cold VM, `relay` while `http_relay`
collects the request's body, `forward` while it waits for the guest, `stop`,
`kill`), or in `destroy`. `permits` is the semaphore, and a worker in `Holding` is inside the scope of a
`_permit`. `vm[w]` is the VMM process whose handle the worker holds, `guest[w]`
the HTTP server in it, and `snap[w]` that server in the snapshot. A `?` in
`create` is `CreateFails`, which returns the permit, drops the handle and starts
over, as the loop around `create` does. A start that fails may have launched the
VMM (`FailedStart`), for a hot worker as for a snapshotting one: `create` drops
its handle, and the process is in `orphans` from then on, under the name of the
worker and of the place; `serve` goes on to `stop_vmm_force` (`StopAfterFailure`),
as it does when `load_from_snapshot` fails in a VMM that `start_vmm_test` has
launched (`LaunchVmm`, `LoadFails`). An `unwrap` that can fail is `Panic`, which
unwinds the task: permit, `Work` and handle are dropped, and nothing restarts
it. `job[w]` is the `Work` the worker has; dropping it without an answer is what
`handle_work` turns into status 500. `GuestUp` is the guest's own progress.
`streaming` has the requests whose body is not complete: a request is queued
when its head has been read, and the rest comes (`SendBody`) or not. Requests
are named by connection, for HTTP/1 carries one outstanding request on each.

**`VmNetwork`.** A script is a sequence of commands; `todo[i]` is what worker `i`'s
script has left, and `script` what main's has. Rules are counted because
`iptables --append` adds duplicates and `--delete` removes one. Commands through
`sudo` panic on failure, those through `sudo_unchecked` do not. All six commands of
a worker's set-up are there: `addrs` and `links` say which taps have their address
and are up, and `Fails` when `ip tuntap add`, `ip addr add` and `ip link set` fail for
what they find. `Crash` ends the process anywhere and leaves the host as it is. A
`sudo` child under way outlives its parent; the model lets it end, or never begin,
before the next run starts, so a command of one run that takes effect in the
middle of the next is not considered. `Start` begins another run, perhaps with
another pool size and another device.

**`RequestMix`.** Drawing a class and taking a name are separate atomic
operations with other callers in between. `W` is the number of values of a
`u32`; `setting` holds the arguments of the run.

**`OpenLoop`.** `Iterate(lag, pause)` is one turn of the timer thread: it draws the
next start from the trace, `lag` is how late the sleep wakes up, and `pause` how
long the thread is off the processor before the next turn. Requests are alike, so
they are counted by where they are: `inflight`, `sending` (blocked on the record
channel), `queued`, `logged`, the last three by the answer they got; a wrong
answer makes one `lost`, since `check_body` panics before the record is sent.
Time is in ticks of `1/TicksPerSec` seconds, which stand for the nanoseconds
interarrival times are rounded to.

**`ClosedLoop`.** `Claim` is the `fetch_add` with its comparison, `Finish` the
answer and the `try_send`. `Join` follows the order of spawning, `Collect` is one
`recv_many`, and `Judge` is the match on the throughput with everything up to
the next await: writing the file, or repeating, or giving up.

**`RateSearch`.** Each measurement has a verdict (`good`, `bad`, `err`) and a
median; `Bisect` is what follows every result of the adaptive search, including
the loop's condition. A run that returns an `Err` ends the search, but counts as
bad in the bisection (`RunFails`, `BadBisect`); one that panics ends the client
(`RunPanics`).

**`ClientMain`.** `stage` is where `tokio_main` is. `Registrations` is the sequence
of names that the command line asks to be posted, and `posted` how far it has got;
an error status is logged and the next name follows, a lost connection is an
`unwrap` that ends the client. A composition's text matters by the functions it
calls (`Calls`).

**`DedicatedServer`, `ServerStatistics`.** `handler[r]` is how far the handler of
request `r` is and `client[r]` what the client knows of it: they part when the
client gives up. `archive`, `transit` (the response of `/stats` that is being
written), `files` and `lost` count the rows of each request, so that a row in two
places or twice in one would show. `file` is the name the next rows are written
under: a repeated measurement keeps it. The build (with the feature `timestamp`
or without) and the kind of handler are chosen at the start; the routes differ
between the builds.

**`LogFanOut`.** `result[s]` is what the fetch from log server `s` has come to, and
`arrived` in which order they ended. A log is a sequence of events whose times do
not decrease, which is what the storage server generates; a page is the sequence
of its events, and the client sees the number of its lines. What the Dandelion
runtime, which is not in this repository, does with a failed fetch is left open.

Each module also contains small operators that no specification uses, next to the
definition they vary ("its mutant ..."). Each stands for a plausible mistake in
that line of code; `PROJECT.json` pairs it with the property that detects it.

## 3. Runs

All runs finish within three minutes on two cores. "Violation" runs check a statement that the
repository makes and the code does not keep; see section 6.

| Run | Question | Instance |
|---|---|---|
| `pool` | Do permits, barrier, VM lifetimes and clean shutdown hold with retries and a panic anywhere; do start-up and shutdown end, and is every request decided, unless a wait named in section 4 lasts for ever? | 1 hot and 1 snapshotting cold worker, 1 client that may stall, 1 permit, 1 panic; fairness of section 4; 46 692 states |
| `pool_deadlock` | Does the pool implement `RequestService`, does each request have one owner, and can the pool always go on? | 2 hot and 1 plain cold worker, 2 clients, 1 permit, no panics; deadlock checked; 1 634 839 states |
| `vm_network` | Is the host's network right after any history of crashes, retries, panics and restarts, and do guests find their own host in it? | workers 63 and 64, 2 devices, 3 runs; 72 618 states |
| `mix` | Is the count of hot requests exact, and do the cold copies take turns? | 4-bit word, all initial counters, 5/8 hot with 3 copies, and pure hot; 24 requests by 2 callers; 3 163 states |
| `mix_pure_hot` | violation | the pure hot setting |
| `open_loop` | Does a run follow its trace, account for every start, return, and leave nothing behind, with lateness, full channels, panics and failures? | 9 traces over 2 seconds with up to 5 starts, three of them not well formed; tick channel of 2, record channel of 1, late limit 2; 227 273 states |
| `open_loop_oversleep` | violation | 2 starts a second, the thread may oversleep |
| `open_loop_failures` | violation | 2 starts a second, no lag |
| `client_main` | From set-up to exit: are names registered before use, is every measurement complete, do the files climb, are the brackets real, is each rate measured once, does the client exit? | 10 command lines, 3 requests per measurement, up to 5 clients, throughput 1 to 3, steps 10 and 3, capacity 60, 1 refused registration; 20 116 states |
| `server` | Is every row in one place, and has a written measurement its rows? | 2 runs of 2 requests, both loops, both builds, 3 kinds of handler; 2 115 518 states |
| `fan_out` | Is an accepted page complete and in order, and independent of the timing? | 3 forms, 3 log servers of 2 events over 2 timestamps; 9 568 states |
| `python_page` | violation | the same |

### Why the bounds are enough

* *Pool.* Workers of one class interact only through the semaphore, the barrier
  and the class's queue. One permit makes any two workers contend; two hot
  workers and two requests make the queue and select's choice matter; one panic
  reaches every unwinding point, and with one worker per class it also kills a
  class, and one client that stalls its body holds one up. Retries are
  unbounded: `CreateFails` leads back to an earlier state. The safety properties
  that matter most are proved for every size (section 5).
* *Network.* Workers touch devices and rules of their own id only; two ids show the
  rules that main and all workers share and, since the pool size changes between
  runs, leftovers of a worker the next run does not have. Two
  devices show leftovers that the next run's `--delete` does not match. Three
  runs are needed for "crash, clean run, run again".
* *Mix.* The word is a parameter; 24 requests exceed the 16 values of the word,
  so the counters wrap. `MixExact` is proved for every word.
* *Open loop.* With more starts than the tick channel holds, and more requests
  than the record channel holds, both channels fill. The limit of 2 late turns
  needs a reset in between, as the limit of 10 does. Two seconds are enough for a
  rate to change, and the traces have a rise, a fall, a pause, an entry past the
  end, and a rate (3) that does not divide the ticks of a second (10), as most
  rates do not divide a second's nanoseconds.
* *Closed loop.* Three requests and up to five clients make some clients find no
  work, and the counter exceed the limit. Three throughput values allow better,
  slightly worse (repeat) and much worse.
* *Rate search.* 10 and 3 do not divide each other, so the fine steps do not land
  on the coarse ones; 60 allows several doublings and bisections.
* *Set-up.* Two cold copies and three functions give registrations before and
  after any refused one; the command lines have every experiment model, a pure
  hot one, one without a workload and two that cannot be served.
* *Statistics.* Two requests let one be answered while the other is on its way or
  has been given up; two runs let a row of the first end in the second's file.
  Types and conservation of rows are proved for any number of both.
* *Log page.* Three servers have orders that are no rotation; two events over two
  timestamps give equal times within a log and between logs. With
  three servers of two events, no number of missing logs gives a Python page the
  line count the client expects, and since no complete one has it either
  (section 6) its pages are never accepted: `AcceptedPageIsComplete` is about the
  Rust and Spin forms. With other small numbers one would (section 5),
  and `AcceptedPagesAreComplete` shows that more than two events exclude it for
  every number of servers. The storage server generates 20.

Bounds in the models: `MaxPanics`, `MaxRuns`, `MaxRequests`, `MaxRefused`, `Runs`,
`MaxThroughput`, `Capacity`, `Duration`, and the sets `Lags`, `Medians`, `Times`
and `InitialChanges`.

Deadlock is checked in `pool_deadlock`, `client_main`, `server`, and the runs of
`OpenLoop` and `LogFanOut`, whose specifications have an explicit step for the
program having ended. It is off where the model may really stop: in `pool` (a
panic before the barrier keeps it closed for ever, which the liveness properties
account for), in `vm_network` (the last run is over), and in the `mix` runs (the
bound is reached).

## 4. Fairness

* *Pool.* Each task is polled again after every await, and `sudo` and Firecracker
  return, possibly with a failure: weak fairness of a worker's progress
  (`Proceed`). Two waits are left out of it, named by `Awaits`, because nothing in
  the code or around it bounds them: `http_relay` collects the body that a
  connected client sends, or does not (`frontend/main.rs:120`), and a guest that
  listens may accept a probe, a request or `/stop` and never answer, as the HTTP
  client has no timeout (`frontend/vm.rs:176`). A guest that does not listen refuses
  at once, and the body of a client that hung up fails. Nothing is assumed of
  clients, of the answers of a guest, of the guest ever coming up, of signals or of
  panics. The liveness properties say what follows: start-up and shutdown end
  unless a worker is in such a wait for ever (or, for start-up, one has panicked),
  and a request is decided unless it is starved for ever (`Starved`): its own
  worker so waits, or every worker of its class is so waiting or dead, or the
  shutdown is held up by one that waits. One stalled client does hold up
  `tracker.wait()`; the code has nothing against it.
  Acquisitions of `PERMITS` are strongly fair because tokio's semaphore is
  first-in first-out. The cancelled branch of `select!` is strongly fair because
  `select!` polls its branches in random order; without it a busy queue could keep
  a worker from ever seeing the token. Booting and snapshotting are strongly fair,
  that is, they do not fail for ever: the retry loop has no limit, so nothing
  weaker lets start-up end.
* *Open loop.* The thread and every task keep running, and a request ends because
  the client has a timeout: weak fairness of each.
* *Client.* `tokio_main` is polled again and each client task runs: weak fairness
  of both, which includes that readiness polling and requests end (both have
  timeouts) and that an open-loop run returns (`RunReturns`).
* *Network, mix, statistics, log page.* Safety only; no fairness is assumed.

## 5. Proofs

Every invariant that a passing run checks is a theorem, and so is the refinement;
what is left to TLC is named at the end of this section. TLAPS checks the theorems
for every value of the constants that satisfies the named assumptions of the
modules: `PoolAssumption`, `NetworkAssumption`, `MixAssumption`,
`RateTraceAssumption`, `OpenLoopAssumption`, `ArgsAssumption`,
`ClosedLoopAssumption`, `RateSearchAssumption`, `ServerStatisticsAssumption` and
`LogFanOutAssumption`. They say what kind of value a constant is (a finite set of
workers, a word of at least two values) and TLC evaluates them in the runs. Three
theorems have a hypothesis of their own, named below, that the runs' constants
and the code's satisfy.

Each component has one inductive invariant, a conjunction of named parts, with a
lemma for each part or each action, and the properties follow from it.

* **`FirecrackerPoolProofs`**: `TypeCorrect`, `PermitsAreConserved`, `BarrierIsSafe`,
  `VmsMatchRoles`, `RelaysToReadyVms`, `RequestsInOnePlace`, `ShutdownIsClean`, and
  `PoolImplementsService`, by the invariant `PoolInv`:
  * `LooseTypes`: types without the upper bound of `permits`. That bound is not
    inductive by itself, for a `Release` needs to know that some worker holds a
    permit; it follows from the next conjunct.
  * `PermitsConserved`: free permits plus workers in `Holding` is `Permits`. Each
    step moves at most one worker into or out of `Holding`, and two lemmas on
    the cardinality of a set with one element added or removed do the counting.
  * `BarrierInv`: a worker has arrived exactly if its location is behind its
    arrival (a panicked one may have or not), and whoever is behind the barrier
    has seen all arrive. `NothingBeforeBarrier` alone does not say where the
    arrived workers stand.
  * `VmInv`: for each location, whether the VM runs and what is known of the
    guest and the snapshot, down to "up unless the probe gave up", and that
    `serve` loses no VMM: only a worker that panicked there left one behind.
    `VmMatchesRole` and `RelayToReadyVm` are consequences.
  * `RequestInv`: where a `Work` is. A queue has each connection at most once and
    of its class, workers have different jobs, none of which is queued, and an
    outstanding request is in a queue or at work.
  * `ShutdownInv`: main exits only when every worker has finished, and a finished
    worker that did not panic holds neither a VM nor a network. VMMs whose handle a
    failed `create` dropped are not part of the claim: the code loses them, and the
    model keeps them in `orphans`.

  The refinement maps each step of the pool to a step of `RequestService` or to a
  stutter; `RequestInv` gives the guards of the abstract steps, for example that
  a request that is answered is outstanding.
* **`VmNetworkProofs`**: first the addresses, `RegisteredIdIsVmId`,
  `RegistersWithOwnTap`, `AddressesDiffer`, `TapsDiffer`: an id is `64 * q + k`, so no
  carry crosses the two bytes, and each address is injective on `0..MaxVms - 1`.
  Then `NetTypeCorrect`, `RulesExistOnce`, `SetupsSucceed`, `TrafficFlows`,
  `ExitsClean` and `GuestsRegister`. The invariant `NetInv` names, for each
  position in a script, what the host has at that point (`Creates`, `Destroys`,
  `SetsUp`, `TearsDown`; `Connected` at the end of a set-up): for instance,
  between the `--delete` and the `--append` of a rule it does not exist on the
  device of this run, whatever earlier runs left; this is why counts stay 0 or
  1. `GuestsRegister` has the hypothesis that ids are below `MaxVms`, 16 384,
  from which on two bytes do not hold an address.
* **`RequestMixProofs`**: `TypeCorrect`, `MixIsExact`, `ColdCopiesTakeTurns`.
  `MixExact` is nearly inductive: the overflow bit of an addition is exactly what
  the wrapped counter loses. For the cold copies, `ColdInv` says that of the `n`
  names taken copy `i` has the shares of a division of `n` by the number of
  copies, and that callers which have drawn "cold" and not yet taken a name
  (`Pending`) keep `n` below the cold requests drawn. It needs the number of
  pending callers, which the property does not mention.
* **`OpenLoopProofs`**: `OpenLoopTypes`, `EveryTickIsCounted`, `NoRunOverlapsTheNext`,
  `RatesAreFollowed`.
  `TypeInv` adds to the types that a timer that has not given up is below its
  limit. `RunInv` describes the life of a run: `Asleep` before the trace is
  loaded, `Drained` once the dispatcher is out of its loop, `Finished` once the
  caller stops collecting, `Timed` for how the timer ended, and `Counted`, the
  equation of `TicksBecomeRequests` itself. `PaceInv` says where the starts are:
  in the current second, of which `k` have come, the next is due at
  `f + k * Distance`, where `f` is the distance of the first from the second's
  beginning, at most an interarrival of this second or the rest of one of the
  second before. Two arithmetical lemmas bound the `k` that fills a second
  (`NotTooMany`, `NotTooFew` with `FewerAfterSlow`), and `RateIsAsked` says that
  the expansion of a well-formed trace to seconds is the entry last reached.
  `RatesAreFollowed` has the hypothesis that the square of a rate is at most
  twice the ticks of a second. Beyond it the rounding errors of one second can add
  up to more than a start: at 10 ticks and rate 7 they make 10 starts. At the
  code's nanoseconds the limit is 44 721 requests a second.
* **`ClientMainProofs`**, on the lemmas of `ClosedLoopProofs`: `ClientTypes`,
  `NoClaimIsLost`, `MeasurementsAreComplete`, `ThroughputClimbs`, `NoRateTwice`,
  `SearchIsBracketed`, `SweepBaselineIsLowest`, `NamesAreRegistered`, by `MainInv`:
  * `LoopInv`. `MeasureInv` counts claims: the counter is what was claimed plus one
    for each client that found no work (`OneTooMany`), and the join goes through
    clients that have ended. `PeakInv` relates the files written so far to the
    number of clients.
  * `SearchInv`. For each phase, what is known of the rates measured and of the
    brackets (`CoarseInv`, `FineInv`, `DoubleInv`, `BisectInv`, `Bracket`): `EachRateOnce`
    is inductive only with the order of the rates of each phase, for instance
    that in the fine sweep nothing at or above the current rate has been measured
    but the coarse rate that was bad, at which the fine steps end.
  * `NoLoadYet`, `SetUpFirst`: no load before the last registration was posted.
    Several lemmas say what `Registrations` has for every number of functions,
    copies and compositions.
* **`ServerStatisticsProofs`**: `TypeCorrect`, `RowsAreConserved`,
  `MeasurementsHaveTheirRows`. `RowInv` is `RowsInOnePlace` with the two facts it
  lacks to be inductive: `Unhandled` (a request the client has not posted has no
  handler, so that posting does not undo a served one) and `Idle` (no response is
  on its way unless one is being written, so that a download does not overwrite
  one). `MeasureInv` adds that an answered request is served (`OkIsServed`), that
  while a response is written no row of the requests it is about can come back to
  the archive (`CoveredIsTaken`), and that files are written in order.
* **`LogFanOutProofs`**: `FanOutTypes`, `AcceptedPagesAreComplete`, `PagesIgnoreTiming`.
  `FetchInv` says that the arrivals are the servers whose fetch has ended, each
  once; `PageInv` that a page is the sorted concatenation of what was fetched in
  some order. The pages come from a fold over sequences and from sorting. A
  lemma on sets of naturals (`NaturalSetInduction`, from the well-foundedness of
  `<`) replaces induction over the data, and shows that ranks are positions
  (`RankIsPosition`), that `Sorted` sorts, and what the fold concatenates.
  `AcceptedPagesAreComplete` has the hypothesis `EventCount > 2`.

Two things came out of the proofs rather than the runs:

* A page of the Python form that lacks logs may have as many lines as the client
  expects: with `n` servers, `c` complete logs and `e` events in each this happens
  when `e * (6 * n - 7 * c) = 2`, as with five servers of one event and four logs. TLC
  confirms it on that instance. It cannot happen with more than two events.
* The state a worker of `VmNetwork` has after a command was a `CASE` whose guards
  overlapped ("more commands are left", "it is being created"). TLC takes the first
  that holds, the logic leaves the choice open, and no invariant could be proved
  of it; it is an `IF` now.

Not proved, and only model-checked:

* liveness: `RunReturns` and the liveness properties of the pool and the client.
  It rests on fairness and ENABLED, which the prover does not treat;
* the violation runs, which are counterexamples.

## 6. What the runs found

* `mix_pure_hot`: with `hot_percent = 1.0` the increment of the hot counter is
  `u32::MAX`, one less than the word, so a random initial counter of 0 makes the
  first draw cold. A pure hot experiment has no cold copies, and the remainder by
  zero in `get_cold_name` panics.
* `open_loop_oversleep`: the check after the sleep uses the time read before it
  (`client/open_loop.rs:124`), so the "late after sleeping by" branch is dead,
  and a thread that oversleeps every time is never late.
* `open_loop_failures`: a wrong answer panics the request's task before its
  record is sent (`client/open_loop.rs:85`), so the failure is in neither count
  of the share that stops a sweep.

* `python_page`: `client/request_type.rs:500` expects 14 + 10 * 20 * 6 + 2 lines of
  the three log page workloads alike, "the correct number of lines" of
  line 436. The template of `servers/dandelion/python_app/logs_2_render.py` has 15 lines
  before the events, 7 for each and 3 after them, since its `for` and `endfor` lines
  leave a line break of their own. Every complete page of `python_app` thus fails
  `check_body`, and by the finding above leaves no record.

Also visible in the models, though nothing in the repository says otherwise: a
panic before the barrier leaves the server hanging in start-up; a class whose
workers have all panicked leaves its clients waiting; `test_ready` gives up
silently; a `create` that fails after its VMM was launched, hot or with snapshots,
drops the handle, and the retry knows nothing of the process; a client that never
completes its body, or a guest that accepts and does not answer, keeps a worker,
the queue behind it and the shutdown for as long as it likes.

Read off the code on the way, with no statement in the repository to check against:

* `client/rate_change.rs:11` says "request per second during [time, time+1)", while
  the rate is held until the next entry. `ConstGen` looks the rate up at the
  previous start, so the last interarrival of a slow second reaches into the next
  one; and an interarrival rounded down to a nanosecond lets one start more into
  a second. `RatesFollowTrace` allows exactly these.
* `client/traces/linear.csv` has a blank after each rate ("10 "), which does not
  parse as a number: loading this trace panics the client.
* `no_warmup` is true whether or not it is given, so the ramp-up is never run.
* Without the leading slash in the patterns of `servers/baremetal/src/main.rs:605`,
  606 and 619, cold requests of these workloads get the greeting with status 200.
  `MeasurementHasItsRows` holds because `check_body` does not take it for an
  answer.
* `handle_matmul_with_store` strips " HTTP/1.1" from the end of a POST line to which
  the client adds two newlines, so this workload panics on the dedicated server.
* The composition text of the chain scaling workload ends with two braces, as a
  plain string, not a format string, is appended (`client/registration.rs`).
* `event['type']` in the Python template is empty, as the storage server names that
  field `event_type`.
* `servers/monitoring.py:60`: a sample longer than the period makes the argument of
  `time.sleep` negative, which ends the sampling thread and loses what was not
  dumped.
* `http_storage/src/main.rs`: a byte count below 8 underflows in the route that
  generates data.

## 7. Not modelled

The Firecracker process, the guest, `sudo`, HTTP, the Dandelion runtime and the
tokio primitives are external: the models contain what the code can observe of
them. Data is abstracted: bodies, checksums, latencies (other than "median much
larger") and file contents (other than which rows a file has).

* Hyperlight and mock server, the Spin components other than the middleware, and
  the storage server's other routes: one stateless handler per request; a model
  would be their Rust code with other syntax.
* Compute kernels: numeric loops over arrays, without state beyond a call.
* `servers/monitoring.py`: one sequential loop (see above).
* Result processing and the figure 10 script (2 600 lines of Python): data-frame
  arithmetic and plotting calls. The extractors leave a summary next to their
  input (`etl/general.py:37`) that is used whatever happens to the input later;
  who calls them, and when, is decided by doespy, a submodule whose content is
  not here, so that a model would have to invent the interesting part.
* Deployment: Ansible roles, image scripts, container start.

Most lines of Python in this repository are not its own code: of about 87 600,
more than 84 000 are a Python standard library and jinja2 vendored under
`servers/dandelion/python_app/Lib` for the guest. The stateful programs are in
Rust, and the map is of them; of the Python code only the three scripts of the
log page have behaviour to check, and they are modelled. A share of the Python
lines says little about this project for that reason.

## 8. Plan

Every component with concurrency or state of its own is modelled, and the proofs
cover all their safety properties. What is left:

1. The part of liveness that needs no ENABLED: invariants that say of each state
   in which a run is not over which step its code can take, from which
   `RunReturns` and the end of start-up follow under the fairness of section 4.
2. Shorter proofs: the lemmas on counting (`Cardinality` of a set with one element
   more) and on induction are stated in each module that needs them.
