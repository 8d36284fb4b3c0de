# A verification project for nbd-vram

nbd-vram is a daemon that exports GPU memory to the kernel as a swap device,
over the NBD protocol on a Unix socket. Pages are compressed and packed into
slots of device memory, so the device is larger than the memory behind it. A
wrong page returned to a swap-in is silent memory corruption; a lost slot is
memory that never comes back; a daemon that ends too early takes live swap
pages with it. This directory holds TLA+ models of the daemon, the TLC runs
that check them on small instances, and TLAPS proofs about them.

## 1. The system

| Part | Code (`src/nbd-vram.c` unless named) | State | Operations |
|---|---|---|---|
| Block store | 738-800, 1084-1584, 1724-1750 | `g_index` (one 64-bit entry per block: slot, length, generation), stripe locks, device memory; per worker the `ops` array and its pinned staging | batch: prepare, issue, synchronize, validate or publish; locked fallback read; partial write (`rmw_block`); discard (`trim_range`) |
| Gauges | 678-696 | `g_blocks_live`, `g_codec_bytes`, ... | changed after the lock of a publish is released |
| Extent allocator | 802-1064 | extents of slots of one size class, their bitmaps, scan hints, a list of partial extents per class, a free list, gauges | `slot_alloc`, `slot_free` under one mutex |
| Byte ranges | 1130-1135, 1498-1631 | offset and length of a request, what is left | bounds check, windows, split into blocks |
| Connection | 1158-1168, 1594-1843 | the socket, the batch being gathered | first header, gather without blocking, flush, per-request path, replies |
| Handshake | 458-624 | the option in hand, the client's flags | greeting, options, replies |
| Start-up and clean-up | 81-391, 1016-1074, 1849-1925, 2207-2356 | sizes, codec, what `main` and each worker have obtained | back-off, choice of sizes, store, socket, worker set-up and self-test |
| Threads and shutdown | 659-729, 1927-1977, 2324-2378 | `g_running`, `g_term_requested`, table of client descriptors | signal handler, accept loop, drain, joins, cleanup |
| Statistics thread | 1983-2134 | warning levels | periodic report, warnings with hysteresis |
| Codec | 120-391 | library handles, per-worker contexts | choose, compress, decompress, self-test |
| Service scripts | `nbd-vram-*.sh`, `systemd/`, `udev/` | device file, state files, unit state | connect, disconnect, sleep and power hooks |
| Installers, benchmarks, tests | the rest | | |

One worker thread serves one connection. A connection takes requests off its
socket and either gathers them into a batch or handles them one at a time;
both paths end in the block store, which all workers share; the store takes
its slots from the allocator. The signal handler and the accept loops share
the flags and the table of descriptors. The scripts start and stop all of it.

What is hard here:

- Reads take no lock. A read copies from the slot an index entry named a moment
  ago, while the slot may be freed, handed to another block and overwritten;
  the generation in the entry, compared again after the copy, decides whether
  the bytes are used.
- Copies are asynchronous. Between launch and synchronize a slot holds neither
  the old bytes nor the new.
- A batch fails in parts: no room for one block, a copy that cannot be launched.
- Gauges move after locks are released.
- The table of clients is read entry by entry, with no lock, by a signal handler.
- A request arrives in parts, and every error path has to leave the stream of
  requests and the stream of replies in step; so has the haggling before it.
- Start-up can fail at any of some twenty calls, in `main` and in each worker.
- The service is stopped and started by the user, by the power check, by the
  sleep hook and by systemd, and swapoff may fail every time.

What makes it correct: every block is an atomic register to all connections at
once; every slot has at most one owner and, while copies do not fail, exactly
one; a page read is one the block held while the read ran; every request is
answered, once and in order; the program ends when it should and not before; and
no device with swap on it is taken from its daemon.

## 2. Modules

| Module | Models | Kind |
|---|---|---|
| `BlockStore` | the block store and two of its gauges | state machine, one step per access to shared state |
| `BlockDevice` | what the store promises: a register per block, requests that take effect between arrival and reply | abstract specification |
| `StoreRefinesDevice` | the mapping from the first to the second | refinement |
| `StoreGauges` | what the gauges ought to be, with what workers in flight still owe | properties |
| `ExtentAlloc` | the allocator | state machine, one step per critical section |
| `Drain` | signals, worker threads, `main` | state machine, one step per access to a flag or a table entry |
| `StoreStats` | the statistics thread over the allocator | `ExtentAlloc` extended |
| `Connection` | the requests of one connection and its client | state machine |
| `Handshake` | the option haggling and its client | actions on the same socket |
| `Session` | a connection from greeting to end | `Handshake` and `Connection` composed |
| `Startup` | `main` up to the joins, its clean-up, `worker_init`, `worker_fini` | state machine, one step per call that may fail |
| `ByteRange` | the arithmetic of the per-request path, with the width of its integers, on the device `Startup` settled on | `Startup` extended; every input of a scaled-down word |
| `Lifecycle` | the scripts, the unit, the power check and the sleep hook | state machine, one step per command |
| `MC*` | small instances for TLC | |
| `BlockStoreProofs`, `ReadProofs` | theorems about `BlockStore` | proofs |
| `AllocProofs` | theorems about `ExtentAlloc` and `StoreStats` | proofs |
| `ConnectionProofs`, `SessionProofs` | theorems about `Connection`, `Handshake` and `Session` | proofs |
| `ByteRangeProofs` | theorems about `Startup` and `ByteRange` | proofs |
| `DrainProofs`, `LifecycleProofs` | theorems about `Drain`, `Lifecycle` | proofs |

### BlockStore

Variables are the shared state (`index`, `mem`, `free`, `lock`, and the gauges
`live` and `codec`) and, per worker, its program counter, loop index, job,
`ops` array, staging slots and the entry it displaced last. `seen` is history:
the pages the block of a read has held since the read began.

A worker's labels follow the code: `prepare`, `abort`, `issue`, `sync`,
`finish`, `again`/`againIssue`, `locked`/`lockedCopy`, `publish`/`release` are
the loops of `flush_batch` and `do_blocks`; `trim*` and `rmw*` are `trim_range`
and `rmw_block`. `Turn` and `Over` are the loops: the next op the loop's `if`
lets through, and none left. A publish (lock, load, store, unlock) is one step,
since nothing else in it touches shared state; `wr_release` is what follows the
unlock. The partial write holds its lock over five steps.

Abstractions. Pages are two parts, so that a partial write can replace one.
The codec is a function from a page to a length; the length `CBLK_SIZE` is a
block stored verbatim. `Torn` stands for bytes nobody may rely on. A slot is
`Torn` from the launch of a copy into it until the synchronize, and a copy out
of a slot that a copy into it overlaps yields `Torn`. Torn compressed bytes are
refused by the codec; torn verbatim bytes are returned unnoticed, the worse
case. The allocator is a pool: it hands out some free slot, or refuses (it may
refuse though slots are free, as a class may have no room; when it does is
`ExtentAlloc`'s subject). A job is the pieces `load_range`, `store_range` and
`trim_range` make of a request (how they do is `ByteRange`'s subject). `Faults`
says which CUDA calls may fail: the launch of a copy in either direction, and
the synchronize, whose result the code does not look at: its copies are then
not done, and nobody knows.

`NoWrapInWindow` is the one assumption on timing, the one the comment at lines
756-762 makes: a block is not published so often inside one copy that its
21-bit generation comes round to the snapshot's. In the runs `GenMod` is small,
so that generations do wrap.

### ExtentAlloc

Each operation is one step, as the code holds `g_alloc_mu` throughout. Bitmaps
are sets of bits per word; the lists are the `next` and `prev` fields and the
heads, and `lst_push` and `lst_remove` change them as the code does. `ClassOf`,
`ext_init`, `ext_take` keep the arithmetic with the constants scaled down.

### Drain

`clients_connected()` is a scan that reads one entry per step. The handler is
an actor of its own beside the threads, since a signal may be delivered on any
thread while the others run. It loads an entry (`SigLoad`) and shuts down what it
loaded (`SigShutdown`) in two steps, as lines 726 and 727 do. Descriptors are
numbers, `file` says which connection each one names, and `accept()` gives the
lowest that is free: between the two steps the thread may clear its entry and
close the descriptor, and another thread get the same number. The table starts with zeros, as a static array
does, until `main` fills it: a signal that comes before then sees clients
everywhere. `conn` is what the client sees: `up` after the handshake, `cut` when
the program ends it while up.

### Connection

A request is two halves of a header and, for a write, a unit of payload per
block; the client pushes these one by one, so the server may find any part of a
request on the socket. What the store does to a request is a choice among the
errors it can have. `Stop` is `g_running` going to zero at any moment.

### Handshake and Session

The client may queue options behind one another, and knows for each what the
server must send (`Due`, the protocol's rule, written apart from the server's
`Answer`); it is `confused` when it reads anything else, and the server has
`misread` when it takes payload for a header. `Session` puts requests on the
same wire once the client has read the last reply it expected.

### StoreStats

`stats_worker` is one turn of the loop. The occupancy it divides comes from two
gauges loaded apart, so any reading may be found. `extents_log` is a function of
the extents, as it holds `g_alloc_mu` for the whole of its walk: `ReportTrue`
compares the walk's rules with the lists and gauges, and takes that lock for
granted. The text of the report is left out.

### Startup and ByteRange

Sizes have `SIZE_BITS` bits and wrap, lengths have `LEN_BITS`. `held` and `kit`
are what `main` and each worker have obtained and not given back. The settings
are read where the code reads them, as any of a few values. Once the workers
serve, any request is asked of the device that came of it; the model keeps the
subtractions and masks of the code.

### Lifecycle

`sh` is the next command of the script that runs; a command succeeds or fails
as the kernel's state allows, and `swapoff` may always fail. A daemon is what
`Drain` makes of it: `up`, `drain` while told to end with a device connected,
gone. There is memory for `Daemons` of them, since a daemon left to drain keeps
its memory. `cut` is history: the devices that lost their server with swap on
them to a crash, or to the clean-up of connect.sh. systemd is modelled from what
the unit file asks of it: `ExecStop` only for an active unit, SIGTERM after it,
`SendSIGKILL=no`, `Restart=on-failure` but not after a stop.

## 3. Runs

| Run | Instance | Checks | Distinct states |
|---|---|---|---|
| `race` | 2 workers, 2 blocks on one stripe, 2 slots, a generation that wraps, two lock-free rounds | `TypeOK`, `SlotOwnership`, `NoSlotLost`, `PublishedIntact`, `ReadsOwnPage` | 631,863 |
| `patch` | 2 workers, partial writes of both halves of a block, a reader; copies in either direction may fail | `LockDiscipline`, `GaugesAgree`, `ImplementsDevice` | 465,383 |
| `requests` | 1 worker, batches of two ops, requests of several pieces, reads that fail | `NoSlotLost`, `ImplementsDevice` | 41,660 |
| `chase` | 2 workers that read, rewrite and discard one block; writes may fail | `GaugesAgree`, `EveryJobAnswered`, `ImplementsDevice` | 222,216 |
| `alloc` | 3 extents, 3 classes, every sequence of allocations and frees, the statistics thread | `TypeOK`, `SlotsDisjoint`, `ListsSound`, `RefusesOnlyWhenFull`, `HintSound`, `ReportTrue`, `WarnsOnce` | 255,137 |
| `drain` | 2 threads, 2 connections, 2 signals | `AttachedAreServed`, `ShutsOnlyLate`, `TermEnds` | 557,429 |
| `frames` | up to 3 options of every sort, then up to 3 requests of every sort | `HaggleInStep`, `HagglingEnds`, `FrameAligned`, `InOrder`, `RepliesFramed`, `WithinStaging`, `EveryRequestAnswered` | 674,858 |
| `ranges` | start-up with 2 workers, any call failing; then every offset and length of a small word | `NeverUnderUse`, `NothingLeft`, `SizesAgree`, `RefusedExactly`, `TouchesExactly`, `TrimsWhole`, `Ends` | 297,245 |
| `service` | 2 devices, memory for 2 daemons, 2 commands of the user, a crash, a sleep | `SwapServed`, `ActiveIsComplete`, `BatterySettles` | 570,706 |

All of these hold. Three more runs state what a comment of the code says, and
TLC refutes it:

| Run | The comment says | What the code does |
|---|---|---|
| `leak` | a failed request's reservations go back | a write whose copy cannot be launched keeps its slot for ever (line 1320) |
| `unsynced` | a real copy failure is reported | the result of the synchronize is dropped, and the write acknowledged (line 1326) |
| `cutoff` | no exit while a client is attached | a client that attaches between the check and `g_running = 0` is cut off (line 720) |

`NoSlotLost` and `PublishedIntact` therefore hold in runs where the calls
concerned do not fail, and `AttachedAreServed` speaks of the clients in the
table when the signal came.

What the properties leave open, because the code does: `BlockDevice` lets a
request that is answered with an I/O error have changed some of its blocks (a
copy that cannot be launched leaves its siblings published); `GaugesAgree` is
about the gauges and what workers still owe them, and a discard that overtakes
a write's accounting takes `g_blocks_live` below zero for a moment; a thread
already past the look at `g_term_requested` accepts one more connection; a program
that fails before it has asked the driver for memory leaves loaded what libraries
it has loaded.

The handler may shut down a descriptor that has been closed since it loaded it, or
that is another client's by then: nothing orders line 727 before lines 1970 and
1971 of a thread, and the model reaches both cases. `ShutsOnlyLate` says whom it can
hit: only a client that came too late to be waited for, in a program that is ending,
and that client is cut off by the end in any case. A client that was in the table
when the signal came is never hit.

`SwapServed` excepts two things, both recorded in `cut`. A crash is one. The
other is connect.sh's clean-up of a left-over device: after a stop whose swapoff
failed, the daemon drains with swap still on its device; a later start reads the
device's name, tries swapoff, ignores that it fails again (line 11) and
disconnects the device (line 12), which disconnect.sh refuses to do (lines 6-10).
`service` also does not ask for these, which do not hold of the scripts: that
the machine never sleeps on a live swap device (the sleep hook finds a unit that
is still starting inactive, and passes), and that a service the user stopped
stays stopped (the power check starts it if a stop of its own, long before, left
its file behind: a start by the user does not remove that file).

Bounds. Two workers are enough for every conflict the code has, which are all
between a worker and a publisher; two slots let a slot be freed, reused and
freed again while a read of its first contents is in flight; blocks share a
stripe so that locks are contended, and one page does not compress, the case in
which torn bytes go unnoticed. `Rounds` is below the code's 4 so that the locked
fallback is reached. `requests` has one worker: what it asks is how the pieces
of one request hang together, and what another worker may do in between is in
the other runs. `alloc` uses extents of a few slots, with classes that do not
divide the extent and slot counts that do not fill a word; its VIEW leaves out the
peak and the warning of fragmentation, which nothing else reads. In `drain` the second
signal may come at any point of the draining. In `frames` a batch takes two
requests, and three requests fill a batch, overrun it and follow it (its ops come
to three of the four there is room for; for all sizes `BatchFits` is the theorem);
three options let one be queued behind another before the one that begins the
transmission. `ranges` keeps the relation of the widths: an offset wider than
the device, a length of several windows, a memory that may be just too large for
the index, a device smaller and larger than its memory. In `service` two devices
and two daemons let an old daemon drain on one device while a new one serves the
other, and a third start fail for want of memory.

Symmetry is used where workers, slots or connections are interchangeable, and
never in a run that checks liveness.

Fairness. `chase` and `frames`: a thread that can run does (weak fairness per
worker, or of `handle_client`), and the client finishes a request it has begun.
`chase` leaves out partial writes: a stripe lock is a POSIX mutex, which promises
no order among those that wait, so that a worker may in principle be overtaken
for ever. `drain`: threads, handler and `main` are scheduled, and each attached
client detaches once the program has been told to end, which is what the unit's
`ExecStop` (swapoff, then `nbd-client -d`) does. `frames` also has the client
read what it is sent. `ranges`: `main` and the thread in `handle_one` run.
`service`: systemd, the scripts and draining daemons run, the timer of the power
check fires, and a machine that begins to sleep sleeps and wakes; nothing makes
swapoff succeed or the user act. `BatterySettles` needs no more: a stop whose
swapoff fails still takes the unit out of `active`.

Deadlock is checked in every run; a connection or a program that is over takes
an explicit idle step.

## 4. Proofs

Every safety property the runs check is also proved for every value of the
constants, but for `GaugesAgree` and the refinement `ImplementsDevice`. Each
proof has the same plan: an inductive invariant, one lemma per action that says
the action keeps it, and the properties as consequences. The assumptions on the
constants are the named `ASSUME`s of the modules, and TLC evaluates them in
every run.

### The block store

The theorems hold for every number of workers, blocks, slots and stripes,
every codec, every set of jobs and, where nothing else is said, every set of
failing calls. They rest on `StoreAssumption` alone: the constants have their
types, `Torn` is no page and no image, and jobs are made of homogeneous pieces (a
run of reads and writes, a run of discards, or one partial write), as the code
makes them.

- `BlockStoreProofs!TypeCorrect`: `Spec => []TypeOK`. Types are not inductive by
  themselves: that a publish writes an entry of the right shape depends on the
  staging slot holding an image, which depends on where the worker is. The
  invariant is `Typed`, which is `TypeOK` and `Shape`: what each label says
  about the worker's current op, its staging slot, the lock it holds and the
  entry it read (`OpShape`, `CurShape`), and that a written entry names a slot
  (`Names`). A step of one worker leaves the shape of the others alone (`Frame`,
  `FrameShape`), so each action is proved for its own worker only (`T_...`).
- `BlockStoreProofs!OwnershipCorrect`: `Spec => []SlotOwnership`, from `Typed` and
  `SlotOwnership`. Steps fall into a few sorts, each a lemma: those that touch
  no owner, a reservation, a give-back, a publish that turns a reservation into
  an entry and an entry into a displaced slot, and the release of that.
- `BlockStoreProofs!LocksReleased`: `Spec => []LockDiscipline`, from `Typed`, which
  has the converse: a worker in a critical section holds the stripe of its current
  block. A step leaves the other workers' ops and labels alone, and is
  one of four sorts, each a lemma: it stays outside the critical sections, stays
  inside one, enters one, or leaves one. It covers the failing synchronize, which
  `patch` leaves out: the store does not implement the device when that fails
  (run `unsynced`), so the run that checks both could not have it.
- `BlockStoreProofs!NothingLost`: `Spec => []NoSlotLost` as long as no copy into
  device memory fails to launch; run `leak` shows that the assumption is needed.
  An op that has ended still names its slot, so the invariant also says which ops
  can own none (`Tidy`): an op that has taken nothing yet, or given away all it took
  (`Settled`), is `Empty`; one that phase A has yet to look at (`Ahead`) has no
  error; and a write that failed has no slot.
- `ReadProofs!PublishedWhole` and `ReadProofs!ReadsCorrect`:
  `Spec => []PublishedIntact` and `Spec => []ReadsOwnPage`, both under the
  assumption that no synchronize fails. It is needed: run `unsynced` has one fail
  and breaks the first, and the jobs of `race` with that fault break the second.
  Neither property is inductive: that a published image is whole depends on what a write
  had staged and on its copy having landed; that a validated read is right depends
  on its copy being the image its snapshot named for as long as the entry stands.
  The invariant is `Sound`: every entry names a whole image of its length
  (`Stands`); a write with a slot has its page staged, and after the synchronize
  the slot holds it (`WriteSound`); a partial write patches the image of the entry
  it loaded (`PatchSound`); and a read has seen what its block holds now, its copy
  being the image of its snapshot if the block's entry is still that snapshot
  (`ReadSound`). The argument has four parts. A step writes only
  slots its ops own (`MemKept`), so by `SlotOwnership` never one an entry names. An
  entry it replaces gets a generation no snapshot in its window has (`Replaced`),
  so a stale snapshot never compares equal: this is where the timing assumption
  `NoWrapInWindow` enters, and without it TLC finds `ReadsOwnPage` violated with the
  bounds of `race` (`PublishedIntact` still holds). A copy can
  be torn only by a write into its slot, and then the entry has moved on
  (`CopyKept`). And the loops pass over no read that has a snapshot or a copy to
  come (`Onward`). The rest is one lemma per action (`S_...`).

Lemmas that only one theorem uses are steps of it, named as a lemma would be
(`<1>StayingOp`), so that they burden no other proof.

### The allocator and the statistics thread

`AllocProofs` proves of `StatsSpec`, for heaps of any number of extents, extents
of any size, and bitmap words of any width: `HeapTyped` (`TypeOK`), `SlotsApart`
(`SlotsDisjoint`), `ListsCorrect` (`ListsSound`), `RefusesRightly`
(`RefusesOnlyWhenFull`), `HintRight` (`HintSound`), `ReportCorrect` (`ReportTrue`)
and the action property `WarnsRightly` (`WarnsOnce`). The code keeps the heap in
three places, and `AllocInv` is what ties them together: `Listed` gives each list
an order that `next` and `prev` follow; `Sound` says of a bitmap that the bits past
the slots are set, that `nfree` counts the clear ones and that none is below the
hint; `Marked` says that the slots handed out are those whose bits are set. To it
come that an extent in use has a slot handed out, and what the gauges count. The
operations are proved in parts that follow the code: what `lst_push` and
`lst_remove` do to one list and to the others; what `ext_init`, the scan of
`ext_take` and the clearing of a bit do to a bitmap; and then `slot_alloc` and
`slot_free`. The warnings need `StatsInv`: below `Calm` nothing counts as said.
`ListsSound` follows the links with a recursive function; that this walks the order
`Listed` gives is proved by taking the least place at which the two would part.
`ExtentAlloc`'s and `StoreStats`'s assumptions are the code's: the bitmap of an
extent is made of whole words, there are no more classes than grains in an extent,
and the thresholds are in order.

### Connection and handshake

`SessionProofs` proves of `SessionSpec`, for any options and requests, as many as
the client likes, and any sizes of a batch and a window: `StaysAligned`
(`FrameAligned`), `AnswersInOrder` (`InOrder`), `RepliesRight` (`RepliesFramed`),
`BatchFits` (`WithinStaging`) and `HagglesInStep` (`HaggleInStep`). What the models
ask of the stream they ask of its next element; the invariants say what the whole
of it is. `Follows` lays out the requests one after the other and says that
what the client has sent and the server not received is the end of that, so many
elements before the next header. `ConnInv` (in `ConnectionProofs`) has that for
the requests, with what the batch, the one request behind it and the replies are
of the requests taken; `SInv` has the same for what the client said and what it is
owed while the two haggle (`Talk`), and `ConnInv` once the transmission begins.

### Start-up and byte ranges

`ByteRangeProofs` proves, for any number of workers, any widths and any sizes of
device, block and window: `OrderlyStartup` (`NeverUnderUse`), `CleanEnd`
(`NothingLeft`), `SizesFit` (`SizesAgree`), `RefusalsRight` (`RefusedExactly`),
`BytesRight` (`TouchesExactly`) and `TrimsRight` (`TrimsWhole`). `StartInv` says what
`main` holds at each of its steps (`Stocked`), what workers may be doing meanwhile
(`Crew`) and which sizes have been settled (`Sized`). For a request, `Covers` says
that the parts done so far are those of the bytes before the window, in order.
A window is an edge, whole blocks and a rest (`RangeCovers`), and all but the last
end on a block boundary (`Chunks`), so no block is shared by two of them and their
parts join (`CoversJoin`).

### Shutdown and service

- `DrainProofs!ShutdownSpares` and `DrainServes`: `Spec => []ShutsOnlyLate` and
  `Spec => []AttachedAreServed`, for any number of threads and connections. The
  invariant says what a thread's place means for its descriptor and its entry
  (`Holds`), that a number is one thread's and a connection has one number (`Own`),
  that threads run only between `main`'s spawn and its joins (`Joined`), and that
  nobody drains before the first signal or is shut down while the program runs
  (`Calm`). Each client in the table when the signal came has not been shut down, is
  not what the number the handler holds names, and will not be registered again; if
  it is still in the table, neither the handler (`Unseen`) nor a draining thread
  (`Guards`) has come past its entry (`Kept`). So once the handler has come to the end
  of the table none of them is in it, and it can load none of their numbers.
- `LifecycleProofs!SwapStaysServed` and `ActiveComplete`: `Spec => []SwapServed` and
  `Spec => []ActiveIsComplete`, for any number of devices and daemons. The invariant
  ties the unit's state to the script that runs (`Scripted`), devices to daemons
  that live (`Served`), and how far connect.sh has come to what it has done
  (`Ready`).

### Only model-checked

- Liveness (`EveryJobAnswered`, `TermEnds`, `EveryRequestAnswered`, `HagglingEnds`,
  `Ends`, `BatterySettles`): it rests on fairness, which the provers installed do not
  treat.
- `GaugesAgree`: it sums over all blocks and workers with a fold, and what a fold
  yields when one element changes is induction over a set.
- `ImplementsDevice`: the mapping changes with each op's place in its request, and
  the step proofs would need, beside `Sound`, an invariant on every request's pieces.

## 5. Not modelled

Installers, benchmarks, tests and the gap check drive or observe the system
from outside. The compression libraries, CUDA, the kernel's NBD client and
systemd are external, modelled only where the code depends on what they do.
Log lines and their formatting (`stats_log` among them) are left out. Memory
locking and `PR_SET_IO_FLUSHER`, which keep the daemon itself from being swapped
out, are promises of the kernel with no state in this code. Reading the
environment is a choice among values.

Seen in the code, and asked of no model: READY=1 is sent before any worker has
proved its codec, and nothing ties the number of workers to the number of
connections `nbd-client` opens (a connection too many waits unserved); the result
of `pthread_create` is ignored and the thread joined all the same; a program that
fails to bind removes the path of the socket all the same; `handle_one` answers a
command it does not know as a success.

Of the scripts: the battery threshold of the power check chooses between the
same two branches as the mains; `sysctl` and `modprobe` change nothing the
models speak of; what a sleep does to a CUDA context is the driver's;
`nbd-vram-sleep-manual.sh` is the hook's `pre` without its `post`. One power check
runs at a time, though the unit the udev rule starts and the one the timer starts
could overlap, and writing a state file does not fail.

Not composed: `BlockStore` takes its slots from a pool rather than from
`ExtentAlloc`, and `Connection` chooses among the outcomes a store may have; the
product of either pair is out of TLC's reach at bounds where both sides still
have their interesting cases. The interfaces are what the two sides check: that
the allocator hands out disjoint slots and refuses only when it must, and that a
job's outcome is one the device allows.
