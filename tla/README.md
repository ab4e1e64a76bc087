# Verification of the telemetry subsystem

TLA+ models, TLC runs and TLAPS proofs for the shared-page telemetry subsystem under `src/`.
Every definition is translated from the source; `PROJECT.json` maps each one to its lines.

## 1. The system

One zeroed 4096-byte page, `ring_ptr`, is shared by kernel modules and by user programs that map it.
Its first part holds a control lane per tenant, its second part a ring per tenant.

| component | source | state it keeps | operations |
|---|---|---|---|
| character ring, kernel | `kernel/telemetry_core.c` | `char_ctl` (rd_idx, wr_idx, state_flags), `char_buffer`, `char_wait_queue`, `telemetry_char_write_lock` | `dev_read`, `dev_write`, the kick (`write` of length 0), `telemetry_shared_char_dev_push_metric` |
| character ring, user | `user/telemetry_user.c` | `writer_is_finished_flag`, the loop locals | `producer`, `consumer`, `zero_copy_consumer` |
| packet hook | `net_filter/net_filter_kernel.c` | `net_ctl` (ticket_dispenser, wr_idx), the slots of `net_buffer` | `packet_telemetry_hook` on any CPU; registration |
| packet client | `user/net_filter_client.c` | `net_ctl` (rd_idx, state_flags), `run_signal`, loop locals, its context | scatter-gather engine, skip-ahead engine, `netfilter_main` |
| net push, raw dump | `kernel/telemetry_core.c`, `kernel/telemetry_net.c` | the net lane again, `*ppos`, `page_buf` | `telemetry_net_dev_push_metric`, `telemetry_net_read` |
| block probe, block client | `block_filter/telemetry_block.c`, `user/block_filter_client.cpp` | `block_ctl`, `block_buffer` | `block_telemetry_commit_metric`, the two engines again |
| lifecycle, multiplexer | `kernel/telemetry_base.c` | `ring_ptr`, the chrdev region, cdev, class, six nodes | init with its unwinding, exit, open by minor, mmap, `TELEMETRY_IOC_WAKE_WRITER` |
| user context | `user/telemetry_client.c` | fd and mapping | `telemetry_initialize`, `telemetry_shutdown` |
| harness, scripts, build | `user/telemetry_user.c` (main), `scripts/`, Makefiles | none | none |

Interaction is through the page, never by messages. Writers and pushers of the character ring exclude
each other with a spinlock; its consumers take no lock. A writer that finds the ring full raises
WRITER_ASLEEP in the page and sleeps; `dev_read` wakes it itself, the zero-copy consumer sees the bit
and issues an ioctl. The hooks of the net ring take a ticket with one atomic addition, fill the slot
the ticket names, and stamp the slot with the ticket last; the client accepts a slot whose stamp is
the ticket it expects. Hooks never look at the reader and overwrite the oldest record. The page
belongs to the base module; the tenant modules reach it through the symbol it exports, the programs
through a file and a mapping.

What is hard here, and what correctness means for each component:

* *character ring*: indices read outside the lock that protects the ring, a wake-up decided by user
  space from a bit, a sleep decided from two unlocked reads, calls cut in the middle by a signal, a
  fault or a full ring. Correct: a lossless first-in first-out stream of bytes, metrics in one piece,
  no writer asleep for ever, no byte left behind when the consumer stops, none written twice.
* *net and block rings*: slots filled in any order, a snapshot that is not atomic, a reader that is
  lapped, killed or doubled, tickets that wrap, a hint that is not a ticket. Correct: a record accepted
  under a ticket is the record of that ticket, none is processed twice or out of order, a delayed hook
  holds nothing up for good, the client rolls forward after an overrun, Enter ends the program.
* *lifecycle*: init that fails half way while a node is already open, unload while the page is mapped,
  a callback running on another CPU, programs that fail or are killed at any step. Correct: the page
  outlives its users and nobody keeps what he no longer uses.
* *raw dump*: `cat` must come to the end of a dump that is formatted anew by every read.

The hazards, each at its line, are listed in `PROJECT.json`.

## 2. Modules

| module | role |
|---|---|
| `ByteStream` | abstract specification: a bounded lossless FIFO stream, two histories `sent` and `delivered` |
| `CharRing` | the character tenant, kernel and user side |
| `CharRingProofs` | theorems about `CharRing` |
| `TicketLog` | abstract specification of both slot rings: a lossy log of rising tickets |
| `TicketLogProofs` | that the tickets of that log rise |
| `TicketClient` | the consumer program of a slot ring, in both engines |
| `NetRing` | `TicketClient` with the packet hook on several CPUs |
| `BlockRing` | `TicketClient` with the submit_bio probe on several CPUs |
| `Lifecycle` | base module, tenant modules and programs: who holds what |
| `LifecycleProofs` | theorems about `Lifecycle` |
| `TicketClientProofs` | lemmas about tickets and about what any client step keeps, for the two modules below |
| `NetRingProofs`, `BlockRingProofs` | theorems about `NetRing` and `BlockRing` |
| `MCCharRing`, `MCNetRing`, `MCBlockRing`, `MCLifecycle` | constants for the runs |

Operators whose comment begins with "Mutant" are defective variants of the definition that follows
them; no specification uses them. `PROJECT.json` pairs them with the property that must fail.

### CharRing and the code

The grain is one access to shared memory, or one stretch that only a lock holder can observe. The
variables `rd_idx`, `wr_idx`, `asleep_flag` and `char_buffer` are the page; `lock` and `waitq` are the
spinlock and the wait queue; the rest are program positions and locals. `sent` and `delivered` are
histories that grow at the store of `wr_idx` and of `rd_idx`.

* `dev_write`: `DevWrite` enters, `DevWriteKick` is the zero-length write. Each byte is `WLock` (lock,
  next index), `WCheck` (snapshot of rd_idx, full test), `WStore` (get_user) or `WFault`, `WCommit`
  (wr_idx store, unlock, return after the last byte). When full: `WRaiseFlag` (bit up, unlock), then
  `wait_event_interruptible` as Linux implements it: `WPrepare` queues the thread, `WCondWr` and
  `WCondRd` evaluate the condition in its two reads, and the thread leaves, sleeps (`WWake` when a
  wake-up took it off the queue, `WSignal` for a signal), or returns with `WInterrupted` or is entered
  again by the kernel with the whole buffer, `WRestart`: -ERESTARTSYS allows both. `WClearFlag` takes
  the bit down under the lock and starts the loop again.
* `telemetry_shared_char_dev_push_metric`: `PLock`, then `PCheck`, `PStore`, `PCommit` per byte with
  the lock held; full ends it with a prefix published.
* `dev_read`, inside the loop of `consumer()`: `RSnap` and `RCmp` (the two reads of the empty test),
  `RPut` or `RFault`, `RInc` and `RCommit` (the code reads rd_idx once more for the increment), `REnd`
  with its wake-up, `ConsumerFinish`.
* `zero_copy_consumer`: one action per access, including the throttled kick (`ZFlag`, `ZKick`) and
  the unthrottled one on an empty ring (`ZEmptyFlag`, `ZEmptyKick`).
* `ProducerDone` raises the finished flag once one writer has made its own calls; another `dev_write`
  thread may still be in the middle of a call, and the consumer may leave before it.

`wake_up_interruptible` empties `waitq`: no writer sleeps exclusively, so it wakes them all.

### TicketClient, NetRing, BlockRing and the code

`user/block_filter_client.cpp` repeats the consumer thread of `user/net_filter_client.c` for its own
lane, so both are one module, and `map` names the net client's lines. A client is a record of its
position, the mode given on its command line, `run_signal` and the locals of its thread.

* `CStart` claims the channel; the code loads the flags and does not test them, so two clients may both
  claim it. `CBaseline` takes the baseline from `rd_idx`. `CLoop` is the test of `run_signal`.
* scatter-gather: `CCopy` and `CCopied` are the memcpy, word by word in any order (it orders
  nothing), `CMatch` processes records out of the copy until one does not match.
* skip-ahead: `CHint`, `CWalk` (ticket of the expected slot), `CReadSlot` and `CProcessed`
  (`process_metric` in place), `CScan` from a hole to the next slot that holds its own ticket.
* `CPublish` stores rd_idx, `CExit` gives the flags back. `Stop` is Enter. `Relaunch` starts a program
  that was killed anywhere, or has ended: its locals are gone, the page is as it was left.
* `Ahead` is the signed 32-bit distance of the code, taken modulo `TicketMod`.
* `accepted` is a history: each record processed, with its ticket, its payload and the mode of the client
  that processed it, so that a property may speak of one engine while the other runs beside it.

`NetRing`: `taken` is the ticket dispenser counted without wrapping; a packet is its number and stands
for the header words the hook copies, so that a record is right exactly when its payload is its
ticket. `HTake` (fetch_add), `HStore` per field in any order up to the barrier, `HStamp`, `HLoadHint`,
`HSwap` (cmpxchg with retry; the loop condition is an unsigned remainder and always true).

`BlockRing`: `PTake` (fetch_add on `wr_idx`, which is both dispenser and hint), `PStore` per word of the
structure copy, `PStamp` after the barrier. Its slot count divides 2^32 (`DivisorAssumption`), which
the net tenant's does not.

### Lifecycle and the code

Data and rings are abstracted away; what is left is who holds what. `init` and `held` are the base
module's progress and what it has acquired, `undo` the calls a failing init or an exit has still to make; a tenant module has its own stage, whether its callback is
registered (`hooked`) and whether the callback is running (`inside`); a program is its position and what
it holds (file, mapping, context; for a `cat`, also the page buffer and whether `*ppos` has moved).

* `telemetry_base_init` is `InitPage` ... `InitNodes`. Each error path is an action with its own list of
  calls, as its lines have them: `RegionFails`, `CdevFails`, `ClassFails`. A `get_zeroed_page` that fails
  changes nothing, and the six `device_create` results are not looked at, so the first step has no
  error path to unwind and the last does not fail. `Exit` is `telemetry_base_exit` with its list.
  `Undo` makes one call of the list; programs may open, map and read between two of them.
* tenants: `TLoad`, `TRegister` or `TRegisterFails`, `TExit` (unregister), `TGone`; `TEnter` and
  `TLeave` are a packet or a bio.
* programs, by kind: `UCreate` (contexts of the two clients), `UOpen` (`telemetry_master_open`), `UMap`
  and `UMapFails` (`telemetry_mmap_io` and what `telemetry_initialize` does when it fails), `USpawn`
  (pthread_create may fail), `UStop` (the loop the ring modules model), `UUnmap` and `UClose`
  (`telemetry_shutdown`), `UDestroy`. `Kill` ends a process anywhere and the kernel takes back its
  file and mapping.
* `cat /dev/telemetry_net`: `CatRead` (end of file, no memory, or a `page_buf` allocated), `CatCopy`
  (the formatted text does not fit, cannot be copied, or is copied and `*ppos` moves), `CatEnd`.

Four facts about Linux are taken as given: a module whose file is open or mapped, or whose symbols
another module uses, cannot be removed (`.owner` and the symbol reference; `Pinned`); a module that
fails to initialise goes without waiting for those who have opened it (`Undo`); a module that is being
removed cannot be opened (`UOpen`); unregistering a netfilter hook or a kprobe waits for the callbacks in
progress (`TGone`).

A failing init therefore leaves behind programs that opened the cdev between `cdev_add` and a failing
`class_create`: their file operations are gone and their mapping is of a freed page. The properties
except them by name (`Lost`). The repository says nothing about this case, so it is a hazard and not
a finding.

## 3. Runs

| run | instance | checks |
|---|---|---|
| `char_dev_read` | writers w1, w2; reader r1; ring of 3, messages of 2 | `TypeOK`, `IndInv`, `NoLostWakeup`, `Stream`, `WriteReturns`, `ConsumersStop` |
| `char_zero_copy` | writer w1 with two calls of 3, pusher p1, zero-copy consumer z1 | `IndInv`, `MetricFramed`, `SleeperFlagged`, `WriteReturns`, `ConsumersStop` |
| `net_skip_ahead` | hooks h1, h2; 3 slots, 4 packets; skip-ahead | `TypeOK`, `FirstLapFaithful`, `Log`, `ShutsDown` |
| `net_scatter` | hooks h1, h2; 3 slots, 3 packets, tickets only; scatter-gather, killed and run again | `NothingSkipped`, `DrainsFirstLap`, `ShutsDown` |
| `block_client` | CPUs p1, p2; 2 slots, 3 bios; both engines | `TypeOK`, `FirstLapFaithful`, `Log`, `SettledIsPassed` |
| `lifecycle` | one program of each kind, both tenant modules | `TypeOK`, `NothingLeft`, `UsersHavePage`, `ReleasedOnReturn`, `CatTerminates` |
| `char_two_sleepers` | w1, w2 against z1 | `WriteReturns` fails |
| `char_tail` | w1, r1 | `TailDrained` fails |
| `char_restart` | w1 with two calls of 3, r1 | `NoResend` fails |
| `net_torn` | h1, h2; 2 slots; scatter-gather | `SnapshotFaithful` fails |
| `net_overrun` | h1, h2; 2 slots, 3 packets; skip-ahead | `RollsForward` fails |
| `net_two_clients` | h1, h2; clients c1, c2; skip-ahead | `Log` fails |

What the passing runs show. With one consumer of either kind the ring never loses, repeats, overwrites
or reorders a byte, for every interleaving, signal, fault and kick (`IndInv`, `Stream`); bytes of a
metric are adjacent, as far as the metric fits (`MetricFramed`). A writer may go to sleep on two reads
that `dev_read` overtakes, but on an empty ring only while that read still has its wake-up to give
(`NoLostWakeup`; on a ring with bytes in it the next read will). A write always returns while its ring is drained: through
`dev_read` with two writers, and through the zero-copy consumer with one, although most of that
consumer's sightings of the bit are throttled, because an empty ring is kicked without throttling and
a writer that sleeps has the bit up (`SleeperFlagged`).

In the first lap of a slot ring a skip-ahead client accepts no torn record (`FirstLapFaithful`), and
in every lap a single client processes no ticket twice, or after a younger one, or before it was
issued (`Log`, the refinement of `TicketLog`). A scatter-gather client gets to every ticket of the
first lap whatever order the hooks finish in, and may be killed anywhere: it publishes rd_idx after it
has processed, so the next client repeats records but skips none (`NothingSkipped`). Both engines end
after Enter, and the skip-ahead engine also when hooks lap it. In the block ring, whose hint is ahead
of every ticket, a skip-ahead client gets past every record that stays in the ring, whatever an
overrun took before it and although a probe delayed for a lap may put an old record over a newer one
(`SettledIsPassed`); the record overwritten that way is lost, and the client waits at it until newer
ones come. Ticket 0 is excepted by name from `FirstLapFaithful`, `Log`, `NothingSkipped` and
`DrainsFirstLap`: the zeroed page looks like its record, so a client that finds an empty ring processes
one record that nobody wrote, publishes `rd_idx` = 1, and never processes packet 0
(`net_filter_client.c:93`, `block_filter_client.cpp:81`). No run claims otherwise: it is a hazard.

In the lifecycle each error path of init, and the exit, give back exactly what was acquired before them
(`NothingLeft`), in an order that frees the page after the last device it can be opened by is gone
(`UsersHavePage`: a path that freed it first would break it). With every step failing that can fail and
every process killed anywhere, the page is there for whoever may touch it, modules and programs give back what they hold, and `cat` ends. The
code ends it by moving `*ppos` (`telemetry_net.c:75`), although the comment on the next two lines says
`*ppos` is left untouched; that comment's version is the mutant of `CatTerminates`.

What the violated runs show (details and quotations are the findings of `PROJECT.json`).

* `char_two_sleepers`: two writers wait, and the one that wakes first clears the bit for both. The
  other is between the two reads of its wait condition: it has read `wr_idx` before the first writer's
  last byte and reads `rd_idx` after the consumer has drained everything, so a ring that is empty
  looks full to it. It sleeps with the bit down, and the consumer, which sees an empty ring and no
  bit, never kicks.
* `char_tail`: `consumer()` can leave bytes behind: empty read, last write, flag, exit.
* `char_restart`: a signal after part of a message is published; the restarted write publishes it again.
* `net_torn`: a scatter-gather record with the ticket of a packet and the payload of none.
* `net_overrun`: `wr_idx` is a slot position plus one and not the highest completed ticket, so after
  one lap the hint lies behind the ticket the skip-ahead client expects, for ever. (A lapped
  scatter-gather client waits for ever too, for a ticket that was overwritten.)
* `net_two_clients`: the channel can be claimed twice, and a record is processed twice.

### Bounds

`Capacity` 3 is the smallest ring in which full, empty and in-between all differ and the indices
wrap; messages of two or three bytes fill it and outlast it. `ReadLen` 2 gives reads that end on
length and reads that end on empty. `KickPeriod` 2 and 3 give throttled and unthrottled sightings; the
code's `modulo_divisor` only lengthens the throttled stretch.

The bounds in guards: `MaxCalls` (writes of a writer, restarts counted, so that an endless series of
signals ends), `MaxPushes`, `MaxPackets`, `MaxBios`, `MaxStarts` (times a client program is started; 2
allows one kill). `Lifecycle` has none: its state is finite and modules and programs come and go for
ever. Net and block runs have two CPUs, since what matters is one that is delayed and one that is not.
`Slots` is 2 or 3, so that one packet past the first lap overwrites records. In `net_scatter`, whose
properties look at tickets only, slots have no payload words, and three slots leave two tickets of the
first lap beside ticket 0, which they except. Half of
`TicketMod` exceeds the slots (`TicketAssumption`), as `Ahead` needs, and `TicketMod` is not reached: no
run wraps its tickets (section 4 has what is proved about the wrap).

Net and block runs do not check deadlock: when the client has left and the last packet has passed, the
system really stops.

### Fairness

Every thread inside a call keeps running (weak fairness of its step). For a thread that waits for the
spinlock this is the fairness of Linux's queued spinlocks, and less: the step need only happen when
the lock stays free. `put_user` into the stack buffer of `consumer()` does not fault for ever (strong
fairness of `RPut`): that buffer is mapped. In `NetRing` and `BlockRing` a hook or probe that has a
ticket finishes (neither is preempted for good) and a client thread keeps running. In `Lifecycle` only
a `cat` that has started is obliged to go on. Nothing obliges a writer to call or to finish, a signal or a fault to
happen, a packet or a bio to arrive, Enter to be pressed, a program to be killed or a module to be
loaded.

## 4. Proofs

`CharRingProofs` proves, for every number of threads, capacity, message, metric and read length:

* `TypeCorrect`: `Spec => []TypeOK`, from `InitType` and `TypeStep`, whatever the consumers do.
* `LockExclusive`: `Spec => []LockInv`: the lock is held exactly between lock and unlock, by one
  producer, and the index computed under it stays the successor of `wr_idx`.
* `RingSafe`: under `SoleConsumer`, `Spec => []IndInv`.
* `StreamImplemented`: under `SoleConsumer`, `Spec => Stream`: the ring implements `ByteStream` with
  at most `Capacity - 1` bytes undelivered.
* `SleeperIsFlagged`: with one `dev_write` thread, `Spec => []SleeperFlagged`.
* `MetricsStayWhole`: under `DistinctBytes`, `Spec => []MetricFramed`.
* `WakeUpsArrive`: with `dev_read` the only consumer, `Spec => []NoLostWakeup`: the safety core of
  `WriteReturns`, for any number of writers and pushers.

What is wanted is `RingInv`: every accepted byte is delivered in order, or in its slot. It is not
inductive alone. A consumer stores `rd_idx` several steps after it looked, so `ConsumerInv` says that
what it saw still holds (true because producers write only the slot at `wr_idx`, and no other consumer
exists: that is where `SoleConsumer` enters); a producer stores `wr_idx` several steps after its full
test, so `ProducerInv` says the slot is still free and filled (true because consumers only move
`rd_idx` away from it); `LockInv` excludes other producers. `RingSteps` reduces every action to one of
four changes of the ring (nothing, fill, publish, deliver), and `RingStep` and `StreamStep` reason about
those four only. The assumption `SoleConsumer` is necessary: two `dev_read` threads copy and increment
`rd_idx` without a lock, and each may pass over the byte of the other. (With Writers = {w1} and
Readers = {r1, r2} in `char_dev_read`, TLC finds `Stream` violated; no run has two consumers, and the
case is listed as a hazard.) The single writer of `SleeperIsFlagged` is necessary too: with two, clearing
the bit for one clears it for the other, which is the step `char_two_sleepers` turns into a lost wake-up.
A restarted write is a new message for the stream: `RingSafe` covers it, and says nothing about the bytes
it repeats.

`MetricsStayWhole` needs no assumption about consumers. A push that is under way holds the lock
(`LockInv`), and `PushInv` says that the byte it pushed last is the end of the stream, so nobody can
append between two bytes of a metric. `DistinctBytes` (the bytes of two metrics, and of a metric and a
message, differ) is part of the statement and not a restriction on the code: without it the stream does
not show which call a byte came from.

`NoLostWakeup` is not inductive, because a writer evaluates its wait condition in two reads. `Noticed`
says the same of a writer between them whose next read would find the ring full, and is preserved
because a `rd_idx` that moves is followed by the wake-up of the same read (`RCommit` to `REnd`), which
no fault skips once the ring is seen empty; `ConsumerInv` is needed for that last part, `ProducerInv` for
the store of `wr_idx`, which leaves the ring not empty. There is no such theorem for the zero-copy
consumer: it announces nothing and looks at the flag, which is where `char_two_sleepers` fails.

`LifecycleProofs` proves, for any number of programs of each kind and of tenant modules:

* `LifecycleSafe`: `Spec => []IInv`.
* `PageOutlivesUsers`: `Spec => []UsersHavePage`.
* `TypeCorrect`: `Spec => []TypeOK`.
* `InitUnwinds`: `Spec => []NothingLeft`.
* `NoLeak`: `Spec => []ReleasedOnReturn`.

`UsersHavePage` and `ReleasedOnReturn` are not inductive. That an exit pulls the page from under nobody
needs to know what is given back and who may still be there, hence the parts of `IInv`: `Stages`
ties what the base module holds to the step of its init, and while it gives back to the calls still to
be made (`Owed`: at every point of the three error paths and of the exit the list of calls is what is
held, last acquired first), so that a path that forgets a call, or makes one too many, contradicts it;
`Serving` says when a device may have users at all; `Tenancy` says that a callback is registered or
running only while its module is there and the base module live, and `Custody` says for each position
of a program exactly what it holds, so that an error path that forgets something contradicts it. The
proof has one lemma per actor (`BaseStep`, `TenantStep`, `UserStep`), joined by `ProgramStep` where
kinds of programs differ.

`NetRingProofs` and `BlockRingProofs` prove, for every number of hooks or probes, clients, payload words
and slots:

* `TypeCorrect`: `Spec => []TypeOK`.
* `FirstLapSafe`: `Spec => []FirstLapFaithful`, without any assumption on the clients: several at once,
  both engines side by side, killed and restarted.
* `ScatterSkipsNothing`: with `Modes = {"scatter"}`, `Spec => []NothingSkipped`, ticket 0 aside
  (a run checks it in the net ring only).
* `LogImplemented`: with one client started once (`OneRun`), `Spec => Log`, the refinement of
  `TicketLog`.
* `ProcessedRise`: under the same hypotheses, `Spec => []TL!Rising`: over the whole history no ticket is
  processed twice and none after a later one.

`TicketLogProofs` proves `TicketsRise`, `Spec => []Rising`, of the abstract log, whose steps compare with
the last ticket only; `ProcessedRise` is that theorem under the refinement mapping.

`FirstLapInv` is the inductive invariant of the first. `FirstLapFaithful` speaks of records already
processed; before that a client matches a stamp, reads the words one at a time and never looks back. So
`Stamped` says that a stamped slot is full of its ticket, `Reading` that the slot a client is reading
still carries the stamp it matched and that the words in its hands are that ticket's, `Filling` that a
hook between its ticket and its stamp works on a slot not yet stamped and what it has stored there, and
`Packets` (`Bios`) that no two hooks share a ticket. All but `Packets` and `Positions` hold in the first
lap only: in the second a hook stores into stamped slots. `StoreLap` and `StampLap` are the producer's
half of the argument and `ClientLap` the client's, shared by both rings.

`Coverage` is the invariant behind `ScatterSkipsNothing`: everything below `rd_idx`, and below the ticket
each client expects, has been processed. A restarted client takes its baseline from `rd_idx`, which is
covered; a second client may move `rd_idx` back, which is covered too. The skip-ahead engine leaps over
holes, so the hypothesis on `Modes` is necessary. Laps and the wrap of `expected` are included.

`LogInv` is the invariant behind `LogImplemented`: stamps, and their copies in a snapshot, are of tickets
issued (`Issued`), and the last ticket processed is below the one expected, which a scan only raises
(`InOrder`). `ClientInOrder` shows that a record that is processed joins the log beyond all before it. It
needs the signed distance to be an order (`AheadIsOrder`), hence tickets below half of `TicketMod`:
fewer than 2^31 packets in a run (the hypothesis on `MaxPackets`; `BiosAssumption` in the block ring).
With a second client or a second start the statement is false (`net_two_clients`).

About the wrap of tickets `TicketClientProofs` proves two theorems, for every `TicketMod` and slot count:
`SlotsApart`, when the slot count divides `TicketMod` tickets less than a lap apart have different slots,
also across the wrap (the block ring, `DivisorAssumption`); `SlotsShared`, when it does not, two such
tickets share a slot (the net ring: 24 slots, and 2^32 = 16 modulo 24), so that around the wrap a record
is overwritten before it is a lap old.

Assumptions: those on the constants in `CharRing` (capacity at least 2, messages not empty, ...),
`UsersAssumption` (kinds of programs are disjoint), and in the slot rings at least one slot, fewer slots
than half the tickets, at least one start per client, and payload words distinct from the stamp.

Every safety property of a passing run is a theorem. Only model-checked: liveness (`WriteReturns`,
`ConsumersStop`, `DrainsFirstLap`, `ShutsDown`, `SettledIsPassed`, `CatTerminates`), which rests on
fairness and is out of the reach of TLAPS, and that the invariants without the hypotheses fail, where a
run shows it.

## 5. Not modelled

* `telemetry_net_dev_push_metric`: it moves `wr_idx` of the net lane in bytes while hooks move it in
  slots, but nothing in the tree calls it, so no execution reaches the conflict.
* The text `telemetry_net_read` formats from live slots: it promises a raw picture and validates
  nothing. Its control (buffer, `*ppos`, errors) is in `Lifecycle`.
* Weak memory. Accesses are sequentially consistent, except that in the slot rings plain accesses
  between two barriers commute. The push into the character ring has no barrier between byte and index
  (`telemetry_core.c:302`): on a weakly ordered CPU that is not covered.
* Ticket wrap in a run: tickets stay below `TicketMod`. `NetRing` and `BlockRing` define the wrap, and
  section 4 says which theorems cover it.
* The calls of `process_metric` before a ticket is tested (`net_filter_client.c:90`, `:116`, `:131`):
  they only print slots, matching or not.
* The benchmark harness (pinning, timing, rates) and the build files: no protocol state. `main` currently
  runs `netfilter_main` (`#if 1`); the character ring's threads are modelled as the code defines them.
* get_user under a spinlock (`telemetry_core.c:200`) is a rule about contexts; a fault is an error here.

## 6. Plan

1. `SettledIsPassed` rests on safety facts of its own (which slots a walk may stop at): state them as an
   invariant, check it in `block_client`, and prove it.
2. `NothingSkipped` for the skip-ahead engine, whose leaps may only pass over tickets that were not
   stamped when it looked: an action property, first as a run.
