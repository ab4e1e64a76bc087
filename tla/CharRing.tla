----------------------------- MODULE CharRing -----------------------------
(***************************************************************************)
(* The character tenant (tenant 0) of the shared telemetry page.           *)
(*                                                                         *)
(* Producers: threads in dev_write (kernel/telemetry_core.c), and callers  *)
(* of the exported telemetry_shared_char_dev_push_metric; both run under   *)
(* the spinlock telemetry_char_write_lock.  Consumers, who take no lock:   *)
(* threads in dev_read, and user threads in zero_copy_consumer             *)
(* (user/telemetry_user.c) that work on the mapped page and kick sleeping  *)
(* writers through the TELEMETRY_IOC_WAKE_WRITER ioctl.                    *)
(*                                                                         *)
(* One action is one access to shared memory (or one critical section that *)
(* only lock holders can observe).  Memory is sequentially consistent.     *)
(* sent and delivered are history variables: the bytes whose wr_idx store  *)
(* has happened, and the bytes whose rd_idx store has happened.            *)
(***************************************************************************)
EXTENDS Integers, Sequences

CONSTANTS
  Writers,     \* threads that call write() on /dev/telemetry_char
  Pushers,     \* kernel contexts that push a metric into the char ring
  Readers,     \* threads that call read() on /dev/telemetry_char
  ZeroCopy,    \* user threads in zero_copy_consumer
  Byte,        \* the bytes that travel
  Zero,        \* the byte of a zeroed page, and what a failed get_user stores
  Msg,         \* Msg[w]: the buffer w passes to every write()
  Metric,      \* Metric[p]: the bytes of the metric p pushes
  Free,        \* the spinlock's value when nobody holds it
  Capacity,    \* RING_BUFFER_CAPACITY
  ReadLen,     \* the length a reader passes to read()
  KickPeriod,  \* modulo_divisor: reads between two ioctl kicks
  MaxCalls,    \* bound: write() calls per writer, restarts included
  MaxPushes    \* bound: pushes per pusher

ASSUME CapacityAssumption == Capacity \in Nat /\ Capacity >= 2
ASSUME ReadLenAssumption == ReadLen \in Nat \ {0}
ASSUME KickAssumption == KickPeriod \in Nat \ {0}
ASSUME BoundsAssumption == MaxCalls \in Nat /\ MaxPushes \in Nat
ASSUME ByteAssumption == Zero \in Byte
ASSUME ThreadAssumption ==
  /\ Writers \cap Pushers = {} /\ Readers \cap ZeroCopy = {}
  /\ Free \notin Writers \cup Pushers
ASSUME PayloadAssumption ==
  /\ Msg \in [Writers -> Seq(Byte)] /\ \A w \in Writers : Len(Msg[w]) > 0
  /\ Metric \in [Pushers -> Seq(Byte)] /\ \A p \in Pushers : Len(Metric[p]) > 0

VARIABLES
  rd_idx, wr_idx,   \* char_ctl.rx.rd_idx, char_ctl.tx.wr_idx
  asleep_flag,      \* TELEMETRY_FLAG_WRITER_ASLEEP in char_ctl.ctrl.state_flags
  char_buffer,      \* the ring's bytes
  lock,             \* telemetry_char_write_lock: its holder, or Free
  waitq,            \* the threads queued on char_wait_queue, not yet woken
  next_idx,         \* next_write_index / next_write of each producer
  wpc, written, calls, signalled,   \* dev_write: position, bytes_written, ...
  ppc, pushed, pushes,              \* push_metric: position, i, pushes made
  rpc, bytes_read, snapshot,        \* dev_read: position, bytes_read, index copy
  zpc, current_read, kick_count,    \* zero_copy_consumer: position and locals
  got,              \* the byte a consumer has copied out and not yet committed
  finished,         \* writer_is_finished_flag
  sent, delivered   \* histories

page   == <<rd_idx, wr_idx, asleep_flag, char_buffer>>
sync   == <<lock, waitq>>
wvars  == <<wpc, written, calls, signalled>>
pvars  == <<ppc, pushed, pushes>>
rvars  == <<rpc, bytes_read, snapshot>>
zvars  == <<zpc, current_read, kick_count>>
hist   == <<sent, delivered>>
call      == <<written, calls, signalled>>
producing == <<next_idx, wvars, pvars>>
reading   == <<rvars, zvars, got, finished>>
vars == <<page, sync, producing, reading, hist>>

Index     == 0 .. Capacity - 1
Producers == Writers \cup Pushers
Consumers == Readers \cup ZeroCopy

Init ==
  /\ rd_idx = 0 /\ wr_idx = 0 /\ asleep_flag = FALSE
  /\ char_buffer = [i \in Index |-> Zero]
  /\ lock = Free /\ waitq = {}
  /\ next_idx = [t \in Producers |-> 0]
  /\ wpc = [w \in Writers |-> "idle"] /\ written = [w \in Writers |-> 0]
  /\ calls = [w \in Writers |-> 0] /\ signalled = {}
  /\ ppc = [p \in Pushers |-> "idle"] /\ pushed = [p \in Pushers |-> 0]
  /\ pushes = [p \in Pushers |-> 0]
  /\ rpc = [r \in Readers |-> "idle"] /\ bytes_read = [r \in Readers |-> 0]
  /\ snapshot = [r \in Readers |-> 0]
  /\ zpc = [z \in ZeroCopy |-> "load_rd"]
  /\ current_read = [z \in ZeroCopy |-> 0] /\ kick_count = [z \in ZeroCopy |-> 0]
  /\ got = [c \in Consumers |-> Zero]
  /\ finished = FALSE
  /\ sent = <<>> /\ delivered = <<>>
-----------------------------------------------------------------------------
(* Shared helpers *)

\* Mutant: the index is not wrapped.
NextIdxUnwrapped(i) == i + 1

NextIdx(i) == (i + 1) % Capacity

\* Mutant: the full test compares with wr_idx, which never equals its successor.
IsFullWrongIndex(next) == next = wr_idx

\* The full test: one slot always stays empty.
IsFull(next) == next = rd_idx

\* wake_up_interruptible: every queued writer becomes runnable.
WakeAll == waitq' = {}
-----------------------------------------------------------------------------
(* dev_write *)

\* write() enters the handler with len > 0 (signals of an earlier call were taken
\* on its return to user mode).
DevWrite(w) ==
  /\ wpc[w] = "idle" /\ calls[w] < MaxCalls
  /\ calls' = [calls EXCEPT ![w] = @ + 1]
  /\ written' = [written EXCEPT ![w] = 0]
  /\ signalled' = signalled \ {w}
  /\ wpc' = [wpc EXCEPT ![w] = "loop"]
  /\ UNCHANGED <<page, sync, next_idx, pvars, reading, hist>>

\* write() with len = 0 is the kick.
DevWriteKick(w) ==
  /\ wpc[w] = "idle"
  /\ WakeAll
  /\ UNCHANGED <<page, lock, producing, reading, hist>>

\* spin_lock_irqsave, then the next index from wr_idx (stable under the lock).
WLock(w) ==
  /\ wpc[w] = "loop" /\ lock = Free
  /\ lock' = w
  /\ next_idx' = [next_idx EXCEPT ![w] = NextIdx(wr_idx)]
  /\ wpc' = [wpc EXCEPT ![w] = "check"]
  /\ UNCHANGED <<page, waitq, call, pvars, reading, hist>>

\* The snapshot of rd_idx and the full test.
WCheck(w) ==
  /\ wpc[w] = "check"
  /\ wpc' = [wpc EXCEPT ![w] = IF IsFull(next_idx[w]) THEN "flag" ELSE "store"]
  /\ UNCHANGED <<page, sync, next_idx, call, pvars, reading, hist>>

\* Mutant: the writer goes to sleep without telling user space.
WRaiseFlagSilent(w) ==
  /\ wpc[w] = "flag"
  /\ lock' = Free
  /\ wpc' = [wpc EXCEPT ![w] = "prepare"]
  /\ UNCHANGED <<page, waitq, next_idx, call, pvars, reading, hist>>

\* Full: raise WRITER_ASLEEP, drop the lock, go to wait_event_interruptible.
WRaiseFlag(w) ==
  /\ wpc[w] = "flag"
  /\ asleep_flag' = TRUE
  /\ lock' = Free
  /\ wpc' = [wpc EXCEPT ![w] = "prepare"]
  /\ UNCHANGED <<rd_idx, wr_idx, char_buffer, waitq, next_idx, call, pvars, reading, hist>>

\* wait_event_interruptible queues the thread before it evaluates the condition.
WPrepare(w) ==
  /\ wpc[w] = "prepare"
  /\ waitq' = waitq \cup {w}
  /\ wpc' = [wpc EXCEPT ![w] = "cond_wr"]
  /\ UNCHANGED <<page, lock, next_idx, call, pvars, reading, hist>>

\* The wait condition reads wr_idx, without the lock ...
WCondWr(w) ==
  /\ wpc[w] = "cond_wr"
  /\ next_idx' = [next_idx EXCEPT ![w] = NextIdx(wr_idx)]
  /\ wpc' = [wpc EXCEPT ![w] = "cond_rd"]
  /\ UNCHANGED <<page, sync, call, pvars, reading, hist>>

\* ... and then rd_idx: space leaves the queue, else sleep ...
WCondRd(w) ==
  /\ wpc[w] = "cond_rd"
  /\ \/ /\ ~IsFull(next_idx[w])
        /\ waitq' = waitq \ {w}
        /\ wpc' = [wpc EXCEPT ![w] = "woke"]
     \/ /\ IsFull(next_idx[w]) /\ w \notin signalled
        /\ wpc' = [wpc EXCEPT ![w] = "asleep"]
        /\ UNCHANGED waitq
  /\ UNCHANGED <<page, lock, next_idx, call, pvars, reading, hist>>

\* ... or, with a signal pending, return -ERESTARTSYS: what was written so far
\* stays in the ring and the flag stays up.
WInterrupted(w) ==
  /\ wpc[w] = "cond_rd" /\ IsFull(next_idx[w]) /\ w \in signalled
  /\ waitq' = waitq \ {w}
  /\ wpc' = [wpc EXCEPT ![w] = "idle"]
  /\ UNCHANGED <<page, lock, next_idx, call, pvars, reading, hist>>

\* The same, for a signal after which the kernel restarts the call: write() enters
\* dev_write again, with the whole buffer.
WRestart(w) ==
  /\ wpc[w] = "cond_rd" /\ IsFull(next_idx[w]) /\ w \in signalled /\ calls[w] < MaxCalls
  /\ waitq' = waitq \ {w}
  /\ calls' = [calls EXCEPT ![w] = @ + 1]
  /\ written' = [written EXCEPT ![w] = 0]
  /\ signalled' = signalled \ {w}
  /\ wpc' = [wpc EXCEPT ![w] = "loop"]
  /\ UNCHANGED <<page, lock, next_idx, pvars, reading, hist>>

\* schedule() returns once a wake-up has taken the thread off the queue.
WWake(w) ==
  /\ wpc[w] = "asleep" /\ w \notin waitq
  /\ wpc' = [wpc EXCEPT ![w] = "prepare"]
  /\ UNCHANGED <<page, sync, next_idx, call, pvars, reading, hist>>

\* A signal reaches a sleeping writer.
WSignal(w) ==
  /\ wpc[w] = "asleep"
  /\ signalled' = signalled \cup {w}
  /\ waitq' = waitq \ {w}
  /\ wpc' = [wpc EXCEPT ![w] = "prepare"]
  /\ UNCHANGED <<page, lock, next_idx, written, calls, pvars, reading, hist>>

\* Awake with space seen: clear WRITER_ASLEEP under the lock and start over.
WClearFlag(w) ==
  /\ wpc[w] = "woke" /\ lock = Free
  /\ asleep_flag' = FALSE
  /\ wpc' = [wpc EXCEPT ![w] = "loop"]
  /\ UNCHANGED <<rd_idx, wr_idx, char_buffer, sync, next_idx, call, pvars, reading, hist>>

\* get_user copies the next byte into the slot at wr_idx.
WStore(w) ==
  /\ wpc[w] = "store"
  /\ char_buffer' = [char_buffer EXCEPT ![wr_idx] = Msg[w][written[w] + 1]]
  /\ wpc' = [wpc EXCEPT ![w] = "commit"]
  /\ UNCHANGED <<rd_idx, wr_idx, asleep_flag, sync, next_idx, call, pvars, reading, hist>>

\* get_user faults: the slot is zeroed, the lock dropped, -EFAULT returned.
WFault(w) ==
  /\ wpc[w] = "store"
  /\ char_buffer' = [char_buffer EXCEPT ![wr_idx] = Zero]
  /\ lock' = Free
  /\ wpc' = [wpc EXCEPT ![w] = "idle"]
  /\ UNCHANGED <<rd_idx, wr_idx, asleep_flag, waitq, next_idx, call, pvars, reading, hist>>

\* Publish the byte, drop the lock; the call returns when len reaches 0.
WCommit(w) ==
  /\ wpc[w] = "commit"
  /\ wr_idx' = next_idx[w]
  /\ sent' = Append(sent, Msg[w][written[w] + 1])
  /\ lock' = Free
  /\ written' = [written EXCEPT ![w] = @ + 1]
  /\ wpc' = [wpc EXCEPT ![w] = IF written[w] + 1 = Len(Msg[w]) THEN "idle" ELSE "loop"]
  /\ UNCHANGED <<rd_idx, asleep_flag, char_buffer, waitq, next_idx, calls, signalled,
                 pvars, reading, delivered>>

\* The steps a writer takes by itself once it is inside a call.
WStep(w) ==
  \/ WLock(w) \/ WCheck(w) \/ WRaiseFlag(w) \/ WPrepare(w) \/ WCondWr(w) \/ WCondRd(w)
  \/ WInterrupted(w) \/ WRestart(w) \/ WWake(w) \/ WClearFlag(w) \/ WStore(w) \/ WCommit(w)
-----------------------------------------------------------------------------
(* telemetry_shared_char_dev_push_metric: one critical section per metric *)

PLock(p) ==
  /\ ppc[p] = "idle" /\ pushes[p] < MaxPushes /\ lock = Free
  /\ lock' = p
  /\ pushes' = [pushes EXCEPT ![p] = @ + 1]
  /\ pushed' = [pushed EXCEPT ![p] = 0]
  /\ ppc' = [ppc EXCEPT ![p] = "check"]
  /\ UNCHANGED <<page, waitq, next_idx, wvars, reading, hist>>

\* Mutant: the push overwrites when the ring is full, instead of returning -ENOSPC.
PCheckOverwrite(p) ==
  /\ ppc[p] = "check"
  /\ next_idx' = [next_idx EXCEPT ![p] = NextIdx(wr_idx)]
  /\ ppc' = [ppc EXCEPT ![p] = "store"]
  /\ UNCHANGED <<page, sync, wvars, pushed, pushes, reading, hist>>

\* The full test of one byte; full returns -ENOSPC with the bytes before it in place.
PCheck(p) ==
  /\ ppc[p] = "check"
  /\ next_idx' = [next_idx EXCEPT ![p] = NextIdx(wr_idx)]
  /\ \/ /\ IsFull(NextIdx(wr_idx))
        /\ lock' = Free
        /\ ppc' = [ppc EXCEPT ![p] = "idle"]
     \/ /\ ~IsFull(NextIdx(wr_idx))
        /\ ppc' = [ppc EXCEPT ![p] = "store"]
        /\ UNCHANGED lock
  /\ UNCHANGED <<page, waitq, wvars, pushed, pushes, reading, hist>>

PStore(p) ==
  /\ ppc[p] = "store"
  /\ char_buffer' = [char_buffer EXCEPT ![wr_idx] = Metric[p][pushed[p] + 1]]
  /\ ppc' = [ppc EXCEPT ![p] = "commit"]
  /\ UNCHANGED <<rd_idx, wr_idx, asleep_flag, sync, next_idx, wvars, pushed, pushes,
                 reading, hist>>

\* Mutant: the push publishes its last bytes without its lock, dropped after the first.
PCommitUnlocks(p) ==
  /\ ppc[p] = "commit"
  /\ wr_idx' = next_idx[p]
  /\ sent' = Append(sent, Metric[p][pushed[p] + 1])
  /\ pushed' = [pushed EXCEPT ![p] = @ + 1]
  /\ lock' = Free
  /\ ppc' = [ppc EXCEPT ![p] = IF pushed[p] + 1 = Len(Metric[p]) THEN "idle" ELSE "check"]
  /\ UNCHANGED <<rd_idx, asleep_flag, char_buffer, waitq, next_idx, wvars, pushes,
                 reading, delivered>>

\* Publish the byte; the lock is dropped after the last one only.
PCommit(p) ==
  /\ ppc[p] = "commit"
  /\ wr_idx' = next_idx[p]
  /\ sent' = Append(sent, Metric[p][pushed[p] + 1])
  /\ pushed' = [pushed EXCEPT ![p] = @ + 1]
  /\ \/ /\ pushed[p] + 1 = Len(Metric[p])
        /\ lock' = Free
        /\ ppc' = [ppc EXCEPT ![p] = "idle"]
     \/ /\ pushed[p] + 1 < Len(Metric[p])
        /\ ppc' = [ppc EXCEPT ![p] = "check"]
        /\ UNCHANGED lock
  /\ UNCHANGED <<rd_idx, asleep_flag, char_buffer, waitq, next_idx, wvars, pushes,
                 reading, delivered>>

PStep(p) == PLock(p) \/ PCheck(p) \/ PStore(p) \/ PCommit(p)
-----------------------------------------------------------------------------
(* dev_read, called in a loop by the user thread consumer() *)

DevRead(r) ==
  /\ rpc[r] = "idle"
  /\ bytes_read' = [bytes_read EXCEPT ![r] = 0]
  /\ rpc' = [rpc EXCEPT ![r] = "loop"]
  /\ UNCHANGED <<page, sync, producing, snapshot, zvars, got, finished, hist>>

\* The snapshot of wr_idx.
RSnap(r) ==
  /\ rpc[r] = "loop"
  /\ snapshot' = [snapshot EXCEPT ![r] = wr_idx]
  /\ rpc' = [rpc EXCEPT ![r] = "cmp"]
  /\ UNCHANGED <<page, sync, producing, bytes_read, zvars, got, finished, hist>>

\* rd_idx against the snapshot: equal means empty.
RCmp(r) ==
  /\ rpc[r] = "cmp"
  /\ rpc' = [rpc EXCEPT ![r] = IF rd_idx = snapshot[r] THEN "end" ELSE "put"]
  /\ UNCHANGED <<page, sync, producing, bytes_read, snapshot, zvars, got, finished, hist>>

\* put_user of the byte at rd_idx.
RPut(r) ==
  /\ rpc[r] = "put"
  /\ got' = [got EXCEPT ![r] = char_buffer[rd_idx]]
  /\ rpc' = [rpc EXCEPT ![r] = "inc"]
  /\ UNCHANGED <<page, sync, producing, bytes_read, snapshot, zvars, finished, hist>>

\* put_user faults: -EFAULT at once, with no wake-up for the bytes already read.
RFault(r) ==
  /\ rpc[r] = "put"
  /\ rpc' = [rpc EXCEPT ![r] = "idle"]
  /\ UNCHANGED <<page, sync, producing, bytes_read, snapshot, zvars, got, finished, hist>>

\* Mutant: the increment starts from the snapshot of wr_idx.
RIncFromSnapshot(r) ==
  /\ rpc[r] = "inc"
  /\ snapshot' = [snapshot EXCEPT ![r] = NextIdx(snapshot[r])]
  /\ rpc' = [rpc EXCEPT ![r] = "commit"]
  /\ UNCHANGED <<page, sync, producing, bytes_read, zvars, got, finished, hist>>

\* rd_idx is read again for the increment ...
RInc(r) ==
  /\ rpc[r] = "inc"
  /\ snapshot' = [snapshot EXCEPT ![r] = NextIdx(rd_idx)]
  /\ rpc' = [rpc EXCEPT ![r] = "commit"]
  /\ UNCHANGED <<page, sync, producing, bytes_read, zvars, got, finished, hist>>

\* ... and stored.
RCommit(r) ==
  /\ rpc[r] = "commit"
  /\ rd_idx' = snapshot[r]
  /\ delivered' = Append(delivered, got[r])
  /\ bytes_read' = [bytes_read EXCEPT ![r] = @ + 1]
  /\ rpc' = [rpc EXCEPT ![r] = IF bytes_read[r] + 1 = ReadLen THEN "end" ELSE "loop"]
  /\ UNCHANGED <<wr_idx, asleep_flag, char_buffer, sync, producing, snapshot, zvars, got,
                 finished, sent>>

\* Mutant: dev_read wakes nobody.
REndNoWake(r) ==
  /\ rpc[r] = "end"
  /\ rpc' = [rpc EXCEPT ![r] = IF bytes_read[r] > 0 THEN "idle" ELSE "empty"]
  /\ UNCHANGED <<page, sync, producing, bytes_read, snapshot, zvars, got, finished, hist>>

\* Mutant: only a read of the whole length wakes the writers.
REndWakesWhenFilled(r) ==
  /\ rpc[r] = "end"
  /\ IF bytes_read[r] = ReadLen THEN WakeAll ELSE UNCHANGED waitq
  /\ rpc' = [rpc EXCEPT ![r] = IF bytes_read[r] > 0 THEN "idle" ELSE "empty"]
  /\ UNCHANGED <<page, lock, producing, bytes_read, snapshot, zvars, got, finished, hist>>

\* Return: wake the writers if anything was read; an empty read goes on to
\* consumer()'s test of the finished flag.
REnd(r) ==
  /\ rpc[r] = "end"
  /\ IF bytes_read[r] > 0 THEN WakeAll ELSE UNCHANGED waitq
  /\ rpc' = [rpc EXCEPT ![r] = IF bytes_read[r] > 0 THEN "idle" ELSE "empty"]
  /\ UNCHANGED <<page, lock, producing, bytes_read, snapshot, zvars, got, finished, hist>>

\* Mutant: consumer() never looks at the finished flag.
ConsumerFinishIgnored(r) ==
  /\ rpc[r] = "empty"
  /\ rpc' = [rpc EXCEPT ![r] = "idle"]
  /\ UNCHANGED <<page, sync, producing, bytes_read, snapshot, zvars, got, finished, hist>>

ConsumerFinish(r) ==
  /\ rpc[r] = "empty"
  /\ rpc' = [rpc EXCEPT ![r] = IF finished THEN "done" ELSE "idle"]
  /\ UNCHANGED <<page, sync, producing, bytes_read, snapshot, zvars, got, finished, hist>>

RStep(r) ==
  \/ DevRead(r) \/ RSnap(r) \/ RCmp(r) \/ RInc(r) \/ RCommit(r) \/ REnd(r)
  \/ ConsumerFinish(r)
-----------------------------------------------------------------------------
(* zero_copy_consumer: the same ring, from user space through the mapped page *)

ZLoadRd(z) ==
  /\ zpc[z] = "load_rd"
  /\ current_read' = [current_read EXCEPT ![z] = rd_idx]
  /\ zpc' = [zpc EXCEPT ![z] = "load_wr"]
  /\ UNCHANGED <<page, sync, producing, rvars, kick_count, got, finished, hist>>

ZLoadWr(z) ==
  /\ zpc[z] = "load_wr"
  /\ zpc' = [zpc EXCEPT ![z] = IF current_read[z] # wr_idx THEN "data" ELSE "empty_flag"]
  /\ UNCHANGED <<page, sync, producing, rvars, current_read, kick_count, got, finished,
                 hist>>

ZData(z) ==
  /\ zpc[z] = "data"
  /\ got' = [got EXCEPT ![z] = char_buffer[current_read[z]]]
  /\ zpc' = [zpc EXCEPT ![z] = "commit"]
  /\ UNCHANGED <<page, sync, producing, rvars, current_read, kick_count, finished, hist>>

ZCommit(z) ==
  /\ zpc[z] = "commit"
  /\ rd_idx' = NextIdx(current_read[z])
  /\ delivered' = Append(delivered, got[z])
  /\ zpc' = [zpc EXCEPT ![z] = "flag"]
  /\ UNCHANGED <<wr_idx, asleep_flag, char_buffer, sync, producing, rvars, current_read,
                 kick_count, got, finished, sent>>

\* WRITER_ASLEEP seen after a read: kick on every KickPeriod-th sighting only.
ZFlag(z) ==
  /\ zpc[z] = "flag"
  /\ zpc' = [zpc EXCEPT ![z] = IF asleep_flag /\ kick_count[z] = 0
                               THEN "kick" ELSE "load_rd"]
  /\ kick_count' = [kick_count EXCEPT ![z] = IF asleep_flag /\ @ # 0
                                             THEN (@ + 1) % KickPeriod ELSE @]
  /\ UNCHANGED <<page, sync, producing, rvars, current_read, got, finished, hist>>

\* ioctl(TELEMETRY_IOC_WAKE_WRITER): telemetry_mmap_ioctl.
ZKick(z) ==
  /\ zpc[z] = "kick"
  /\ WakeAll
  /\ kick_count' = [kick_count EXCEPT ![z] = 1]
  /\ zpc' = [zpc EXCEPT ![z] = "load_rd"]
  /\ UNCHANGED <<page, lock, producing, rvars, current_read, got, finished, hist>>

\* Mutant: no kick on an empty ring, only the throttled one after a read.
ZEmptyFlagIgnored(z) ==
  /\ zpc[z] = "empty_flag"
  /\ zpc' = [zpc EXCEPT ![z] = "empty"]
  /\ UNCHANGED <<page, sync, producing, rvars, current_read, kick_count, got, finished,
                 hist>>

\* Ring empty: WRITER_ASLEEP is kicked without throttling.
ZEmptyFlag(z) ==
  /\ zpc[z] = "empty_flag"
  /\ zpc' = [zpc EXCEPT ![z] = IF asleep_flag THEN "empty_kick" ELSE "empty"]
  /\ UNCHANGED <<page, sync, producing, rvars, current_read, kick_count, got, finished,
                 hist>>

ZEmptyKick(z) ==
  /\ zpc[z] = "empty_kick"
  /\ WakeAll
  /\ zpc' = [zpc EXCEPT ![z] = "empty"]
  /\ UNCHANGED <<page, lock, producing, rvars, current_read, kick_count, got, finished,
                 hist>>

\* Mutant: zero_copy_consumer never looks at the finished flag.
ZFinishIgnored(z) ==
  /\ zpc[z] = "empty"
  /\ zpc' = [zpc EXCEPT ![z] = "load_rd"]
  /\ UNCHANGED <<page, sync, producing, rvars, current_read, kick_count, got, finished,
                 hist>>

ZFinish(z) ==
  /\ zpc[z] = "empty"
  /\ zpc' = [zpc EXCEPT ![z] = IF finished THEN "done" ELSE "load_rd"]
  /\ UNCHANGED <<page, sync, producing, rvars, current_read, kick_count, got, finished,
                 hist>>

ZStep(z) ==
  \/ ZLoadRd(z) \/ ZLoadWr(z) \/ ZData(z) \/ ZCommit(z) \/ ZFlag(z) \/ ZKick(z)
  \/ ZEmptyFlag(z) \/ ZEmptyKick(z) \/ ZFinish(z)
-----------------------------------------------------------------------------
\* producer() raises writer_is_finished_flag after its own last write() has returned;
\* another dev_write thread may still be in the middle of its call.
ProducerDone(w) ==
  /\ ~finished
  /\ wpc[w] = "idle" /\ calls[w] = MaxCalls
  /\ finished' = TRUE
  /\ UNCHANGED <<page, sync, producing, rvars, zvars, got, hist>>

Next ==
  \/ \E w \in Writers : DevWrite(w) \/ DevWriteKick(w) \/ WStep(w) \/ WSignal(w) \/ WFault(w)
                        \/ ProducerDone(w)
  \/ \E p \in Pushers : PStep(p)
  \/ \E r \in Readers : RStep(r) \/ RPut(r) \/ RFault(r)
  \/ \E z \in ZeroCopy : ZStep(z)

Spec == Init /\ [][Next]_vars
\* Every thread keeps running between its system calls; spinlocks are fair; the
\* stack buffers consumer() passes to read() are mapped, so put_user does not fail
\* for ever.  Nothing obliges a signal, a fault, a kick, a new write() or the end of
\* a producer to happen.
Fairness ==
  /\ \A w \in Writers : WF_vars(WStep(w))
  /\ \A p \in Pushers : WF_vars(PStep(p) /\ ppc[p] # "idle")
  /\ \A r \in Readers : WF_vars(RStep(r)) /\ SF_vars(RPut(r))
  /\ \A z \in ZeroCopy : WF_vars(ZStep(z))

FairSpec == Spec /\ Fairness
-----------------------------------------------------------------------------
(* Properties *)

WLocked == {"check", "flag", "store", "commit"}
WLabels == WLocked \cup {"idle", "loop", "prepare", "cond_wr", "cond_rd", "asleep", "woke"}
PLocked == {"check", "store", "commit"}
RLabels == {"idle", "loop", "cmp", "put", "inc", "commit", "end", "empty", "done"}
ZLabels == {"load_rd", "load_wr", "data", "commit", "flag", "kick", "empty_flag",
            "empty_kick", "empty", "done"}

\* Type invariant: every index the code computes stays inside the ring, and no
\* thread copies past the end of the buffer it was given.
TypeOK ==
  /\ rd_idx \in Index /\ wr_idx \in Index /\ asleep_flag \in BOOLEAN
  /\ char_buffer \in [Index -> Byte]
  /\ lock \in Producers \cup {Free} /\ waitq \subseteq Writers
  /\ next_idx \in [Producers -> Index]
  /\ wpc \in [Writers -> WLabels] /\ written \in [Writers -> Nat]
  /\ \A w \in Writers : written[w] <= Len(Msg[w])
  /\ \A w \in Writers : wpc[w] # "idle" => written[w] < Len(Msg[w])
  /\ calls \in [Writers -> 0 .. MaxCalls] /\ signalled \subseteq Writers
  /\ ppc \in [Pushers -> PLocked \cup {"idle"}] /\ pushed \in [Pushers -> Nat]
  /\ \A p \in Pushers : pushed[p] <= Len(Metric[p])
  /\ \A p \in Pushers : ppc[p] # "idle" => pushed[p] < Len(Metric[p])
  /\ pushes \in [Pushers -> 0 .. MaxPushes]
  /\ rpc \in [Readers -> RLabels] /\ bytes_read \in [Readers -> Nat]
  /\ snapshot \in [Readers -> Index]
  /\ zpc \in [ZeroCopy -> ZLabels] /\ current_read \in [ZeroCopy -> Index]
  /\ kick_count \in [ZeroCopy -> Nat]
  /\ got \in [Consumers -> Byte] /\ finished \in BOOLEAN
  /\ sent \in Seq(Byte) /\ delivered \in Seq(Byte)

\* The ring is drained by one thread: what rd_idx, which no lock protects, needs.
SoleConsumer == \A c, d \in Consumers : c = d

\* Bytes between rd_idx and wr_idx, and the slot of the k-th of them (from 0).
Occupancy == IF wr_idx >= rd_idx THEN wr_idx - rd_idx ELSE wr_idx - rd_idx + Capacity
Slot(k) == IF rd_idx + k < Capacity THEN rd_idx + k ELSE rd_idx + k - Capacity

\* The spinlock covers the four positions of dev_write between lock and unlock and
\* the whole loop of a push, and the index computed under it is still the next one.
LockInv ==
  /\ \A w \in Writers :
       /\ wpc[w] \in WLocked <=> lock = w
       /\ wpc[w] \in WLocked => next_idx[w] = NextIdx(wr_idx)
  /\ \A p \in Pushers :
       /\ ppc[p] \in PLocked <=> lock = p
       /\ ppc[p] \in {"store", "commit"} => next_idx[p] = NextIdx(wr_idx)

\* A producer past its full test still has room, although consumers move rd_idx
\* without the lock; before the wr_idx store its byte is in the slot it will publish.
ProducerInv ==
  /\ \A w \in Writers :
       /\ wpc[w] \in {"store", "commit"} => ~IsFull(next_idx[w])
       /\ wpc[w] = "commit" => char_buffer[wr_idx] = Msg[w][written[w] + 1]
  /\ \A p \in Pushers :
       /\ ppc[p] \in {"store", "commit"} => ~IsFull(next_idx[p])
       /\ ppc[p] = "commit" => char_buffer[wr_idx] = Metric[p][pushed[p] + 1]

\* A consumer past its empty test still has a byte, and the byte it copied is still
\* the one in the ring when it stores rd_idx.
ConsumerInv ==
  /\ \A r \in Readers :
       /\ rpc[r] = "cmp" /\ snapshot[r] # rd_idx => rd_idx # wr_idx
       /\ rpc[r] \in {"put", "inc", "commit"} => rd_idx # wr_idx
       /\ rpc[r] \in {"inc", "commit"} => got[r] = char_buffer[rd_idx]
       /\ rpc[r] = "commit" => snapshot[r] = NextIdx(rd_idx)
  /\ \A z \in ZeroCopy :
       /\ zpc[z] \in {"load_wr", "data", "commit"} => current_read[z] = rd_idx
       /\ zpc[z] \in {"data", "commit"} => rd_idx # wr_idx
       /\ zpc[z] = "commit" => got[z] = char_buffer[rd_idx]

\* Every byte accepted is either delivered, in order and once, or still in the ring
\* in its slot: lock-free reads and locked writes never lose, repeat or overwrite one.
RingInv ==
  /\ Len(sent) = Len(delivered) + Occupancy
  /\ \A k \in 1 .. Len(delivered) : delivered[k] = sent[k]
  /\ \A k \in 0 .. Occupancy - 1 : char_buffer[Slot(k)] = sent[Len(delivered) + k + 1]

\* The inductive invariant: the ring's contents together with what each thread may
\* rely on between its reads of the shared indices and its next store.
IndInv == TypeOK /\ LockInv /\ ProducerInv /\ ConsumerInv /\ RingInv

\* The tenant implements the bounded FIFO byte stream; one slot always stays empty.
BS == INSTANCE ByteStream WITH Bound <- Capacity - 1
Stream == BS!Spec

\* A metric is pushed in one critical section: its bytes, as far as they fit, are
\* adjacent in the stream however dev_write calls interleave.  (Distinct bytes.)
MetricFramed ==
  \A p \in Pushers : \A k \in 1 .. Len(sent) : \A j \in 2 .. Len(Metric[p]) :
    sent[k] = Metric[p][j] => k > 1 /\ sent[k - 1] = Metric[p][j - 1]

\* A writer queued for a wake-up has WRITER_ASLEEP up: the only thing a zero-copy
\* consumer looks at before it kicks.
SleeperFlagged == \A w \in waitq : wpc[w] = "asleep" => asleep_flag

\* dev_read has read something and is on its way to its wake-up.
WakeDue == \E r \in Readers : rpc[r] \in {"loop", "cmp", "end"} /\ bytes_read[r] > 0

\* A writer asleep in the queue of an empty ring has its wake-up before it: it never went
\* to sleep over a rd_idx that dev_read, which takes no lock, had moved and announced already.
NoLostWakeup == \A w \in waitq : wpc[w] = "asleep" /\ rd_idx = wr_idx => WakeDue

\* Every consumer has left its loop: no one drains the ring any more.
Undrained == (\A r \in Readers : rpc[r] = "done") /\ (\A z \in ZeroCopy : zpc[z] = "done")

\* Every write() returns: no writer sleeps for ever while its ring is being drained.
WriteReturns == \A w \in Writers : (wpc[w] # "idle") ~> (wpc[w] = "idle" \/ Undrained)

\* Once the producer has finished, consumer() and zero_copy_consumer leave their loops.
ConsumersStop == finished ~> Undrained

\* A consumer that has left its loop has drained the ring.
TailDrained ==
  /\ \A r \in Readers : rpc[r] = "done" => Len(delivered) = Len(sent)
  /\ \A z \in ZeroCopy : zpc[z] = "done" => Len(delivered) = Len(sent)

\* A write() that a signal interrupts is started again only if it has published
\* nothing: no byte of one call reaches the stream twice.
NoResend == [][\A w \in Writers : WRestart(w) => written[w] = 0]_vars
=============================================================================
