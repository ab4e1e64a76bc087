----------------------------- MODULE Lifecycle -----------------------------
(***************************************************************************)
(* Who holds what while modules and programs come and go.                  *)
(*                                                                         *)
(* The base module (kernel/telemetry_base.c) allocates the shared page and *)
(* registers the devices; the tenant modules (net_filter, block_filter)    *)
(* hang callbacks into the kernel that write the page; programs open and   *)
(* map it; cat reads /dev/telemetry_net (kernel/telemetry_net.c).  Every   *)
(* step that can fail may fail.                                            *)
(*                                                                         *)
(* Of the kernel: a module whose file is open or mapped, or whose symbols  *)
(* another module uses, cannot be removed; removing one that failed to     *)
(* initialise waits for nobody; a callback that was unregistered is over   *)
(* before its module is gone; a module being removed cannot be opened.     *)
(***************************************************************************)
EXTENDS Sequences

CONSTANTS
  Clients,      \* netfilter_main and blockfilter_main processes
  ZeroCopies,   \* zero_copy_consumer threads of the benchmark
  Streams,      \* its producer and consumer threads: dev_write and dev_read
  Cats,         \* cat /dev/telemetry_net
  Tenants       \* net_filter and block_filter

Users == Clients \cup ZeroCopies \cup Streams \cup Cats

ASSUME UsersAssumption ==
  /\ Clients \cap (ZeroCopies \cup Streams \cup Cats) = {}
  /\ ZeroCopies \cap (Streams \cup Cats) = {} /\ Streams \cap Cats = {}

VARIABLES
  init,     \* the base module: "out", the next step of its init, "live", "failing", "exit"
  held,     \* what its init has acquired and not given back
  undo,     \* what a failing init or an exit has still to give back, in order
  tenant,   \* each tenant module: "out", "init", "live", "exit"
  hooked,   \* tenants whose callback is registered
  inside,   \* tenants whose callback is running on some CPU
  user      \* each program: its position and what it holds

base == <<init, held, undo>>
kernel == <<base, tenant, hooked, inside>>
vars == <<kernel, user>>

\* A program that does not run: no open file, no mapping, no context, no page_buf.
Idle == [pc |-> "idle", file |-> FALSE, mapped |-> FALSE, ctx |-> FALSE,
         ppos |-> FALSE, page_buf |-> FALSE]

Init ==
  /\ init = "out" /\ held = {} /\ undo = <<>>
  /\ tenant = [t \in Tenants |-> "out"] /\ hooked = {} /\ inside = {}
  /\ user = [u \in Users |-> Idle]
-----------------------------------------------------------------------------
(* telemetry_base_init and telemetry_base_exit *)

\* One step of init: it acquires r and goes on to the step `to`.
Acquire(from, r, to) ==
  /\ init = from
  /\ init' = to /\ held' = held \cup {r}
  /\ UNCHANGED <<undo, tenant, hooked, inside, user>>

InitPage   == Acquire("out", "page", "region")
InitRegion == Acquire("region", "region", "cdev")
InitCdev   == Acquire("cdev", "cdev", "class")
InitClass  == Acquire("class", "class", "nodes")

\* The results of the six device_create calls are not looked at.
InitNodes == Acquire("nodes", "nodes", "live")

\* From this step on the calls give back, one after the other, what they name.
GiveBack(from, why, calls) ==
  /\ init = from
  /\ init' = why /\ undo' = calls
  /\ UNCHANGED <<held, tenant, hooked, inside, user>>

\* The error paths of alloc_chrdev_region and cdev_add.
RegionFails == GiveBack("region", "failing", <<"page">>)
CdevFails   == GiveBack("cdev", "failing", <<"region", "page">>)

\* Mutant: a failed class_create leaves the region registered.
ClassFailsKeepsRegion == GiveBack("class", "failing", <<"cdev", "page">>)

\* Mutant: a failed class_create frees the page while the cdev can still be opened.
ClassFailsPageFirst == GiveBack("class", "failing", <<"page", "cdev", "region">>)

\* The error path of class_create.  The cdev has been live since InitCdev.
ClassFails == GiveBack("class", "failing", <<"cdev", "region", "page">>)

Lost(u) == user[u].pc = "lost"

\* Mutant: .owner of the file operations is not set.
PinnedByTenants == \E t \in Tenants : tenant[t] # "out"

\* The base module is in use.
Pinned ==
  \/ \E u \in Users : ~Lost(u) /\ (user[u].file \/ user[u].mapped)
  \/ \E t \in Tenants : tenant[t] # "out"

Exit ==
  ~Pinned /\ GiveBack("live", "exit", <<"nodes", "class", "cdev", "region", "page">>)

\* One of those calls; after the last the module goes.  When a failing init frees the page
\* nobody waits for those who opened the cdev meanwhile: their file operations and their
\* page are gone, and nothing more is said of them.
Undo ==
  /\ undo # <<>>
  /\ held' = held \ {Head(undo)} /\ undo' = Tail(undo)
  /\ init' = IF Tail(undo) = <<>> THEN "out" ELSE init
  /\ user' = [u \in Users |->
                IF init = "failing" /\ Head(undo) = "page" /\ (user[u].file \/ user[u].mapped)
                THEN [user[u] EXCEPT !.pc = "lost"] ELSE user[u]]
  /\ UNCHANGED <<tenant, hooked, inside>>

Base ==
  \/ InitPage \/ InitRegion \/ InitCdev \/ InitClass \/ InitNodes
  \/ RegionFails \/ CdevFails \/ ClassFails \/ Exit \/ Undo
-----------------------------------------------------------------------------
(* The tenant modules *)

Moves(t, from, to) == tenant[t] = from /\ tenant' = [tenant EXCEPT ![t] = to]

\* insmod resolves ring_ptr.
TLoad(t) ==
  /\ Moves(t, "out", "init") /\ init = "live"
  /\ UNCHANGED <<base, hooked, inside, user>>

TRegister(t) ==
  /\ Moves(t, "init", "live") /\ hooked' = hooked \cup {t}
  /\ UNCHANGED <<base, inside, user>>

TRegisterFails(t) ==
  /\ Moves(t, "init", "out")
  /\ UNCHANGED <<base, hooked, inside, user>>

\* Mutant: the exit does not unregister the callback.
TExitHooked(t) ==
  /\ Moves(t, "live", "exit")
  /\ UNCHANGED <<base, hooked, inside, user>>

TExit(t) ==
  /\ Moves(t, "live", "exit") /\ hooked' = hooked \ {t}
  /\ UNCHANGED <<base, inside, user>>

TGone(t) ==
  /\ Moves(t, "exit", "out") /\ t \notin inside
  /\ UNCHANGED <<base, hooked, inside, user>>

\* A packet or a bio: the callback writes the page (NetRing, BlockRing).
TEnter(t) ==
  /\ t \in hooked /\ inside' = inside \cup {t}
  /\ UNCHANGED <<base, tenant, hooked, user>>

TLeave(t) ==
  /\ t \in inside /\ inside' = inside \ {t}
  /\ UNCHANGED <<base, tenant, hooked, user>>

Tenant(t) ==
  TLoad(t) \/ TRegister(t) \/ TRegisterFails(t) \/ TExit(t) \/ TGone(t) \/ TEnter(t) \/ TLeave(t)
-----------------------------------------------------------------------------
(* The programs *)

At(u, label) == user[u].pc = label

\* The first thing a program does.
UStart(u) ==
  /\ At(u, "idle")
  /\ user' = [user EXCEPT ![u].pc = IF u \in Clients THEN "create" ELSE "open"]
  /\ UNCHANGED kernel

\* nt_ctx_create, block_ctx_create: the memory may not be had.
UCreate(u) ==
  /\ At(u, "create")
  /\ \/ user' = [user EXCEPT ![u].pc = "open", ![u].ctx = TRUE]
     \/ user' = [user EXCEPT ![u].pc = "idle"]
  /\ UNCHANGED kernel

\* Where a program that could not open (or map) goes: only a stream does not look.
Failed(u) ==
  IF u \in Clients THEN "destroy" ELSE IF u \in Streams THEN "run" ELSE "idle"

Opened(u) ==
  IF u \in Streams THEN "run" ELSE IF u \in Cats THEN "read" ELSE "map"

\* open of one of the three minors that telemetry_master_open serves: there is
\* something to open from cdev_add to cdev_del, unless the module is being removed.
UOpen(u) ==
  /\ At(u, "open")
  /\ \/ /\ "cdev" \in held /\ init # "exit"
        /\ user' = [user EXCEPT ![u].pc = Opened(u), ![u].file = TRUE]
     \/ user' = [user EXCEPT ![u].pc = Failed(u)]
  /\ UNCHANGED kernel

\* Mutant: a failed mmap leaves the file open.
UMapFailsOpen(u) ==
  /\ At(u, "map")
  /\ user' = [user EXCEPT ![u].pc = Failed(u)]
  /\ UNCHANGED kernel

UMapFails(u) ==
  /\ At(u, "map")
  /\ user' = [user EXCEPT ![u].pc = Failed(u), ![u].file = FALSE]
  /\ UNCHANGED kernel

UMap(u) ==
  /\ At(u, "map")
  /\ user' = [user EXCEPT ![u].pc = IF u \in Clients THEN "spawn" ELSE "run",
                          ![u].mapped = TRUE]
  /\ UNCHANGED kernel

\* pthread_create of the consumer thread.
USpawn(u) ==
  /\ At(u, "spawn") /\ \E to \in {"run", "unmap"} : user' = [user EXCEPT ![u].pc = to]
  /\ UNCHANGED kernel

\* The loop is over (CharRing, NetRing, BlockRing) and its thread joined.
UStop(u) ==
  /\ At(u, "run")
  /\ user' = [user EXCEPT ![u].pc = IF u \in Streams THEN "close" ELSE "unmap"]
  /\ UNCHANGED kernel

\* telemetry_shutdown, or the end of zero_copy_consumer.
UUnmap(u) ==
  /\ At(u, "unmap")
  /\ user' = [user EXCEPT ![u].pc = "close", ![u].mapped = FALSE]
  /\ UNCHANGED kernel

UClose(u) ==
  /\ At(u, "close")
  /\ user' = [user EXCEPT ![u].pc = IF u \in Clients THEN "destroy" ELSE "idle",
                          ![u].file = FALSE]
  /\ UNCHANGED kernel

UDestroy(u) ==
  /\ At(u, "destroy")
  /\ user' = [user EXCEPT ![u].pc = "idle", ![u].ctx = FALSE]
  /\ UNCHANGED kernel

\* The process is killed: the kernel takes back all but a page_buf in use.
Kill(u) ==
  /\ ~At(u, "idle") /\ ~Lost(u) /\ ~user[u].page_buf
  /\ user' = [user EXCEPT ![u] = Idle]
  /\ UNCHANGED kernel
-----------------------------------------------------------------------------
(* cat: telemetry_net_read until it returns 0 or an error *)

\* A new read: at the end of the dump, or out of memory; or it has a page_buf.
CatRead(u) ==
  /\ At(u, "read")
  /\ \/ user' = [user EXCEPT ![u].pc = "end"]
     \/ ~user[u].ppos /\ user' = [user EXCEPT ![u].pc = "format", ![u].page_buf = TRUE]
  /\ UNCHANGED kernel

\* Mutant: *ppos is left untouched, as the comment before the return has it.
CatCopyStays(u) ==
  /\ At(u, "format")
  /\ \E to \in {"read", "end"} :
       user' = [user EXCEPT ![u].pc = to, ![u].page_buf = FALSE]
  /\ UNCHANGED kernel

\* The slots have been formatted; the text does not fit or cannot be copied, or it was
\* copied and *ppos is past it.
CatCopy(u) ==
  /\ At(u, "format")
  /\ \/ user' = [user EXCEPT ![u].pc = "end", ![u].page_buf = FALSE]
     \/ user' = [user EXCEPT ![u].pc = "read", ![u].page_buf = FALSE, ![u].ppos = TRUE]
  /\ UNCHANGED kernel

CatEnd(u) ==
  /\ At(u, "end")
  /\ user' = [user EXCEPT ![u].pc = "idle", ![u].file = FALSE, ![u].ppos = FALSE]
  /\ UNCHANGED kernel

Cat(u) == CatRead(u) \/ CatCopy(u) \/ CatEnd(u)

Program(u) ==
  \/ UStart(u) \/ UCreate(u) \/ UOpen(u) \/ UMapFails(u) \/ UMap(u) \/ USpawn(u)
  \/ UStop(u) \/ UUnmap(u) \/ UClose(u) \/ UDestroy(u)
-----------------------------------------------------------------------------
Next ==
  \/ Base
  \/ \E t \in Tenants : Tenant(t)
  \/ \E u \in Users : Program(u) \/ Kill(u)
  \/ \E u \in Cats : Cat(u)

Spec == Init /\ [][Next]_vars

\* A cat that has started runs on; nothing else has to happen.
FairSpec == Spec /\ \A u \in Cats : WF_vars(Cat(u))
-----------------------------------------------------------------------------
(* Properties *)

Resource == {"page", "region", "cdev", "class", "nodes"}
Label == {"idle", "create", "open", "map", "spawn", "run", "unmap", "close", "destroy",
          "read", "format", "end", "lost"}

\* Type invariant; a callback is registered only while its module is live.
TypeOK ==
  /\ init \in {"out", "region", "cdev", "class", "nodes", "live", "failing", "exit"}
  /\ held \subseteq Resource /\ undo \in Seq(Resource)
  /\ tenant \in [Tenants -> {"out", "init", "live", "exit"}]
  /\ hooked \subseteq {t \in Tenants : tenant[t] = "live"} /\ inside \subseteq Tenants
  /\ user \in [Users -> [pc : Label, file : BOOLEAN, mapped : BOOLEAN, ctx : BOOLEAN,
                         ppos : BOOLEAN, page_buf : BOOLEAN]]

\* Each of the three error paths of init, and exit, matches what was acquired before it:
\* a module that is gone has left nothing, and nothing is given back twice or unacquired.
NothingLeft ==
  /\ init = "out" => held = {}
  /\ undo # <<>> => Head(undo) \in held

\* The page outlives everybody who may touch it: programs that have it mapped, reads and
\* writes through an open file, cats that format it, callbacks of the tenants; whatever
\* is loaded, removed, killed or fails meanwhile.  (The lost, whom a failing init has
\* left behind, are the exception.)
UsersHavePage ==
  /\ \A u \in Users : ~Lost(u) /\ (user[u].file \/ user[u].mapped) => "page" \in held
  /\ inside # {} => "page" \in held

\* A program that has returned, by whatever path, holds nothing.
ReleasedOnReturn == \A u \in Users : At(u, "idle") => user[u] = Idle

\* cat gets to the end of the dump instead of looping for ever.
CatTerminates == \A u \in Cats : At(u, "read") ~> (At(u, "idle") \/ Lost(u))
=============================================================================
