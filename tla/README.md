# A TLA+ verification project for OpenASD

OpenASD is an x86-64 kernel with its boot loader, init, installer and a small
userland. This directory models the parts of the kernel in which correctness
depends on an order of steps: what two sides of a shared buffer see of each
other, who is on which stack when a process ends, which count belongs to which
reference, what a power failure leaves on disk. TLC checks the models on small
instances; TLAPS proves the ring buffer correct for all sizes.

All paths below are relative to the repository; line numbers of single
definitions are in `PROJECT.json` under `map`.

## How to run

    tlc -config MCSched_life.cfg MCSched      # any run: its cfg, its module
    tlapm RingBufProofs.tla                   # the proofs

Runs named *violation* in `PROJECT.json` end with a counterexample: they show
that the code does something else than a comment of the code says.

## 1. The system

What each part keeps, what it offers, and what makes it hard. Parts in bold
are modelled.

| Part | State | Operations | What is hard about it |
|---|---|---|---|
| **Ring buffer** `kernel/ipc/ringbuf.h` | two indices, slots | push, pop, batches | lock-free, each side works on an index the other moved since |
| Ports `kernel/ipc/port.c` | table of ports, one ring and one waiter each | open, close, send, recv | sleep and wake-up, large messages kept on the heap, close while someone sleeps |
| **Scheduler** `kernel/sched/sched.c` | process table, run queue, current process, *one* jump buffer | spawn, reap, exit, yield, tick, signals | hand-over of the CPU by longjmp, reuse of slots and pids, freeing the stack one runs on |
| **Descriptors** `kernel/vfs/vfs.c` | node table with counts, a descriptor table per process | open, close, pipe, dup2, inherit, close_all | counts over inheritance, duplication and exit; undoing half a call |
| VFS paths and data `kernel/vfs/vfs.c` | mounts, offsets, pipes | mount, read, write, seek, stat, canonicalize | longest mount prefix, pipes without a ring |
| RAM filesystem `kernel/vfs/ramfs.c` | table of files on the heap | open, read, write, truncate | one file truncated under another open |
| **FFS** `kernel/vfs/ffs.c` | bitmaps, inodes, blocks, open contexts | format, mount, open, write, truncate, mkdir, unlink | a crash between any two disk writes |
| FAT32 `kernel/vfs/fat32.c` | FAT, clusters | mount, find, read, fat_set | chains and long names |
| **Page allocator** `kernel/mm/mm.c` | free lists, page_info | init, alloc, free | split and merge on stale page_info |
| **Heap** `kernel/mm/mm.c` | slabs with bitmap and count | kmalloc, kfree | header found from an address, double free |
| Address spaces, shared memory `kernel/mm/mm.c` | page tables, a pool, a table of segments | vmap_create, vmap_destroy, shmap, shunmap | pool never reclaimed, shared pages unmapped for all |
| System calls, traps `kernel/arch/` | per call | dispatch, copy_from_user, signals | interrupts are off inside a call |
| virtio-blk, virtio-net `kernel/drv/` | descriptor rings shared with the device | submit, poll, send, receive | a timeout, then the late answer |
| Network `kernel/net/net.c` | ARP cache, UDP queue, TCP connections | ARP, ICMP, UDP, TCP, DNS | loss, reordering, duplicates, no retransmission |
| TLS `kernel/net/tls.c` | session keys | connect, send, recv | order of the handshake |
| Drivers `kernel/drv/adf.c`, keyboard `ps2kbd.c` | module table, key ring | load, unload; interrupt, getc | clean-up of a failed attach; interrupt against reader |
| Users, security `kernel/usr`, `kernel/security` | user table, audit ring, failure counters | login checks, rate limit | windows and lockouts, limits of tables |
| Block layer, GPT `kernel/block` | devices, partitions | register, read the table | check sums, bounds |
| Init, services, shell, installer `init/` | service states, descriptors of the shell, user file | waves, restarts, pipes, installation | order of dependencies, stdio restored, crash between two writes |
| Package manager `userland/bin/apm.c` | package database, files | install, delete, upgrade | cycles, half an installation |
| Boot loader, console, userland tools, scripts | | | straight-line code or output; not modelled |

**How they interact.** `entry.c` starts one CPU, the page allocator, heap, VFS
and drivers, and then the init thread, which is a static pcb outside the
process table and runs the kernel shell. The shell opens descriptors, spawns
(which inherits descriptors, takes a kernel stack from the heap and an address
space from the page allocator) and reaps; an exit closes descriptors and
returns memory. FFS sits under the VFS and on the block layer. Ports are built
on the ring buffer. Pipes are meant to be: `vfs_pipe` asks for a ring of
one-byte slots, which `ringbuf_init` refuses, and ignores the answer
(`vfs.c:662`).

**Concurrency.** There is one CPU. System calls run with interrupts off, the
timer never preempts (see below), and file operations hold `g_vfs_lock`. So a
call is one step up to the point where control passes to another process. The
ring buffer is written for two sides that run at the same time (two CPUs, or a
driver and a program), and is modelled so.

## 2. Modules

`RingBuf`, `Sched`, `VfsFd`, `Buddy`, `Slab` and `Ffs` stand for themselves:
state as variables, one action per operation. The `MC*` modules only hold the
constants of the runs. Definitions whose comment starts with *Faulty* are
versions with a plausible mistake. No action uses them; they serve to show that
each property notices such a mistake.

### RingBuf, BoundedFifo, RingBufProofs

Each access to memory the other side may touch is an action. `PushCall` reads
the own index, `PushLoad` the opposite one and decides, `PushCopy` copies one
unit of the `memcpy`, `PushStore` publishes; likewise for pops. Single and
batch calls share the actions and differ in the decision: a single push on a
full ring returns, a batch is cut to the free slots and stores an unchanged
index when there are none. The acquire and release orders of the code keep
each side's accesses in program order, which makes interleaving exact. Units
stand for the bytes of a slot. Indices are unbounded (64 bits in the code).

`BoundedFifo` is what a user of the ring relies on: messages accepted arrive
whole, once, in order, and never more than the capacity are under way. A pop
with a short buffer gets a prefix, one with a long buffer gets old slot
contents behind the message; both are in `Agree`.

### Sched

Pcbs are the slots of `g_proc_table` plus the static `Boot` (init thread) and
`Idle`. `Reap` stores the caller in `g_reap_waiter` and `g_reap_jmp` and runs
the child; `ExitToWaiter` is the path of `sched_exit` that jumps back, whose
continuation is `ReapFinish`; `ExitToNext` is the other path. A system call
ends with `CheckSignals`, which acts on SIGKILL and SIGTERM. `Spawn` covers
`macho_spawn` with both failures: no kernel stack, and a pid beyond
`MAX_PROCS`. `frame` keeps the locals of a suspended `sched_reap`.

Nothing ties a wait to a child: `Reap` takes any pid, the caller's own, that of
an ancestor suspended in a wait and one that was reused. A wait for a process
that is running (or suspended, which has the same state) marks it dead and
frees its stack at once. The history variable `misreaped` records the first
such wait. `held` and `gave` record which spawn the init thread got a pid from
and what the last exit passed on. `Yield` is part of `YieldSpec` only, since no
behaviour continues after it.

### VfsFd

`Open`, `OpenKernel`, `Close`, `CloseKernel`, `Pipe`, `Dup2`, `Spawn`
(inherit), `Exit` (close_all). `CloseStray` is a `vfs_close` of a node's number
by a caller that does not have it: `sys_close` passes numbers from `MAX_FDS` on
to the kernel's lookup. `MarkDead` is a process that dies without
`vfs_close_all`, in `svcmgr_stop_all` or `sched_reap`. Node slots are searched from `g_next_node_id`
as in `alloc_node_id`; counts are taken modulo `RefMod`. Descriptors below
`FirstFd` are stdio. They are not closed at exit, and what they referred to is
lost when the pcb slot is cleared: `leaked` counts that. A spawn without a
kernel stack leaves its slot, with the inherited descriptors, in `stuck`. The
history variables `strays` and `abandoned` name the nodes closed by strangers or
taken for both ends of a pipe, and the slots marked dead.

### Buddy

Addresses are page numbers, a free list is a set (any block of it may be the
head). `page_info` changes only where the code writes it, so merged and split
blocks leave stale entries behind, and `Merges` reads them as the loop of
`amm_phys_free` does. The entries of the memory map are freed one by one and
never merged with each other, as `amm_phys_init` does.

### Slab

Slabs in order of creation; `FirstClear` returns slot 0 when no bit is clear,
as the loop of `kmalloc` does. The sizes 4096, 64 and 288 are those of the
code. Blocks above 4096 bytes come from the page allocator (`KmallocLarge`,
`KfreeLarge`). `KfreeSecondPage` is what happens to an object that lies in the second
page of a slab: some other object's words are taken for a header, which is a
choice between the outcomes those words may cause.

### Ffs

An operation is computed as a whole on a copy of the state, along the code's
calls, and yields the list of its disk writes (`log`). `Flush` carries out the
next one; `Crash` may come between any two, drops the rest and the memory, and
mounts again. Sizes and offsets count blocks.

The inode bitmap has `ImapBits` bits, the inode count rounded up to whole
bytes: a number from `NInodes` on can be allocated, is refused by
`write_inode`, and stays marked for good. Likewise a block from `TotalBlocks` on
is never freed. A path may lead through a regular file, whose blocks are then
taken for directory blocks: a new name goes over data that looks like an empty
block or into a new block. Data that spells out directory entries is left out.

`op` and `torn` record whether a crash hit a truncation after its first free.
`outdated` records the first write through a context whose copy of the inode is
no longer the inode on disk: the file was opened and truncated a second time,
unlinked, or had a name entered in it since. `gen` tells a file from an earlier
one with the same inode number.

## 3. Runs

Twelve runs. The distinct states of passing runs, for orientation:

| Run | Question | Bounds | States |
|---|---|---|---|
| `ring` | Is the ring a bounded FIFO, does it deliver? | 2 slots of 2 units, items of 1 to 3 units, batches up to 2, 3 messages | 120,840 |
| `sched_life` | Are queue, count, status and stacks right over the life of processes? | 3 slots, 4 spawns, 2 exit codes, both signals, stack failures | 496,812 |
| `sched_nested_wait` | Does every wait return? (*violation*) | 4 slots | |
| `sched_yield` | Does yield return? (*violation*) | 4 slots | |
| `vfs_refs` | Are counts and references consistent? | 2 processes, 3 descriptors (1 stdio), 3 nodes, 3 opens, 1 loss | 389,018 |
| `vfs_self_dup` | May dup2 name one descriptor twice? (*violation*) | 3 descriptors | |
| `buddy` | Are pages neither lost nor shared? | 12 pages, orders 0 to 2, unaligned map, three entries adjacent | 4,356 |
| `slab` | Are objects neither shared nor lost? | 3 slabs of 1024- and 2048-byte objects, 1 large block | 22,066 |
| `slab_eight_bytes` | The same for 8 bytes (*violation*) | 1 slab | |
| `slab_two_pages` | Can a freed object be used again? (*violation*) | 2 slabs | |
| `ffs_crash` | Is the tree sound after a crash? | 3 inodes and 1 bit past them, 5 blocks, 1 direct and 2 indirect pointers, paths of 2 names, 5 writing operations and crashes | 278,751 |
| `ffs_partition` | Do files stay in the partition? (*violation*) | 5 operations | |

**Why the bounds are enough.**
- Ring: the indices wrap around the slots, a batch spans the wrap, is cut short
  and meets full and empty rings. Items and buffers are shorter than, equal to
  and longer than a slot.
- Scheduler: slots and pids are reused, the table fills up, pids pass
  `MAX_PROCS`, and either init alone or everybody waits. `ReaperSets` chooses
  which, once per behaviour.
- Descriptors: nodes and descriptors run out and node numbers wrap around. A
  pipe finds too few descriptors and undoes its work, or one node for both ends.
  A reference, a slot or a node is lost at most once (`MaxLosses`), and the
  table entries that dup2 and spawn add are bounded. Processes are interchangeable, so symmetry
  over them is sound; no liveness is checked there.
- Buddy: merges over two orders, regions that start and end unaligned, buddies
  that boot leaves apart in adjacent regions, and exhaustion.
- Slab: a slab fills, a new one is made, objects are freed twice.
- FFS: the disk runs out of blocks and of inodes in the middle of an operation.
  Directories grow by a block, files reach the indirect block, and freed blocks
  are used again by another file (create, write, unlink, create, write). There
  is one context, but other opens of its file, those that fail for want of
  memory, come at any time. A crash counts as an operation; since the properties
  are about the disk at every moment, a crash in the last operation would show
  nothing new.

**What the properties say.**
- `NoSlotRace`, `Bounded`, `QueuedIntact`, `ImplementsFifo`: the ring.
  `PushTerminates` and `AllDelivered` are its liveness.
- `QueueExact`: the run queue holds exactly the READY processes, in the tree of
  their class. `ProcCountExact`: the process count. `StacksInUse`: nobody
  returns to a freed stack. These three hold until the first wait for a running
  or suspended process (`misreaped`), and TLC finds each violated after one.
  Where only init waits, `ReapedExitCode`: it gets the status of the very spawn
  that gave it the pid, although slots and pids are reused;
  `FlatReapReturns`, `BootResumes`: its waits return.
- `NoDangling`, `RefExact`: references and counts, for all nodes but strays.
  `ContextsClosed`: a node has its backend context open exactly while it is in
  use. `NodesReturned`: a node that nobody can close any more was lost in one of
  four named ways.
- `Disjoint`, `Covered`, `FreePagesExact`, `Coalesced`, `InfoExact`: pages.
  `InfoExact` is the reason the others hold although `page_info` goes stale: a
  stale FREE entry lies strictly inside a larger block. `Coalesced` is about
  steps: boot leaves free buddies apart where two map entries meet, and no
  allocation or free adds such a pair.
- `NoDoubleHandout`, `FreeCountExact`, `MarkedWhileHeld`: objects. A second
  kfree is told apart until the object is handed out again; after that it looks
  like the new holder's own. Objects in a second page are left to `BitmapExact`.
- `ReachableMarked`: what the tree refers to is marked on disk at every moment.
  `NoSharing`: no block has two owners, no inode two names. `NoStaleData`: a
  file shows only what was written to it since it was created. They hold until
  a crash cuts a truncation short (`torn`) or a context writes through an
  outdated inode (`outdated`); without either exception TLC finds each of the
  three violated. `NamesAtomic`: an operation changes the names by one disk
  write, so a crash leaves all of it to be seen or nothing.

**Fairness.** `RingBuf`: a side inside a call keeps running it, weak fairness
of its steps, since a call is straight-line code with bounded loops and takes
no lock. `AllDelivered` also needs a consumer that keeps calling with a buffer
that fits. This is strong fairness, because the consumer may spend its turns on
other calls in between, and it is an assumption about the user of the ring:
`port_recv` is written to poll until `ringbuf_pop` succeeds, but sleeps through
`sched_yield`, which does not return (finding 2).
`Sched`: the kernel finishes its own steps (`ReapFinish`, `CheckSignals`,
weak), and a foreground process ends (`Exit`, strong). The latter is an
assumption about programs, without which no wait could return. The other
modules state safety only.

## 4. Proofs

`RingBufProofs` proves, for every slot count that is a power of two and at
least 2, every slot size, set of messages, buffer sizes and bounds
(`RingAssumption`, the checks of `ringbuf_init`):

- `RingInvariant`: `Spec => []IInv`;
- `RingTypeOK`, `RingBounded`, `RingQueuedIntact`, `RingNoSlotRace`: the
  invariants the run checks;
- `RingImplementsFifo`: `RingBuf` implements `BoundedFifo`.

**The argument.** `Bounded` and `QueuedIntact` are not inductive: a push
decides on a `read_idx` that is old when it copies. `IInv` adds what each side
knows in the middle of a call. `ProducerInv`: the slots it fills are within
`SlotCount` of the *current* `read_idx` (which can only have grown since it was
loaded), and what is copied so far is in them. `ConsumerInv`: the slots it
reads are below the current `write_idx`, and its buffer agrees with what was
sent. `HistoryInv` ties the indices to the histories. The arithmetic core is
`SlotOfInjective`: two indices in a window of `SlotCount` indices have
different slots. With it a copy of one side never touches a slot of the other
(`NoSlotRace`), so each invariant survives the steps of the opposite side. There
is one lemma per action. For the refinement `PushStore` maps to `Put`,
`PopStore` to `Get`, everything else to a stutter.

**Only model-checked.** The liveness properties (fairness is outside the
prover) and all properties of the other modules. The invariants of `VfsFd`,
`Slab`, `Sched` and `Buddy` are to be proved next, see section 7.

## 5. Findings

Each is shown by a run that ends in a counterexample; `PROJECT.json` quotes the
comment the code contradicts.

1. **A wait inside a wait is lost** (`sched_nested_wait`). The jump buffer and
   the waiter are single globals. A process that waits for a child while its
   own parent waits overwrites them; when it ends, its parent is not resumed.
2. **`sched_yield` locks twice** (`sched_yield`). It holds the run queue lock
   when it calls `sched_enqueue`, which takes it.
3. **`dup2(fd, fd)` frees the node** (`vfs_self_dup`).
4. **The 289th 8-byte object is the first one again** (`slab_eight_bytes`).
   The free count is set from a capacity that is cut afterwards.
5. **Objects in the second page of a slab are not freed** (`slab_two_pages`).
6. **FFS allocates blocks behind the partition** (`ffs_partition`). The bitmap
   has a bit per block of the partition, but bits count from the data area.

## 6. Known deviations without a run

Met while modelling; the models behave like the code, and no property claims
otherwise.

- A pop with a short buffer drops the rest of the message (`ringbuf.h:137`).
- `sched_spawn` may return a pid `sched_find` does not know (`sched.c:594`).
- SIGCHLD for init goes to the table process that has pid 1 (`sched.c:674`).
- The timer never preempts: no deadline is ever set before the first switch
  (`sched.c:543`), while `documentation/01-architecture.md` describes quanta.
- `sched_reap` of a process that is neither ready nor dead does not wait but
  declares it dead (`sched.c:793`), the caller itself included. The properties
  of `Sched` except what follows (`misreaped`).
- `svcmgr_stop_all` marks processes dead in the run queue (`svcmgr.c:314`). It is
  in `VfsFd`, not in `Sched`.
- `vfs_close` takes the number of any node in use from any process
  (`vfs.c:288`); the node is then a stray.
- A process marked dead keeps its descriptors until its slot is reused.
- A spawn without a kernel stack leaves a slot PROC_NEW for good
  (`sched.c:642`).
- Descriptors 0 to 2 stay referenced after an exit (`vfs.c:322`).
- `vfs_pipe` may get one node for both ends when one is free (`vfs.c:667`); the
  node is then a stray.
- Adjacent entries of the memory map are never merged (`mm.c:142`).
- Page 0 and "out of memory" are the same answer (`mm.c:236`, `mm.c:240`).
- An FFS truncation frees blocks on disk before the inode stops listing them
  (`ffs.c:486`). `ReachableMarked`, `NoSharing` and `NoStaleData` except a crash
  in that window.
- An FFS create below a missing directory enters the name in the last directory
  that was found (`ffs.c:410`), one below a regular file in that file's data
  (`ffs.c:443`).
- Opens of one FFS file work on copies of its inode (`ffs.c:507`), and an unlink
  does not look for opens (`ffs.c:724`). A write through an outdated copy breaks
  `ReachableMarked`, `NoSharing` and `NoStaleData`, which except it.
- An inode number past the table stays marked for good (`ffs.c:178`), and so does
  a block past `total_blocks` (`ffs.c:161`).

## 7. Plan

In order. Each step adds one module, its run and its map entries.

1. `Ramfs` and the data half of the VFS (offsets, pipes, mounts); a composition
   `ShellExec` of the shell's redirection with `VfsFd` and `Sched`.
2. `VMap`: address spaces and shared memory over the page allocator.
3. `VirtioBlk`: requests, timeout, late completion, retry; `Ffs` above it with
   device errors. `VirtioNet` likewise.
4. `Tcp` over a network that loses, duplicates and reorders, with an abstract
   byte stream as specification. ARP and UDP queues.
5. `Port` over the ring buffer, the keyboard ring, the driver framework.
6. Pure algorithms against a reference: path canonicalization, mount prefix,
   check sums, service waves, red-black tree, GPT and FAT parsing, user file.
7. Service manager, rate limiter, installer and package transactions.
8. Proofs: type correctness and `RefExact` with `NoDangling` for `VfsFd`;
   `FreeCountExact` and `NoDoubleHandout` for `Slab`; `ProcCountExact` and
   `QueueExact` for `Sched`; `Disjoint` and `InfoExact` for `Buddy`.

Abstract specifications to come: a byte stream for `Tcp`, a set of files with
contents for `Ramfs` and `Ffs`, atomic sectors for `VirtioBlk`.

## 8. Not modelled

Cryptographic arithmetic (TLS) and entropy are beyond model checking. Console,
boot loader, command line tools, the editor and the scripts are sequential
input and output. `PROJECT.json` lists every part with its status and reason,
and the hazards of the code with the property that covers each or the reason
none does yet.
