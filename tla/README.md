# TLA+ models of the CS537 operating-systems projects

The repository holds the solutions of six course projects.  Five of them are
systems in which the order of steps, or what a failing step leaves behind,
decides whether they are right: a writer-priority lock and a bounded buffer (P5),
a file system in user space (P6), a shortest-time-to-completion scheduler in xv6
(P3), the mapping of devices and huge pages (P4) and a shell (P2).  The sixth is
sequential: a sorter and a system call (P1).

This directory models P5, both sides of the P6 file system (the structure of the
image and what its files contain), the processes and the scheduler of P3, the
address spaces of P4 and the shell of P2 and checks all of them with TLC.  With
TLAPS it proves the safety properties and the refinements of P5 for every number
of threads and every capacity, those of P3 for every number of processes and
processors, those of the image of P6 for every size and any number of kills and
those of its files for all sizes, names and data, those of the address spaces of
P4 for all page sizes, memories and arguments, and those of the shell for any
script and any hash function.
The plan at the end says what comes next.

## 1. Inventory

| Component | State | Operations | What is hard | What makes it correct |
|---|---|---|---|---|
| Schedule board, P5 `readers_writers.c`, `sync_utils.c` | `rwlock_t`: mutex `m`, semaphore `wlock`, `readers`, `writers_waiting`, `writer_active`; `schedule_version`; the instrumentation counters | `rw_rlock`, `rw_runlock`, `rw_wlock`, `rw_wunlock`; threads `reader`, `writer`; `schedule_run` | a reader sleeps on the semaphore with `m` held; readers poll; the permit passes between threads that do not own it | exclusion, no lost update, no deadlock, writer priority, everybody ends, the lock is whole when it is destroyed |
| Snack kitchen, P5 `bounded_buffer.c`, `sync_utils.c` | ring `buf`, `head`, `tail`, mutex, semaphores `empty`, `full`; `tray_counter`; trays on the heap | `bb_put`, `bb_take`, `bb_destroy`; threads `cook`, `attendee`; `snacks_run` | semaphores count outside the mutex; `head = tail` means full and empty; cooks are never joined | each tray has one owner; first in first out; no permit is lost; attendees are served |
| WFS, P6 `wfs.c`, `wfs.h` | the image: superblock, two bitmaps, inode table, blocks; it is a shared mapping and survives the daemon | FUSE handlers `mknod`, `mkdir`, `unlink`, `rmdir`, `read`, `write`, `readdir`, `getattr`, `statfs`, `*xattr` | a handler is many stores; the daemon can be killed between any two; a store can fail after others succeeded; holes in directories are reused | inodes and blocks have one owner; the bitmaps say what is in use; names form a tree; failed calls give back what they took |
| `mkfs`, P6 `mkfs.c` | the image file | `setup_sb`, `wfs_mkfs` | layout arithmetic in `int` | regions do not overlap and fit |
| STCF scheduler, P3 `proc.c`, `trap.c`, `sysproc.c` | process table: `state`, `expectedComplete`, `globalTick`, `skip`, `sleepticks`, `chan`; `ticks`; two locks; `uvmrefcount` | `scheduler`, `yield`, `sched`, `sleep`, `wakeup`, `sleep_proc_notify`, `remain`, `exec2`, `give_cpu`, `fork`, `clone`, `exit`, `wait`, `kill`, `sys_sleep`; timer interrupt | interrupts, lost wakeups, stale `globalTick` and unclamped times, address spaces shared by clones | the runnable process with the least remaining time runs; a forked child first; no wakeup is missed; who sleeps wakes; processes form a tree; memory is freed with its last user |
| Mappings, P4 `sysproc.c`, `vm.c`, `proc.c`, `exec.c`, `kalloc.c` | page tables, `proc.sz`, the free list | `sys_iomap`, `sys_hpmap`, `sys_sbrk`, `fork`, `exec`, `exit` with `mappages`, `hpmappages`, `allocuvm`, `deallocuvm`, `copyuvm`, `freevm` | 32-bit sums; huge and device pages in code written for small ones; allocations that fail half way | no frame is lost but those the code gives up, none is freed twice; the kernel part is kept; no page above `proc.sz` |
| DMA driver, P4 `dma.c`, `task.c` | controller registers, a polled word | `ssd_dma_read`, `ssd_dma_write` | order of stores to a device; the device writes the polled word | a transfer is reported complete only when it is (not modelled: the device is a binary) |
| Shell, P2 `wsh.c`, `hash_map.c`, `dynamic_array.c` | return code, alias table, history, `PATH`, the script's `FILE`; pipes and children | `processCmd`, built-ins, `execCommand`, `runPipe`; `hm_*`, `da_*` | children get copies of the memory but share the offset of the script; partial failure of `fork`/`exec`; pipe ends left open | every child is waited for, pipelines end, lines are executed once, the history is complete, aliases are a dictionary |
| Sorter and `getcwd`, P1 | an array of records; the path in the process | sort, system call | little: sequential | order, bounds |
| P5 driver, xv6 base, tests, binaries | | | | not this repository's own logic |

The components do not call each other: each project is a program of its own.
Within P5 the board and the kitchen share nothing but the source file of their
primitives.  Within P6 `mkfs` writes the state in which `wfs` starts.  Within
P3 the scheduler, the timer interrupt and the system calls share the process
table under `ptable.lock`.

## 2. Modules

| Module | What it is |
|---|---|
| `ScheduleBoard` | abstract: readers read together, one writer publishes alone, announced writers come first |
| `RWLock` | the lock and its threads, implements `ScheduleBoard` |
| `RWLockProofs` | theorems about `RWLock` |
| `TraySupply` | abstract: trays go through a bounded queue from hand to hand and are freed once |
| `Snacks` | the bounded buffer and its threads, implements `TraySupply` |
| `SnacksProofs` | theorems about `Snacks` |
| `Namespace` | abstract: a tree of names in which a call adds or removes one entry at once |
| `WFS` | the image, store by store, and the kills of the daemon; implements `Namespace` |
| `WFSProofs` | what the root reaches, the inductive invariant of `WFS`, theorems about types, owners, names and the cost of a kill |
| `FileStore` | abstract: files of bytes with sizes and colors, and the times a call sets |
| `WFSFile` | the handlers of WFS over the files of one directory; implements `FileStore` |
| `WFSFileProofs` | owners of blocks, the tapes of the files, the loops of the handlers, the inductive invariant of `WFSFile`, and theorems |
| `ProcessTree` | abstract: what `fork`, `clone`, `exit` and `wait` promise |
| `Stcf` | the process table, the STCF scheduler, sleep and wakeup; implements `ProcessTree` |
| `StcfProofs` | the inductive invariant of `Stcf`, lemmas about its table and its scan, and theorems |
| `Mappings` | address spaces with device and huge pages |
| `MappingsProofs` | what each function of `vm.c` makes of a space and of the free list, and theorems about `Mappings` |
| `Dict` | abstract: one value per name |
| `HashMap`, `DynArray` | the shell's containers as operators |
| `Shell` | `wsh` in batch mode, its children and its pipes; its aliases implement `Dict` |
| `ShellProofs` | lemmas about the alias table and the history, the inductive invariant of `Shell`, and theorems |
| `NatLemmas` | least numbers, recursion over an interval, quotients, loops made of rounds: what the proofs share |
| `MCRWLock`, `MCSnacks`, `MCWFS`, `MCWFSFile`, `MCStcf`, `MCMappings`, `MCShell` | the modules TLC runs; the `.cfg` files give the constants |

Definitions that begin with a comment "A bug of the kind ... must not have", or
"A bug that must not happen", are not part of a specification: each is one
definition with a plausible error put in it, kept beside the right one to show
that the properties see the difference.

### RWLock

`m` is the owner of the mutex, `wlock` the value of the semaphore, `pc[t]` where
thread `t` is.  Locking `m` is a step; what a thread does under `m` up to the
unlock is one step, since nobody else can look; the one place where a thread
sleeps under `m` (`rw_rlock`, `sem_wait` at readers_writers.c:37) is split, so
that the mutex is visibly held while it waits.  `schedule_version++` is a load
and a store.  Lock-add-unlock of the instrumentation mutex is one step; nothing
blocks under it.

| Action | Code |
|---|---|
| `RLockAcquire`, `RBackoff`, `RAdmit`, `RSemWait` | `rw_rlock` |
| `REnter`, `RRead`, `RLeave` | body of `reader` |
| `RUnlockAcquire`, `RDrop` | `rw_runlock` |
| `WAnnounceAcquire`, `WAnnounce`, `WSemWait`, `WRetractAcquire`, `WRetract` | `rw_wlock` |
| `WEnter`, `WLoad`, `WStore`, `WLeave` | body of `writer` |
| `WUnlock` | `rw_wunlock` |
| `RwDestroy`, `Returned` | `schedule_run` |

*Fairness.*  Each thread is weakly fair: the system's scheduler runs a thread
that can run.  Two acquisitions of `m` are strongly fair: a reader's in
`rw_runlock` and a writer's two in `rw_wlock`.  The code gives no first-come
order on the mutex, but the only threads that take `m` over and over are readers
that found `writers_waiting > 0`, and they sleep 100 microseconds with `m` free
before each new attempt (readers_writers.c:31-32), so that somebody who waits
finds `m` free infinitely often *and* uncontended.  Without this assumption the
pollers could keep a writer away from `m` for ever and `AllJoined` would fail.

### Snacks

`empty` and `full` are the semaphores' values, `hand[t]` the tray a thread
holds, `heap` the trays that are allocated.  `malloc` that fails ends the
program and is left out.  `WaitEmpty`, `PutLock`, `Store`, `PostFull` are
`bb_put`; `WaitFull`, `TakeLock`, `Load`, `PostEmpty` are `bb_take`;
`CreateTray` and `FreeTray` the rest of `cook` and `attendee`.  `BbDestroy` and
`Return` are the end of `snacks_run`: the cooks are not joined, so a cook that
touches the buffer between the two takes the step `UseDestroyed` and is entered
in `wild`.  A cook's next step after that is undefined in the code; the model
stops it.

*Fairness.*  Weak, per thread.  It is enough even for the mutex: cooks, the only
threads without an end, stop at a full buffer.

### WFS

FUSE runs the handlers one at a time (`-s`, P6 README.md), so nothing
interleaves with a handler.  What does come between two of its stores is the end
of the daemon; the image is a shared mapping and the next mount finds what was
stored.  A step is therefore one store, or several of which only the last
changes who can reach what (`memset` and `fillin_inode`; an inode's size and
times).  `op` is the running handler, held in the daemon's memory: `Crash`
forgets it and keeps the image.

| Action | Code |
|---|---|
| `Mknod`, `Mkdir` | the handlers up to and with `allocate_inode` |
| `FillInode` | `memset` of the inode, `fillin_inode` |
| `AddRefused`, `AddInHole`, `NameHole`, `AddAtEnd`, `AppendNum`, `NameLast`, `GrowDir` | `add_dentry` |
| `GrowAlloc`, `GrowLink`, `GrowFail` | `data_offset` with `alloc`, `allocate_data_block` |
| `Write`, `WriteBlock`, `WriteSize` | `wfs_write` |
| `Unlink`, `Rmdir`, `ClearName` | `wfs_unlink`, `wfs_rmdir`, `remove_dentry` |
| `FreeBlock`, `FreeInode`, `WipeInode` | `free_block`, `free_inode` |
| `Crash` | the daemon is killed and `main` maps the image again |
| `Unchanging` | a handler that reads only, or fails before its first store |

What is abstracted: a directory's size is counted in entries and a file's in
blocks; what a file's blocks contain, times, owners, permissions and colors are
left out (contents, times and colors are in `WFSFile`).  A block is kept as entries (`dents`) and as pointers
(`ptrs`), as the code reads it either way.  Stores are taken in source order:
only the death of the process is modelled, not the loss of power, and the
process's own mapping is coherent.  `KernelChecks` says whether the kernel looks
a name up before it sends a create, as it does under a mount; `add_dentry`'s own
test stops at the first hole and does not keep names unique.  A name is one store
(`NameHole`, `NameLast`): a kill between two characters of its `strncpy` would
leave a mixture of the old name and the new one, where the model has the old.

### WFSFile

The other half of WFS: what is in the files.  Each handler is one step here;
what a killed handler leaves is `WFS`'s subject.  `disk` is the image with its
bytes: a block is bytes and pointers, as the code reads it either way.  The loops
of `wfs_read` and `wfs_write` are rounds (`ReadPiece`, `WritePiece`), each of which
copies one piece (`Piece`, `Clipped`); `Provide` is `data_offset` with `alloc`, and
keeps what it allocated when the rest fails.  `touched` is the set of times the last handler
set to now, which is all a time can be compared by.  Names are short sequences of
characters, because two handlers convert them: `readdir` decorates a name for
`ls` and the path-based calls strip escape sequences (`StripChar` is one round of
that loop).

| Action | Code |
|---|---|
| `MknodInHole`, `MknodAtEnd`, `MknodFails` | `wfs_mknod` with `allocate_inode`, `fillin_inode`, `add_dentry` |
| `Read`, `Write`, `WriteFails` | `wfs_read`, `wfs_write` with `data_offset` |
| `Unlink` | `wfs_unlink`, `remove_dentry`, `free_block`, `free_inode` |
| `Setxattr`, `Removexattr` | `wfs_setxattr`, `wfs_removexattr` |
| `Readdir`, `Look` | `wfs_readdir`; `getattr`, `getxattr`, `statfs` and every refused call |

Two things the code does differently from its documents are in the model as the
code has them.  An entry put in a hole does not advance its directory's times
(`03_Tick_Tok_Tick_Tok.md:12`).  `FileStore` asks for them; `CreateUntimed` in it is a
creation without them that is no step of its specification, and `EntryInHole` is
that step of `WFSFile` (finding 4).
`unlink` and the calls that create do not strip the path, so that a name as `ls`
shows it cannot be removed.

`FileStore` counts free blocks as `statfs` does.  A `Create` may take two of them:
one for the entry, and one when the directory first needs its indirect block.
When only the second of the two can be had, the call is refused and the directory
keeps the block; therefore `CreateFails` leaves either all free blocks or none.

### Stcf

A section under `ptable.lock` is one step, with one exception: `sched()` in the
middle of `wait` returns with the lock held, so `holder` names a process that was
switched to there and has not looked at the table yet.  A process leaves the CPU
in one step and the scheduler picks the next in another, as in the code.  `pc` and
`local` are the kernel stack.  Unlocked parts of `fork`, `clone` and `exec2` are
steps of their own, and `uvmrefcount++` of `clone` is a load and a store, so that
`Cpus > 1` interleaves; the runs use one processor, the project's assumption
(README.md of P3, "only one CPU core"), where only the timer comes in between.
`Interrupted` says that on one processor the timer handler runs to its end first.

| Action | Code |
|---|---|
| `Schedule` (`Best`, `Beats`, `Unskipped`, `Resume`) | `scheduler` |
| `Yield`, `GiveCpu` | `yield`, `give_cpu` |
| `Remain`, `Exec2`, `Exec` | `remain`, `sys_exec2`, `exec` with `freevm` |
| `Fork`, `Clone`, `AllocFail`, `ForkInherit`, `CloneLoad`, `CloneStore`, `Publish` | `allocproc`, `fork`, `clone` |
| `Wait`, `Exit`, `Kill` | `wait`, `exit` with `wakeup1`, `kill` |
| `Nap`, `NapTest`, `NapSleep`, `NapWake` | `sys_sleep`, `sleep` |
| `Tick`, `Notify` | the timer interrupt, `sleep_proc_notify` |

The model follows the code where it is peculiar: `yield` after `remain` or
`exec2` charges the time since the last dispatch to the *new* completion time,
without a lower bound; `give_cpu` charges nothing; a slot given back by a failed
`fork` keeps its `pid` and `killed`, so a later process can be born killed;
`sleep(n)` ends at the (n+1)-st tick.

*Fairness.*  Weak, for the scheduler loop, for the timer and its handler, and
for what a process does once it is inside the kernel.  No program is assumed to
make any system call, and with STCF none is preempted.

### Mappings

An address space is its directory (`tab`), all its page table entries (`pte`)
and the two facts whether the directory and the kernel's tables exist.
Addresses are numbers modulo `AddrSpace`, in units of which a page has two, so
that sizes that are not a multiple of a page occur and sums wrap as `uint` does.
The functions of `vm.c` are operators that carry the free and the lost frames, the
space and how it ends through the loops (`MapPage`, `MapHuge`, `AddPage`,
`UnmapPage`, `CopyPage` are one round each; `Loop` runs a number of them, and the
loops from one size to another visit `Page(from, i)` for `i` up to
`Count(from, to)`).  `Grow`, `Shrink`, `IoMap`, `HpMap`, `Fork`, `Exec`, `Exit` are
`growproc`, `sys_iomap`, `sys_hpmap`, `fork`, `exec`, and `exit` with the `wait` of
the parent.  `panic` ends the system (`halted`).

- *A system call is one step.*  The calls of one process cannot overlap, and two
  processes share nothing in this part but the free list, which has a lock.  What
  is lost by this: the frames that are free can change in the middle of a call.
- *The bit `PTE_DEV`* is 0x020 (mmu.h:103), which is the processor's Accessed bit.
  `Touch` is the processor setting it when a page is used: the entry `Memory`
  becomes `Touched`.  `deallocuvm` frees a frame only if the bit is clear
  (vm.c:321), so the frame of a used page is not freed; it is counted in `lost`.
  `copyuvm` gives the copy the flags of the original (vm.c:384), so that the child's
  page is `Touched` before it used it.
- *A huge entry taken for a page table.*  `walkpgdir` does not look at `PTE_PS`.
  `mappages` and `copyuvm` then read a word of the huge page, which the program
  has written: `Words` is any such content, as far as the code tells contents apart.
  A page that is entered there is mapped at no address, and its frame is lost, too.
  Whether the frame of a device can be read as memory in `copyuvm` is a choice.
- *Frames are counted*, and it is not said which one `kalloc` returns.  In
  particular the region of the huge pages is on the free list as well (main.c:35),
  and that two owners use the same bytes is not in the model.

### Shell

A process is a copy of the shell (`wsh`), a program, or a zombie.  `mem[p]` is
what `fork` copies: return code, aliases, history, `PATH`, and which lines of the
script lie in the `FILE` buffer; `offset` is what it shares, the position of the
open script.  Everything a process does in its own memory up to its next system
call that others can see is one step.

| Action | Code |
|---|---|
| `Line`, `Leave`, `AtEof` (`Command`, `Result`, `Effect`, `searchAlias`, `Recorded`) | `batch_main`, `processCmd`, `execCommand`, the builtins, `clean_exit` |
| `Fork`, `Exec`, `Wait` | the rest of `execCommand` |
| `Pipeline`, `Spawn`, `CloseAll`, `Reap` | `runPipe` in the shell |
| `Redirect`, `RunSegment` | `runPipe` in a child |
| `ProgramEnds` | a program, which reads to the end of its input and ends |

What is abstracted: words instead of characters (`Parse` gives the words of an
alias), `Lookup` says what a search in `PATH` finds, a script is shorter than the
`FILE` buffer, and lines are counted where the code counts bytes.  Interactive
mode is the same loop over standard input, with a return code of 1 at its end.
As in the code, a pipeline is not recorded before some command has created the
history, an external command that succeeds leaves the return code as it was, an
empty alias leaves a null `argv[0]`, and a child whose `execv` fails on a
directory goes on as a second shell.

*Fairness.*  Weak, per process: every process is scheduled, and a program whose
input has ended and whose output is taken ends.

## 3. Runs

| Run | Instance | Result |
|---|---|---|
| `rwlock` | 3 readers with 2 rounds, 2 writers with 1 | holds, 88,270 states |
| `snacks` | 2 cooks, 3 attendees, capacity 2 | holds, 65,445 states |
| `snacks_destroyed` | 2 cooks, 1 attendee | violated: see findings |
| `wfs` | 3 inodes, 4 blocks of 1 entry, 1 direct pointer, 1 indirect entry, paths of 2 names, names too long, up to 2 kills | holds, 206,287 states |
| `wfs_rmdir` | 4 inodes, 4 blocks of 1 entry | violated: see findings |
| `wfs_file` | 3 inodes, 3 blocks asked for and rounded to 4, blocks of 2 bytes and 1 entry, 1 direct pointer, 1 indirect entry, 2 names and one of them as `ls` shows it | holds, 2,218 states |
| `wfs_times` | the same | violated: see findings |
| `stcf` | 3 slots; three loads: `fork`, `exit`, `wait`, `give_cpu`, `remain`, `sleep` with 3 pids and 2 ticks; `fork`, `clone`, `exec`, `exit`, `wait`, `kill` with 4 pids and no ticks; `fork`, `exec2`, `exit`, `wait` with 2 pids and 2 ticks | holds, 329,129 states |
| `mappings` | 2 processes, user space of 3 directories with 2 pages each, 11 frames | holds, 117,303 states |
| `shell` | chosen batch files and all of three lines from a pool, 6 processes, 1 failing call | holds, 74,836 states |
| `shell_history` | `ls \| ls`, `history`, `history 1` | violated: see findings |
| `shell_twice` | `which a \| ls` and a line after it | violated: see findings |

`rwlock` checks `TypeOK`, `MutualExclusion`, `NoDeadlock`, `QuiescentAtDestroy` (no permit or count leaks), `ImplementsBoard`
and `AllJoined`.  Three readers are needed for a reader that is first, one that
is not, and one that polls; two writers for one that waits behind another.  The
second round of the readers lets a reader come back while a writer waits.

`snacks` checks `TypeOK`, `PermitsConserved`, `Custody`, `ImplementsSupply` and
`AllServed`.  The ring of two wraps and is full and empty; there are more
attendees than places and cooks enough to fill it behind their backs.  Cooks end
only with the program, which bounds the trays.

`wfs` checks `TypeOK`, `InodesExclusive`, `BlocksExclusive`, `InodeDamage`,
`OnlyKillsAndRmdirStrand` and `ImplementsNamespace` with kills at any step.  Two
kills are needed for the case in which a second handler builds on what the first
one left.  A directory of two entries has a direct block and an indirect block with
an entry, and a file beside it can have the fourth block or not, so that every
allocation fails somewhere.  The kernel looks names up first (`KernelChecks`); that
the same holds without that is proved, `OnlyKillsAndRmdirStrand` apart.  What it shows,
and what it had to allow:

- An entry that can be reached always names an allocated inode that nothing else
  names, and a block has one owner: a kill never lets two files share storage.
- The price is bounded: each kill costs at most one inode, or an entry without a
  name (`InodeDamage`).  A block that is marked and held by nothing comes of two
  things only (`OnlyKillsAndRmdirStrand`): of a kill, and then it is one the handler
  was about to link or to free, or belongs to the inode that is lost; or of `rmdir`
  of a directory with an indirect block (finding 2).  No call that fails half way
  loses one.
- A kill in `add_dentry` between a reused slot's number and its name leaves an
  entry with an empty name.  It cannot be looked up, so it cannot be removed, and
  its directory can never be removed.
- With two kills an old name comes back: one in `remove_dentry` after the number
  is cleared and before the name is, one in `add_dentry` when it reuses that slot,
  after the new number and before the new name.  The old name then leads to the
  new inode.  `Namespace` allows this, and only this, as `Interrupt`.

`wfs_file` checks `TypeOK`, `ReadsTheFile`, `StatfsTrue`, `ListedResolve` and
`ImplementsFilesButATime`.  A file has at most 4 bytes.  Offsets 1 and 2, writes of one and
three bytes and reads of two and four give calls that start inside a block, cross from direct to indirect blocks, leave holes, run
out of blocks after a part was stored, and pass the largest file.  A word of the
bitmap has two bits here, so the rounding of the block count happens.  Bytes are
what matters to `ReadsTheFile` (a read is the file, up to its end or a hole) and
`ImplementsFilesButATime` (a write stores all or reports it, and never in another file;
no new file shows what a removed one held).  The names are one letter each, one of
them the letter that ends an escape sequence.  The one thing the last property lets
off is named in it, and is what `wfs_times` finds.

`stcf` checks `TypeOK`, `ShortestRuns`, `ForkChildFirst`, `NapLasts`, `IdleEnds`,
`NapEnds`, `WaitersCanBeWoken`, `SharersCounted` and `TreeSpec`.  Its programs come in
three kinds (`Loads`), one of which is chosen at the start and stays.  With the
clock and the calls of the scheduler, three slots let a forked child, its parent
and a third process compete, and two ticks let a charge differ from the inherited
time and a nap of one tick end.  Without the clock, four pids let a slot be used
again, three slots let three processes share an address space, a zombie be handed
to `init`, and a parent be killed in `wait`.  `exec2`, which declares a time and ends
in `exec`, has a kind of its own.  `IdleEnds` is stated for completion times below
`MaxInt`, since the scan cannot accept the starting minimum (proc.c:462): that a
process with that time never runs is not found by it.

`mappings` checks `TypeOK`, `FramesAccounted`, `KernelKept` and `MemoryStaysBelow`.
Eleven frames are fewer than two full processes need, so each allocation in
`fork`, `exec`, `sbrk` and `iomap` fails somewhere.  `iomap` and `hpmap` are given
sizes that wrap around (22 and 20 of 24), and `hpmap` the size 0.  An `iomap` that
wraps passes the test against `KERNBASE`, and the loop of `mappages` panics at the
first kernel entry, which `KernelKept` needs.  An `hpmap` that wraps (sysproc.c:126)
maps one huge page and sets a size below what the process has.

Two of these properties say how far the code keeps what one would want of it.
Frames *are* lost: `FramesAccounted` says of which pages, and that no others are and
none is freed twice.  Pages *are* left above a process's size: `MemoryStaysBelow`
says that only an `hpmap` that wraps around does that.  It is about pages of
`kalloc`; the huge page of an `hpmap` of size 0 lies above the size at once.  The
kernel may stop in a panic, therefore deadlock is not checked.

`shell` checks `TypeOK`, `HistoryKeepsCommands`, `Foreground`, `AliasesAreADict` and
`ShellEnds`.  All names fall into one bucket of the alias table, so every chain
operation is on a chain of two; the history begins with room for one line, so it
grows.  `HistoryKeepsCommands` lets pipelines be missing; that the history has all
commands is `HistoryComplete`, which `shell_history` refutes.  `Foreground` excuses a
shell that gave up a pipeline because a `fork` failed (wsh.c:899): its children are
not waited for, and only `ShellEnds` says something of them.  The scripts are twelve written for the errors and combinations of the
builtins, and all of three lines from a pool of fourteen with at most one
pipeline.  More than one segment that ends by `exit()` could make a script repeat
for ever (finding 3), which is why the pool stops there.  The shell ends, so
deadlock is not checked.

Every property is also checked against a wrong variant of an action (listed in
`PROJECT.json` under `mutants`) and fails there.

### Findings

1. `snacks_destroyed`.  `snacks_run` destroys the buffer while cooks still use it
   (bounded_buffer.c:70).
2. `wfs_rmdir`.  A directory may grow into its indirect block, against the
   comment at wfs.c:479 and note 2 of `01_File_it_Up.md`; `rmdir` then frees the
   indirect block and not the blocks it lists.  They stay marked for ever.
3. `shell_twice`.  A segment of a pipeline that ends by `exit()` (wsh.c:958-992
   and 1015) gives the lines its copy of the script's `FILE` has buffered back to
   the open file; the offset is the shell's as well, and the shell executes those
   lines again.
4. `wfs_times`.  `add_dentry` returns from a reused place before it sets the times of
   the directory (wfs.c:508), against `03_Tick_Tok_Tick_Tok.md:12` and `:24`.
5. `shell_history`.  `03_builtin_commands.md:283-285` wants `history` to show all the
   commands entered so far.  A pipeline that comes before any other command is not
   kept, since only `processCmd` creates the history (wsh.c:1060), and a pipeline that
   is refused or fails never is (wsh.c:818, 854, 888, 922).

Met on the way and without a run of their own:

- `PTE_DEV` is the processor's Accessed bit (mmu.h:103), so that the memory a process
  used is never freed (vm.c:321); `FramesAccounted` counts it as lost.
- `sys_hpmap` takes sizes that wrap around and leaves pages above the size of the
  process (sysproc.c:126); `MemoryStaysBelow` names that step.
- `kinit2` frees the region `memlayout.h:17` calls reserved (main.c:35), since `PHYSTOP`
  is its end.
- `rw_wlock` and `rw_wunlock` never assign `writer_active`, which `sync_utils.h:40`
  describes; the lock is right without it.
- A shell command that succeeds does not reset the return code
  (`03_builtin_commands.md:26`).

## 4. Proofs

Everything is proved to the last leaf; nothing is assumed but the named
assumptions of the modules: `ThreadsAssumption` and `RoundsAssumption` (finite,
disjoint sets of threads; at least one round), `KitchenAssumption` (finite,
disjoint sets of threads, a positive capacity), `StcfAssumption` (at least one
slot and one processor, declared times between 1 and `MaxInt`),
`ImageAssumption` (positive sizes, disjoint sets of names), `FileAssumption` (positive
sizes; names are not empty and do not contain the escape character; a color code is
an escape sequence that ends at its first `m`; a write stores at least one byte),
`Geometry` and
`Bounds` of `Mappings` (a page divides a huge page, a huge page divides user space
and all addresses; the arguments of `iomap` and `hpmap` are as wide as an address),
and `ShellAssumption` (scripts and parsed aliases are sequences of words, a hash
names a bucket, process identifiers are positive, a segment with a missing quote
is not the empty one).  The bounds
of the runs (`MaxTicks`, `MaxPid`, `MaxCrashes`, `MaxDepth`, the arguments of the
calls, ...) are arbitrary here.

**RWLockProofs.**  `Spec => []` of `TypeOK`, `MutualExclusion`, `NoViolation`,
`HolderNeverNeedsM`, `NoDeadlock`, `QuiescentAtDestroy`, and
`Spec => ImplementsBoard`, for any numbers of readers, writers and rounds.  None
of these is inductive.  The invariant `IInv` ties each counter to the set of
threads it counts (`readers` to the readers between increment and decrement,
`writers_waiting` to `Announced`), the mutex to the threads at the labels under
it, and the permit to its holder: `wlock` is 1 exactly if no writer is in
`Holding` and the readers as a group do not hold it.  The argument for
`NoDeadlock` goes through `HolderNeverNeedsM`: a reader that sleeps under `m`
passed the gate, so no writer is announced and no reader is inside; whoever has
the permit is a writer past its second lock of `m`, and can post.

**SnacksProofs.**  `Spec => []` of `TypeOK`, `PermitsConserved`, `Custody`, and
`Spec => ImplementsSupply`, for any numbers of cooks and attendees and any
capacity.  `IInv` adds to the types which thread may own the mutex, that `tail`
is `head` plus the length of the queue modulo the capacity, which hands are
empty at which labels, and the custody of trays.  The step that needs work is
`Load`: every index of the queue moves by one round the ring.

**StcfProofs.**  `Spec => []` of `TypeOK` and `WaitersCanBeWoken`;
the action properties `ShortestRuns`, `ForkChildFirst` and `NapLasts`; and
`Spec => TreeSpec`; for any number of slots, processors, pids and ticks.  The
scan of `scheduler` is a recursive function; that it has a value, and that the
value is a candidate no other one beats (`BestIsBest`), is read off at the least
slot at which it would fail, since no proof by induction is at hand.  `IInv` is

- `PlaceInv`: a slot's state and the place of its process in the kernel agree, and
  only a process that `sleep` gave the lock back to is inside `wait` with it;
- `BuildInv`, `ParentInv`, `PidInv`, `ImageInv`: between the two locked sections of
  `fork` and `clone` a builder has one `EMBRYO`, its own; a parent is alive,
  `initproc` always; pids are unique and grow from parent to child;
- `ForkInv`: until it runs, a child has the completion time of the parent that
  waits for it, and a higher pid, so the scan prefers it;
- `NapInv`: a sleeper's count is what is left of its nap, the tick under way
  included.

`WaitersCanBeWoken` is a conjunct: it needs all of the others (an `exit` wakes the
parent before it becomes a zombie, and hands its children, zombies among them, to
`init` and wakes it).  `TreeSpec` is proved action by action from `IInv`.

`SharersAreCounted` proves `Spec => []SharersCounted` under `Cpus = 1`, which P3's
README.md:159 lets the project assume.  The hypothesis is needed: `clone` loads the
count (`CloneLoad`) and stores it plus one (`CloneStore`) outside `ptable.lock`, so
on two processors one clone or exit can be forgotten.  With one, whoever is between
the two runs alone, and `ShareInv` adds that the number it loaded is still right.

**WFSProofs.**  `Spec => []` of `TypeOK`, `InodesExclusive` and
`BlocksExclusive`.  `Reach`, what the root reaches, is computed in as many rounds
as there are inodes; `ReachedLeast` shows that this is the least closed set (the
rounds grow until they stop, and a finite set stops in time), and from that how
`Reach` changes when an entry comes (`ReachedAdd`) or goes (`ReachedRemove`).
`IInv` has four parts: the types; the sizes; `TreeInv` of what can be reached (it
is marked and in use, entries name different inodes, cells hold different marked
blocks, a directory has the blocks its size covers); and `OpInv` of the handler
that is running (the inode it makes is marked and nobody's; the file it writes
can be reached; the block it links is fresh and zeroed; what it has still to free
is held by nobody).  `TreeInv` says nothing of the handler, so `Crash` keeps it:
that is the whole of the argument for kills, and `OpInv` is what makes each store
keep it.

`NamesAreAtomic`: `Spec => ImplementsNamespace`.  The entry appears
at one store (`NameHole`, or `GrowDir` for a new slot) and disappears at one
(`RemoveNum`), all other steps leave `Named` as it is.  `IInv` does not suffice;
`NameOK` adds `NewName` (under the kernel's test nobody has added the name since),
`LastNamed` (the name is in its slot before the size covers it), and `Found`: a
directory that has, or is being given, an entry is itself reached through entries
with names.  Without `Found` the names would not be a tree: a kill can leave a
directory without a name, and what saves it is that such a directory is never
found again and so stays empty.

`InodeDamageBounded`: `Spec => []InodeDamage`.  `LostInv` carries the count through
the handlers: marked inodes that cannot be reached, plus entries without a name,
are no more than the kills, plus one while a handler answers for an inode
(`Answers`: from its allocation until it is named, from the loss of its entry until
its bit is cleared).  A kill ends the handler and takes the one over.

**WFSFileProofs.**  `Spec => []` of `TypeOK`, `ListedResolve`, `ReadsTheFile` and
`StatfsTrue`, and `Spec => ImplementsFilesButATime`.  The invariant `IInv` says of the image
(`DiskOK`) that its parts have their types, that what an inode or an indirect block
points at is marked, and marked blocks are pointed at once (`Owned`), that entries
name different live inodes by different names (`Entries`), and that no file is
longer than an inode can address and the directory has the blocks of its entries
(`Sizes`).

- *Owners.*  A cell is a place a block can be listed in: a pointer of an inode or
  an entry of an indirect block.  `Owned` makes the cells in use and the marked
  blocks the same number of things, which is `StatfsTrue`.  `Grown` is what an
  allocation does that may stop half way: cells come, none goes, and a block that
  comes was free and is zeroed.  It is transitive, so it holds of a whole write
  (`LinkedGrows`, `ProvideGrows`).
- *Tapes.*  A file's tape gives each position the byte in the block that covers
  it, or a hole.  As blocks have one owner, a store to one block changes one tape,
  at the positions of that block (`PutTapes`), and an allocation turns holes into
  zeros (`GrownTapes`).
- *Loops.*  After `r` rounds of `wfs_read` or `wfs_write` a beginning of the
  request has been copied: at least `r` bytes of it, or all, or up to a hole or the
  want of a block (`Reading`, `Writing`).  Each round keeps that (`ReadRound`,
  `WriteRound`), so the loop does (`LoopRuns`).
- *Names.*  The cleaner of `strip_ansi_codes` is followed from the first character
  of a color code, through it, over the name and through the code that resets the
  color (`StripBetween`).  That no name contains the escape character is needed:
  such a name would be stripped of a part of itself.
- *The store.*  With this each handler is a step of `FileStore`, or `EntryInHole`: entries and inodes
  that come or go change one file (`AddedContents`, `RemovedContents`), the others
  change one file's tape, size or color (`OneFileContents`) or nothing (`Looks`).

This proof corrected `FileStore`.  It had `Create` take at most one block and
`CreateFails` none, which is true of an instance whose directory fits its direct
blocks and not of the code; the instance TLC runs now has a directory that does not.

**MappingsProofs.**  `Spec => []` of `TypeOK`, `FramesAccounted` and `KernelKept`, and
`Spec => MemoryStaysBelow`, for all arguments, those whose sums wrap included.  The
invariant `Inv` says of every address space (`SpaceOK`) that the entries from
`KERNBASE` on are the kernel's, and that an entry of user space is only there under
a page table: were it not for the second part, pages could lie under a huge entry,
which `deallocuvm` clears without looking at them.  The rest is bookkeeping from the
inside out.  A state on the way through `vm.c` holds (`Held`) its free and its lost
frames, its memory and its page tables.  Each round keeps what is held
(`WalkKeeps`, `MapPageKeeps`, `AddPageKeeps`, `UnmapKeeps`, ...), so each loop does
(`LoopRuns`: its rounds are a recursive function, and what every round keeps is
read off at the least one that would not), so each call does (`DeallocKeeps`,
`AllocKeeps`, `MapKeeps`, `HugeKeeps`), while `setupkvm` takes two frames and
`freevm` gives back, or loses, all that was held (`SetupTakes`, `CopyTakes`,
`FreeGivesAll`).  `BecomesKeeps` turns that into a statement about all processes.

`MapKeeps` has the argument for `iomap`: the loop ends only at the last page, so
if the end wraps around the pages on the way include the first one of the kernel
(`WrapMeetsKernel`); there the kernel stops, and a mapping that returns lies in
user space altogether.  `hpmappages` ends at the last page *or above it* and has
no such protection: a size that wraps around maps one huge page and returns with a
size below what the process has.  `MemoryStaysBelow` is therefore a statement about
steps: each keeps the pages of a process below its size unless it is that one.

**ShellProofs.**  `Spec => []` of `TypeOK`, `HistoryKeepsCommands` and `Foreground`, and
`Spec => AliasesAreADict`, for any script, any hash function and any number of
segments.

- *The aliases.*  `hm_put` and `hm_delete` stop at the first node of a chain with
  the key.  They are the dictionary's operations only if no chain has a key twice
  (`Tables`); both keep that (`TablePut`, `TableDelete`), and then what `hm_get` finds
  is the dictionary's value.  That the hash is of the key and of nothing else is all
  that is used of it.
- *The history.*  `Remembers` is one line behind while the shell executes a line,
  and only then (`MemOK`): the line is appended after it was executed or refused.  Doubling the array moves no line (`RankNext`, `RemembersMore`).
- *The children.*  A child has a copy of the memory, so what holds of the parent
  between two lines holds of it (`Busy`); `TreeOK` says who made whom, and `KidsOK`
  that the children of a shell that have not been waited for are those the frame
  it is in still has to wait for.  `Foreground` is that for an empty stack of
  frames.

**Model-checked only.**

- The liveness properties `AllJoined`, `AllServed`, `IdleEnds`, `NapEnds` and
  `ShellEnds`: the prover has no rules for fairness here.
- `OnlyKillsAndRmdirStrand`.

## 5. Not modelled

- The P5 driver: argument parsing, logging, random sleeps.
- In WFS: owners, permissions and the buffer sizes of `getxattr`; the contents
  and times of files below the root; hard links (no handler makes one).  `WFS` and
  `WFSFile` are not one model: kills are between stores in the one, bytes are in
  the other.
- The byte offsets `mkfs` computes, and its size test with `<` (mkfs.c:26), which
  refuses an image that fits exactly.
- In P3: the round-robin build without `-DSTCF`, `growproc`, sleeps on the disk
  and on pipes, which are the xv6 base's.
- In P4: the DMA driver and its tasks.  The driver stores registers and polls one
  word; whether that is right is decided by the device, a binary.  Which frame
  `kalloc` returns.
- In P2: interactive mode, the tokenizer, the text builtins print, `da_delete` and
  `hm_reset` (nothing calls them), and the uninitialised segment that two bars
  without a character between them leave in `runPipe`.
- P1: a sequential program around the library's sort and a system call that copies
  a string; no state over which steps could interfere.
- The xv6 kernel as it was handed out and its copies in every project, user
  programs, tests (`usertests.c` alone is most of the lines), generated files,
  PDFs, and the devices, which are binaries.

## 6. Plan

The plan the project began with is carried out: every part of the inventory that
is modelled has its safety properties and its refinement proved, but for what is
under "Model-checked only".  What would add most to it:

1. `WFS` and `WFSFile` as one model, in which a kill comes between two stores of
   bytes: how much of a write a reader finds after it.
2. `WFSFile` for directories below the root, whose listings and times are so far
   those of the root only.
3. `OnlyKillsAndRmdirStrand` as a theorem, and with it a bound on the marked blocks
   that nothing holds, in the number of kills and of removed directories.
