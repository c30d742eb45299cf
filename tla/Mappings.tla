------------------------------ MODULE Mappings ------------------------------
(***************************************************************************)
(* Address spaces of the xv6 of P4: sbrk, fork, exec and exit over page    *)
(* directories, and the calls P4 adds, iomap (device frames, 4 KB entries) *)
(* and hpmap (huge pages, one directory entry each).                       *)
(*                                                                         *)
(* Virtual addresses and sizes are in units of which PGSIZE make a page,   *)
(* modulo AddrSpace, so that sums overflow as uint does.  Which frame the  *)
(* kernel gets is abstracted: free frames are counted.  Device frames are  *)
(* numbered, modulo PhysFrames; an entry only tells frame 0 from others.   *)
(* An address space under construction is carried through the loops of     *)
(* vm.c as a record with the free frames; out says how the last call went  *)
(* on it.                                                                  *)
(*                                                                         *)
(* PTE_DEV is 0x020, the bit the processor sets in the entry of a page     *)
(* that is used (Accessed).  Memory is the entry of a page nobody has used *)
(* since it was mapped, Touched that of one somebody has: deallocuvm takes *)
(* it for a device frame and does not free it.                             *)
(*                                                                         *)
(* A system call is one step: the kernel of P4 runs on one processor and   *)
(* an address space is its process's own.  The huge page space is memory   *)
(* that main also puts on the free list; that a huge page and a frame of   *)
(* kalloc may be the same bytes is not modelled, frames are only counted.  *)
(***************************************************************************)
EXTENDS Integers, FiniteSets

CONSTANTS
    Procs, First,       \* process slots, and the one that runs at the start
    PGSIZE, HPSIZE,     \* a page, a huge page: what one page table maps
    KERNBASE,           \* first address of the kernel
    AddrSpace,          \* 2^32: the kernel lies above KERNBASE
    PhysFrames,         \* 2^32 / PGSIZE physical frames
    Frames,             \* frames kinit1 and kinit2 put on the free list
    DevFrame,           \* first frame of DEVSPACE
    HugeStart, HugeEnd, \* the huge page space, in frames
    Deltas,             \* bound: arguments of sbrk
    Programs,           \* bound: sizes of programs, with their stack
    IoArgs, HpArgs      \* bound: pairs of a frame and a size

ASSUME Geometry ==
    /\ {PGSIZE, HPSIZE, KERNBASE, AddrSpace, PhysFrames} \subseteq Nat \ {0}
    /\ HPSIZE % PGSIZE = 0 /\ KERNBASE % HPSIZE = 0 /\ AddrSpace % HPSIZE = 0
    /\ KERNBASE < AddrSpace
    /\ Frames \in Nat \ {0} /\ DevFrame \in 1..(PhysFrames - 1)

ASSUME Bounds ==
    /\ IsFiniteSet(Procs) /\ First \in Procs
    /\ Deltas \subseteq Int /\ Programs \subseteq Nat
    /\ IoArgs \cup HpArgs \subseteq Nat \X (0..(AddrSpace - 1))

VARIABLES
    free,       \* frames on the free list of kalloc.c
    lost,       \* frames that are neither there nor of use to anybody
    proc,       \* per process: size and address space
    halted      \* the kernel has panicked

vars == <<free, lost, proc, halted>>

Up(a, s)   == (((a + s - 1) \div s) * s) % AddrSpace
Down(a, s) == (a \div s) * s

Pages    == {a \in 0..(AddrSpace - 1) : a % PGSIZE = 0}
Dirs     == {a \in 0..(AddrSpace - 1) : a % HPSIZE = 0}
UserDirs == {a \in Dirs : a < KERNBASE}

None      == [kind |-> "none"]
Kernel    == [kind |-> "kernel"]
Memory    == [kind |-> "memory"]
Touched   == [kind |-> "touched"]   \* memory, with the bit of PTE_DEV set
Device(f) == [kind |-> IF f = 0 THEN "frame 0" ELSE "device"]
Entry(k)  == [kind |-> k]           \* of a directory: "table" or "huge"

\* dir: the page directory is there; kpt: so are the page tables of the kernel
\* part, counted as one frame; tab: the user part of the directory; pte: the
\* entries of all page tables.
NoSpace == [dir |-> FALSE, kpt |-> FALSE, tab |-> [d \in UserDirs |-> None],
            pte |-> [a \in Pages |-> IF a < KERNBASE THEN None ELSE Kernel]]

NoProc == [live |-> FALSE, sz |-> 0, space |-> NoSpace]     \* live: with a stack

-----------------------------------------------------------------------------
(* kalloc.c: st carries the free and the lost frames, the space s, what is *)
(* found where a huge page is taken for a page table, and out.             *)

Start(f, l, s) == [free |-> f, lost |-> l, s |-> s, words |-> [a \in Pages |-> None],
                   out |-> "ok"]

kfree(st) == [st EXCEPT !.free = @ + 1]
Loses(st) == [st EXCEPT !.lost = @ + 1]
Panic(st) == [st EXCEPT !.out = "panic"]
Fails(st) == [st EXCEPT !.out = "fail"]

\* n rounds of a loop, from st on.
Loop(round(_, _), st, n) ==
    LET after[i \in 0..n] == IF i = 0 THEN st ELSE round(after[i - 1], i)
    IN  after[n]

-----------------------------------------------------------------------------
(* vm.c *)

Dir(a) == Down(a, HPSIZE)

\* walkpgdir with alloc: creates a missing page table.
walkpgdir(st, a) ==
    IF a >= KERNBASE \/ st.s.tab[Dir(a)] # None THEN st
    ELSE IF st.free = 0 THEN Fails(st)
    ELSE [st EXCEPT !.s.tab[Dir(a)] = Entry("table"), !.free = @ - 1]

\* A bug that must not happen: a present entry is overwritten.
MapOver(st, a, e) ==
    LET w == walkpgdir(st, a)
    IN IF st.out # "ok" THEN st
       ELSE IF w.out # "ok" THEN w
       ELSE [w EXCEPT !.s.pte[a] = e]

IsHuge(s, a) == a < KERNBASE /\ s.tab[Dir(a)].kind = "huge"

\* One round of the loop of mappages.  A huge page is taken for a page table:
\* a word of it says whether the page is mapped, and if not, the entry goes
\* there, where no address is translated by it.
MapPage(st, a, e) ==
    IF st.out # "ok" THEN st
    ELSE IF IsHuge(st.s, a) THEN IF st.words[a] = None THEN st ELSE Panic(st)
    ELSE LET w == walkpgdir(st, a)
         IN IF w.out # "ok" THEN w
            ELSE IF w.s.pte[a] # None THEN Panic(w)
            ELSE [w EXCEPT !.s.pte[a] = e]

\* mappages of size bytes of device frames from f on: the loop runs upwards
\* until it meets the last page, however far the sum has wrapped around.
mappages(st, va, size, f) ==
    LET last  == Down((va + size - 1) % AddrSpace, PGSIZE)
        count == ((last - va) % AddrSpace) \div PGSIZE + 1
        round(t, i) == MapPage(t, (va + (i - 1) * PGSIZE) % AddrSpace,
                                  Device((f + i - 1) % PhysFrames))
    IN Loop(round, st, count)

\* A bug that must not happen: a page table is replaced.
MapHugeOver(st, d) == IF d >= KERNBASE THEN Panic(st) ELSE [st EXCEPT !.s.tab[d] = Entry("huge")]

\* One round of hpmappages.
MapHuge(st, d) ==
    IF st.out # "ok" THEN st
    ELSE IF d >= KERNBASE \/ st.s.tab[d] # None THEN Panic(st)
    ELSE [st EXCEPT !.s.tab[d] = Entry("huge")]

hpmappages(st, va, size) ==
    LET last  == Down((va + size - 1) % AddrSpace, HPSIZE)
        count == IF last > va THEN (last - va) \div HPSIZE + 1 ELSE 1
        round(t, i) == MapHuge(t, va + (i - 1) * HPSIZE)
    IN Loop(round, st, count)

\* for (a = PGROUNDUP(from); a < to; a += PGSIZE): how often, and a.
Count(from, to) ==
    LET a == Up(from, PGSIZE)
    IN  IF a < to THEN (to - a + PGSIZE - 1) \div PGSIZE ELSE 0

Page(from, i) == Up(from, PGSIZE) + (i - 1) * PGSIZE

\* A bug that must not happen: the frame of a huge page is freed.
UnmapFreeing(st, a) ==
    LET e == st.s.pte[a]
        h == st.s.tab[Dir(a)]
    IN IF st.out = "panic" THEN st
       ELSE IF h.kind = "huge" THEN [kfree(st) EXCEPT !.s.tab[Dir(a)] = None]
       ELSE IF h = None \/ e = None THEN st
       ELSE [(IF e = Memory THEN kfree(st) ELSE st) EXCEPT !.s.pte[a] = None]

\* One round of deallocuvm: huge entries are only cleared, frame 0 is refused,
\* and no frame is freed whose entry has PTE_DEV.
UnmapPage(st, a) ==
    LET e == st.s.pte[a]
    IN IF st.out = "panic" THEN st
       ELSE IF st.s.tab[Dir(a)].kind = "huge" THEN [st EXCEPT !.s.tab[Dir(a)] = None]
       ELSE IF st.s.tab[Dir(a)] = None \/ e = None THEN st
       ELSE IF e = Device(0) THEN Panic(st)
       ELSE [(IF e = Memory THEN kfree(st) ELSE IF e = Touched THEN Loses(st) ELSE st)
               EXCEPT !.s.pte[a] = None]

deallocuvm(st, old, new) ==
    LET round(t, i) == UnmapPage(t, Page(new, i))
    IN  IF new >= old THEN st ELSE Loop(round, st, Count(new, old))

\* kalloc and mappages of one page with entry e; the frame is given back when
\* there is none for the page table.
AddPage(st, a, e) ==
    IF st.out # "ok" THEN st
    ELSE IF st.free = 0 THEN Fails(st)
    ELSE LET t == MapPage([st EXCEPT !.free = @ - 1], a, e)
         IN IF t.out = "fail" THEN kfree(t)
            ELSE IF IsHuge(st.s, a) THEN Loses(t)
            ELSE t

\* A bug that must not happen: a failed growth keeps what it got.
AllocKeeping(st, old, new) ==
    LET round(t, i) == AddPage(t, Page(old, i), Memory)
    IN  IF new >= KERNBASE THEN Fails(st) ELSE Loop(round, st, Count(old, new))

\* The caller tests new < old.
allocuvm(st, old, new) ==
    LET round(t, i) == AddPage(t, Page(old, i), Memory)
        grown == Loop(round, st, Count(old, new))
    IN  IF new >= KERNBASE THEN Fails(st)
        ELSE IF grown.out = "fail" THEN deallocuvm(grown, new, old)
        ELSE grown

\* What a space takes of the memory: pages it can use, and page tables.
Memories(s) == {a \in Pages : s.pte[a] \in {Memory, Touched}}
Tables(s)   == {d \in UserDirs : s.tab[d].kind = "table"}

\* User pages, page tables, directory.
freevm(st) ==
    LET t == deallocuvm(st, KERNBASE, 0)
        kernel == IF t.s.kpt THEN 1 ELSE 0
    IN IF t.out = "panic" THEN t
       ELSE [t EXCEPT !.free = @ + Cardinality(Tables(t.s)) + kernel + 1, !.s = NoSpace]

setupkvm(f, l) ==
    IF f = 0 THEN Fails(Start(f, l, NoSpace))
    ELSE IF f = 1 THEN Fails(freevm(Start(f - 1, l, [NoSpace EXCEPT !.dir = TRUE])))
    ELSE Start(f - 2, l, [NoSpace EXCEPT !.dir = TRUE, !.kpt = TRUE])

\* The entry copyuvm finds at a and gives to the copy, with its flags; None
\* when the kernel stops: there is none, or the frame cannot be read.  In a huge
\* page it is a word w; whether a device frame can be read at P2V of its number
\* depends on what is mapped there, and w tells that, too.
Found(s, w, a) ==
    LET e == s.pte[a]
    IN IF IsHuge(s, a) THEN w[a]
       ELSE IF e = Device(0) \/ (e = Device(1) /\ w[a] # None) THEN Touched
       ELSE e

\* One round of copyuvm: the page is memory, whatever was copied.
CopyPage(st, s, w, a) ==
    IF st.out # "ok" THEN st
    ELSE IF Found(s, w, a) \notin {Memory, Touched} THEN Panic(st)
    ELSE AddPage(st, a, Found(s, w, a))

copyuvm(f, l, w, p) ==
    LET st == setupkvm(f, l)
        round(t, i) == CopyPage(t, p.space, w, Page(0, i))
        copied == Loop(round, st, Count(0, p.sz))
    IN  IF st.out # "ok" THEN st
        ELSE IF copied.out = "fail" THEN Fails(freevm(copied))
        ELSE copied

-----------------------------------------------------------------------------
(* The system calls *)

Live(p) == ~halted /\ proc[p].live

Becomes(st, p, q) ==
    IF st.out = "panic"
      THEN halted' = TRUE /\ UNCHANGED <<free, lost, proc>>
      ELSE /\ free' = st.free /\ lost' = st.lost
           /\ proc' = [proc EXCEPT ![p] = q]
           /\ UNCHANGED halted

\* The state of p is kept but for its address space, and its size if ok.
Sized(st, p, sz) == Becomes(st, p, [proc[p] EXCEPT !.space = st.s,
                                        !.sz = IF st.out = "ok" THEN sz ELSE @])

\* What p may have written to its huge pages where they are taken for the page
\* tables of addresses, and whether its device frames there can be read.
Words(p, addresses, entries) ==
    LET unknown == {a \in Pages \cap addresses :
                      IsHuge(proc[p].space, a) \/ proc[p].space.pte[a] = Device(1)}
    IN  {[a \in Pages |-> IF a \in unknown THEN w[a] ELSE None] :
           w \in [unknown -> {None} \cup entries]}

\* Above its size it only matters whether there is an entry.
Above(p) == Words(p, proc[p].sz .. KERNBASE - 1, {Memory})
Upto(p)  == Words(p, 0 .. proc[p].sz - 1, {Memory, Touched})

Here(p) == Start(free, lost, proc[p].space)
Seen(p, w) == [Here(p) EXCEPT !.words = w]

\* The processor sets the bit when p, or the kernel for it, uses an address.
Touch(p) == \E a \in Pages :
    /\ Live(p) /\ proc[p].space.pte[a] = Memory
    /\ proc' = [proc EXCEPT ![p].space.pte[a] = Touched]
    /\ UNCHANGED <<free, lost, halted>>

\* sbrk of n > 0: growproc.  When the sum wraps around the size is kept.
Grow(p) == \E n \in {d \in Deltas : d > 0}, w \in Above(p) :
    LET sz == (proc[p].sz + n) % AddrSpace
    IN /\ Live(p) /\ sz > proc[p].sz
       /\ Sized(allocuvm(Seen(p, w), proc[p].sz, sz), p, sz)

\* sbrk of n < 0.  deallocuvm returns the new size, and 0 counts as an error:
\* the pages are gone and the size is kept.
Shrink(p) == \E n \in {d \in Deltas : d < 0} :
    LET sz == (proc[p].sz + n) % AddrSpace
    IN /\ Live(p) /\ sz < proc[p].sz
       /\ Sized(deallocuvm(Here(p), proc[p].sz, sz), p, IF sz = 0 THEN proc[p].sz ELSE sz)

InUser(va, size) == (va + size) % AddrSpace <= KERNBASE

\* iomap: the first frame is in the device space, the others are not tested.
\* When a page table cannot be allocated the entries made so far stay.
IoMap(p) == \E arg \in IoArgs, w \in Above(p) :
    LET va == Up(proc[p].sz, PGSIZE)
    IN /\ Live(p) /\ arg[1] >= DevFrame /\ arg[2] % PGSIZE = 0 /\ InUser(va, arg[2])
       /\ Sized(mappages(Seen(p, w), va, arg[2], arg[1]), p, (va + arg[2]) % AddrSpace)

\* hpmap: the same for huge pages, from the next huge page on.
HpMap(p) == \E arg \in HpArgs :
    LET va == Up(proc[p].sz, HPSIZE)
    IN /\ Live(p) /\ arg[1] >= HugeStart /\ arg[1] < HugeEnd /\ arg[2] % HPSIZE = 0
       /\ InUser(va, arg[2])
       /\ Sized(hpmappages(Here(p), va, arg[2]), p, (va + arg[2]) % AddrSpace)

\* fork: kernel stack, then the copy.  Without memory nothing is left behind.
Fork(p) ==
    /\ Live(p) /\ free > 0
    /\ \E q \in Procs : /\ ~proc[q].live
                        /\ \A r \in Procs : r < q => proc[r].live
                        /\ \E w \in Upto(p) :
                             LET st == copyuvm(free - 1, lost, w, proc[p])
                             IN IF st.out = "fail"
                                  THEN Becomes(kfree(st), q, NoProc)
                                  ELSE Becomes(st, q, [proc[p] EXCEPT !.space = st.s])

\* exec: the new image is complete before the old one is freed.
Exec(p) == \E n \in Programs :
    LET st  == setupkvm(free, lost)
        new == IF st.out = "ok" THEN allocuvm(st, 0, n) ELSE st
        old == freevm(Start(new.free, new.lost, proc[p].space))
    IN /\ Live(p)
       /\ IF new.out = "ok"
            THEN Becomes(old, p, [proc[p] EXCEPT !.sz = n, !.space = new.s])
            ELSE Becomes(IF st.out = "ok" THEN freevm(new) ELSE new, p, proc[p])

\* exit and the wait of the parent: stack first.
Exit(p) ==
    /\ Live(p) /\ p # First
    /\ Becomes(freevm(kfree(Here(p))), p, NoProc)

Init ==
    \E n \in Programs :
      LET st == allocuvm(setupkvm(Frames - 1, 0), 0, n)
      IN /\ st.out = "ok"
         /\ free = st.free /\ lost = st.lost
         /\ proc = [p \in Procs |-> IF p # First THEN NoProc
                      ELSE [live |-> TRUE, sz |-> n, space |-> st.s]]
         /\ halted = FALSE

Next == \E p \in Procs :
    \/ Touch(p) \/ Grow(p) \/ Shrink(p) \/ IoMap(p) \/ HpMap(p)
    \/ Fork(p) \/ Exec(p) \/ Exit(p)

Spec == Init /\ [][Next]_vars

-----------------------------------------------------------------------------
(* Properties *)

\* Types; and no process is larger than user space, although the sums that
\* bound a mapping can wrap around.
TypeOK ==
    /\ free \in 0..Frames /\ lost \in 0..Frames /\ halted \in BOOLEAN
    /\ \A p \in Procs : proc[p].live \in BOOLEAN /\ proc[p].sz \in 0..KERNBASE

\* The frames in use: of each process the pages of memory it can use, its
\* page tables, its directory with the kernel's tables, and its stack.
Uses(q) ==
    IF ~q.live THEN {}
    ELSE {"page"} \X Memories(q.space) \union {"table"} \X Tables(q.space)
         \union {<<"directory", 0>>, <<"kernel", 0>>, <<"stack", 0>>}

InUse == UNION {{p} \X Uses(proc[p]) : p \in Procs}

\* No frame is freed twice or counted twice, whatever mixture of memory, device
\* and huge mappings was grown, shrunk, copied, replaced and freed, and whichever
\* allocation failed; and none is lost but those of pages that were used before
\* they were unmapped, and those whose entry went into a huge page.
FramesAccounted == free + Cardinality(InUse) + lost = Frames

\* Every process keeps the mappings of the kernel: a mapping whose end wraps
\* around runs into them and stops the kernel before it replaces one.
KernelKept == \A p \in Procs : \A a \in Pages : a >= KERNBASE => proc[p].space.pte[a] = Kernel

Below(p) == \A a \in Memories(proc[p].space) : a < proc[p].sz

\* p has more huge pages and yet is smaller: the sum of hpmap wrapped around.
Wrapped(p) ==
    /\ proc'[p].sz < proc[p].sz
    /\ \E d \in UserDirs : proc[p].space.tab[d] = None /\ proc'[p].space.tab[d] = Entry("huge")

\* Pages of kalloc'd memory are mapped above a process's size only after an
\* hpmap whose sum wrapped around and shrank the process, which sys_hpmap
\* accepts.  Otherwise what a failed growth had allocated is gone, and a size
\* that was kept never is too small.  Huge pages are not counted: a huge page
\* that an hpmap of size 0 maps lies above the size at once.
MemoryStaysBelow ==
    /\ \A p \in Procs : Below(p)
    /\ [][\A p \in Procs : Below(p) => Below(p)' \/ Wrapped(p)]_vars
=============================================================================
