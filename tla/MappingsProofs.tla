--------------------------- MODULE MappingsProofs ---------------------------
(***************************************************************************)
(* The address spaces of P4, for all page sizes, memories, processes and   *)
(* arguments: every frame is free, in use or counted as lost, the kernel's *)
(* part of an address space is kept, sizes stay within user space, and     *)
(* memory stays below the size unless the sum of an hpmap wraps around.    *)
(* From the rounds of the loops of vm.c to the calls, and from those to    *)
(* the steps; each lemma says what its function makes of a state.          *)
(***************************************************************************)
EXTENDS Mappings, NatLemmas

-----------------------------------------------------------------------------
(* Addresses *)

\* The sizes are positive.
LEMMA Sizes ==
    /\ PGSIZE \in Nat \ {0} /\ HPSIZE \in Nat \ {0} /\ KERNBASE \in Nat \ {0}
    /\ AddrSpace \in Nat \ {0} /\ PhysFrames \in Nat \ {0} /\ Frames \in Nat \ {0}
    /\ KERNBASE < AddrSpace
BY Geometry

\* Multiples of a size.
LEMMA Multiples ==
  ASSUME NEW n \in Nat \ {0}, NEW x \in Int
  PROVE  x % n = 0 <=> \E q \in Int : x = n * q
<1>1. x % n = 0 => x = n * (x \div n)
  <2>1. x % n = x - n * (x \div n)
    OBVIOUS
  <2> QED BY <2>1
<1>2. \A q \in Int : (n * q) % n = 0
  OBVIOUS
<1>3. x \div n \in Int
  OBVIOUS
<1> QED BY <1>1, <1>2, <1>3

\* Of two multiples the smaller one is smaller by the size at least.
LEMMA Spaced ==
  ASSUME NEW n \in Nat \ {0}, NEW q \in Int, NEW r \in Int, n * q < n * r
  PROVE  n * q + n <= n * r
<1>1. q < r
  <2>1. SUFFICES ASSUME r <= q PROVE FALSE
    OBVIOUS
  <2>2. PICK m \in Nat : q = r + m
    <3>1. q - r \in Nat /\ q = r + (q - r)
      BY <2>1
    <3> QED BY <3>1
  <2>3. n * q = n * r + n * m /\ n * m \in Nat /\ n * q \in Int /\ n * r \in Int
    BY <2>2
  <2> QED BY <2>3
<1>2. PICK m \in Nat : r = (q + 1) + m
  <2>1. r - (q + 1) \in Nat /\ r = (q + 1) + (r - (q + 1))
    BY <1>1
  <2> QED BY <2>1
<1>3. n * r = n * q + n + n * m /\ n * m \in Nat /\ n * q \in Int
  BY <1>2
<1> QED BY <1>3

\* The same of numbers a size divides.
LEMMA SpacedZero ==
  ASSUME NEW n \in Nat \ {0}, NEW x \in Int, NEW y \in Int, x % n = 0, y % n = 0, x < y
  PROVE  x + n <= y
<1>1. PICK q \in Int : x = n * q
  BY Multiples
<1>2. PICK r \in Int : y = n * r
  BY Multiples
<1> QED BY <1>1, <1>2, Spaced

\* Sums and differences of multiples.
LEMMA SumZero ==
  ASSUME NEW n \in Nat \ {0}, NEW x \in Int, NEW y \in Int, x % n = 0, y % n = 0
  PROVE  (x + y) % n = 0 /\ (x - y) % n = 0
<1>1. PICK q \in Int : x = n * q
  BY Multiples
<1>2. PICK r \in Int : y = n * r
  BY Multiples
<1>3. x + y = n * (q + r) /\ x - y = n * (q - r) /\ q + r \in Int /\ q - r \in Int
  BY <1>1, <1>2
<1>4. \A z, k \in Int : z = n * k => z % n = 0
  BY Multiples
<1>5. x + y \in Int /\ x - y \in Int
  OBVIOUS
<1> QED BY <1>3, <1>4, <1>5

\* A multiple of a multiple of a size, and what it leaves of one.
LEMMA ZeroOfZero ==
  ASSUME NEW n \in Nat \ {0}, NEW m \in Nat \ {0}, m % n = 0, NEW x \in Nat
  PROVE  /\ x % m = 0 => x % n = 0
         /\ x % n = 0 => (x % m) % n = 0
<1>1. PICK k \in Int : m = n * k
  BY Multiples
<1>2. ASSUME NEW q \in Int PROVE (m * q) % n = 0
  <2>1. m * q = n * (k * q) /\ k * q \in Int /\ m * q \in Int
    BY <1>1
  <2> QED BY <2>1, Multiples
<1>3. ASSUME x % m = 0 PROVE x % n = 0
  <2>1. PICK q \in Int : x = m * q
    <3>1. x \in Int
      OBVIOUS
    <3> QED BY <1>3, <3>1, Multiples
  <2> QED BY <1>2, <2>1
<1>4. ASSUME x % n = 0 PROVE (x % m) % n = 0
  <2>1. PICK q \in Int : q = x \div m
    OBVIOUS
  <2>2. PICK y \in Int : y = m * q
    OBVIOUS
  <2>3. x % m = x - y
    BY <2>1, <2>2, Division
  <2>4. y % n = 0
    BY <1>2, <2>2
  <2>5. (x - y) % n = 0
    <3>1. x \in Int
      OBVIOUS
    <3> QED BY <1>4, <2>4, <3>1, SumZero
  <2> QED BY <2>3, <2>5
<1> QED BY <1>3, <1>4

\* User space and address space end at the end of a page.
LEMMA UserEnd == KERNBASE % PGSIZE = 0 /\ AddrSpace % PGSIZE = 0
BY Sizes, ZeroOfZero, Geometry

\* The page table of a user page.
LEMMA DirOf ==
  ASSUME NEW a \in Nat
  PROVE  Dir(a) \in Nat /\ Dir(a) % HPSIZE = 0 /\ Dir(a) <= a
<1>1. Dir(a) = HPSIZE * (a \div HPSIZE) /\ a \div HPSIZE \in Nat /\ Dir(a) <= a
  BY Division, Sizes DEF Dir, Down
<1>2. PICK q \in Nat : q = a \div HPSIZE
  BY <1>1
<1>3. Dir(a) \in Nat /\ Dir(a) = HPSIZE * q
  BY <1>1, <1>2, Sizes
<1>4. Dir(a) % HPSIZE = 0
  BY <1>3, Multiples, Sizes
<1> QED BY <1>1, <1>3, <1>4

\* The page table of a user page maps user space only.
LEMMA DirInUser ==
  ASSUME NEW a \in Pages, a < KERNBASE
  PROVE  Dir(a) \in UserDirs
BY DirOf, Sizes DEF Pages, Dirs, UserDirs

\* Rounding up.
LEMMA UpOf ==
  ASSUME NEW x \in 0 .. KERNBASE, NEW n \in {PGSIZE, HPSIZE}
  PROVE  /\ Up(x, n) \in x .. KERNBASE /\ Up(x, n) \in Nat
         /\ Up(x, n) % n = 0 /\ Up(x, n) < x + n
<1>1. n \in Nat \ {0} /\ KERNBASE % n = 0 /\ KERNBASE \in Nat /\ AddrSpace \in Nat /\ x \in Nat
  BY Sizes, UserEnd, Geometry
<1>2. PICK y \in Nat : y = x + n - 1
  BY <1>1
<1>3. PICK q \in Nat : q = y \div n
  BY <1>1, Division
<1>a. PICK u \in Nat : u = n * q
  BY <1>1
<1>b. u <= y /\ y < u + n /\ q * n = u
  BY <1>1, <1>3, <1>a, Division
<1>4. u % n = 0
  BY <1>1, <1>a, Multiples
<1>5. x <= u /\ u < x + n
  BY <1>1, <1>2, <1>b
<1>6. u <= KERNBASE
  <2>1. SUFFICES ASSUME KERNBASE < u PROVE FALSE
    BY <1>1, <1>4
  <2>2. KERNBASE + n <= u
    <3>1. KERNBASE \in Int /\ u \in Int
      BY <1>1
    <3> QED BY <1>1, <1>4, <2>1, <3>1, SpacedZero
  <2> QED BY <1>1, <1>5, <2>2
<1>7. Up(x, n) = u % AddrSpace
  BY <1>2, <1>3, <1>b DEF Up
<1>8. u % AddrSpace = u
  BY <1>1, <1>4, <1>6, Sizes
<1> QED BY <1>1, <1>4, <1>5, <1>6, <1>7, <1>8

\* The pages that a loop visits are those from the first address up to the
\* second.
LEMMA PageIs ==
  ASSUME NEW from \in 0 .. KERNBASE, NEW to \in 0 .. KERNBASE
  PROVE  /\ Count(from, to) \in Nat
         /\ \A i \in 1 .. Count(from, to) :
              Page(from, i) \in Pages /\ from <= Page(from, i) /\ Page(from, i) < to
         /\ \A a \in Pages : from <= a /\ a < to =>
              \E i \in 1 .. Count(from, to) : Page(from, i) = a
<1> DEFINE u == Up(from, PGSIZE)
<1>1. u \in from .. KERNBASE /\ u \in Nat /\ u % PGSIZE = 0 /\ u < from + PGSIZE
  BY UpOf
<1> HIDE DEF u
<1>2. Count(from, to) = IF u < to THEN (to - u + PGSIZE - 1) \div PGSIZE ELSE 0
  BY DEF Count, u
<1>3. \A i : Page(from, i) = u + (i - 1) * PGSIZE
  BY DEF Page, u
<1>4. ASSUME NEW a \in Pages, from <= a PROVE u <= a
  <2>1. a \in Nat /\ a % PGSIZE = 0 /\ from \in Nat
    BY Sizes DEF Pages
  <2>2. SUFFICES ASSUME a < u PROVE FALSE
    BY <1>1, <2>1
  <2>3. a + PGSIZE <= u
    <3>1. a \in Int /\ u \in Int /\ PGSIZE \in Nat \ {0}
      BY <1>1, <2>1, Sizes
    <3> QED BY <1>1, <2>1, <2>2, <3>1, SpacedZero
  <2> QED BY <1>1, <1>4, <2>1, <2>3, Sizes
<1>5. CASE ~ (u < to)
  <2>1. Count(from, to) = 0
    BY <1>2, <1>5
  <2>2. \A a \in Pages : from <= a /\ a < to => FALSE
    <3>1. \A a \in Pages : a \in Nat
      BY Sizes DEF Pages
    <3> QED BY <1>1, <1>4, <1>5, <3>1, Sizes
  <2> QED BY <2>1, <2>2
<1>6. CASE u < to
  <2> DEFINE y == to - u + PGSIZE - 1
             c == y \div PGSIZE
  <2>1. y \in Nat /\ to \in Nat /\ from \in Nat /\ PGSIZE \in Nat \ {0} /\ KERNBASE \in Nat
    BY <1>1, <1>6, Sizes
  <2>2. c \in Nat /\ PGSIZE * c <= y /\ y < PGSIZE * c + PGSIZE /\ PGSIZE * c \in Nat
    <3>1. PICK z \in Nat : z = y
      BY <2>1
    <3>2. z \div PGSIZE \in Nat /\ PGSIZE * (z \div PGSIZE) <= z
          /\ z < PGSIZE * (z \div PGSIZE) + PGSIZE
      BY <2>1, Division
    <3>3. PICK k \in Nat : k = z \div PGSIZE
      BY <3>2
    <3>4. c = k
      BY <3>1, <3>3
    <3> HIDE DEF c, y
    <3> QED BY <2>1, <3>1, <3>2, <3>3, <3>4
  <2>3. Count(from, to) = c
    BY <1>2, <1>6
  <2> HIDE DEF c
  <2>4. ASSUME NEW i \in 1 .. c
        PROVE  Page(from, i) \in Pages /\ from <= Page(from, i) /\ Page(from, i) < to
    <3> DEFINE z == (i - 1) * PGSIZE
    <3>1. z = PGSIZE * (i - 1) /\ i - 1 \in Nat /\ z \in Nat
      BY <2>1, <2>2
    <3>2. z % PGSIZE = 0
      BY <2>1, <3>1, Multiples
    <3>3. z < PGSIZE * c
      <4>1. PICK m \in Nat : c = i + m
        <5>1. c - i \in Nat /\ c = i + (c - i)
          BY <2>2
        <5> QED BY <5>1
      <4>2. PGSIZE * c = PGSIZE * (i - 1) + PGSIZE + PGSIZE * m /\ PGSIZE * m \in Nat
        BY <2>1, <4>1
      <4> QED BY <2>1, <3>1, <4>2
    <3>4. z + PGSIZE <= PGSIZE * c
      BY <2>1, <2>2, <3>1, <3>3, Spaced
    <3> HIDE DEF z
    <3>5. u + z \in Nat /\ from <= u + z /\ u + z < to
      BY <1>1, <2>1, <2>2, <3>1, <3>4
    <3>6. (u + z) % PGSIZE = 0
      <4>1. u \in Int /\ z \in Int
        BY <1>1, <3>1
      <4> QED BY <1>1, <2>1, <3>2, <4>1, SumZero
    <3>7. Page(from, i) = u + z
      BY <1>3 DEF z
    <3> QED BY <2>1, <3>5, <3>6, <3>7, Sizes DEF Pages
  <2>5. ASSUME NEW a \in Pages, from <= a, a < to
        PROVE  \E i \in 1 .. c : Page(from, i) = a
    <3>1. a \in Nat /\ a % PGSIZE = 0 /\ u <= a
      BY <1>4, <2>5, Sizes DEF Pages
    <3>2. a \in Int /\ u \in Int /\ a - u \in Nat /\ a - u \in Int
      BY <1>1, <3>1
    <3>a. (a - u) % PGSIZE = 0
      BY <1>1, <2>1, <3>1, <3>2, SumZero
    <3>3. PICK q \in Int : a - u = PGSIZE * q
      BY <2>1, <3>2, <3>a, Multiples
    <3>4. q >= 0
      <4>1. SUFFICES ASSUME q < 0 PROVE FALSE
        OBVIOUS
      <4>2. PICK m \in Nat : q = -1 - m
        <5>1. -1 - q \in Nat /\ q = -1 - (-1 - q)
          BY <4>1
        <5> QED BY <5>1
      <4>3. PGSIZE * q = - PGSIZE - PGSIZE * m /\ PGSIZE * m \in Nat
        BY <2>1, <4>2
      <4> QED BY <2>1, <3>2, <3>3, <4>3
    <3>5. PGSIZE * q < PGSIZE * c
      <4>1. PGSIZE * q <= to - u - 1
        BY <1>1, <2>1, <2>5, <3>1, <3>3
      <4>2. PGSIZE * q \in Int
        BY <2>1, <3>3
      <4> QED BY <1>1, <2>1, <2>2, <4>1, <4>2
    <3>6. q < c
      <4>1. SUFFICES ASSUME c <= q PROVE FALSE
        BY <2>2
      <4>2. PICK m \in Nat : q = c + m
        <5>1. q - c \in Nat /\ q = c + (q - c)
          BY <2>2, <4>1
        <5> QED BY <5>1
      <4>3. PGSIZE * q = PGSIZE * c + PGSIZE * m /\ PGSIZE * m \in Nat
        BY <2>1, <2>2, <4>2
      <4> QED BY <2>2, <3>5, <4>3
    <3>7. q + 1 \in 1 .. c /\ (q + 1 - 1) * PGSIZE = PGSIZE * q
      BY <2>1, <2>2, <3>4, <3>6
    <3>8. Page(from, q + 1) = a
      BY <1>1, <1>3, <3>1, <3>3, <3>7
    <3> QED BY <3>7, <3>8
  <2> QED BY <2>2, <2>3, <2>4, <2>5
<1> QED BY <1>5, <1>6

-----------------------------------------------------------------------------
(* Address spaces, and the states the loops of vm.c carry *)

TabKinds == {None, Entry("table"), Entry("huge")}
PteKinds == {None, Kernel, Memory, Touched, Device(0), Device(1)}
Mem      == {Memory, Touched}
Outs     == {"ok", "fail", "panic"}

\* The kinds of entries are different.
LEMMA Kinds ==
    /\ None # Kernel /\ None # Memory /\ Kernel # Memory
    /\ None # Touched /\ Kernel # Touched /\ Memory # Touched
    /\ \A e \in Mem : e \in PteKinds /\ e \notin {None, Kernel, Device(0)}
    /\ \A f : Device(f) \in PteKinds /\ Device(f) \notin {None, Kernel, Memory, Touched}
    /\ None.kind = "none" /\ Entry("table").kind = "table" /\ Entry("huge").kind = "huge"
    /\ \A e \in TabKinds : /\ e.kind = "table" <=> e = Entry("table")
                           /\ e.kind = "huge" <=> e = Entry("huge")
    /\ None # Entry("table") /\ None # Entry("huge") /\ Entry("table") # Entry("huge")
<1>1. /\ None.kind = "none" /\ Kernel.kind = "kernel" /\ Memory.kind = "memory"
      /\ Touched.kind = "touched" /\ Device(0).kind = "frame 0" /\ Device(1).kind = "device"
      /\ Entry("table").kind = "table" /\ Entry("huge").kind = "huge"
  BY DEF None, Kernel, Memory, Touched, Device, Entry
<1>2. \A f : Device(f) = Device(0) \/ Device(f) = Device(1)
  <2>1. ASSUME NEW f, f = 0 PROVE Device(f) = Device(0)
    BY <2>1
  <2>2. ASSUME NEW f, f # 0 PROVE Device(f) = Device(1)
    <3>1. Device(f) = [kind |-> "device"] /\ Device(1) = [kind |-> "device"]
      BY <2>2 DEF Device
    <3> QED BY <3>1
  <2> QED BY <2>1, <2>2
<1> QED BY <1>1, <1>2, Zenon DEF TabKinds, PteKinds, Mem

\* A space whatever is in it, and what all spaces have in common: the entries
\* of the kernel, and user entries only in page tables that are there.
RawSpaces == [dir : BOOLEAN, kpt : BOOLEAN, tab : [UserDirs -> TabKinds],
              pte : [Pages -> PteKinds]]

SpaceOK(s) ==
    \A a \in Pages :
      /\ a >= KERNBASE => s.pte[a] = Kernel
      /\ a < KERNBASE  => /\ s.pte[a] # Kernel
                          /\ s.pte[a] # None => s.tab[Dir(a)] = Entry("table")

Spaces == {s \in RawSpaces : SpaceOK(s)}

RawStates == [free : Int, lost : Int, s : RawSpaces, words : [Pages -> PteKinds], out : Outs]
States    == {t \in RawStates : t.free \in Nat /\ t.lost \in Nat /\ t.s \in Spaces}

\* The frames a space takes apart from its directory and the kernel's tables,
\* and with them those that are free or lost.
Taken(s) == Cardinality(Memories(s)) + Cardinality(Tables(s))
Held(t)  == t.free + t.lost + Taken(t.s)

\* There are finitely many pages and page tables.
LEMMA FinitePages == IsFiniteSet(Pages) /\ IsFiniteSet(UserDirs)
<1>1. IsFiniteSet(0 .. AddrSpace - 1)
  BY FS_Interval, Sizes
<1> QED BY <1>1, FS_Subset DEF Pages, UserDirs, Dirs

\* The frames a space takes can be counted.
LEMMA TakenNat ==
  ASSUME NEW s
  PROVE  /\ IsFiniteSet(Memories(s)) /\ IsFiniteSet(Tables(s))
         /\ Cardinality(Memories(s)) \in Nat /\ Cardinality(Tables(s)) \in Nat
         /\ Taken(s) \in Nat
<1>1. IsFiniteSet(Memories(s)) /\ IsFiniteSet(Tables(s))
  BY FinitePages, FS_Subset DEF Memories, Tables
<1>2. Cardinality(Memories(s)) \in Nat /\ Cardinality(Tables(s)) \in Nat
  BY <1>1, FS_CardinalityType
<1> QED BY <1>1, <1>2 DEF Taken

\* The parts of a state.
LEMMA StateParts ==
  ASSUME NEW t \in States
  PROVE  /\ t \in RawStates /\ t.free \in Nat /\ t.lost \in Nat
         /\ t.s \in Spaces /\ t.out \in Outs
         /\ t.s \in RawSpaces /\ SpaceOK(t.s)
         /\ t.s.tab \in [UserDirs -> TabKinds] /\ t.s.pte \in [Pages -> PteKinds]
         /\ t.s.dir \in BOOLEAN /\ t.s.kpt \in BOOLEAN
         /\ Held(t) \in Nat
<1>1. /\ t \in RawStates /\ t.free \in Nat /\ t.lost \in Nat
      /\ t.s \in Spaces /\ t.out \in Outs
      /\ t.s \in RawSpaces /\ SpaceOK(t.s)
  BY DEF States, RawStates, Spaces
<1>2. /\ t.s.tab \in [UserDirs -> TabKinds] /\ t.s.pte \in [Pages -> PteKinds]
      /\ t.s.dir \in BOOLEAN /\ t.s.kpt \in BOOLEAN
  BY <1>1 DEF RawSpaces
<1> QED BY <1>1, <1>2, TakenNat DEF Held

\* Assignments to the parts of a state.
LEMMA SetTab ==
  ASSUME NEW t \in RawStates, NEW d \in UserDirs, NEW e \in TabKinds
  PROVE  LET u == [t EXCEPT !.s.tab[d] = e]
         IN /\ u \in RawStates /\ u.free = t.free /\ u.lost = t.lost /\ u.out = t.out
            /\ u.s.dir = t.s.dir /\ u.s.kpt = t.s.kpt /\ u.s.pte = t.s.pte
            /\ u.s.tab = [t.s.tab EXCEPT ![d] = e]
BY DEF RawStates, RawSpaces

\* An assignment to a page table entry.
LEMMA SetPte ==
  ASSUME NEW t \in RawStates, NEW a \in Pages, NEW e \in PteKinds
  PROVE  LET u == [t EXCEPT !.s.pte[a] = e]
         IN /\ u \in RawStates /\ u.free = t.free /\ u.lost = t.lost /\ u.out = t.out
            /\ u.s.dir = t.s.dir /\ u.s.kpt = t.s.kpt /\ u.s.tab = t.s.tab
            /\ u.s.pte = [t.s.pte EXCEPT ![a] = e]
BY DEF RawStates, RawSpaces

\* An assignment to the number of free frames.
LEMMA SetFree ==
  ASSUME NEW t \in RawStates, NEW n \in Int
  PROVE  LET u == [t EXCEPT !.free = n]
         IN /\ u \in RawStates /\ u.free = n /\ u.lost = t.lost /\ u.s = t.s
            /\ u.out = t.out
BY DEF RawStates

\* An assignment to the number of lost frames.
LEMMA SetLost ==
  ASSUME NEW t \in RawStates, NEW n \in Int
  PROVE  LET u == [t EXCEPT !.lost = n]
         IN /\ u \in RawStates /\ u.free = t.free /\ u.lost = n /\ u.s = t.s
            /\ u.out = t.out
BY DEF RawStates

\* Fails and Panic leave frames and space alone.
LEMMA SetOut ==
  ASSUME NEW t \in States
  PROVE  /\ Fails(t) \in States /\ Fails(t).free = t.free /\ Fails(t).lost = t.lost
         /\ Fails(t).s = t.s /\ Fails(t).out = "fail"
         /\ Panic(t) \in States /\ Panic(t).free = t.free /\ Panic(t).lost = t.lost
         /\ Panic(t).s = t.s /\ Panic(t).out = "panic"
BY DEF States, RawStates, Fails, Panic, Outs

\* The frames taken after one entry changed.
LEMMA TakenTab ==
  ASSUME NEW s, NEW r, NEW d \in UserDirs, NEW e \in TabKinds,
         s.tab \in [UserDirs -> TabKinds], r.tab = [s.tab EXCEPT ![d] = e], r.pte = s.pte,
         s.tab[d] # Entry("table")
  PROVE  Taken(r) = IF e = Entry("table") THEN Taken(s) + 1 ELSE Taken(s)
<1>1. Memories(r) = Memories(s)
  BY DEF Memories
<1>2. \A c \in UserDirs : r.tab[c] = IF c = d THEN e ELSE s.tab[c]
  OBVIOUS
<1>3. s.tab[d] \in TabKinds
  OBVIOUS
<1>4. CASE e = Entry("table")
  <2>1. \A c \in UserDirs : /\ c \in Tables(s) <=> s.tab[c] = Entry("table")
                            /\ c \in Tables(r) <=> r.tab[c] = Entry("table")
    <3>1. \A c \in UserDirs : s.tab[c] \in TabKinds /\ r.tab[c] \in TabKinds
      BY <1>2
    <3> QED BY <3>1, Kinds, Zenon DEF Tables
  <2>2. Tables(s) \subseteq UserDirs /\ Tables(r) \subseteq UserDirs
    BY DEF Tables
  <2>3. Tables(r) = Tables(s) \cup {d} /\ d \notin Tables(s)
    BY <1>2, <1>4, <2>1, <2>2
  <2>4. Cardinality(Tables(r)) = Cardinality(Tables(s)) + 1
    BY <2>3, TakenNat, FS_AddElement
  <2> QED BY <1>1, <1>4, <2>4, TakenNat DEF Taken
<1>5. CASE e # Entry("table")
  <2>1. Tables(r) = Tables(s)
    BY <1>2, <1>3, <1>5, Kinds, Zenon DEF Tables
  <2> QED BY <1>1, <1>5, <2>1 DEF Taken
<1> QED BY <1>4, <1>5

\* The frames taken after an entry of a page table changed.
LEMMA TakenPte ==
  ASSUME NEW s, NEW r, NEW a \in Pages, NEW e \in PteKinds,
         s.pte \in [Pages -> PteKinds], r.pte = [s.pte EXCEPT ![a] = e], r.tab = s.tab
  PROVE  Taken(r) = Taken(s) + (IF e \in Mem THEN 1 ELSE 0)
                             - (IF s.pte[a] \in Mem THEN 1 ELSE 0)
<1>1. Tables(r) = Tables(s)
  BY DEF Tables
<1>2. \A b \in Pages : r.pte[b] = IF b = a THEN e ELSE s.pte[b]
  OBVIOUS
<1> DEFINE M == Memories(s) \ {a}
<1>3. /\ Memories(s) = IF s.pte[a] \in Mem THEN M \cup {a} ELSE M
      /\ Memories(r) = IF e \in Mem THEN M \cup {a} ELSE M
      /\ a \notin M
  <2>1. \A b \in Pages : /\ b \in Memories(s) <=> s.pte[b] \in Mem
                         /\ b \in Memories(r) <=> r.pte[b] \in Mem
    BY DEF Memories, Mem
  <2>2. Memories(s) \subseteq Pages /\ Memories(r) \subseteq Pages
    BY DEF Memories
  <2> QED BY <1>2, <2>1, <2>2
<1>4. IsFiniteSet(M) /\ Cardinality(M) \in Nat /\ Cardinality(M \cup {a}) = Cardinality(M) + 1
  <2>1. IsFiniteSet(M)
    BY TakenNat, FS_Subset
  <2>2. a \notin M
    OBVIOUS
  <2> QED BY <2>1, <2>2, FS_AddElement, FS_CardinalityType
<1> HIDE DEF M
<1>5. /\ Cardinality(Memories(s)) = Cardinality(M) + (IF s.pte[a] \in Mem THEN 1 ELSE 0)
      /\ Cardinality(Memories(r)) = Cardinality(M) + (IF e \in Mem THEN 1 ELSE 0)
  BY <1>3, <1>4
<1> QED BY <1>1, <1>4, <1>5, TakenNat DEF Taken

-----------------------------------------------------------------------------
(* The rounds of the loops *)

\* From t to u no frame is lost, unless the kernel panics, and the directory is
\* kept.
Keeps(t, u) ==
    /\ u \in States /\ u.s.dir = t.s.dir /\ u.s.kpt = t.s.kpt
    /\ u.out # "panic" => t.out # "panic" /\ Held(u) = Held(t)

\* Nothing done loses nothing.
LEMMA KeepsSelf ==
  ASSUME NEW t \in States
  PROVE  Keeps(t, t)
BY DEF Keeps

\* A failure or a panic as such loses nothing.
LEMMA KeepsOut ==
  ASSUME NEW t \in States
  PROVE  /\ t.out # "panic" => Keeps(t, Fails(t))
         /\ Keeps(t, Panic(t)) /\ Held(Panic(t)) = Held(t)
BY SetOut DEF Keeps, Held

\* An entry for a page table that is there.
LEMMA SpaceWithPte ==
  ASSUME NEW t \in States, NEW a \in Pages, NEW e \in PteKinds, a < KERNBASE, e # Kernel,
         e = None \/ t.s.tab[Dir(a)] = Entry("table")
  PROVE  LET u == [t EXCEPT !.s.pte[a] = e]
         IN /\ u \in States /\ u.free = t.free /\ u.lost = t.lost /\ u.out = t.out
            /\ u.s.dir = t.s.dir /\ u.s.kpt = t.s.kpt
            /\ u.s.pte = [t.s.pte EXCEPT ![a] = e]
            /\ Held(u) = Held(t) + (IF e \in Mem THEN 1 ELSE 0)
                                 - (IF t.s.pte[a] \in Mem THEN 1 ELSE 0)
<1> DEFINE u == [t EXCEPT !.s.pte[a] = e]
<1>1. /\ u \in RawStates /\ u.free = t.free /\ u.lost = t.lost /\ u.out = t.out
      /\ u.s.dir = t.s.dir /\ u.s.kpt = t.s.kpt /\ u.s.tab = t.s.tab
      /\ u.s.pte = [t.s.pte EXCEPT ![a] = e]
  <2>1. t \in RawStates
    BY StateParts
  <2> QED BY <2>1, SetPte, Zenon
<1> HIDE DEF u
<1>2. /\ t.free \in Nat /\ t.lost \in Nat /\ t.s.pte \in [Pages -> PteKinds] /\ SpaceOK(t.s)
  BY StateParts
<1>3. \A b \in Pages : u.s.pte[b] = IF b = a THEN e ELSE t.s.pte[b]
  BY <1>1, <1>2
<1>4. SpaceOK(u.s)
  <2>1. SUFFICES ASSUME NEW b \in Pages
                 PROVE  /\ b >= KERNBASE => u.s.pte[b] = Kernel
                        /\ b < KERNBASE  => /\ u.s.pte[b] # Kernel
                                            /\ u.s.pte[b] # None => u.s.tab[Dir(b)] = Entry("table")
    BY DEF SpaceOK
  <2>2. /\ b >= KERNBASE => t.s.pte[b] = Kernel
        /\ b < KERNBASE  => /\ t.s.pte[b] # Kernel
                            /\ t.s.pte[b] # None => t.s.tab[Dir(b)] = Entry("table")
    BY <1>2 DEF SpaceOK
  <2>3. CASE b = a
    <3>1. a \in Int /\ KERNBASE \in Int /\ ~ (a >= KERNBASE)
      BY Sizes DEF Pages
    <3> QED BY <1>1, <1>3, <2>3, <3>1
  <2>4. CASE b # a
    BY <1>1, <1>3, <2>2, <2>4
  <2> QED BY <2>3, <2>4
<1>5. u.s \in RawSpaces
  BY <1>1 DEF RawStates
<1>6. u \in States
  BY <1>1, <1>2, <1>4, <1>5 DEF States, Spaces
<1>7. Taken(u.s) = Taken(t.s) + (IF e \in Mem THEN 1 ELSE 0)
                              - (IF t.s.pte[a] \in Mem THEN 1 ELSE 0)
  <2>1. PICK s : s = t.s
    OBVIOUS
  <2>2. PICK r : r = u.s
    OBVIOUS
  <2>3. /\ s.pte \in [Pages -> PteKinds] /\ r.pte = [s.pte EXCEPT ![a] = e] /\ r.tab = s.tab
    BY <1>1, <1>2, <2>1, <2>2
  <2>4. Taken(r) = Taken(s) + (IF e \in Mem THEN 1 ELSE 0)
                            - (IF s.pte[a] \in Mem THEN 1 ELSE 0)
    BY <2>3, TakenPte
  <2> QED BY <2>1, <2>2, <2>4
<1>8. Held(u) = Held(t) + (IF e \in Mem THEN 1 ELSE 0)
                        - (IF t.s.pte[a] \in Mem THEN 1 ELSE 0)
  <2>1. Taken(t.s) \in Nat
    BY TakenNat
  <2> QED BY <1>1, <1>2, <1>7, <2>1 DEF Held
<1> QED BY <1>1, <1>6, <1>8 DEF u

\* An entry of the directory in place of one that was no page table.
LEMMA SpaceWithTab ==
  ASSUME NEW t \in States, NEW d \in UserDirs, NEW e \in TabKinds,
         t.s.tab[d] # Entry("table")
  PROVE  LET u == [t EXCEPT !.s.tab[d] = e]
         IN /\ u \in States /\ u.free = t.free /\ u.lost = t.lost /\ u.out = t.out
            /\ u.s.dir = t.s.dir /\ u.s.kpt = t.s.kpt
            /\ u.s.pte = t.s.pte /\ u.s.tab = [t.s.tab EXCEPT ![d] = e]
            /\ Held(u) = Held(t) + (IF e = Entry("table") THEN 1 ELSE 0)
<1> DEFINE u == [t EXCEPT !.s.tab[d] = e]
<1>1. /\ u \in RawStates /\ u.free = t.free /\ u.lost = t.lost /\ u.out = t.out
      /\ u.s.dir = t.s.dir /\ u.s.kpt = t.s.kpt /\ u.s.pte = t.s.pte
      /\ u.s.tab = [t.s.tab EXCEPT ![d] = e]
  BY StateParts, SetTab, SMTT(30)
<1> HIDE DEF u
<1>2. /\ t.free \in Nat /\ t.lost \in Nat /\ t.s.tab \in [UserDirs -> TabKinds] /\ SpaceOK(t.s)
  BY StateParts
<1>3. \A c \in UserDirs : u.s.tab[c] = IF c = d THEN e ELSE t.s.tab[c]
  BY <1>1, <1>2
<1>4. SpaceOK(u.s)
  <2>1. SUFFICES ASSUME NEW b \in Pages, b < KERNBASE, u.s.pte[b] # None
                 PROVE  u.s.tab[Dir(b)] = Entry("table")
    BY <1>1, <1>2 DEF SpaceOK
  <2>2. t.s.tab[Dir(b)] = Entry("table")
    BY <1>1, <1>2, <2>1 DEF SpaceOK
  <2>3. Dir(b) \in UserDirs
    BY <2>1, DirInUser
  <2> QED BY <1>3, <2>2, <2>3
<1>5. u.s \in RawSpaces
  BY <1>1 DEF RawStates
<1>6. u \in States
  BY <1>1, <1>2, <1>4, <1>5 DEF States, Spaces
<1>7. Taken(u.s) = IF e = Entry("table") THEN Taken(t.s) + 1 ELSE Taken(t.s)
  <2>1. PICK s, r : s = t.s /\ r = u.s
    OBVIOUS
  <2>2. s.tab \in [UserDirs -> TabKinds] /\ r.tab = [s.tab EXCEPT ![d] = e] /\ r.pte = s.pte
    BY <1>1, <1>2, <2>1
  <2>3. s.tab[d] # Entry("table")
    BY <2>1
  <2>4. Taken(r) = IF e = Entry("table") THEN Taken(s) + 1 ELSE Taken(s)
    BY <2>2, <2>3, TakenTab, Zenon
  <2> QED BY <2>1, <2>4
<1>8. Held(u) = Held(t) + (IF e = Entry("table") THEN 1 ELSE 0)
  <2>1. Taken(t.s) \in Nat
    BY TakenNat
  <2> QED BY <1>1, <1>2, <1>7, <2>1 DEF Held
<1> QED BY <1>1, <1>6, <1>8 DEF u

\* Frames taken from the free list and given back.
LEMMA SpaceWithFree ==
  ASSUME NEW t \in States, NEW n \in Nat
  PROVE  LET u == [t EXCEPT !.free = n]
         IN /\ u \in States /\ u.free = n /\ u.lost = t.lost /\ u.s = t.s /\ u.out = t.out
            /\ Held(u) = Held(t) + n - t.free
<1> DEFINE u == [t EXCEPT !.free = n]
<1>1. /\ u \in RawStates /\ u.free = n /\ u.lost = t.lost /\ u.s = t.s /\ u.out = t.out
  BY StateParts, SetFree
<1> HIDE DEF u
<1>2. u \in States
  BY <1>1, StateParts DEF States
<1>3. Held(u) = Held(t) + n - t.free
  BY <1>1, StateParts, TakenNat DEF Held
<1> QED BY <1>1, <1>2, <1>3 DEF u

\* A frame that a page or a call had is free again, or lost.
LEMMA GivenUp ==
  ASSUME NEW t \in States, NEW u \in {kfree(t), Loses(t)}
  PROVE  u \in States /\ u.s = t.s /\ u.out = t.out /\ Held(u) = Held(t) + 1
<1>0. t \in RawStates /\ t.free \in Nat /\ t.lost \in Nat /\ Taken(t.s) \in Nat
  BY StateParts, TakenNat
<1>1. CASE u = kfree(t)
  <2>1. u = [t EXCEPT !.free = t.free + 1] /\ t.free + 1 \in Nat
    BY <1>0, <1>1 DEF kfree
  <2> DEFINE k == [t EXCEPT !.free = t.free + 1]
  <2>2. k \in States /\ k.s = t.s /\ k.out = t.out /\ Held(k) = Held(t) + (t.free + 1) - t.free
    BY <2>1, SpaceWithFree
  <2>3. u = k
    BY <2>1
  <2> HIDE DEF k
  <2> QED BY <1>0, <2>2, <2>3, StateParts
<1>2. CASE u = Loses(t)
  <2>1. u = [t EXCEPT !.lost = t.lost + 1] /\ t.lost + 1 \in Nat /\ t.lost + 1 \in Int
    BY <1>0, <1>2 DEF Loses
  <2> DEFINE k == [t EXCEPT !.lost = t.lost + 1]
  <2>2. /\ k \in RawStates /\ k.free = t.free /\ k.lost = t.lost + 1 /\ k.s = t.s
        /\ k.out = t.out
    BY <1>0, <2>1, SetLost
  <2>3. u = k
    BY <2>1
  <2> HIDE DEF k
  <2>4. k \in States
    BY <1>0, <2>1, <2>2, StateParts DEF States
  <2>5. Held(k) = Held(t) + 1
    BY <1>0, <2>2 DEF Held
  <2> QED BY <2>2, <2>3, <2>4, <2>5
<1> QED BY <1>1, <1>2

\* walkpgdir takes a frame for the page table it adds, and maps nothing.
LEMMA WalkKeeps ==
  ASSUME NEW t \in States, NEW a \in Pages, t.out = "ok"
  PROVE  LET w == walkpgdir(t, a)
         IN /\ Keeps(t, w) /\ Held(w) = Held(t) /\ w.s.pte = t.s.pte
            /\ w.out = "ok" /\ a < KERNBASE /\ ~ IsHuge(t.s, a) =>
                 w.s.tab[Dir(a)] = Entry("table")
<1>1. KERNBASE \in Int /\ a \in Int
  BY Sizes DEF Pages
<1>2. CASE a >= KERNBASE
  BY <1>1, <1>2, KeepsSelf DEF walkpgdir
<1>3. CASE a < KERNBASE
  <2> DEFINE e == t.s.tab[Dir(a)]
  <2>1. Dir(a) \in UserDirs /\ e \in TabKinds /\ t.free \in Nat
    BY <1>3, DirInUser, StateParts
  <2>2. walkpgdir(t, a) =
          IF e # None THEN t
          ELSE IF t.free = 0 THEN Fails(t)
          ELSE [t EXCEPT !.s.tab[Dir(a)] = Entry("table"), !.free = @ - 1]
    BY <1>1, <1>3 DEF walkpgdir
  <2>3. CASE e # None
    <3>1. e = Entry("table") \/ e.kind = "huge"
      BY <2>1, <2>3, Kinds DEF TabKinds
    <3> QED BY <1>3, <2>2, <2>3, <3>1, KeepsSelf DEF IsHuge
  <2>5. CASE e = None /\ t.free = 0
    <3>1. Held(Fails(t)) = Held(t)
      BY SetOut DEF Held
    <3> QED BY <2>2, <2>5, <3>1, KeepsOut, SetOut
  <2>6. CASE e = None /\ t.free # 0
    <3>1. e # Entry("table") /\ Entry("table") \in TabKinds
      BY <2>1, <2>6, Kinds DEF TabKinds
    <3> DEFINE u == [t EXCEPT !.s.tab[Dir(a)] = Entry("table")]
    <3>2. /\ u \in States /\ u.free = t.free /\ u.lost = t.lost /\ u.out = t.out
          /\ u.s.dir = t.s.dir /\ u.s.kpt = t.s.kpt
          /\ u.s.pte = t.s.pte /\ u.s.tab = [t.s.tab EXCEPT ![Dir(a)] = Entry("table")]
          /\ Held(u) = Held(t) + 1
      BY <2>1, <3>1, SpaceWithTab
    <3>3. walkpgdir(t, a) = [u EXCEPT !.free = t.free - 1]
      BY <2>2, <2>6
    <3> HIDE DEF u
    <3> DEFINE w == [u EXCEPT !.free = t.free - 1]
    <3>4. t.free - 1 \in Nat /\ Held(t) \in Nat
      BY <2>1, <2>6, StateParts
    <3>5. /\ w \in States /\ w.lost = u.lost /\ w.s = u.s /\ w.out = u.out
          /\ Held(w) = Held(u) + (t.free - 1) - u.free
      BY <3>2, <3>4, SpaceWithFree
    <3> HIDE DEF w
    <3>6. Keeps(t, w) /\ Held(w) = Held(t)
      BY <2>1, <3>2, <3>4, <3>5 DEF Keeps
    <3>7. w.s.tab[Dir(a)] = Entry("table")
      BY <2>1, <3>2, <3>5, StateParts
    <3> QED BY <3>2, <3>3, <3>5, <3>6, <3>7 DEF w
  <2> QED BY <2>3, <2>5, <2>6
<1> QED BY <1>1, <1>2, <1>3

\* In a huge page mappages changes no entry and takes no frame.
LEMMA MapPageInHuge ==
  ASSUME NEW t, NEW a, NEW e, IsHuge(t.s, a)
  PROVE  MapPage(t, a, e) \in {t, Panic(t)}
BY DEF MapPage

\* A round of mappages elsewhere: the entry is made for a user page that was
\* free, or not at all.
LEMMA MapPageKeeps ==
  ASSUME NEW t \in States, NEW a \in Pages, NEW e \in PteKinds, e # None, e # Kernel,
         t.out = "ok", ~ IsHuge(t.s, a)
  PROVE  LET u == MapPage(t, a, e)
         IN /\ u \in States /\ u.s.dir = t.s.dir /\ u.s.kpt = t.s.kpt
            /\ u.s.pte = IF u.out = "ok" THEN [t.s.pte EXCEPT ![a] = e] ELSE t.s.pte
            /\ u.out = "ok" => a < KERNBASE
            /\ Held(u) = Held(t) + (IF u.out = "ok" /\ e \in Mem THEN 1 ELSE 0)
<1> DEFINE w == walkpgdir(t, a)
<1>1. /\ Keeps(t, w) /\ Held(w) = Held(t) /\ w.s.pte = t.s.pte
      /\ w.out = "ok" /\ a < KERNBASE => w.s.tab[Dir(a)] = Entry("table")
  <2> HIDE DEF w
  <2>1. /\ Keeps(t, w) /\ Held(w) = Held(t) /\ w.s.pte = t.s.pte
        /\ w.out = "ok" /\ a < KERNBASE /\ ~ IsHuge(t.s, a) => w.s.tab[Dir(a)] = Entry("table")
    BY WalkKeeps DEF w
  <2> QED BY <2>1
<1>2. MapPage(t, a, e) = IF w.out # "ok" THEN w
                         ELSE IF w.s.pte[a] # None THEN Panic(w)
                         ELSE [w EXCEPT !.s.pte[a] = e]
  BY DEF MapPage
<1> HIDE DEF w
<1>3. w \in States /\ Held(w) = Held(t) /\ w.s.dir = t.s.dir /\ w.s.kpt = t.s.kpt
  BY <1>1 DEF Keeps
<1>4. Held(t) \in Nat
  BY StateParts
<1>5. CASE w.out # "ok"
  BY <1>1, <1>2, <1>3, <1>4, <1>5
<1>6. CASE w.out = "ok" /\ w.s.pte[a] # None
  <2>1. MapPage(t, a, e) = Panic(w)
    BY <1>2, <1>6
  <2>2. /\ Panic(w) \in States /\ Panic(w).s = w.s /\ Panic(w).out = "panic"
        /\ Held(Panic(w)) = Held(t)
    BY <1>3, SetOut, KeepsOut DEF Keeps
  <2> QED BY <1>1, <1>3, <1>4, <2>1, <2>2
<1>7. CASE w.out = "ok" /\ w.s.pte[a] = None
  <2>1. a < KERNBASE
    <3>1. KERNBASE \in Int /\ a \in Int
      BY Sizes DEF Pages
    <3>2. a >= KERNBASE => w.s.pte[a] = Kernel
      BY <1>3, StateParts DEF SpaceOK
    <3> QED BY <1>7, <3>1, <3>2, Kinds
  <2> DEFINE u == [w EXCEPT !.s.pte[a] = e]
  <2>2. /\ u \in States /\ u.free = w.free /\ u.lost = w.lost /\ u.out = w.out
        /\ u.s.dir = w.s.dir /\ u.s.kpt = w.s.kpt
        /\ u.s.pte = [w.s.pte EXCEPT ![a] = e]
        /\ Held(u) = Held(w) + (IF e \in Mem THEN 1 ELSE 0)
                             - (IF w.s.pte[a] \in Mem THEN 1 ELSE 0)
    BY <1>1, <1>3, <1>7, <2>1, SpaceWithPte
  <2>3. MapPage(t, a, e) = u
    BY <1>2, <1>7
  <2> HIDE DEF u
  <2>4. Held(u) = Held(t) + (IF u.out = "ok" /\ e \in Mem THEN 1 ELSE 0)
    BY <1>3, <1>4, <1>7, <2>2, Kinds
  <2> QED BY <1>1, <1>3, <1>7, <2>1, <2>2, <2>3, <2>4
<1> QED BY <1>5, <1>6, <1>7

\* A round of allocuvm or copyuvm: the frame is mapped as memory, given back,
\* or lost in a huge page.
LEMMA AddPageKeeps ==
  ASSUME NEW t \in States, NEW a \in Pages, NEW e \in Mem, a < KERNBASE
  PROVE  LET u == AddPage(t, a, e)
         IN /\ Keeps(t, u)
            /\ u.out = "ok" => t.out = "ok"
            /\ u.s.pte = t.s.pte \/ u.s.pte = [t.s.pte EXCEPT ![a] = e]
<1>0. t.free \in Nat /\ Held(t) \in Nat
  BY StateParts
<1>1. CASE t.out # "ok"
  <2>1. AddPage(t, a, e) = t
    BY <1>1 DEF AddPage
  <2> QED BY <1>1, <2>1, KeepsSelf
<1>2. CASE t.out = "ok" /\ t.free = 0
  <2>1. AddPage(t, a, e) = Fails(t)
    BY <1>2 DEF AddPage
  <2> QED BY <1>2, <2>1, KeepsOut, SetOut
<1>3. CASE t.out = "ok" /\ t.free # 0
  <2> DEFINE v == [t EXCEPT !.free = t.free - 1]
  <2>1. t.free - 1 \in Nat
    BY <1>0, <1>3
  <2>2. v \in States /\ v.s = t.s /\ v.out = "ok" /\ Held(v) = Held(t) - 1
    <3>1. /\ v \in States /\ v.s = t.s /\ v.out = t.out
          /\ Held(v) = Held(t) + (t.free - 1) - t.free
      BY <2>1, SpaceWithFree
    <3> HIDE DEF v
    <3> QED BY <1>0, <1>3, <3>1
  <2> DEFINE u == MapPage(v, a, e)
  <2>3. AddPage(t, a, e) = IF u.out = "fail" THEN kfree(u)
                           ELSE IF IsHuge(t.s, a) THEN Loses(u) ELSE u
    BY <1>3 DEF AddPage
  <2> HIDE DEF v
  <2>4. /\ u \in States /\ u.s.dir = v.s.dir /\ u.s.kpt = v.s.kpt
        /\ u.s.pte = v.s.pte \/ u.s.pte = [v.s.pte EXCEPT ![a] = e]
        /\ IsHuge(v.s, a) \/ u.out # "ok" => Held(u) = Held(v)
        /\ ~ IsHuge(v.s, a) /\ u.out = "ok" => Held(u) = Held(v) + 1
        /\ IsHuge(v.s, a) => u.out # "fail"
    <3>1. CASE IsHuge(v.s, a)
      <4>1. u \in {v, Panic(v)}
        BY <3>1, MapPageInHuge
      <4> HIDE DEF u
      <4>2. /\ Panic(v) \in States /\ Panic(v).s = v.s /\ Panic(v).out = "panic"
            /\ Held(Panic(v)) = Held(v)
        BY <2>2, SetOut, KeepsOut
      <4> QED BY <2>2, <3>1, <4>1, <4>2
    <3>2. CASE ~ IsHuge(v.s, a)
      <4>1. e \in PteKinds /\ e # None /\ e # Kernel
        BY Kinds
      <4>2. /\ u \in States /\ u.s.dir = v.s.dir /\ u.s.kpt = v.s.kpt
            /\ u.s.pte = IF u.out = "ok" THEN [v.s.pte EXCEPT ![a] = e] ELSE v.s.pte
            /\ Held(u) = Held(v) + (IF u.out = "ok" /\ e \in Mem THEN 1 ELSE 0)
        BY <2>2, <3>2, <4>1, MapPageKeeps
      <4> HIDE DEF u
      <4>3. Held(v) \in Nat
        BY <2>2, StateParts
      <4> QED BY <3>2, <4>2, <4>3
    <3> QED BY <3>1, <3>2
  <2> HIDE DEF u
  <2>5. u.out \in Outs /\ Held(u) \in Nat
    BY <2>4, StateParts
  <2>6. CASE u.out = "fail"
    <3>1. PICK k : k = kfree(u)
      OBVIOUS
    <3>2. k \in States /\ k.s = u.s /\ k.out = u.out /\ Held(k) = Held(u) + 1
      BY <2>4, <3>1, GivenUp
    <3>3. Held(k) = Held(t)
      BY <1>0, <2>2, <2>4, <2>6, <3>2
    <3>4. AddPage(t, a, e) = k
      BY <2>3, <2>6, <3>1
    <3> QED BY <1>3, <2>2, <2>4, <2>6, <3>2, <3>3, <3>4 DEF Keeps
  <2>7. CASE u.out # "fail" /\ IsHuge(t.s, a)
    <3>1. PICK k : k = Loses(u)
      OBVIOUS
    <3>2. k \in States /\ k.s = u.s /\ k.out = u.out /\ Held(k) = Held(u) + 1
      BY <2>4, <3>1, GivenUp
    <3>3. Held(k) = Held(t)
      BY <1>0, <2>2, <2>4, <2>7, <3>2
    <3>4. AddPage(t, a, e) = k
      BY <2>3, <2>7, <3>1
    <3> QED BY <1>3, <2>2, <2>4, <3>2, <3>3, <3>4 DEF Keeps
  <2>8. CASE u.out # "fail" /\ ~ IsHuge(t.s, a)
    <3>1. AddPage(t, a, e) = u
      BY <2>3, <2>8
    <3>2. u.out # "panic" => Held(u) = Held(t)
      BY <1>0, <2>2, <2>4, <2>5, <2>8 DEF Outs
    <3> QED BY <1>3, <2>2, <2>4, <3>1, <3>2 DEF Keeps
  <2> QED BY <2>6, <2>7, <2>8
<1> QED BY <1>1, <1>2, <1>3

\* A round of deallocuvm: memory is given back or lost, and only frame 0 is a
\* panic.
LEMMA UnmapKeeps ==
  ASSUME NEW t \in States, NEW a \in Pages, a < KERNBASE
  PROVE  LET u == UnmapPage(t, a)
         IN /\ Keeps(t, u) /\ u.out \in {t.out, "panic"}
            /\ u.out # "panic" => u.s.pte = [t.s.pte EXCEPT ![a] = None]
            /\ u.out = "panic" => t.out = "panic" \/ t.s.pte[a] = Device(0)
<1>0. /\ t.free \in Nat /\ Held(t) \in Nat /\ SpaceOK(t.s)
      /\ t.s.tab \in [UserDirs -> TabKinds] /\ t.s.pte \in [Pages -> PteKinds]
  BY StateParts
<1>1. CASE t.out = "panic"
  <2>1. UnmapPage(t, a) = t
    BY <1>1 DEF UnmapPage
  <2> QED BY <1>1, <2>1, KeepsSelf
<1>2. CASE t.out # "panic"
  <2> DEFINE h == t.s.tab[Dir(a)]
             e == t.s.pte[a]
  <2>1. h \in TabKinds /\ e \in PteKinds /\ Dir(a) \in UserDirs
    BY <1>0, DirInUser
  <2>2. UnmapPage(t, a) =
          IF h.kind = "huge" THEN [t EXCEPT !.s.tab[Dir(a)] = None]
          ELSE IF h = None \/ e = None THEN t
          ELSE IF e = Device(0) THEN Panic(t)
          ELSE [(IF e = Memory THEN kfree(t) ELSE IF e = Touched THEN Loses(t) ELSE t)
                  EXCEPT !.s.pte[a] = None]
    BY <1>2 DEF UnmapPage
  <2>3. e # None => h = Entry("table")
    BY <1>0 DEF SpaceOK
  <2>4. None \in TabKinds /\ None \in PteKinds /\ None # Kernel /\ None \notin Mem
        /\ None # Entry("table")
    BY Kinds DEF TabKinds, PteKinds
  <2>5. CASE e = None
    <3>1. t.s.pte = [t.s.pte EXCEPT ![a] = None]
      BY <1>0, <2>5
    <3>2. CASE h.kind = "huge"
      <4> DEFINE u == [t EXCEPT !.s.tab[Dir(a)] = None]
      <4>1. t.s.tab[Dir(a)] # Entry("table")
        BY <3>2, Kinds
      <4>2. /\ u \in States /\ u.free = t.free /\ u.lost = t.lost /\ u.out = t.out
            /\ u.s.dir = t.s.dir /\ u.s.kpt = t.s.kpt
            /\ u.s.pte = t.s.pte /\ u.s.tab = [t.s.tab EXCEPT ![Dir(a)] = None]
            /\ Held(u) = Held(t) + (IF None = Entry("table") THEN 1 ELSE 0)
        BY <2>1, <2>4, <4>1, SpaceWithTab
      <4>3. UnmapPage(t, a) = u
        BY <2>2, <3>2
      <4> HIDE DEF u
      <4>4. Held(u) = Held(t)
        BY <1>0, <2>4, <4>2
      <4> QED BY <1>2, <3>1, <4>2, <4>3, <4>4 DEF Keeps
    <3>3. CASE h.kind # "huge"
      <4>1. UnmapPage(t, a) = t
        BY <2>2, <2>5, <3>3
      <4> QED BY <1>2, <3>1, <4>1, KeepsSelf
    <3> QED BY <3>2, <3>3
  <2>6. CASE e = Device(0)
    <3>1. UnmapPage(t, a) = Panic(t)
      BY <2>2, <2>3, <2>4, <2>6, Kinds
    <3>2. Panic(t).out = "panic"
      BY SetOut
    <3> QED BY <2>6, <3>1, <3>2, KeepsOut
  <2>7. CASE e # None /\ e # Device(0)
    <3> DEFINE v == IF e = Memory THEN kfree(t) ELSE IF e = Touched THEN Loses(t) ELSE t
               u == [v EXCEPT !.s.pte[a] = None]
    <3>1. UnmapPage(t, a) = u
      BY <2>2, <2>3, <2>4, <2>7, Kinds
    <3>2. /\ v \in States /\ v.s = t.s /\ v.out = t.out
          /\ Held(v) = Held(t) + (IF e \in Mem THEN 1 ELSE 0)
      <4>1. CASE e \in Mem
        <5>1. v \in {kfree(t), Loses(t)}
          BY <4>1 DEF Mem
        <5> HIDE DEF v
        <5> QED BY <4>1, <5>1, GivenUp
      <4>2. CASE e \notin Mem
        <5>1. v = t
          BY <4>2 DEF Mem
        <5> HIDE DEF v
        <5> QED BY <1>0, <4>2, <5>1
      <4> QED BY <4>1, <4>2
    <3> HIDE DEF v
    <3>3. /\ u \in States /\ u.free = v.free /\ u.lost = v.lost /\ u.out = v.out
          /\ u.s.dir = v.s.dir /\ u.s.kpt = v.s.kpt
          /\ u.s.pte = [v.s.pte EXCEPT ![a] = None]
          /\ Held(u) = Held(v) + (IF None \in Mem THEN 1 ELSE 0)
                               - (IF v.s.pte[a] \in Mem THEN 1 ELSE 0)
      BY <2>4, <3>2, SpaceWithPte
    <3> HIDE DEF u
    <3>4. Held(u) = Held(t)
      BY <1>0, <2>4, <3>2, <3>3
    <3> QED BY <1>2, <3>1, <3>2, <3>3, <3>4 DEF Keeps
  <2> QED BY <2>5, <2>6, <2>7
<1> QED BY <1>1, <1>2

\* A device frame in an address space.
LEMMA MapDeviceKeeps ==
  ASSUME NEW t \in States, NEW a \in Pages, NEW f
  PROVE  LET u == MapPage(t, a, Device(f))
         IN /\ Keeps(t, u)
            /\ u.out = "ok" => t.out = "ok" /\ a < KERNBASE
            /\ Memories(u.s) \subseteq Memories(t.s)
<1>1. CASE t.out # "ok"
  <2>1. MapPage(t, a, Device(f)) = t
    BY <1>1 DEF MapPage
  <2> QED BY <1>1, <2>1, KeepsSelf
<1>3. CASE t.out = "ok" /\ IsHuge(t.s, a)
  <2>1. MapPage(t, a, Device(f)) \in {t, Panic(t)}
    BY <1>3, MapPageInHuge
  <2>2. Panic(t).out = "panic" /\ Panic(t).s = t.s /\ Keeps(t, Panic(t)) /\ Keeps(t, t)
    BY SetOut, KeepsOut, KeepsSelf
  <2> QED BY <1>3, <2>1, <2>2 DEF IsHuge
<1>2. CASE t.out = "ok" /\ ~ IsHuge(t.s, a)
  <2> DEFINE u == MapPage(t, a, Device(f))
  <2>1. Device(f) \in PteKinds /\ Device(f) # None /\ Device(f) # Kernel /\ Device(f) \notin Mem
    BY Kinds DEF Mem
  <2>2. /\ u \in States /\ u.s.dir = t.s.dir /\ u.s.kpt = t.s.kpt
        /\ u.s.pte = IF u.out = "ok" THEN [t.s.pte EXCEPT ![a] = Device(f)] ELSE t.s.pte
        /\ u.out = "ok" => a < KERNBASE
        /\ Held(u) = Held(t) + (IF u.out = "ok" /\ Device(f) \in Mem THEN 1 ELSE 0)
    BY <1>2, <2>1, MapPageKeeps
  <2> HIDE DEF u
  <2>3. Held(u) = Held(t)
    BY <2>1, <2>2, StateParts
  <2>4. \A b \in Pages : u.s.pte[b] \in Mem => t.s.pte[b] \in Mem
    BY <2>1, <2>2, StateParts
  <2>5. Memories(u.s) \subseteq Memories(t.s)
    BY <2>4 DEF Memories, Mem
  <2> QED BY <1>2, <2>2, <2>3, <2>5 DEF Keeps, u
<1> QED BY <1>1, <1>2, <1>3

\* A huge page in an address space.
LEMMA MapHugeKeeps ==
  ASSUME NEW t \in States, NEW d \in Nat, d % HPSIZE = 0
  PROVE  LET u == MapHuge(t, d)
         IN /\ Keeps(t, u)
            /\ u.out = "ok" => /\ t.out = "ok" /\ d \in UserDirs /\ t.s.tab[d] = None
                               /\ u.s.tab = [t.s.tab EXCEPT ![d] = Entry("huge")]
            /\ Memories(u.s) \subseteq Memories(t.s)
<1>0. KERNBASE \in Int /\ Held(t) \in Nat
  BY Sizes, StateParts
<1>1. CASE t.out # "ok"
  <2>1. MapHuge(t, d) = t
    BY <1>1 DEF MapHuge
  <2> QED BY <1>1, <2>1, KeepsSelf
<1>2. CASE t.out = "ok" /\ (d >= KERNBASE \/ t.s.tab[d] # None)
  <2>1. MapHuge(t, d) = Panic(t)
    BY <1>2 DEF MapHuge
  <2>2. Panic(t).out = "panic" /\ Panic(t).s = t.s
    BY SetOut
  <2> QED BY <2>1, <2>2, KeepsOut
<1>3. CASE t.out = "ok" /\ ~ (d >= KERNBASE \/ t.s.tab[d] # None)
  <2> DEFINE u == [t EXCEPT !.s.tab[d] = Entry("huge")]
  <2>1. MapHuge(t, d) = u
    BY <1>3 DEF MapHuge
  <2>2. d \in UserDirs /\ d < KERNBASE
    BY <1>0, <1>3, Sizes DEF UserDirs, Dirs
  <2>3. Entry("huge") \in TabKinds /\ Entry("huge") # Entry("table") /\ t.s.tab[d] # Entry("table")
    BY <1>3, Kinds DEF TabKinds
  <2>4. /\ u \in States /\ u.free = t.free /\ u.lost = t.lost /\ u.out = t.out
        /\ u.s.dir = t.s.dir /\ u.s.kpt = t.s.kpt
        /\ u.s.pte = t.s.pte /\ u.s.tab = [t.s.tab EXCEPT ![d] = Entry("huge")]
        /\ Held(u) = Held(t) + (IF Entry("huge") = Entry("table") THEN 1 ELSE 0)
    BY <2>2, <2>3, SpaceWithTab
  <2> HIDE DEF u
  <2>5. Held(u) = Held(t)
    BY <1>0, <2>3, <2>4
  <2>6. Memories(u.s) = Memories(t.s)
    BY <2>4 DEF Memories
  <2> QED BY <1>3, <2>1, <2>2, <2>4, <2>5, <2>6 DEF Keeps
<1> QED BY <1>1, <1>2, <1>3

-----------------------------------------------------------------------------
(* The loops.  W[i] is a set that holds the state after i rounds.          *)

UnmapRounds(from, st, n) ==
  LET round(t, i) == UnmapPage(t, Page(from, i))
  IN  Loop(round, st, n)

\* The loop of deallocuvm.
LEMMA UnmapLoop ==
  ASSUME NEW n \in Nat, NEW from, NEW W, NEW st \in W[0],
         \A i \in 1..n : \A t \in W[i - 1] : UnmapPage(t, Page(from, i)) \in W[i]
  PROVE  UnmapRounds(from, st, n) \in W[n]
<1> DEFINE Round(t, i) == UnmapPage(t, Page(from, i))
           step == [i \in 1..n |-> [t \in W[i - 1] |-> Round(t, i)]]
           Is(g) == g = [i \in 0..n |-> IF i = 0 THEN st ELSE Round(g[i - 1], i)]
           after == CHOOSE g : Is(g)
<1>1. \A i \in 1..n : \A t \in W[i - 1] : step[i][t] = Round(t, i) /\ step[i][t] \in W[i]
  OBVIOUS
<1> HIDE DEF step
<1>2. PICK f : Rounds(f, n, st, step) /\ \A i \in 0..n : f[i] \in W[i]
  BY <1>1, LoopRuns
<1>3. Is(f)
  <2>1. \A i \in 1..n : f[i - 1] \in W[i - 1]
    BY <1>2
  <2>2. \A i \in 0..n : (IF i = 0 THEN st ELSE step[i][f[i - 1]])
                      = (IF i = 0 THEN st ELSE Round(f[i - 1], i))
    BY <1>1, <2>1
  <2> QED BY <1>2, <2>2 DEF Rounds
<1>4. Is(after)
  BY <1>3
<1>5. after[0] = st /\ \A i \in 1..n : after[i] = Round(after[i - 1], i)
  <2> HIDE DEF after
  <2> QED BY <1>4
<1> HIDE DEF after
<1>6. \A i \in 0..n : after[i] \in W[i]
  BY <1>5, Upward
<1> QED BY <1>6 DEF UnmapRounds, Loop, after

AddRounds(from, st, n) ==
  LET round(t, i) == AddPage(t, Page(from, i), Memory)
  IN  Loop(round, st, n)

\* The loop of allocuvm.
LEMMA AddLoop ==
  ASSUME NEW n \in Nat, NEW from, NEW W, NEW st \in W[0],
         \A i \in 1..n : \A t \in W[i - 1] : AddPage(t, Page(from, i), Memory) \in W[i]
  PROVE  AddRounds(from, st, n) \in W[n]
<1> DEFINE Round(t, i) == AddPage(t, Page(from, i), Memory)
           step == [i \in 1..n |-> [t \in W[i - 1] |-> Round(t, i)]]
           Is(g) == g = [i \in 0..n |-> IF i = 0 THEN st ELSE Round(g[i - 1], i)]
           after == CHOOSE g : Is(g)
<1>1. \A i \in 1..n : \A t \in W[i - 1] : step[i][t] = Round(t, i) /\ step[i][t] \in W[i]
  OBVIOUS
<1> HIDE DEF step
<1>2. PICK f : Rounds(f, n, st, step) /\ \A i \in 0..n : f[i] \in W[i]
  BY <1>1, LoopRuns
<1>3. Is(f)
  <2>1. \A i \in 1..n : f[i - 1] \in W[i - 1]
    BY <1>2
  <2>2. \A i \in 0..n : (IF i = 0 THEN st ELSE step[i][f[i - 1]])
                      = (IF i = 0 THEN st ELSE Round(f[i - 1], i))
    BY <1>1, <2>1
  <2> QED BY <1>2, <2>2 DEF Rounds
<1>4. Is(after)
  BY <1>3
<1>5. after[0] = st /\ \A i \in 1..n : after[i] = Round(after[i - 1], i)
  <2> HIDE DEF after
  <2> QED BY <1>4
<1> HIDE DEF after
<1>6. \A i \in 0..n : after[i] \in W[i]
  BY <1>5, Upward
<1> QED BY <1>6 DEF AddRounds, Loop, after

CopyRounds(s, w, st, n) ==
  LET round(t, i) == CopyPage(t, s, w, Page(0, i))
  IN  Loop(round, st, n)

\* The loop of copyuvm.
LEMMA CopyLoop ==
  ASSUME NEW n \in Nat, NEW s, NEW w, NEW W, NEW st \in W[0],
         \A i \in 1..n : \A t \in W[i - 1] : CopyPage(t, s, w, Page(0, i)) \in W[i]
  PROVE  CopyRounds(s, w, st, n) \in W[n]
<1> DEFINE Round(t, i) == CopyPage(t, s, w, Page(0, i))
           step == [i \in 1..n |-> [t \in W[i - 1] |-> Round(t, i)]]
           Is(g) == g = [i \in 0..n |-> IF i = 0 THEN st ELSE Round(g[i - 1], i)]
           after == CHOOSE g : Is(g)
<1>1. \A i \in 1..n : \A t \in W[i - 1] : step[i][t] = Round(t, i) /\ step[i][t] \in W[i]
  OBVIOUS
<1> HIDE DEF step
<1>2. PICK f : Rounds(f, n, st, step) /\ \A i \in 0..n : f[i] \in W[i]
  BY <1>1, LoopRuns
<1>3. Is(f)
  <2>1. \A i \in 1..n : f[i - 1] \in W[i - 1]
    BY <1>2
  <2>2. \A i \in 0..n : (IF i = 0 THEN st ELSE step[i][f[i - 1]])
                      = (IF i = 0 THEN st ELSE Round(f[i - 1], i))
    BY <1>1, <2>1
  <2> QED BY <1>2, <2>2 DEF Rounds
<1>4. Is(after)
  BY <1>3
<1>5. after[0] = st /\ \A i \in 1..n : after[i] = Round(after[i - 1], i)
  <2> HIDE DEF after
  <2> QED BY <1>4
<1> HIDE DEF after
<1>6. \A i \in 0..n : after[i] \in W[i]
  BY <1>5, Upward
<1> QED BY <1>6 DEF CopyRounds, Loop, after

DeviceRounds(va, f0, st, n) ==
  LET round(t, i) == MapPage(t, (va + (i - 1) * PGSIZE) % AddrSpace,
                                   Device((f0 + i - 1) % PhysFrames))
  IN  Loop(round, st, n)

\* The loop of mappages.
LEMMA DeviceLoop ==
  ASSUME NEW n \in Nat, NEW va, NEW f0, NEW W, NEW st \in W[0],
         \A i \in 1..n : \A t \in W[i - 1] :
           MapPage(t, (va + (i - 1) * PGSIZE) % AddrSpace, Device((f0 + i - 1) % PhysFrames)) \in W[i]
  PROVE  DeviceRounds(va, f0, st, n) \in W[n]
<1> DEFINE Round(t, i) == MapPage(t, (va + (i - 1) * PGSIZE) % AddrSpace,
                                 Device((f0 + i - 1) % PhysFrames))
           step == [i \in 1..n |-> [t \in W[i - 1] |-> Round(t, i)]]
           Is(g) == g = [i \in 0..n |-> IF i = 0 THEN st ELSE Round(g[i - 1], i)]
           after == CHOOSE g : Is(g)
<1>1. \A i \in 1..n : \A t \in W[i - 1] : step[i][t] = Round(t, i) /\ step[i][t] \in W[i]
  OBVIOUS
<1> HIDE DEF step
<1>2. PICK f : Rounds(f, n, st, step) /\ \A i \in 0..n : f[i] \in W[i]
  BY <1>1, LoopRuns
<1>3. Is(f)
  <2>1. \A i \in 1..n : f[i - 1] \in W[i - 1]
    BY <1>2
  <2>2. \A i \in 0..n : (IF i = 0 THEN st ELSE step[i][f[i - 1]])
                      = (IF i = 0 THEN st ELSE Round(f[i - 1], i))
    BY <1>1, <2>1
  <2> QED BY <1>2, <2>2 DEF Rounds
<1>4. Is(after)
  BY <1>3
<1>5. after[0] = st /\ \A i \in 1..n : after[i] = Round(after[i - 1], i)
  <2> HIDE DEF after
  <2> QED BY <1>4
<1> HIDE DEF after
<1>6. \A i \in 0..n : after[i] \in W[i]
  BY <1>5, Upward
<1> QED BY <1>6 DEF DeviceRounds, Loop, after

HugeRounds(va, st, n) ==
  LET round(t, i) == MapHuge(t, va + (i - 1) * HPSIZE)
  IN  Loop(round, st, n)

\* The loop of hpmappages.
LEMMA HugeLoop ==
  ASSUME NEW n \in Nat, NEW va, NEW W, NEW st \in W[0],
         \A i \in 1..n : \A t \in W[i - 1] : MapHuge(t, va + (i - 1) * HPSIZE) \in W[i]
  PROVE  HugeRounds(va, st, n) \in W[n]
<1> DEFINE Round(t, i) == MapHuge(t, va + (i - 1) * HPSIZE)
           step == [i \in 1..n |-> [t \in W[i - 1] |-> Round(t, i)]]
           Is(g) == g = [i \in 0..n |-> IF i = 0 THEN st ELSE Round(g[i - 1], i)]
           after == CHOOSE g : Is(g)
<1>1. \A i \in 1..n : \A t \in W[i - 1] : step[i][t] = Round(t, i) /\ step[i][t] \in W[i]
  OBVIOUS
<1> HIDE DEF step
<1>2. PICK f : Rounds(f, n, st, step) /\ \A i \in 0..n : f[i] \in W[i]
  BY <1>1, LoopRuns
<1>3. Is(f)
  <2>1. \A i \in 1..n : f[i - 1] \in W[i - 1]
    BY <1>2
  <2>2. \A i \in 0..n : (IF i = 0 THEN st ELSE step[i][f[i - 1]])
                      = (IF i = 0 THEN st ELSE Round(f[i - 1], i))
    BY <1>1, <2>1
  <2> QED BY <1>2, <2>2 DEF Rounds
<1>4. Is(after)
  BY <1>3
<1>5. after[0] = st /\ \A i \in 1..n : after[i] = Round(after[i - 1], i)
  <2> HIDE DEF after
  <2> QED BY <1>4
<1> HIDE DEF after
<1>6. \A i \in 0..n : after[i] \in W[i]
  BY <1>5, Upward
<1> QED BY <1>6 DEF HugeRounds, Loop, after

-----------------------------------------------------------------------------
(* The calls *)

\* u is t after i rounds of deallocuvm.
Cleared(t, u, from, i) ==
    /\ Keeps(t, u) /\ u.out \in {t.out, "panic"}
    /\ u.out # "panic" =>
         \A a \in Pages : u.s.pte[a] = IF \E j \in 1..i : Page(from, j) = a THEN None ELSE t.s.pte[a]
    /\ u.out = "panic" => t.out = "panic" \/ \E a \in Pages : t.s.pte[a] = Device(0)

\* One more round of deallocuvm.
LEMMA ClearedStep ==
  ASSUME NEW t \in States, NEW u, NEW from, NEW i \in Nat \ {0}, Cleared(t, u, from, i - 1),
         Page(from, i) \in Pages, Page(from, i) < KERNBASE
  PROVE  Cleared(t, UnmapPage(u, Page(from, i)), from, i)
<1> DEFINE a == Page(from, i)
           v == UnmapPage(u, a)
<1>1. u \in States
  BY DEF Cleared, Keeps
<1>2. /\ Keeps(u, v) /\ v.out \in {u.out, "panic"}
      /\ v.out # "panic" => v.s.pte = [u.s.pte EXCEPT ![a] = None]
      /\ v.out = "panic" => u.out = "panic" \/ u.s.pte[a] = Device(0)
  BY <1>1, UnmapKeeps
<1>3. a \in Pages /\ u.s.pte \in [Pages -> PteKinds] /\ v \in States
  BY <1>1, <1>2, StateParts DEF Keeps
<1>4. \A b : (\E j \in 1..i : Page(from, j) = b) <=> b = a \/ \E j \in 1 .. i - 1 : Page(from, j) = b
  <2>1. 1..i = (1 .. i - 1) \cup {i}
    OBVIOUS
  <2> QED BY <2>1
<1> HIDE DEF v, a
<1>5. Keeps(t, v) /\ v.out \in {t.out, "panic"}
  BY <1>2 DEF Cleared, Keeps
<1>6. ASSUME v.out # "panic", NEW b \in Pages
      PROVE  v.s.pte[b] = IF \E j \in 1..i : Page(from, j) = b THEN None ELSE t.s.pte[b]
  <2>1. v.s.pte[b] = IF b = a THEN None ELSE u.s.pte[b]
    BY <1>2, <1>3, <1>6
  <2>2. u.s.pte[b] = IF \E j \in 1 .. i - 1 : Page(from, j) = b THEN None ELSE t.s.pte[b]
    BY <1>2, <1>6 DEF Cleared, Keeps
  <2> QED BY <1>4, <2>1, <2>2
<1>7. ASSUME v.out = "panic" PROVE t.out = "panic" \/ \E b \in Pages : t.s.pte[b] = Device(0)
  <2>1. CASE u.out = "panic"
    BY <2>1 DEF Cleared
  <2>2. CASE u.out # "panic"
    <3>1. u.s.pte[a] = Device(0)
      BY <1>2, <1>7, <2>2
    <3>2. u.s.pte[a] \in {None, t.s.pte[a]}
      BY <1>3, <2>2 DEF Cleared
    <3> QED BY <1>3, <3>1, <3>2, Kinds
  <2> QED BY <2>1, <2>2
<1> QED BY <1>5, <1>6, <1>7 DEF Cleared, a, v

\* deallocuvm gives back the memory between the sizes and keeps what lies
\* outside.
LEMMA DeallocKeeps ==
  ASSUME NEW t \in States, NEW old \in 0 .. KERNBASE, NEW new \in 0 .. KERNBASE
  PROVE  LET u == deallocuvm(t, old, new)
         IN /\ Keeps(t, u) /\ u.out \in {t.out, "panic"}
            /\ u.out # "panic" => \A a \in Pages :
                 u.s.pte[a] = IF new <= a /\ a < old THEN None ELSE t.s.pte[a]
            /\ u.out = "panic" => t.out = "panic" \/ \E a \in Pages : t.s.pte[a] = Device(0)
<1>1. /\ old \in Int /\ new \in Int /\ KERNBASE \in Int /\ old <= KERNBASE
      /\ \A a \in Pages : a \in Int
  BY Sizes DEF Pages
<1>2. CASE new >= old
  <2>1. deallocuvm(t, old, new) = t
    BY <1>2 DEF deallocuvm
  <2>2. \A a \in Pages : ~ (new <= a /\ a < old)
    BY <1>1, <1>2
  <2> QED BY <2>1, <2>2, KeepsSelf
<1>3. CASE ~ (new >= old)
  <2> DEFINE n == Count(new, old)
             W == [i \in 0..n |-> {u \in States : Cleared(t, u, new, i)}]
             u == deallocuvm(t, old, new)
  <2>1. /\ n \in Nat
        /\ \A i \in 1..n : Page(new, i) \in Pages /\ new <= Page(new, i) /\ Page(new, i) < old
        /\ \A a \in Pages : new <= a /\ a < old => \E i \in 1..n : Page(new, i) = a
    BY PageIs
  <2> HIDE DEF n
  <2>2. t \in W[0]
    <3>1. Cleared(t, t, new, 0)
      BY KeepsSelf DEF Cleared
    <3> QED BY <2>1, <3>1
  <2>3. ASSUME NEW i \in 1..n, NEW v \in W[i - 1] PROVE UnmapPage(v, Page(new, i)) \in W[i]
    <3>1. i - 1 \in 0..n /\ i \in 0..n /\ i \in Nat \ {0}
      BY <2>1
    <3>2. Cleared(t, v, new, i - 1)
      BY <3>1
    <3>3. Page(new, i) \in Pages /\ Page(new, i) < KERNBASE
      BY <1>1, <2>1
    <3>4. Cleared(t, UnmapPage(v, Page(new, i)), new, i)
      BY <3>1, <3>2, <3>3, ClearedStep
    <3>5. UnmapPage(v, Page(new, i)) \in States
      BY <3>4 DEF Cleared, Keeps
    <3> QED BY <3>1, <3>4, <3>5
  <2>4. u \in W[n]
    <3> HIDE DEF W
    <3>1. UnmapRounds(new, t, n) \in W[n]
      BY <2>1, <2>2, <2>3, UnmapLoop
    <3>2. u = UnmapRounds(new, t, n)
      BY <1>3 DEF deallocuvm, n, UnmapRounds
    <3> QED BY <3>1, <3>2
  <2>5. Cleared(t, u, new, n)
    <3> HIDE DEF u
    <3> QED BY <2>1, <2>4
  <2>6. \A a \in Pages : (\E i \in 1..n : Page(new, i) = a) <=> new <= a /\ a < old
    BY <2>1
  <2> HIDE DEF u
  <2> QED BY <2>5, <2>6 DEF Cleared, u
<1> QED BY <1>2, <1>3

\* u is t after i rounds of allocuvm or copyuvm.
Added(t, u, from, i) ==
    /\ Keeps(t, u)
    /\ u.out = "ok" => t.out = "ok"
    /\ \A a \in Pages : \/ u.s.pte[a] = t.s.pte[a]
                        \/ u.s.pte[a] \in Mem /\ \E j \in 1..i : Page(from, j) = a

\* One more round of allocuvm or copyuvm.
LEMMA AddedStep ==
  ASSUME NEW t \in States, NEW u, NEW from, NEW i \in Nat \ {0}, Added(t, u, from, i - 1),
         Page(from, i) \in Pages, Page(from, i) < KERNBASE, NEW e \in Mem
  PROVE  Added(t, AddPage(u, Page(from, i), e), from, i)
<1> DEFINE a == Page(from, i)
           v == AddPage(u, a, e)
<1>1. u \in States
  BY DEF Added, Keeps
<1>2. /\ Keeps(u, v)
      /\ v.out = "ok" => u.out = "ok"
      /\ v.s.pte = u.s.pte \/ v.s.pte = [u.s.pte EXCEPT ![a] = e]
  BY <1>1, AddPageKeeps
<1>3. a \in Pages /\ u.s.pte \in [Pages -> PteKinds] /\ v \in States
  BY <1>1, <1>2, StateParts DEF Keeps
<1>4. \A b : (\E j \in 1..i : Page(from, j) = b) <=> b = a \/ \E j \in 1 .. i - 1 : Page(from, j) = b
  <2>1. 1..i = (1 .. i - 1) \cup {i}
    OBVIOUS
  <2> QED BY <2>1
<1> HIDE DEF v, a
<1>5. Keeps(t, v) /\ (v.out = "ok" => t.out = "ok")
  BY <1>2 DEF Added, Keeps
<1>6. ASSUME NEW b \in Pages
      PROVE  \/ v.s.pte[b] = t.s.pte[b]
             \/ v.s.pte[b] \in Mem /\ \E j \in 1..i : Page(from, j) = b
  <2>1. v.s.pte[b] = u.s.pte[b] \/ (b = a /\ v.s.pte[b] \in Mem)
    BY <1>2, <1>3
  <2> QED BY <1>4, <2>1 DEF Added
<1> QED BY <1>5, <1>6 DEF Added, a, v

\* allocuvm adds memory below the new size, or leaves nothing behind.
LEMMA AllocKeeps ==
  ASSUME NEW t \in States, NEW old \in 0 .. KERNBASE, NEW new \in Nat, old <= new, t.out # "panic"
  PROVE  LET u == allocuvm(t, old, new)
         IN /\ Keeps(t, u)
            /\ u.out = "ok" => t.out = "ok" /\ new < KERNBASE
            /\ u.out # "panic" => \A a \in Pages :
                 \/ u.s.pte[a] = t.s.pte[a]
                 \/ u.s.pte[a] = None
                 \/ u.s.pte[a] \in Mem /\ u.out = "ok" /\ a < new
<1>1. /\ old \in Int /\ new \in Int /\ KERNBASE \in Int
      /\ \A a \in Pages : a \in Int
  BY Sizes DEF Pages
<1>2. CASE new >= KERNBASE
  <2>1. allocuvm(t, old, new) = Fails(t)
    BY <1>2 DEF allocuvm
  <2> QED BY <2>1, KeepsOut, SetOut
<1>3. CASE ~ (new >= KERNBASE)
  <2> DEFINE n == Count(old, new)
             W == [i \in 0..n |-> {u \in States : Added(t, u, old, i)}]
             g == AddRounds(old, t, n)
  <2>0. new \in 0 .. KERNBASE
    BY <1>1, <1>3
  <2>1. /\ n \in Nat
        /\ \A i \in 1..n : Page(old, i) \in Pages /\ old <= Page(old, i) /\ Page(old, i) < new
    BY <2>0, PageIs
  <2> HIDE DEF n
  <2>2. t \in W[0]
    <3>1. Added(t, t, old, 0)
      BY KeepsSelf DEF Added
    <3> QED BY <2>1, <3>1
  <2>3. ASSUME NEW i \in 1..n, NEW v \in W[i - 1] PROVE AddPage(v, Page(old, i), Memory) \in W[i]
    <3>1. i - 1 \in 0..n /\ i \in 0..n /\ i \in Nat \ {0}
      BY <2>1
    <3>2. Added(t, v, old, i - 1)
      BY <3>1
    <3>3. Page(old, i) \in Pages /\ Page(old, i) < KERNBASE
      BY <1>1, <1>3, <2>1
    <3>4. Added(t, AddPage(v, Page(old, i), Memory), old, i)
      BY <3>1, <3>2, <3>3, AddedStep DEF Mem
    <3>5. AddPage(v, Page(old, i), Memory) \in States
      BY <3>4 DEF Added, Keeps
    <3> QED BY <3>1, <3>4, <3>5
  <2>4. g \in W[n]
    <3> HIDE DEF W
    <3> QED BY <2>1, <2>2, <2>3, AddLoop
  <2>5. allocuvm(t, old, new) = IF g.out = "fail" THEN deallocuvm(g, new, old) ELSE g
    BY <1>3 DEF allocuvm, n, AddRounds
  <2> HIDE DEF g
  <2>6. Added(t, g, old, n) /\ g \in States
    BY <2>1, <2>4
  <2>7. \A a \in Pages : \/ g.s.pte[a] = t.s.pte[a]
                         \/ g.s.pte[a] \in Mem /\ old <= a /\ a < new
    BY <2>1, <2>6 DEF Added
  <2>8. CASE g.out # "fail"
    <3>1. allocuvm(t, old, new) = g /\ new < KERNBASE
      BY <1>1, <1>3, <2>5, <2>8
    <3>2. g.out # "panic" => g.out = "ok"
      BY <2>6, <2>8, StateParts DEF Outs
    <3> QED BY <2>6, <2>7, <3>1, <3>2 DEF Added
  <2>9. CASE g.out = "fail"
    <3> DEFINE u == deallocuvm(g, new, old)
    <3>1. /\ Keeps(g, u) /\ u.out \in {g.out, "panic"}
          /\ u.out # "panic" => \A a \in Pages :
                 u.s.pte[a] = IF old <= a /\ a < new THEN None ELSE g.s.pte[a]
      BY <2>0, <2>6, DeallocKeeps
    <3>2. allocuvm(t, old, new) = u
      BY <2>5, <2>9
    <3> HIDE DEF u
    <3>3. Keeps(t, u) /\ u.out # "ok"
      BY <2>6, <2>9, <3>1 DEF Added, Keeps
    <3> QED BY <2>7, <3>1, <3>2, <3>3
  <2> QED BY <2>8, <2>9
<1> QED BY <1>2, <1>3

\* A space without pages holds no frame.
LEMMA EmptySpace ==
    /\ NoSpace \in Spaces /\ Taken(NoSpace) = 0
    /\ NoSpace.dir = FALSE /\ NoSpace.kpt = FALSE
    /\ \A a \in Pages : NoSpace.pte[a] \notin Mem \cup {Device(0)}
    /\ \A s \in RawSpaces : s.tab = NoSpace.tab /\ s.pte = NoSpace.pte =>
         s \in Spaces /\ Taken(s) = 0
<1>1. /\ NoSpace.dir = FALSE /\ NoSpace.kpt = FALSE
      /\ NoSpace.tab = [d \in UserDirs |-> None]
      /\ NoSpace.pte = [a \in Pages |-> IF a < KERNBASE THEN None ELSE Kernel]
      /\ NoSpace = [dir |-> FALSE, kpt |-> FALSE, tab |-> NoSpace.tab, pte |-> NoSpace.pte]
  BY DEF NoSpace
<1>2. \A a \in Pages : KERNBASE \in Int /\ a \in Int
  BY Sizes DEF Pages
<1>3. None \in TabKinds /\ None \in PteKinds /\ Kernel \in PteKinds
  BY DEF TabKinds, PteKinds
<1>4. NoSpace.tab \in [UserDirs -> TabKinds] /\ NoSpace.pte \in [Pages -> PteKinds]
  BY <1>1, <1>3
<1>5. \A a \in Pages : /\ NoSpace.pte[a] \notin Mem \cup {Device(0)}
                       /\ a >= KERNBASE => NoSpace.pte[a] = Kernel
                       /\ a < KERNBASE => NoSpace.pte[a] = None
  BY <1>1, <1>2, Kinds
<1>6. ASSUME NEW s, s.tab = NoSpace.tab, s.pte = NoSpace.pte
      PROVE  SpaceOK(s) /\ Taken(s) = 0
  <2>1. SpaceOK(s)
    BY <1>5, <1>6, Kinds DEF SpaceOK
  <2>2. Memories(s) = {}
    BY <1>5, <1>6 DEF Memories, Mem
  <2>3. Tables(s) = {}
    BY <1>1, <1>6, Kinds DEF Tables
  <2> QED BY <2>1, <2>2, <2>3, FS_EmptySet DEF Taken
<1>7. \A s \in RawSpaces : s.tab = NoSpace.tab /\ s.pte = NoSpace.pte =>
        s \in Spaces /\ Taken(s) = 0
  BY <1>6 DEF Spaces
<1>8. NoSpace \in RawSpaces
  BY <1>1, <1>4 DEF RawSpaces
<1>9. NoSpace \in Spaces /\ Taken(NoSpace) = 0
  BY <1>6, <1>8 DEF Spaces
<1> QED BY <1>1, <1>5, <1>7, <1>9

\* An assignment to the free frames and the space.
LEMMA SetFreeSpace ==
  ASSUME NEW t \in RawStates, NEW n \in Int, NEW s \in RawSpaces
  PROVE  LET u == [t EXCEPT !.free = n, !.s = s]
         IN /\ u.free = n /\ u.lost = t.lost /\ u.s = s /\ u.out = t.out
            /\ u \in RawStates
BY DEF RawStates

\* The state a call starts from.
LEMMA StartState ==
  ASSUME NEW f \in Nat, NEW l \in Nat, NEW s \in Spaces
  PROVE  LET u == Start(f, l, s)
         IN /\ u \in States /\ u.free = f /\ u.lost = l /\ u.s = s /\ u.out = "ok"
            /\ Held(u) = f + l + Taken(s)
<1> DEFINE w == [a \in Pages |-> None]
           u == Start(f, l, s)
<1>1. w \in [Pages -> PteKinds]
  BY DEF PteKinds
<1> HIDE DEF w
<1>2. u = [free |-> f, lost |-> l, s |-> s, words |-> w, out |-> "ok"]
  BY DEF Start, w
<1>3. s \in RawSpaces /\ "ok" \in Outs /\ f \in Int /\ l \in Int
  BY DEF Spaces, Outs
<1>4. /\ u.free = f /\ u.lost = l /\ u.s = s /\ u.out = "ok" /\ u \in RawStates
  BY <1>1, <1>2, <1>3 DEF RawStates
<1> HIDE DEF u
<1>5. u \in States /\ Held(u) = f + l + Taken(s)
  BY <1>4 DEF States, Held
<1> QED BY <1>4, <1>5 DEF u

\* What is found in huge pages changes nothing else of it.
LEMMA SeenState ==
  ASSUME NEW t \in States, NEW w \in [Pages -> PteKinds]
  PROVE  LET u == [t EXCEPT !.words = w]
         IN u \in States /\ u.s = t.s /\ u.out = t.out /\ Held(u) = Held(t)
<1> DEFINE u == [t EXCEPT !.words = w]
<1>1. /\ u \in RawStates /\ u.free = t.free /\ u.lost = t.lost /\ u.s = t.s
      /\ u.out = t.out
  BY StateParts DEF RawStates
<1> HIDE DEF u
<1>2. u \in States /\ Held(u) = Held(t)
  BY <1>1, StateParts DEF States, Held
<1> QED BY <1>1, <1>2 DEF u

\* After freevm all that a space held is free or lost.
LEMMA FreeGivesAll ==
  ASSUME NEW t \in States
  PROVE  LET u == freevm(t)
         IN /\ u \in States /\ u.out \in {t.out, "panic"}
            /\ u.out # "panic" =>
                 u.s = NoSpace /\ u.free + u.lost = Held(t) + (IF t.s.kpt THEN 1 ELSE 0) + 1
            /\ u.out = "panic" => t.out = "panic" \/ \E a \in Pages : t.s.pte[a] = Device(0)
<1> DEFINE v == deallocuvm(t, KERNBASE, 0)
           k == IF v.s.kpt THEN 1 ELSE 0
<1>1. KERNBASE \in 0 .. KERNBASE /\ 0 \in 0 .. KERNBASE /\ KERNBASE \in Int
      /\ \A a \in Pages : a \in Nat
  BY Sizes DEF Pages
<1>2. /\ Keeps(t, v) /\ v.out \in {t.out, "panic"}
      /\ v.out # "panic" => \A a \in Pages :
           v.s.pte[a] = IF 0 <= a /\ a < KERNBASE THEN None ELSE t.s.pte[a]
      /\ v.out = "panic" => t.out = "panic" \/ \E a \in Pages : t.s.pte[a] = Device(0)
  BY <1>1, DeallocKeeps
<1>3. freevm(t) = IF v.out = "panic" THEN v
                  ELSE [v EXCEPT !.free = @ + Cardinality(Tables(v.s)) + k + 1, !.s = NoSpace]
  BY DEF freevm
<1> HIDE DEF v
<1>4. v \in States /\ v.free \in Nat /\ v.lost \in Nat /\ v \in RawStates /\ v.s.kpt = t.s.kpt
  BY <1>2, StateParts DEF Keeps
<1>5. CASE v.out = "panic"
  BY <1>2, <1>3, <1>4, <1>5
<1>6. CASE v.out # "panic"
  <2>1. Memories(v.s) = {}
    <3>1. \A a \in Pages : v.s.pte[a] \notin Mem
      <4>1. ASSUME NEW a \in Pages, a < KERNBASE PROVE v.s.pte[a] \notin Mem
        BY <1>1, <1>2, <1>6, <4>1, Kinds
      <4>2. ASSUME NEW a \in Pages, a >= KERNBASE PROVE v.s.pte[a] \notin Mem
        BY <1>4, <4>2, StateParts, Kinds DEF SpaceOK
      <4> QED BY <1>1, <4>1, <4>2
    <3> QED BY <3>1 DEF Memories, Mem
  <2>2. PICK m \in Nat : m = Cardinality(Tables(v.s))
    BY TakenNat
  <2>3. Held(t) = v.free + v.lost + m
    <3>1. Held(v) = Held(t) /\ Cardinality(Memories(v.s)) = 0
      BY <1>2, <1>6, <2>1, FS_EmptySet DEF Keeps
    <3> QED BY <1>4, <2>2, <3>1 DEF Held, Taken
  <2>4. k \in Nat /\ k = IF t.s.kpt THEN 1 ELSE 0
    BY <1>4
  <2> HIDE DEF k
  <2>5. PICK n \in Nat : n = v.free + m + k + 1
    BY <1>4, <2>2, <2>4
  <2>6. freevm(t) = [v EXCEPT !.free = n, !.s = NoSpace]
    BY <1>3, <1>6, <2>2, <2>5
  <2> DEFINE u == [v EXCEPT !.free = n, !.s = NoSpace]
  <2>7. NoSpace \in RawSpaces
    BY EmptySpace DEF Spaces
  <2>8. /\ u.free = n /\ u.lost = v.lost /\ u.s = NoSpace /\ u.out = v.out
        /\ u \in RawStates
    <3>1. n \in Int
      OBVIOUS
    <3> QED BY <1>4, <2>7, <3>1, SetFreeSpace
  <2> HIDE DEF u
  <2>9. u \in States
    BY <1>4, <2>8, EmptySpace DEF States
  <2>10. n + v.lost = Held(t) + k + 1
    BY <1>4, <2>2, <2>3, <2>4, <2>5
  <2>11. freevm(t) = u
    BY <2>6 DEF u
  <2>12. u.free + u.lost = Held(t) + (IF t.s.kpt THEN 1 ELSE 0) + 1
    BY <2>4, <2>8, <2>10
  <2> QED BY <1>2, <1>6, <2>8, <2>9, <2>11, <2>12
<1> QED BY <1>5, <1>6

\* Assignments to what a space has of the kernel's part.
LEMMA SetDir ==
  ASSUME NEW s \in RawSpaces
  PROVE  /\ LET u == [s EXCEPT !.dir = TRUE]
            IN /\ u \in RawSpaces /\ u.kpt = s.kpt
               /\ u.tab = s.tab /\ u.pte = s.pte
         /\ LET u == [s EXCEPT !.dir = TRUE, !.kpt = TRUE]
            IN /\ u \in RawSpaces /\ u.dir = TRUE /\ u.kpt = TRUE
               /\ u.tab = s.tab /\ u.pte = s.pte
BY DEF RawSpaces

\* setupkvm takes two frames or none.
LEMMA SetupTakes ==
  ASSUME NEW f \in Nat, NEW l \in Nat
  PROVE  LET u == setupkvm(f, l)
         IN /\ u \in States /\ u.out \in {"ok", "fail"}
            /\ u.out = "ok" => /\ f + l = Held(u) + 2 /\ u.s.dir = TRUE /\ u.s.kpt = TRUE
                               /\ u.s.pte = NoSpace.pte
            /\ u.out = "fail" => u.free + u.lost = f + l
<1>1. CASE f = 0
  <2>1. setupkvm(f, l) = Fails(Start(f, l, NoSpace))
    BY <1>1 DEF setupkvm
  <2>2. /\ Start(f, l, NoSpace) \in States /\ Start(f, l, NoSpace).free = f
        /\ Start(f, l, NoSpace).lost = l
    BY EmptySpace, StartState
  <2> QED BY <2>1, <2>2, SetOut
<1>2. CASE f = 1
  <2> DEFINE s == [NoSpace EXCEPT !.dir = TRUE]
             t == Start(f - 1, l, s)
  <2>1. setupkvm(f, l) = Fails(freevm(t))
    BY <1>2 DEF setupkvm
  <2>2. NoSpace \in RawSpaces /\ NoSpace.kpt = FALSE
    BY EmptySpace DEF Spaces
  <2>3. s \in Spaces /\ s.kpt = FALSE /\ s.pte = NoSpace.pte /\ Taken(s) = 0
    <3>1. s \in RawSpaces /\ s.kpt = FALSE /\ s.tab = NoSpace.tab /\ s.pte = NoSpace.pte
      BY <2>2, SetDir
    <3> HIDE DEF s
    <3> QED BY <3>1, EmptySpace
  <2> HIDE DEF s
  <2>4. t \in States /\ t.s = s /\ t.out = "ok" /\ Held(t) = l
    <3>1. f - 1 \in Nat /\ f - 1 = 0
      BY <1>2
    <3>2. t \in States /\ t.s = s /\ t.out = "ok" /\ Held(t) = (f - 1) + l + Taken(s)
      BY <2>3, <3>1, StartState
    <3> HIDE DEF t
    <3> QED BY <2>3, <3>1, <3>2
  <2> HIDE DEF t
  <2> DEFINE u == freevm(t)
  <2>5. /\ u \in States /\ u.out \in {t.out, "panic"}
        /\ u.out # "panic" =>
             u.s = NoSpace /\ u.free + u.lost = Held(t) + (IF t.s.kpt THEN 1 ELSE 0) + 1
        /\ u.out = "panic" => t.out = "panic" \/ \E a \in Pages : t.s.pte[a] = Device(0)
    BY <2>4, FreeGivesAll
  <2> HIDE DEF u
  <2>6. u.out # "panic"
    BY <2>3, <2>4, <2>5, EmptySpace
  <2>7. u.free + u.lost = f + l
    BY <1>2, <2>3, <2>4, <2>5, <2>6
  <2>8. setupkvm(f, l) = Fails(u)
    BY <2>1 DEF u
  <2> QED BY <1>2, <2>5, <2>7, <2>8, SetOut
<1>3. CASE f \notin {0, 1}
  <2> DEFINE s == [NoSpace EXCEPT !.dir = TRUE, !.kpt = TRUE]
             t == Start(f - 2, l, s)
  <2>1. setupkvm(f, l) = t
    BY <1>3 DEF setupkvm
  <2>2. /\ s \in Spaces /\ s.dir = TRUE /\ s.kpt = TRUE
        /\ s.pte = NoSpace.pte /\ Taken(s) = 0
    <3>1. NoSpace \in RawSpaces
      BY EmptySpace DEF Spaces
    <3>2. /\ s \in RawSpaces /\ s.dir = TRUE /\ s.kpt = TRUE
          /\ s.tab = NoSpace.tab /\ s.pte = NoSpace.pte
      BY <3>1, SetDir
    <3> HIDE DEF s
    <3> QED BY <3>2, EmptySpace
  <2> HIDE DEF s
  <2>3. f - 2 \in Nat
    BY <1>3
  <2>4. t \in States /\ t.s = s /\ t.out = "ok" /\ Held(t) = (f - 2) + l + Taken(s)
    BY <2>2, <2>3, StartState
  <2> HIDE DEF t
  <2>5. f + l = Held(t) + 2
    BY <2>2, <2>3, <2>4
  <2> QED BY <2>1, <2>2, <2>4, <2>5
<1> QED BY <1>1, <1>2, <1>3

\* u is a copy of p that took its frames, or took none.
Copied(f, l, p, u) ==
    /\ u \in States
    /\ u.out = "ok" => /\ f + l = Held(u) + 2 /\ u.s.dir = TRUE /\ u.s.kpt = TRUE
                       /\ \A a \in Memories(u.s) : a < p.sz
    /\ u.out = "fail" => u.free + u.lost = f + l

\* copyuvm makes such a copy; only memory is copied.
LEMMA CopyTakes ==
  ASSUME NEW f \in Nat, NEW l \in Nat, NEW w, NEW p, p.sz \in 0 .. KERNBASE
  PROVE  Copied(f, l, p, copyuvm(f, l, w, p))
<1>0. PICK t : t = setupkvm(f, l)
  OBVIOUS
<1> DEFINE n == Count(0, p.sz)
           W == [i \in 0..n |-> {u \in States : Added(t, u, 0, i)}]
           g == CopyRounds(p.space, w, t, n)
<1>1. /\ t \in States /\ t.out \in {"ok", "fail"}
      /\ t.out = "ok" => /\ f + l = Held(t) + 2 /\ t.s.dir = TRUE /\ t.s.kpt = TRUE
                         /\ t.s.pte = NoSpace.pte
      /\ t.out = "fail" => t.free + t.lost = f + l
  BY <1>0, SetupTakes
<1>2. copyuvm(f, l, w, p) = IF t.out # "ok" THEN t
                      ELSE IF g.out = "fail" THEN Fails(freevm(g))
                      ELSE g
  BY <1>0 DEF copyuvm, CopyRounds
<1>3. CASE t.out # "ok"
  <2>1. copyuvm(f, l, w, p) = t
    BY <1>2, <1>3
  <2> QED BY <1>1, <1>3, <2>1 DEF Copied
<1>4. CASE t.out = "ok"
  <2>1. /\ n \in Nat
        /\ \A i \in 1..n : Page(0, i) \in Pages /\ 0 <= Page(0, i) /\ Page(0, i) < p.sz
    <3>1. 0 \in 0 .. KERNBASE
      BY Sizes
    <3> QED BY <3>1, PageIs
  <2> HIDE DEF n
  <2>2. t \in W[0]
    <3>1. Added(t, t, 0, 0)
      BY <1>1, KeepsSelf DEF Added
    <3> QED BY <1>1, <2>1, <3>1
  <2>3. ASSUME NEW i \in 1..n, NEW v \in W[i - 1]
        PROVE  CopyPage(v, p.space, w, Page(0, i)) \in W[i]
    <3>1. i - 1 \in 0..n /\ i \in 0..n /\ i \in Nat \ {0}
      BY <2>1
    <3>2. Added(t, v, 0, i - 1) /\ v \in States
      BY <3>1
    <3>3. Page(0, i) \in Pages /\ Page(0, i) < KERNBASE
      <4>1. p.sz \in Int /\ KERNBASE \in Int /\ p.sz <= KERNBASE /\ \A a \in Pages : a \in Int
        BY Sizes DEF Pages
      <4> QED BY <2>1, <4>1
    <3>4. \A e \in Mem : Added(t, AddPage(v, Page(0, i), e), 0, i)
      BY <1>1, <3>1, <3>2, <3>3, AddedStep
    <3>5. \A j \in 1 .. i - 1 : j \in 1..i
      BY <3>1
    <3>6. Added(t, v, 0, i) /\ Added(t, Panic(v), 0, i)
      <4>1. Added(t, v, 0, i)
        BY <3>2, <3>5 DEF Added
      <4>2. /\ Panic(v).s = v.s /\ Panic(v).out = "panic" /\ Panic(v) \in States
        BY <3>2, SetOut
      <4> QED BY <4>1, <4>2 DEF Added, Keeps
    <3>7. \/ CopyPage(v, p.space, w, Page(0, i)) \in {v, Panic(v)}
          \/ \E e \in Mem : CopyPage(v, p.space, w, Page(0, i)) = AddPage(v, Page(0, i), e)
      BY DEF CopyPage, Mem
    <3>8. Added(t, CopyPage(v, p.space, w, Page(0, i)), 0, i)
      BY <3>4, <3>6, <3>7
    <3>9. CopyPage(v, p.space, w, Page(0, i)) \in States
      BY <3>8 DEF Added, Keeps
    <3> QED BY <3>1, <3>8, <3>9
  <2>4. g \in W[n]
    <3> HIDE DEF W
    <3> QED BY <2>1, <2>2, <2>3, CopyLoop
  <2> HIDE DEF g
  <2>5. Added(t, g, 0, n) /\ g \in States
    BY <2>1, <2>4
  <2>6. \A a \in Pages : \/ g.s.pte[a] = NoSpace.pte[a]
                         \/ g.s.pte[a] \in Mem /\ a < p.sz
    BY <1>1, <1>4, <2>1, <2>5 DEF Added
  <2>7. /\ g.s.dir = TRUE /\ g.s.kpt = TRUE
        /\ g.out # "panic" => f + l = Held(g) + 2
    BY <1>1, <1>4, <2>5 DEF Added, Keeps
  <2>8. CASE g.out # "fail"
    <3>1. \A a \in Memories(g.s) : a < p.sz
      BY <2>6, EmptySpace DEF Memories, Mem
    <3>2. copyuvm(f, l, w, p) = g
      BY <1>2, <1>4, <2>8
    <3> QED BY <2>5, <2>7, <2>8, <3>1, <3>2 DEF Copied
  <2>9. CASE g.out = "fail"
    <3> DEFINE u == freevm(g)
    <3>1. /\ u \in States /\ u.out \in {g.out, "panic"}
          /\ u.out # "panic" =>
               u.s = NoSpace /\ u.free + u.lost = Held(g) + (IF g.s.kpt THEN 1 ELSE 0) + 1
          /\ u.out = "panic" => g.out = "panic" \/ \E a \in Pages : g.s.pte[a] = Device(0)
      BY <2>5, FreeGivesAll
    <3> HIDE DEF u
    <3>2. u.out # "panic"
      BY <2>6, <2>9, <3>1, EmptySpace, Kinds
    <3>3. u.free + u.lost = f + l
      <4>1. Held(g) \in Nat
        BY <2>5, StateParts
      <4> QED BY <2>7, <2>9, <3>1, <3>2, <4>1
    <3>4. copyuvm(f, l, w, p) = Fails(u)
      BY <1>2, <1>4, <2>9 DEF u
    <3> QED BY <3>1, <3>3, <3>4, SetOut DEF Copied
  <2> QED BY <2>8, <2>9
<1> QED BY <1>3, <1>4

-----------------------------------------------------------------------------
(* Device and huge-page mappings *)

\* What is in range is not changed by wrapping around.
LEMMA ModOf ==
  ASSUME NEW n \in Nat \ {0}, NEW x \in 0 .. n - 1
  PROVE  x % n = x /\ (x + n) % n = x /\ (x - n) % n = x
OBVIOUS

\* Remainders are in range.
LEMMA ModIn ==
  ASSUME NEW n \in Nat \ {0}, NEW x \in Int
  PROVE  x % n \in 0 .. n - 1
OBVIOUS

\* Every address mappages comes to is a page.
LEMMA AddressIsPage ==
  ASSUME NEW va \in Nat, va % PGSIZE = 0, NEW i \in Nat \ {0}
  PROVE  (va + (i - 1) * PGSIZE) % AddrSpace \in Pages
<1>1. PGSIZE \in Nat \ {0} /\ AddrSpace \in Nat \ {0} /\ AddrSpace % PGSIZE = 0
  BY Sizes, UserEnd
<1>2. PICK k \in Nat : k = i - 1
  OBVIOUS
<1>3. PICK z \in Nat : z = PGSIZE * k
  BY <1>1
<1>4. (i - 1) * PGSIZE = z
  BY <1>1, <1>2, <1>3
<1>5. z % PGSIZE = 0
  BY <1>1, <1>3, Multiples
<1>6. PICK x \in Nat : x = va + z
  OBVIOUS
<1>7. x % PGSIZE = 0
  <2>1. va \in Int /\ z \in Int
    OBVIOUS
  <2>2. (va + z) % PGSIZE = 0
    BY <1>1, <1>5, <2>1, SumZero
  <2> QED BY <1>6, <2>2
<1>8. (x % AddrSpace) % PGSIZE = 0
  BY <1>1, <1>7, ZeroOfZero
<1>9. x % AddrSpace \in 0 .. AddrSpace - 1
  <2>1. x \in Int
    OBVIOUS
  <2> QED BY <1>1, <2>1, ModIn
<1> QED BY <1>4, <1>6, <1>8, <1>9 DEF Pages

\* The last page below a multiple of the page size.
LEMMA LastPage ==
  ASSUME NEW x \in Nat \ {0}, x % PGSIZE = 0
  PROVE  Down(x - 1, PGSIZE) = x - PGSIZE /\ PGSIZE <= x
<1>1. PGSIZE \in Nat \ {0}
  BY Sizes
<1>2. PICK y \in Nat : y = x - 1
  OBVIOUS
<1>3. /\ y \div PGSIZE \in Nat /\ PGSIZE * (y \div PGSIZE) <= y
      /\ y < PGSIZE * (y \div PGSIZE) + PGSIZE
      /\ (y \div PGSIZE) * PGSIZE = PGSIZE * (y \div PGSIZE)
  BY <1>1, Division
<1>4. PICK q \in Nat : q = y \div PGSIZE
  BY <1>3
<1>5. PICK z \in Nat : z = PGSIZE * q
  BY <1>1
<1>6. z <= y /\ y < z + PGSIZE /\ Down(x - 1, PGSIZE) = z
  BY <1>2, <1>3, <1>4, <1>5 DEF Down
<1>7. z % PGSIZE = 0
  BY <1>1, <1>5, Multiples
<1>8. z + PGSIZE <= x
  <2>1. z \in Int /\ x \in Int /\ z < x
    BY <1>2, <1>6
  <2> QED BY <1>1, <1>7, <2>1, SpacedZero
<1> QED BY <1>1, <1>2, <1>6, <1>8

\* Rounds of mappages.
Length(va, size) ==
  ((Down((va + size - 1) % AddrSpace, PGSIZE) - va) % AddrSpace) \div PGSIZE + 1

\* The loop of mappages ends.
LEMMA LengthNat ==
  ASSUME NEW va \in Nat, NEW size \in Nat
  PROVE  Length(va, size) \in Nat
<1>1. PGSIZE \in Nat \ {0} /\ AddrSpace \in Nat \ {0}
  BY Sizes
<1>2. PICK x \in Int : x = va + size - 1
  OBVIOUS
<1>3. x % AddrSpace \in 0 .. AddrSpace - 1
  BY <1>1, ModIn
<1>4. PICK y \in Nat : y = x % AddrSpace
  BY <1>3, <1>1
<1>5. y \div PGSIZE \in Nat
  BY <1>1, Division
<1>6. PICK z \in Int : z = Down(y, PGSIZE) - va
  <2>1. PICK q \in Nat : q = y \div PGSIZE
    BY <1>5
  <2>2. PICK d \in Nat : d = q * PGSIZE
    BY <1>1
  <2>3. Down(y, PGSIZE) = d
    BY <2>1, <2>2 DEF Down
  <2> QED BY <2>3
<1>7. z % AddrSpace \in 0 .. AddrSpace - 1
  BY <1>1, ModIn
<1>8. PICK u \in Nat : u = z % AddrSpace
  BY <1>7, <1>1
<1>9. u \div PGSIZE \in Nat
  BY <1>1, Division
<1> QED BY <1>2, <1>4, <1>6, <1>8, <1>9 DEF Length

\* A mapping whose end wraps around comes to the first page of the kernel.
LEMMA WrapMeetsKernel ==
  ASSUME NEW va \in 0 .. KERNBASE, va % PGSIZE = 0,
         NEW size \in 0 .. AddrSpace - 1, size % PGSIZE = 0, va + size >= AddrSpace
  PROVE  \E i \in 1 .. Length(va, size) : (va + (i - 1) * PGSIZE) % AddrSpace = KERNBASE
<1>1. /\ PGSIZE \in Nat \ {0} /\ AddrSpace \in Nat \ {0} /\ KERNBASE \in Nat /\ KERNBASE < AddrSpace
      /\ AddrSpace % PGSIZE = 0 /\ KERNBASE % PGSIZE = 0 /\ va \in Nat /\ size \in Nat
  BY Sizes, UserEnd
<1>2. PICK y \in Nat : y = va + size
  BY <1>1
<1>3. y % PGSIZE = 0 /\ (y - AddrSpace) % PGSIZE = 0
  <2>1. va \in Int /\ size \in Int /\ y \in Int /\ AddrSpace \in Int
    BY <1>1
  <2>2. (va + size) % PGSIZE = 0
    BY <1>1, <2>1, SumZero
  <2>3. y % PGSIZE = 0
    BY <1>2, <2>2
  <2> QED BY <1>1, <2>1, <2>3, SumZero
<1>4. Down((va + size - 1) % AddrSpace, PGSIZE) \in {y - PGSIZE, y - PGSIZE - AddrSpace}
  <2>1. CASE y = AddrSpace
    <3>1. (y - 1) % AddrSpace = y - 1
      <4>1. y - 1 \in 0 .. AddrSpace - 1
        BY <1>1, <2>1
      <4> QED BY <1>1, <4>1, ModOf
    <3>2. Down(y - 1, PGSIZE) = y - PGSIZE
      BY <1>1, <2>1, LastPage
    <3> QED BY <1>2, <3>1, <3>2
  <2>2. CASE y # AddrSpace
    <3>1. PICK e \in Nat \ {0} : e = y - AddrSpace
      BY <1>1, <1>2, <2>2
    <3>2. (y - 1) % AddrSpace = e - 1
      <4>1. e - 1 \in 0 .. AddrSpace - 1 /\ y - 1 = (e - 1) + AddrSpace
        BY <1>1, <1>2, <3>1
      <4> QED BY <1>1, <4>1, ModOf
    <3>3. Down(e - 1, PGSIZE) = e - PGSIZE
      BY <1>3, <3>1, LastPage
    <3>4. e - PGSIZE = y - PGSIZE - AddrSpace
      BY <1>1, <3>1
    <3> QED BY <1>2, <3>2, <3>3, <3>4
  <2> QED BY <2>1, <2>2
<1>5. size \in Nat \ {0} /\ PGSIZE <= size
  <2>1. size \in Nat \ {0}
    BY <1>1
  <2> QED BY <2>1, LastPage
<1>6. (Down((va + size - 1) % AddrSpace, PGSIZE) - va) % AddrSpace = size - PGSIZE
  <2>1. size - PGSIZE \in 0 .. AddrSpace - 1
    BY <1>1, <1>5
  <2>2. y - PGSIZE - va = size - PGSIZE /\ y - PGSIZE - AddrSpace - va = (size - PGSIZE) - AddrSpace
    BY <1>1, <1>2
  <2>3. (size - PGSIZE) % AddrSpace = size - PGSIZE
        /\ ((size - PGSIZE) - AddrSpace) % AddrSpace = size - PGSIZE
    BY <1>1, <2>1, ModOf
  <2> QED BY <1>4, <2>2, <2>3
<1>7. PICK s \in Int : size = PGSIZE * s
  <2>1. size \in Int
    BY <1>1
  <2> QED BY <1>1, <2>1, Multiples
<1>8. Length(va, size) = s
  <2>1. (size - PGSIZE) \div PGSIZE = s - 1
    <3>1. size - PGSIZE = PGSIZE * (s - 1) /\ s - 1 \in Int
      BY <1>1, <1>7
    <3>2. \A q \in Int : (PGSIZE * q) \div PGSIZE = q
      BY <1>1
    <3> QED BY <3>1, <3>2
  <2> QED BY <1>6, <1>7, <2>1 DEF Length
<1>9. PICK k \in Int : KERNBASE - va = PGSIZE * k
  <2>1. KERNBASE \in Int /\ va \in Int /\ KERNBASE - va \in Int
    BY <1>1
  <2>2. (KERNBASE - va) % PGSIZE = 0
    BY <1>1, <2>1, SumZero
  <2> QED BY <1>1, <2>1, <2>2, Multiples
<1>10. k >= 0
  <2>1. SUFFICES ASSUME k < 0 PROVE FALSE
    OBVIOUS
  <2>2. PGSIZE * k < PGSIZE * 0
    <3>1. PICK m \in Nat : k = -1 - m
      <4>1. -1 - k \in Nat /\ k = -1 - (-1 - k)
        BY <2>1
      <4> QED BY <4>1
    <3>2. PGSIZE * k = - PGSIZE - PGSIZE * m /\ PGSIZE * m \in Nat
      BY <1>1, <3>1
    <3> QED BY <1>1, <3>2
  <2> QED BY <1>1, <1>9, <2>2
<1>11. k < s
  <2>1. SUFFICES ASSUME s <= k PROVE FALSE
    OBVIOUS
  <2>2. PICK m \in Nat : k = s + m
    <3>1. k - s \in Nat /\ k = s + (k - s)
      BY <2>1
    <3> QED BY <3>1
  <2>3. PGSIZE * k = PGSIZE * s + PGSIZE * m /\ PGSIZE * m \in Nat
    BY <1>1, <2>2
  <2>4. PGSIZE * k < PGSIZE * s
    BY <1>1, <1>7, <1>9
  <2>5. PGSIZE * s \in Int
    BY <1>1
  <2> QED BY <2>3, <2>4, <2>5
<1>12. k + 1 \in 1 .. Length(va, size)
  BY <1>8, <1>10, <1>11
<1>13. (va + (k + 1 - 1) * PGSIZE) % AddrSpace = KERNBASE
  <2>1. (k + 1 - 1) * PGSIZE = KERNBASE - va
    BY <1>1, <1>9
  <2>2. va + (KERNBASE - va) = KERNBASE /\ KERNBASE \in 0 .. AddrSpace - 1
    BY <1>1
  <2>3. KERNBASE % AddrSpace = KERNBASE
    BY <1>1, <2>2, ModOf
  <2> QED BY <2>1, <2>2, <2>3
<1> QED BY <1>12, <1>13

\* u is t after i rounds of a mapping: nothing new can be used as memory.
NoMemory(t, u) == Keeps(t, u) /\ Memories(u.s) \subseteq Memories(t.s)

\* mappages maps no memory, and fails when its end wraps around.
LEMMA MapKeeps ==
  ASSUME NEW t \in States, NEW va \in 0 .. KERNBASE, va % PGSIZE = 0,
         NEW size \in 0 .. AddrSpace - 1, size % PGSIZE = 0, NEW f
  PROVE  LET u == mappages(t, va, size, f)
         IN /\ NoMemory(t, u)
            /\ u.out = "ok" => va + size < AddrSpace
<1> DEFINE Address(i) == (va + (i - 1) * PGSIZE) % AddrSpace
           n == Length(va, size)
           W == [i \in 0..n |-> {u \in States : /\ NoMemory(t, u)
                                                /\ u.out = "ok" => \A j \in 1..i : Address(j) < KERNBASE}]
           g == DeviceRounds(va, f, t, n)
<1>1. va \in Nat /\ size \in Nat /\ KERNBASE \in Int /\ AddrSpace \in Int
  BY Sizes
<1>2. n \in Nat
  BY <1>1, LengthNat
<1>3. mappages(t, va, size, f) = g
  BY DEF mappages, DeviceRounds, Length
<1>4. \A i \in Nat \ {0} : Address(i) \in Pages
  BY <1>1, AddressIsPage
<1>5. va + size >= AddrSpace => \E i \in 1..n : Address(i) = KERNBASE
  BY WrapMeetsKernel
<1> HIDE DEF n, Address
<1>6. t \in W[0]
  BY <1>2, KeepsSelf DEF NoMemory
<1>7. ASSUME NEW i \in 1..n, NEW v \in W[i - 1]
      PROVE  MapPage(v, Address(i), Device((f + i - 1) % PhysFrames)) \in W[i]
  <2>1. i - 1 \in 0..n /\ i \in 0..n /\ i \in Nat \ {0} /\ 1..i = (1 .. i - 1) \cup {i}
    BY <1>2
  <2>2. /\ v \in States /\ NoMemory(t, v)
        /\ v.out = "ok" => \A j \in 1 .. i - 1 : Address(j) < KERNBASE
    BY <2>1
  <2> DEFINE w == MapPage(v, Address(i), Device((f + i - 1) % PhysFrames))
  <2>3. /\ Keeps(v, w)
        /\ w.out = "ok" => v.out = "ok" /\ Address(i) < KERNBASE
        /\ Memories(w.s) \subseteq Memories(v.s)
    BY <1>4, <2>1, <2>2, MapDeviceKeeps
  <2> HIDE DEF w
  <2>4. w \in States /\ NoMemory(t, w)
    BY <2>2, <2>3 DEF NoMemory, Keeps
  <2>5. w.out = "ok" => \A j \in 1..i : Address(j) < KERNBASE
    BY <2>1, <2>2, <2>3
  <2> QED BY <2>1, <2>4, <2>5 DEF w
<1>8. g \in W[n]
  <2> HIDE DEF W
  <2>1. \A i \in 1..n : \A v \in W[i - 1] :
          MapPage(v, (va + (i - 1) * PGSIZE) % AddrSpace, Device((f + i - 1) % PhysFrames)) \in W[i]
    BY <1>7 DEF Address
  <2> QED BY <1>2, <1>6, <2>1, DeviceLoop
<1> HIDE DEF g
<1>9. NoMemory(t, g) /\ (g.out = "ok" => \A j \in 1..n : Address(j) < KERNBASE)
  BY <1>2, <1>8
<1> QED BY <1>1, <1>3, <1>5, <1>9

\* The directory has a huge page at va that it had not.
NewHuge(t, u, va) == va \in UserDirs /\ t.s.tab[va] = None /\ u.s.tab[va] = Entry("huge")

\* hpmappages maps no memory, and a huge page if it succeeds.
LEMMA HugeKeeps ==
  ASSUME NEW t \in States, NEW va \in 0 .. KERNBASE, va % HPSIZE = 0, NEW size \in Nat
  PROVE  LET u == hpmappages(t, va, size)
         IN /\ NoMemory(t, u)
            /\ u.out = "ok" => NewHuge(t, u, va)
<1> DEFINE last == Down((va + size - 1) % AddrSpace, HPSIZE)
           n == IF last > va THEN (last - va) \div HPSIZE + 1 ELSE 1
           W == [i \in 0..n |-> {u \in States : /\ NoMemory(t, u)
                                                /\ i = 0 => u = t
                                                /\ i > 0 /\ u.out = "ok" => NewHuge(t, u, va)}]
           g == HugeRounds(va, t, n)
<1>1. va \in Nat /\ HPSIZE \in Nat \ {0} /\ AddrSpace \in Nat \ {0}
  BY Sizes
<1>2. n \in Nat /\ n > 0
  <2>1. PICK y \in Nat : y = (va + size - 1) % AddrSpace
    <3>1. PICK x \in Int : x = va + size - 1
      BY <1>1
    <3>2. x % AddrSpace \in 0 .. AddrSpace - 1
      BY <1>1, ModIn
    <3> QED BY <1>1, <3>1, <3>2
  <2>2. last \in Int
    BY <1>1, <2>1, Division DEF Down
  <2> HIDE DEF last
  <2>3. CASE last > va
    <3>1. PICK z \in Nat : z = last - va
      BY <1>1, <2>2, <2>3
    <3>2. z \div HPSIZE \in Nat
      BY <1>1, Division
    <3> QED BY <2>3, <3>1, <3>2
  <2> QED BY <2>3
<1>3. hpmappages(t, va, size) = g
  BY DEF hpmappages, HugeRounds
<1> HIDE DEF n
<1>4. t \in W[0]
  BY <1>2, KeepsSelf DEF NoMemory
<1>5. ASSUME NEW i \in 1..n, NEW v \in W[i - 1]
      PROVE  MapHuge(v, va + (i - 1) * HPSIZE) \in W[i]
  <2>1. i - 1 \in 0..n /\ i \in 0..n /\ i - 1 \in Nat
    BY <1>2
  <2>2. /\ v \in States /\ NoMemory(t, v)
        /\ i = 1 => v = t
        /\ i > 1 /\ v.out = "ok" => NewHuge(t, v, va)
    BY <2>1
  <2>3. PICK k \in Nat : k = i - 1
    BY <2>1
  <2>4. PICK z \in Nat : z = HPSIZE * k
    BY <1>1
  <2>5. z % HPSIZE = 0
    BY <1>1, <2>4, Multiples
  <2>6. PICK d \in Nat : d = va + z
    BY <1>1
  <2>7. d % HPSIZE = 0
    <3>1. va \in Int /\ z \in Int
      BY <1>1
    <3>2. (va + z) % HPSIZE = 0
      BY <1>1, <2>5, <3>1, SumZero
    <3> QED BY <2>6, <3>2
  <2>8. va + (i - 1) * HPSIZE = d
    BY <1>1, <2>3, <2>4, <2>6
  <2> DEFINE w == MapHuge(v, d)
  <2>9. /\ Keeps(v, w) /\ Memories(w.s) \subseteq Memories(v.s)
        /\ w.out = "ok" => /\ v.out = "ok" /\ d \in UserDirs /\ v.s.tab[d] = None
                           /\ w.s.tab = [v.s.tab EXCEPT ![d] = Entry("huge")]
    BY <2>2, <2>7, MapHugeKeeps
  <2> HIDE DEF w
  <2>10. w \in States /\ NoMemory(t, w)
    BY <2>2, <2>9 DEF NoMemory, Keeps
  <2>11. v.s.tab \in [UserDirs -> TabKinds]
    BY <2>2, StateParts
  <2>12. ASSUME w.out = "ok" PROVE NewHuge(t, w, va)
    <3>1. CASE i = 1
      <4>1. d = va /\ v = t
        BY <1>1, <2>2, <2>8, <3>1
      <4> QED BY <2>9, <2>11, <2>12, <4>1 DEF NewHuge
    <3>2. CASE i # 1
      <4>1. NewHuge(t, v, va)
        BY <1>2, <2>2, <2>9, <2>12, <3>2
      <4> QED BY <2>9, <2>11, <2>12, <4>1 DEF NewHuge
    <3> QED BY <3>1, <3>2
  <2> QED BY <2>1, <2>8, <2>10, <2>12 DEF w
<1>6. g \in W[n]
  <2> HIDE DEF W
  <2> QED BY <1>2, <1>4, <1>5, HugeLoop
<1> HIDE DEF g
<1> QED BY <1>2, <1>3, <1>6

-----------------------------------------------------------------------------
(* Frames in use *)

\* What process records look like.
ProcRecords ==
  {q \in [live : BOOLEAN, sz : 0 .. KERNBASE, space : Spaces] :
     q.live => q.space.dir = TRUE /\ q.space.kpt = TRUE}

\* The frames of a process.
Need(q) == IF q.live THEN Taken(q.space) + 3 ELSE 0

\* The frames in use of all processes together.
All(f) == UNION {{p} \X Uses(f[p]) : p \in Procs}

\* The parts of a process record.
LEMMA ProcParts ==
  ASSUME NEW q \in ProcRecords
  PROVE  /\ q.live \in BOOLEAN /\ q.sz \in 0 .. KERNBASE /\ q.space \in Spaces
         /\ q.live => q.space.dir = TRUE /\ q.space.kpt = TRUE
         /\ Need(q) \in Nat
BY TakenNat DEF ProcRecords, Need

\* A free slot needs no frame.
LEMMA NoProcess == NoProc \in ProcRecords /\ Need(NoProc) = 0 /\ NoProc.space = NoSpace
BY EmptySpace, Sizes DEF NoProc, ProcRecords, Need

\* A set with a tag on each element has as many elements.
LEMMA Pairs ==
  ASSUME NEW x, NEW S, IsFiniteSet(S)
  PROVE  IsFiniteSet({x} \X S) /\ Cardinality({x} \X S) = Cardinality(S)
<1>1. IsFiniteSet({x}) /\ Cardinality({x}) = 1
  BY FS_Singleton
<1>2. IsFiniteSet({x} \X S) /\ Cardinality({x} \X S) = Cardinality({x}) * Cardinality(S)
  BY <1>1, FS_Product
<1>3. Cardinality(S) \in Nat
  BY FS_CardinalityType
<1> QED BY <1>1, <1>2, <1>3

\* The number of elements of two sets that have none in common.
LEMMA Disjoint ==
  ASSUME NEW S, NEW T, IsFiniteSet(S), IsFiniteSet(T), S \cap T = {}
  PROVE  IsFiniteSet(S \cup T) /\ Cardinality(S \cup T) = Cardinality(S) + Cardinality(T)
<1>1. /\ IsFiniteSet(S \cup T)
      /\ Cardinality(S \cup T) = Cardinality(S) + Cardinality(T) - Cardinality(S \cap T)
  BY FS_Union
<1>2. Cardinality(S \cap T) = 0
  BY FS_EmptySet
<1>3. Cardinality(S) \in Nat /\ Cardinality(T) \in Nat
  BY FS_CardinalityType
<1> QED BY <1>1, <1>2, <1>3

\* The frames of a process, counted.
LEMMA UsesOf ==
  ASSUME NEW q \in ProcRecords
  PROVE  IsFiniteSet(Uses(q)) /\ Cardinality(Uses(q)) = Need(q)
<1>1. CASE ~ q.live
  BY <1>1, FS_EmptySet DEF Uses, Need
<1>2. CASE q.live
  <2> DEFINE M == {"page"} \X Memories(q.space)
             T == {"table"} \X Tables(q.space)
             D == {<<"directory", 0>>, <<"kernel", 0>>, <<"stack", 0>>}
  <2>1. Uses(q) = (M \cup T) \cup D
    BY <1>2 DEF Uses
  <2>2. M \cap T = {} /\ (M \cup T) \cap D = {}
    OBVIOUS
  <2>3. /\ IsFiniteSet(M) /\ Cardinality(M) = Cardinality(Memories(q.space))
        /\ IsFiniteSet(T) /\ Cardinality(T) = Cardinality(Tables(q.space))
    BY TakenNat, Pairs
  <2>4. IsFiniteSet(D) /\ Cardinality(D) = 3
    <3>1. PICK x, y, z : x = <<"directory", 0>> /\ y = <<"kernel", 0>> /\ z = <<"stack", 0>>
      OBVIOUS
    <3>2. D = ({x} \cup {y}) \cup {z} /\ y \notin {x} /\ z \notin {x} \cup {y}
      BY <3>1
    <3>3. IsFiniteSet({x}) /\ Cardinality({x}) = 1
      BY FS_Singleton
    <3>4. IsFiniteSet({x} \cup {y}) /\ Cardinality({x} \cup {y}) = Cardinality({x}) + 1
      BY <3>2, <3>3, FS_AddElement
    <3>5. IsFiniteSet(({x} \cup {y}) \cup {z})
          /\ Cardinality(({x} \cup {y}) \cup {z}) = Cardinality({x} \cup {y}) + 1
      BY <3>2, <3>4, FS_AddElement
    <3> HIDE DEF D
    <3> QED BY <3>2, <3>3, <3>4, <3>5
  <2> HIDE DEF M, T, D
  <2>5. IsFiniteSet(M \cup T) /\ Cardinality(M \cup T) = Cardinality(M) + Cardinality(T)
    BY <2>2, <2>3, Disjoint
  <2>6. /\ IsFiniteSet((M \cup T) \cup D)
        /\ Cardinality((M \cup T) \cup D) = Cardinality(M \cup T) + Cardinality(D)
    BY <2>2, <2>4, <2>5, Disjoint
  <2> QED BY <1>2, <2>1, <2>3, <2>4, <2>5, <2>6, TakenNat DEF Need, Taken
<1> QED BY <1>1, <1>2, ProcParts

\* The frames in use when one process changes.
LEMMA AllButOne ==
  ASSUME NEW f \in [Procs -> ProcRecords], NEW p \in Procs, NEW q \in ProcRecords
  PROVE  /\ IsFiniteSet(All(f)) /\ Cardinality(All(f)) \in Nat
         /\ Cardinality(All([f EXCEPT ![p] = q])) = Cardinality(All(f)) - Need(f[p]) + Need(q)
<1> DEFINE Rest == UNION {{r} \X Uses(f[r]) : r \in Procs \ {p}}
           g == [f EXCEPT ![p] = q]
<1>1. All(f) = Rest \cup ({p} \X Uses(f[p]))
  BY DEF All
<1>2. /\ \A r \in Procs \ {p} : g[r] = f[r]
      /\ g[p] = q
  OBVIOUS
<1>3. All(g) = Rest \cup ({p} \X Uses(q))
  <2> HIDE DEF g
  <2> QED BY <1>2 DEF All
<1>4. IsFiniteSet(Rest)
  <2> DEFINE Big == ({"page"} \X Pages \cup {"table"} \X UserDirs)
                      \cup {<<"directory", 0>>, <<"kernel", 0>>, <<"stack", 0>>}
  <2>1. IsFiniteSet(Big)
    <3>1. IsFiniteSet({"page"} \X Pages) /\ IsFiniteSet({"table"} \X UserDirs)
      BY FinitePages, Pairs
    <3>2. IsFiniteSet({<<"directory", 0>>, <<"kernel", 0>>, <<"stack", 0>>})
      <4>1. PICK x, y, z : x = <<"directory", 0>> /\ y = <<"kernel", 0>> /\ z = <<"stack", 0>>
        OBVIOUS
      <4>2. IsFiniteSet({x}) /\ IsFiniteSet({y}) /\ IsFiniteSet({z})
        BY FS_Singleton
      <4>3. IsFiniteSet({x} \cup {y})
        BY <4>2, FS_Union
      <4>4. IsFiniteSet(({x} \cup {y}) \cup {z})
        BY <4>2, <4>3, FS_Union
      <4>5. ({x} \cup {y}) \cup {z} = {<<"directory", 0>>, <<"kernel", 0>>, <<"stack", 0>>}
        BY <4>1
      <4> QED BY <4>4, <4>5
    <3> QED BY <3>1, <3>2, FS_Union
  <2>2. \A r \in Procs : Uses(f[r]) \subseteq Big
    BY DEF Uses, Memories, Tables
  <2> HIDE DEF Big
  <2>3. Rest \subseteq Procs \X Big
    BY <2>2
  <2>4. IsFiniteSet(Procs \X Big)
    BY <2>1, Bounds, FS_Product
  <2> QED BY <2>3, <2>4, FS_Subset
<1>5. Rest \cap ({p} \X Uses(f[p])) = {} /\ Rest \cap ({p} \X Uses(q)) = {}
  OBVIOUS
<1>6. /\ IsFiniteSet({p} \X Uses(f[p])) /\ Cardinality({p} \X Uses(f[p])) = Need(f[p])
      /\ IsFiniteSet({p} \X Uses(q)) /\ Cardinality({p} \X Uses(q)) = Need(q)
  <2>1. f[p] \in ProcRecords
    OBVIOUS
  <2> QED BY <2>1, UsesOf, Pairs
<1> HIDE DEF Rest, g
<1>7. /\ IsFiniteSet(All(f)) /\ Cardinality(All(f)) = Cardinality(Rest) + Need(f[p])
      /\ Cardinality(All(g)) = Cardinality(Rest) + Need(q)
  <2>1. PICK S : S = {p} \X Uses(f[p])
    OBVIOUS
  <2>2. PICK T : T = {p} \X Uses(q)
    OBVIOUS
  <2>3. IsFiniteSet(Rest \cup S) /\ Cardinality(Rest \cup S) = Cardinality(Rest) + Cardinality(S)
    BY <1>4, <1>5, <1>6, <2>1, Disjoint
  <2>4. IsFiniteSet(Rest \cup T) /\ Cardinality(Rest \cup T) = Cardinality(Rest) + Cardinality(T)
    BY <1>4, <1>5, <1>6, <2>2, Disjoint
  <2> QED BY <1>1, <1>3, <1>6, <2>1, <2>2, <2>3, <2>4
<1>8. Cardinality(Rest) \in Nat /\ Need(f[p]) \in Nat /\ Need(q) \in Nat
  BY <1>4, FS_CardinalityType, ProcParts
<1> QED BY <1>7, <1>8 DEF g

\* No process, no frame in use.
LEMMA NoneInUse == Cardinality(All([p \in Procs |-> NoProc])) = 0
<1>1. All([p \in Procs |-> NoProc]) = {}
  BY DEF All, Uses, NoProc
<1> QED BY <1>1, FS_EmptySet

-----------------------------------------------------------------------------
(* The inductive invariant: every address space is one, that of a live     *)
(* process has its directory and the tables of the kernel, and the frames  *)
(* add up.                                                                 *)

Inv ==
  /\ free \in Nat /\ lost \in Nat /\ halted \in BOOLEAN
  /\ proc \in [Procs -> ProcRecords]
  /\ FramesAccounted

\* InUse as a set that depends on proc alone.
LEMMA InUseAll == InUse = All(proc)
BY DEF InUse, All

\* A call whose result has what the process now does not hold free or lost.
LEMMA BecomesKeeps ==
  ASSUME Inv, NEW p \in Procs, NEW st, NEW q,
         st.out # "panic" => /\ q \in ProcRecords /\ st.free \in Nat /\ st.lost \in Nat
                             /\ st.free + st.lost + Need(q) = free + lost + Need(proc[p]),
         Becomes(st, p, q)
  PROVE  Inv'
<1>1. CASE st.out = "panic"
  <2>1. halted' = TRUE /\ free' = free /\ lost' = lost /\ proc' = proc
    BY <1>1 DEF Becomes
  <2> QED BY <2>1 DEF Inv, FramesAccounted, InUse
<1>2. CASE st.out # "panic"
  <2>1. /\ free' = st.free /\ lost' = st.lost /\ halted' = halted
        /\ proc' = [proc EXCEPT ![p] = q]
    BY <1>2 DEF Becomes
  <2>2. PICK f \in [Procs -> ProcRecords] : f = proc
    BY DEF Inv
  <2>3. PICK n \in Nat, l \in Nat : n = free /\ l = lost
    BY DEF Inv
  <2>4. n + Cardinality(All(f)) + l = Frames
    BY <2>2, <2>3, InUseAll DEF Inv, FramesAccounted
  <2>5. /\ q \in ProcRecords /\ st.free \in Nat /\ st.lost \in Nat
        /\ st.free + st.lost + Need(q) = n + l + Need(f[p])
    BY <1>2, <2>2, <2>3
  <2>6. /\ Cardinality(All(f)) \in Nat
        /\ Cardinality(All([f EXCEPT ![p] = q])) = Cardinality(All(f)) - Need(f[p]) + Need(q)
    BY <2>5, AllButOne
  <2>7. f[p] \in ProcRecords
    OBVIOUS
  <2>8. Need(f[p]) \in Nat /\ Need(q) \in Nat
    BY <2>5, <2>7, ProcParts
  <2>9. st.free + Cardinality(All([f EXCEPT ![p] = q])) + st.lost = Frames
    BY <2>4, <2>5, <2>6, <2>8
  <2>10. InUse' = All([f EXCEPT ![p] = q])
    <3>1. proc' = [f EXCEPT ![p] = q]
      BY <2>1, <2>2
    <3> QED BY <3>1 DEF InUse, All
  <2>11. FramesAccounted'
    BY <2>1, <2>9, <2>10 DEF FramesAccounted
  <2>12. proc' \in [Procs -> ProcRecords]
    BY <2>1, <2>2, <2>5
  <2> QED BY <2>1, <2>5, <2>11, <2>12 DEF Inv
<1> QED BY <1>1, <1>2

\* A state that a call of a process starts from.
Starts(p, t) ==
    /\ t \in States /\ t.out = "ok" /\ t.s = proc[p].space
    /\ Held(t) = free + lost + Taken(proc[p].space)

\* The calls start from such states.
LEMMA HereState ==
  ASSUME Inv, NEW p \in Procs
  PROVE  /\ proc[p] \in ProcRecords /\ free \in Nat /\ lost \in Nat
         /\ Starts(p, Here(p)) /\ Here(p).free = free /\ Here(p).lost = lost
         /\ \A w \in [Pages -> PteKinds] : Starts(p, Seen(p, w))
<1>1. proc[p] \in ProcRecords /\ free \in Nat /\ lost \in Nat
  BY DEF Inv
<1>2. PICK q \in ProcRecords : q = proc[p]
  BY <1>1
<1>3. PICK n \in Nat, l \in Nat : n = free /\ l = lost
  BY <1>1
<1>4. q.space \in Spaces
  BY ProcParts
<1>5. Here(p) = Start(n, l, q.space)
  BY <1>2, <1>3 DEF Here
<1>6. Starts(p, Here(p)) /\ Here(p).free = free /\ Here(p).lost = lost
  BY <1>2, <1>3, <1>4, <1>5, StartState DEF Starts
<1>7. ASSUME NEW w \in [Pages -> PteKinds] PROVE Starts(p, Seen(p, w))
  <2>1. PICK t \in States : t = Here(p)
    BY <1>6 DEF Starts
  <2>2. PICK u : u = [t EXCEPT !.words = w]
    OBVIOUS
  <2>3. u \in States /\ u.s = t.s /\ u.out = t.out /\ Held(u) = Held(t)
    BY <2>2, SeenState
  <2>4. Seen(p, w) = u
    BY <2>1, <2>2 DEF Seen
  <2> QED BY <1>6, <2>1, <2>3, <2>4 DEF Starts
<1> QED BY <1>1, <1>6, <1>7

\* What is in huge pages are entries.
LEMMA WordsAre ==
  ASSUME NEW p, NEW A, NEW E, E \subseteq Mem, NEW w \in Words(p, A, E)
  PROVE  w \in [Pages -> PteKinds]
<1> DEFINE unknown == {a \in Pages \cap A : IsHuge(proc[p].space, a) \/ proc[p].space.pte[a] = Device(1)}
<1>1. PICK v \in [unknown -> {None} \cup E] :
        w = [a \in Pages |-> IF a \in unknown THEN v[a] ELSE None]
  BY DEF Words
<1>2. {None} \cup E \subseteq PteKinds
  BY Kinds DEF PteKinds
<1> HIDE DEF unknown
<1>3. \A a \in Pages : (IF a \in unknown THEN v[a] ELSE None) \in PteKinds
  BY <1>2
<1> QED BY <1>1, <1>3

\* A call that changes the address space, and the size if it succeeds.
LEMMA SizedKeeps ==
  ASSUME Inv, NEW p \in Procs, proc[p].live, NEW t, Starts(p, t), NEW st, Keeps(t, st),
         NEW sz, st.out = "ok" => sz \in 0 .. KERNBASE,
         Sized(st, p, sz)
  PROVE  Inv'
<1>1. PICK r \in ProcRecords : r = proc[p]
  BY HereState
<1>2. PICK n \in Nat, l \in Nat : n = free /\ l = lost
  BY HereState
<1>3. t \in States
  BY DEF Starts
<1> DEFINE q == [r EXCEPT !.space = st.s, !.sz = IF st.out = "ok" THEN sz ELSE @]
<1>4. Becomes(st, p, q)
  BY <1>1 DEF Sized
<1>5. /\ t.s = r.space /\ Held(t) = n + l + Taken(r.space) /\ Keeps(t, st) /\ r.live
  BY <1>1, <1>2 DEF Starts
<1>6. /\ st.s \in Spaces /\ st.free \in Nat /\ st.lost \in Nat
      /\ st.s.dir = t.s.dir /\ st.s.kpt = t.s.kpt
  BY <1>3, <1>5, StateParts DEF Keeps
<1>7. /\ r.live = TRUE /\ r.sz \in 0 .. KERNBASE /\ r.space \in Spaces
      /\ r.space.dir = TRUE /\ r.space.kpt = TRUE
  BY <1>5, ProcParts
<1>8. q \in ProcRecords /\ q.live = TRUE /\ q.space = st.s
  <2> DEFINE z == IF st.out = "ok" THEN sz ELSE r.sz
  <2>1. z \in 0 .. KERNBASE
    BY <1>7
  <2>2. q = [r EXCEPT !.space = st.s, !.sz = z]
    OBVIOUS
  <2> HIDE DEF q, z
  <2>3. r \in [live : BOOLEAN, sz : 0 .. KERNBASE, space : Spaces]
    BY DEF ProcRecords
  <2>4. /\ q \in [live : BOOLEAN, sz : 0 .. KERNBASE, space : Spaces]
        /\ q.live = r.live /\ q.space = st.s
    BY <1>6, <2>1, <2>2, <2>3
  <2> QED BY <1>5, <1>6, <1>7, <2>4 DEF ProcRecords
<1> HIDE DEF q
<1>9. st.out # "panic" => st.free + st.lost + Need(q) = n + l + Need(r)
  <2>1. SUFFICES ASSUME st.out # "panic" PROVE st.free + st.lost + Need(q) = n + l + Need(r)
    OBVIOUS
  <2>2. st.free + st.lost + Taken(st.s) = n + l + Taken(r.space)
    BY <1>5, <2>1 DEF Keeps, Held
  <2>3. Need(q) = Taken(st.s) + 3 /\ Need(r) = Taken(r.space) + 3
    BY <1>7, <1>8 DEF Need
  <2>4. Taken(st.s) \in Nat /\ Taken(r.space) \in Nat
    BY TakenNat
  <2> QED BY <1>6, <2>2, <2>3, <2>4
<1> QED BY <1>1, <1>2, <1>4, <1>6, <1>8, <1>9, BecomesKeeps

-----------------------------------------------------------------------------
(* The steps *)

\* The memory of a process lies below its size.
Fits(q) == \A a \in Memories(q.space) : a < q.sz

\* What MemoryStaysBelow says of a step.
StaysBelow == \A r \in Procs : Below(r) => Below(r)' \/ Wrapped(r)

\* A call that changes one process.
LEMMA BecomesFits ==
  ASSUME Inv, NEW p \in Procs, NEW st, NEW q,
         st.out # "panic" /\ Below(p) => Fits(q) \/ Wrapped(p),
         Becomes(st, p, q)
  PROVE  StaysBelow
<1>1. CASE st.out = "panic"
  <2>1. proc' = proc
    BY <1>1 DEF Becomes
  <2> QED BY <2>1 DEF StaysBelow, Below
<1>2. CASE st.out # "panic"
  <2>1. proc' = [proc EXCEPT ![p] = q]
    BY <1>2 DEF Becomes
  <2>2. PICK f \in [Procs -> ProcRecords] : f = proc
    BY DEF Inv
  <2>3. \A r \in Procs : proc'[r] = IF r = p THEN q ELSE f[r]
    BY <2>1, <2>2
  <2>4. ASSUME NEW r \in Procs, Below(r) PROVE Below(r)' \/ Wrapped(r)
    <3>1. CASE r = p
      <4>1. Fits(q) => Below(p)'
        BY <2>3 DEF Fits, Below
      <4> QED BY <1>2, <2>4, <3>1, <4>1
    <3>2. CASE r # p
      <4>1. proc'[r] = proc[r]
        BY <2>2, <2>3, <3>2
      <4>2. Below(r)'
        BY <2>4, <4>1 DEF Below
      <4> QED BY <4>2
    <3> QED BY <3>1, <3>2
  <2> QED BY <2>4 DEF StaysBelow
<1> QED BY <1>1, <1>2

\* A call that changes the address space, and the size if it succeeds.
LEMMA SizedIs ==
  ASSUME Inv, NEW p \in Procs, NEW st, NEW sz, Sized(st, p, sz)
  PROVE  \E q : /\ Becomes(st, p, q) /\ q.space = st.s
               /\ q.sz = IF st.out = "ok" THEN sz ELSE proc[p].sz
<1>1. PICK r \in ProcRecords : r = proc[p]
  BY HereState
<1> DEFINE z == IF st.out = "ok" THEN sz ELSE r.sz
           q == [r EXCEPT !.space = st.s, !.sz = z]
<1>2. Becomes(st, p, q)
  BY <1>1 DEF Sized
<1>3. q.space = st.s /\ q.sz = z
  <2>1. r \in [live : BOOLEAN, sz : 0 .. KERNBASE, space : Spaces]
    BY DEF ProcRecords
  <2> HIDE DEF z
  <2> QED BY <2>1
<1> HIDE DEF q
<1> QED BY <1>1, <1>2, <1>3

\* One after which the memory of the process lies below its size.
LEMMA SizedFits ==
  ASSUME Inv, NEW p \in Procs, NEW st, NEW sz,
         st.out # "panic" /\ Below(p) =>
           \A a \in Memories(st.s) : a < IF st.out = "ok" THEN sz ELSE proc[p].sz,
         Sized(st, p, sz)
  PROVE  StaysBelow
<1>1. PICK q : /\ Becomes(st, p, q) /\ q.space = st.s
               /\ q.sz = IF st.out = "ok" THEN sz ELSE proc[p].sz
  BY SizedIs
<1>2. st.out # "panic" /\ Below(p) => Fits(q)
  BY <1>1 DEF Fits
<1> QED BY <1>1, <1>2, BecomesFits

\* What is known of the process that a call is made by.
LEMMA Caller ==
  ASSUME Inv, NEW p \in Procs
  PROVE  proc[p].sz \in 0 .. KERNBASE /\ proc[p].sz \in Nat
<1>1. PICK q \in ProcRecords : q = proc[p]
  BY HereState
<1>2. q.sz \in 0 .. KERNBASE /\ q.sz \in Nat
  <2>1. q.sz \in 0 .. KERNBASE
    BY ProcParts
  <2> QED BY <2>1, Sizes
<1> QED BY <1>1, <1>2

\* The use of a page: it is memory as it was.
LEMMA TouchStep ==
  ASSUME Inv, NEW p \in Procs, Touch(p)
  PROVE  Inv' /\ StaysBelow
<1>1. PICK a \in Pages : /\ proc[p].live /\ proc[p].space.pte[a] = Memory
                         /\ proc' = [proc EXCEPT ![p].space.pte[a] = Touched]
                         /\ free' = free /\ lost' = lost /\ halted' = halted
  BY DEF Touch, Live
<1>2. PICK f \in [Procs -> ProcRecords] : f = proc
  BY DEF Inv
<1>3. PICK r \in ProcRecords : r = f[p]
  OBVIOUS
<1>4. PICK t : t = Here(p)
  OBVIOUS
<1>5. /\ t \in States /\ t.out = "ok" /\ t.s = r.space /\ t.free = free /\ t.lost = lost
  BY <1>2, <1>3, <1>4, HereState DEF Starts
<1>6. a < KERNBASE /\ t.s.tab[Dir(a)] = Entry("table")
  <2>1. SpaceOK(t.s) /\ t.s.pte[a] = Memory
    BY <1>1, <1>2, <1>3, <1>5, StateParts
  <2>2. a \in Int /\ KERNBASE \in Int
    BY Sizes DEF Pages
  <2> QED BY <2>1, <2>2, Kinds DEF SpaceOK
<1> DEFINE u == [t EXCEPT !.s.pte[a] = Touched]
           q == [r EXCEPT !.space = u.s]
<1>7. /\ u \in States /\ u.free = t.free /\ u.lost = t.lost /\ u.out = t.out
      /\ u.s.dir = t.s.dir /\ u.s.kpt = t.s.kpt
      /\ u.s.pte = [t.s.pte EXCEPT ![a] = Touched]
      /\ Held(u) = Held(t) + (IF Touched \in Mem THEN 1 ELSE 0)
                           - (IF t.s.pte[a] \in Mem THEN 1 ELSE 0)
  <2>1. Touched \in PteKinds /\ Touched # Kernel
    BY Kinds DEF PteKinds
  <2> QED BY <1>5, <1>6, <2>1, SpaceWithPte
<1>8. Keeps(t, u) /\ Memories(u.s) = Memories(t.s)
  <2> HIDE DEF u
  <2>1. Held(u) = Held(t)
    BY <1>1, <1>2, <1>3, <1>5, <1>7, StateParts DEF Mem
  <2>2. \A b \in Pages : u.s.pte[b] \in Mem <=> t.s.pte[b] \in Mem
    BY <1>1, <1>2, <1>3, <1>5, <1>7, StateParts DEF Mem
  <2> QED BY <1>5, <1>7, <2>1, <2>2 DEF Keeps, Memories, Mem
<1>9. Becomes(u, p, [proc[p] EXCEPT !.space = u.s])
  <2>1. u.s = [t.s EXCEPT !.pte[a] = Touched]
    <3>1. t \in RawStates
      BY <1>5, StateParts
    <3> QED BY <3>1 DEF RawStates, RawSpaces
  <2>2. [f EXCEPT ![p].space.pte[a] = Touched] = [f EXCEPT ![p] = [f[p] EXCEPT !.space = u.s]]
    <3>1. f[p].space = t.s
      BY <1>3, <1>5
    <3>2. [f EXCEPT ![p].space.pte[a] = Touched]
            = [f EXCEPT ![p] = [f[p] EXCEPT !.space = [f[p].space EXCEPT !.pte[a] = Touched]]]
      OBVIOUS
    <3> QED BY <2>1, <3>1, <3>2
  <2>3. u.out # "panic"
    BY <1>5, <1>7
  <2> HIDE DEF u
  <2> QED BY <1>1, <1>2, <1>5, <1>7, <2>2, <2>3 DEF Becomes
<1>10. Sized(u, p, proc[p].sz)
  <2>1. [r EXCEPT !.space = u.s] = [r EXCEPT !.space = u.s, !.sz = r.sz]
    <3>1. r \in [live : BOOLEAN, sz : 0 .. KERNBASE, space : Spaces]
      BY DEF ProcRecords
    <3> HIDE DEF u
    <3> QED BY <3>1
  <2>2. [proc[p] EXCEPT !.space = u.s]
          = [proc[p] EXCEPT !.space = u.s, !.sz = IF u.out = "ok" THEN proc[p].sz ELSE @]
    <3> HIDE DEF u
    <3> QED BY <1>2, <1>3, <2>1
  <2> HIDE DEF u
  <2> QED BY <1>9, <2>2 DEF Sized
<1>11. Starts(p, t)
  BY <1>4, HereState
<1> HIDE DEF u, q
<1>12. Inv'
  BY <1>1, <1>8, <1>10, <1>11, Caller, SizedKeeps
<1>13. StaysBelow
  <2>1. Below(p) => \A b \in Memories(u.s) : b < proc[p].sz
    BY <1>2, <1>3, <1>5, <1>8 DEF Below
  <2> QED BY <1>10, <2>1, SizedFits
<1> QED BY <1>12, <1>13

\* sbrk of n > 0 keeps the invariant.
LEMMA GrowStep ==
  ASSUME Inv, NEW p \in Procs, Grow(p)
  PROVE  Inv' /\ StaysBelow
<1>1. PICK n \in Deltas, w \in Above(p) :
        /\ n > 0 /\ proc[p].live
        /\ (proc[p].sz + n) % AddrSpace > proc[p].sz
        /\ Sized(allocuvm(Seen(p, w), proc[p].sz, (proc[p].sz + n) % AddrSpace), p,
                 (proc[p].sz + n) % AddrSpace)
  BY DEF Grow, Live
<1>2. PICK old \in 0 .. KERNBASE : old = proc[p].sz
  BY Caller
<1>3. PICK x \in Int : x = old + n
  BY Bounds, Sizes
<1>4. PICK sz \in Nat : sz = x % AddrSpace
  <2>1. x % AddrSpace \in 0 .. AddrSpace - 1
    BY Sizes, ModIn
  <2> QED BY <2>1, Sizes
<1>5. PICK t \in States : t = Seen(p, w) /\ t.out = "ok" /\ Starts(p, t)
  <2>1. w \in [Pages -> PteKinds]
    BY WordsAre DEF Above, Mem
  <2> QED BY <2>1, HereState DEF Starts
<1>6. PICK st : st = allocuvm(t, old, sz)
  OBVIOUS
<1>7. Sized(st, p, sz) /\ old < sz /\ old <= sz
  <2>1. old < sz /\ old \in Int /\ sz \in Int
    BY <1>1, <1>2, <1>3, <1>4, Sizes
  <2> QED BY <1>1, <1>2, <1>3, <1>4, <1>5, <1>6, <2>1
<1>8. /\ Keeps(t, st)
      /\ st.out = "ok" => t.out = "ok" /\ sz < KERNBASE
      /\ st.out # "panic" => \A a \in Pages :
           \/ st.s.pte[a] = t.s.pte[a]
           \/ st.s.pte[a] = None
           \/ st.s.pte[a] \in Mem /\ st.out = "ok" /\ a < sz
  BY <1>5, <1>6, <1>7, AllocKeeps
<1>9. st.out = "ok" => sz \in 0 .. KERNBASE
  BY <1>8, Sizes
<1>10. Inv'
  BY <1>1, <1>5, <1>7, <1>8, <1>9, SizedKeeps
<1>11. StaysBelow
  <2>1. ASSUME st.out # "panic", Below(p), NEW a \in Memories(st.s)
        PROVE  a < IF st.out = "ok" THEN sz ELSE proc[p].sz
    <3>1. a \in Pages /\ a \in Int /\ old \in Int
      BY Sizes DEF Memories, Pages
    <3>2. a \in Memories(t.s) \/ (st.out = "ok" /\ a < sz)
      BY <1>8, <2>1, <3>1, Kinds DEF Memories
    <3>3. a < old \/ (st.out = "ok" /\ a < sz)
      BY <1>2, <1>5, <2>1, <3>2 DEF Below, Starts
    <3> QED BY <1>2, <1>7, <3>1, <3>3
  <2> QED BY <1>7, <2>1, SizedFits
<1> QED BY <1>10, <1>11

\* sbrk of n < 0 keeps the invariant.
LEMMA ShrinkStep ==
  ASSUME Inv, NEW p \in Procs, Shrink(p)
  PROVE  Inv' /\ StaysBelow
<1>1. PICK n \in Deltas : /\ n < 0 /\ proc[p].live
                          /\ (proc[p].sz + n) % AddrSpace < proc[p].sz
                          /\ Sized(deallocuvm(Here(p), proc[p].sz, (proc[p].sz + n) % AddrSpace), p,
                                   IF (proc[p].sz + n) % AddrSpace = 0 THEN proc[p].sz
                                   ELSE (proc[p].sz + n) % AddrSpace)
  BY DEF Shrink, Live
<1>2. PICK old \in 0 .. KERNBASE : old = proc[p].sz
  BY Caller
<1>3. PICK x \in Int : x = old + n
  BY Bounds, Sizes
<1>4. PICK new \in Nat : new = x % AddrSpace
  <2>1. x % AddrSpace \in 0 .. AddrSpace - 1
    BY Sizes, ModIn
  <2> QED BY <2>1, Sizes
<1>5. PICK t \in States : t = Here(p) /\ t.out = "ok" /\ Starts(p, t)
  BY HereState DEF Starts
<1>6. PICK st : st = deallocuvm(t, old, new)
  OBVIOUS
<1>7. PICK sz : sz = IF new = 0 THEN old ELSE new
  OBVIOUS
<1>8. Sized(st, p, sz) /\ new < old
  BY <1>1, <1>2, <1>3, <1>4, <1>5, <1>6, <1>7
<1>9. new \in 0 .. KERNBASE /\ sz \in 0 .. KERNBASE
  BY <1>7, <1>8, Sizes
<1>10. /\ Keeps(t, st) /\ st.out \in {t.out, "panic"}
       /\ st.out # "panic" => \A a \in Pages :
            st.s.pte[a] = IF new <= a /\ a < old THEN None ELSE t.s.pte[a]
  BY <1>6, <1>9, DeallocKeeps
<1>11. Inv'
  BY <1>1, <1>5, <1>8, <1>9, <1>10, SizedKeeps
<1>12. StaysBelow
  <2>1. ASSUME st.out # "panic", Below(p), NEW a \in Memories(st.s)
        PROVE  a < IF st.out = "ok" THEN sz ELSE proc[p].sz
    <3>1. a \in Pages /\ a \in Nat /\ old \in Int /\ st.s.pte[a] \in Mem
      BY Sizes DEF Memories, Pages, Mem
    <3>2. ~ (new <= a /\ a < old) /\ t.s.pte[a] \in Mem
      BY <1>10, <2>1, <3>1, Kinds
    <3>3. a < old
      BY <1>2, <1>5, <2>1, <3>1, <3>2 DEF Memories, Mem, Below, Starts
    <3> QED BY <1>5, <1>7, <1>10, <2>1, <3>1, <3>2, <3>3
  <2> QED BY <1>8, <2>1, SizedFits
<1> QED BY <1>11, <1>12

\* iomap keeps the invariant.
LEMMA IoMapStep ==
  ASSUME Inv, NEW p \in Procs, IoMap(p)
  PROVE  Inv' /\ StaysBelow
<1>1. PICK arg \in IoArgs, w \in Above(p) :
        /\ proc[p].live /\ arg[2] % PGSIZE = 0 /\ InUser(Up(proc[p].sz, PGSIZE), arg[2])
        /\ Sized(mappages(Seen(p, w), Up(proc[p].sz, PGSIZE), arg[2], arg[1]), p,
                 (Up(proc[p].sz, PGSIZE) + arg[2]) % AddrSpace)
  BY DEF IoMap, Live
<1>2. PICK old \in 0 .. KERNBASE : old = proc[p].sz
  BY Caller
<1>3. PICK va \in 0 .. KERNBASE : va = Up(old, PGSIZE) /\ va % PGSIZE = 0 /\ old <= va
  <2>1. /\ Up(old, PGSIZE) \in old .. KERNBASE /\ Up(old, PGSIZE) \in Nat
        /\ Up(old, PGSIZE) % PGSIZE = 0
    BY UpOf
  <2> QED BY <2>1, Sizes
<1>4. PICK size \in 0 .. AddrSpace - 1 : size = arg[2] /\ size % PGSIZE = 0
  BY <1>1, Bounds
<1>5. PICK f : f = arg[1]
  OBVIOUS
<1>6. PICK t \in States : t = Seen(p, w) /\ Starts(p, t)
  <2>1. w \in [Pages -> PteKinds]
    BY WordsAre DEF Above, Mem
  <2> QED BY <2>1, HereState DEF Starts
<1>7. PICK st : st = mappages(t, va, size, f)
  OBVIOUS
<1>8. PICK x \in Nat : x = va + size
  BY Sizes
<1>9. PICK sz : sz = x % AddrSpace
  OBVIOUS
<1>10. Sized(st, p, sz) /\ sz <= KERNBASE
  BY <1>1, <1>2, <1>3, <1>4, <1>5, <1>6, <1>7, <1>8, <1>9 DEF InUser
<1>11. sz \in 0 .. AddrSpace - 1 /\ sz \in 0 .. KERNBASE
  <2>1. x \in Int
    OBVIOUS
  <2>2. sz \in 0 .. AddrSpace - 1
    BY <1>9, <2>1, Sizes, ModIn
  <2> QED BY <1>10, <2>2, Sizes
<1>12. NoMemory(t, st) /\ (st.out = "ok" => va + size < AddrSpace)
  BY <1>3, <1>4, <1>7, MapKeeps
<1>13. Inv'
  BY <1>1, <1>6, <1>10, <1>11, <1>12, SizedKeeps DEF NoMemory
<1>14. StaysBelow
  <2>1. st.out = "ok" => old <= sz
    <3>1. SUFFICES ASSUME st.out = "ok" PROVE old <= sz
      OBVIOUS
    <3>2. x \in 0 .. AddrSpace - 1
      BY <1>8, <1>12, <3>1, Sizes
    <3>3. sz = x
      BY <1>9, <3>2, Sizes, ModOf
    <3> QED BY <1>3, <1>8, <3>3, Sizes
  <2>2. ASSUME st.out # "panic", Below(p), NEW a \in Memories(st.s)
        PROVE  a < IF st.out = "ok" THEN sz ELSE proc[p].sz
    <3>1. a \in Int /\ old \in Int /\ sz \in Int
      BY <1>11, Sizes DEF Memories, Pages
    <3>2. a < old
      BY <1>2, <1>6, <1>12, <2>2 DEF NoMemory, Below, Starts
    <3> QED BY <1>2, <2>1, <3>1, <3>2
  <2> QED BY <1>10, <2>2, SizedFits
<1> QED BY <1>13, <1>14

\* hpmap keeps the invariant; a process that is smaller then has a new huge page.
LEMMA HpMapStep ==
  ASSUME Inv, NEW p \in Procs, HpMap(p)
  PROVE  Inv' /\ StaysBelow
<1>1. PICK arg \in HpArgs :
        /\ proc[p].live /\ InUser(Up(proc[p].sz, HPSIZE), arg[2])
        /\ Sized(hpmappages(Here(p), Up(proc[p].sz, HPSIZE), arg[2]), p,
                 (Up(proc[p].sz, HPSIZE) + arg[2]) % AddrSpace)
  BY DEF HpMap, Live
<1>2. PICK old \in 0 .. KERNBASE : old = proc[p].sz
  BY Caller
<1>3. PICK va \in 0 .. KERNBASE : va = Up(old, HPSIZE) /\ va % HPSIZE = 0 /\ old <= va
  <2>1. /\ Up(old, HPSIZE) \in old .. KERNBASE /\ Up(old, HPSIZE) \in Nat
        /\ Up(old, HPSIZE) % HPSIZE = 0
    BY UpOf
  <2> QED BY <2>1, Sizes
<1>4. PICK size \in Nat : size = arg[2]
  BY Bounds, Sizes
<1>6. PICK t \in States : t = Here(p) /\ Starts(p, t)
  BY HereState DEF Starts
<1>7. PICK st : st = hpmappages(t, va, size)
  OBVIOUS
<1>8. PICK x \in Nat : x = va + size
  BY Sizes
<1>9. PICK sz : sz = x % AddrSpace
  OBVIOUS
<1>10. Sized(st, p, sz) /\ sz <= KERNBASE
  BY <1>1, <1>2, <1>3, <1>4, <1>6, <1>7, <1>8, <1>9 DEF InUser
<1>11. sz \in 0 .. AddrSpace - 1 /\ sz \in 0 .. KERNBASE
  <2>1. x \in Int
    OBVIOUS
  <2>2. sz \in 0 .. AddrSpace - 1
    BY <1>9, <2>1, Sizes, ModIn
  <2> QED BY <1>10, <2>2, Sizes
<1>12. NoMemory(t, st) /\ (st.out = "ok" => NewHuge(t, st, va))
  BY <1>3, <1>7, HugeKeeps
<1>13. Inv'
  BY <1>1, <1>6, <1>10, <1>11, <1>12, SizedKeeps DEF NoMemory
<1>14. StaysBelow
  <2>1. PICK q : /\ Becomes(st, p, q) /\ q.space = st.s
                 /\ q.sz = IF st.out = "ok" THEN sz ELSE proc[p].sz
    BY <1>10, SizedIs
  <2>2. ASSUME st.out # "panic", Below(p) PROVE Fits(q) \/ Wrapped(p)
    <3>1. \A a \in Memories(st.s) : a < old /\ a \in Int
      <4>1. \A a \in Memories(st.s) : a \in Int
        BY Sizes DEF Memories, Pages
      <4> QED BY <1>2, <1>6, <1>12, <2>2, <4>1 DEF NoMemory, Below, Starts
    <3>2. old \in Int /\ sz \in Int
      BY <1>11, Sizes
    <3>3. CASE st.out = "ok" /\ sz < old
      <4>1. proc' = [proc EXCEPT ![p] = q]
        BY <2>1, <2>2 DEF Becomes
      <4>2. proc'[p] = q
        <5>1. PICK f \in [Procs -> ProcRecords] : f = proc
          BY DEF Inv
        <5> QED BY <4>1, <5>1
      <4>3. proc'[p].sz < proc[p].sz
        BY <1>2, <2>1, <3>3, <4>2
      <4>4. /\ va \in UserDirs /\ proc[p].space.tab[va] = None
            /\ proc'[p].space.tab[va] = Entry("huge")
        BY <1>6, <1>12, <2>1, <3>3, <4>2 DEF NewHuge, Starts
      <4> QED BY <4>3, <4>4 DEF Wrapped
    <3>4. CASE ~ (st.out = "ok" /\ sz < old)
      <4>1. old <= q.sz /\ q.sz \in Int
        BY <1>2, <2>1, <3>2, <3>4
      <4> QED BY <2>1, <3>1, <3>2, <4>1 DEF Fits
    <3> QED BY <3>3, <3>4
  <2> QED BY <2>1, <2>2, BecomesFits
<1> QED BY <1>13, <1>14

\* A free slot has no memory.
LEMMA EmptyFits == Fits(NoProc)
BY NoProcess, EmptySpace DEF Fits, Memories, Mem

\* fork keeps the invariant: the copy is complete or given back.
LEMMA ForkStep ==
  ASSUME Inv, NEW p \in Procs, Fork(p)
  PROVE  Inv' /\ StaysBelow
<1>1. PICK k \in Procs, w \in Upto(p) :
        /\ proc[p].live /\ free > 0 /\ ~ proc[k].live
        /\ LET st == copyuvm(free - 1, lost, w, proc[p])
           IN IF st.out = "fail" THEN Becomes(kfree(st), k, NoProc)
              ELSE Becomes(st, k, [proc[p] EXCEPT !.space = st.s])
  BY DEF Fork, Live
<1>2. PICK r \in ProcRecords : r = proc[p]
  BY HereState
<1>3. PICK n \in Nat, l \in Nat : n = free /\ l = lost
  BY HereState
<1>4. PICK c \in ProcRecords : c = proc[k]
  BY HereState
<1>5. PICK m \in Nat : m = n - 1
  BY <1>1, <1>3
<1>6. PICK st : st = copyuvm(m, l, w, r)
  OBVIOUS
<1>7. IF st.out = "fail" THEN Becomes(kfree(st), k, NoProc)
      ELSE Becomes(st, k, [r EXCEPT !.space = st.s])
  BY <1>1, <1>2, <1>3, <1>5, <1>6
<1>8. r.sz \in 0 .. KERNBASE
  BY ProcParts
<1>9. /\ st \in States
      /\ st.out = "ok" => /\ m + l = Held(st) + 2 /\ st.s.dir = TRUE /\ st.s.kpt = TRUE
                          /\ \A a \in Memories(st.s) : a < r.sz
      /\ st.out = "fail" => st.free + st.lost = m + l
  <2>1. Copied(m, l, r, st)
    BY <1>6, <1>8, CopyTakes
  <2> QED BY <2>1 DEF Copied
<1>10. /\ st \in RawStates /\ st.free \in Nat /\ st.lost \in Nat /\ st.s \in Spaces /\ st.out \in Outs
       /\ Held(st) \in Nat /\ Taken(st.s) \in Nat
  BY <1>9, StateParts, TakenNat
<1>11. Need(proc[k]) = 0
  BY <1>1, <1>4 DEF Need
<1>12. CASE st.out = "fail"
  <2>1. PICK u : u = kfree(st)
    OBVIOUS
  <2>2. u.free + u.lost = n + l /\ u.out = "fail" /\ u.free \in Nat /\ u.lost \in Nat
    <3>1. kfree(st) = [st EXCEPT !.free = st.free + 1] /\ st.free + 1 \in Int
      BY <1>10 DEF kfree
    <3>2. u.free = st.free + 1 /\ u.lost = st.lost /\ u.out = st.out
      BY <1>10, <2>1, <3>1, SetFree
    <3> QED BY <1>5, <1>9, <1>10, <1>12, <3>2
  <2>3. Becomes(u, k, NoProc)
    BY <1>7, <1>12, <2>1
  <2>4. Inv'
    <3>1. u.free + u.lost + Need(NoProc) = free + lost + Need(proc[k])
      BY <1>3, <1>11, <2>2, NoProcess
    <3> QED BY <2>2, <2>3, <3>1, NoProcess, BecomesKeeps
  <2> QED BY <2>3, <2>4, EmptyFits, BecomesFits
<1>13. CASE st.out # "fail"
  <2> DEFINE q == [r EXCEPT !.space = st.s]
  <2>1. Becomes(st, k, q)
    BY <1>7, <1>13
  <2>2. q.live = TRUE /\ q.sz = r.sz /\ q.space = st.s
        /\ q \in [live : BOOLEAN, sz : 0 .. KERNBASE, space : Spaces]
    <3>1. r \in [live : BOOLEAN, sz : 0 .. KERNBASE, space : Spaces] /\ r.live = TRUE
      BY <1>1, <1>2, ProcParts DEF ProcRecords
    <3> QED BY <1>10, <3>1
  <2> HIDE DEF q
  <2>3. ASSUME st.out # "panic"
        PROVE  /\ q \in ProcRecords /\ Fits(q)
               /\ st.free + st.lost + Need(q) = free + lost + Need(proc[k])
    <3>1. st.out = "ok"
      BY <1>10, <1>13, <2>3 DEF Outs
    <3>2. q \in ProcRecords /\ Fits(q)
      BY <1>9, <2>2, <3>1 DEF ProcRecords, Fits
    <3>3. Need(q) = Taken(st.s) + 3
      BY <2>2 DEF Need
    <3>4. m + l = st.free + st.lost + Taken(st.s) + 2
      BY <1>9, <3>1 DEF Held
    <3> QED BY <1>3, <1>5, <1>10, <1>11, <3>2, <3>3, <3>4
  <2>4. Inv'
    BY <1>10, <2>1, <2>3, BecomesKeeps
  <2> QED BY <2>1, <2>3, <2>4, BecomesFits
<1> QED BY <1>12, <1>13

\* exit keeps the invariant: all frames of the process are free again.
LEMMA ExitStep ==
  ASSUME Inv, NEW p \in Procs, Exit(p)
  PROVE  Inv' /\ StaysBelow
<1>1. proc[p].live /\ Becomes(freevm(kfree(Here(p))), p, NoProc)
  BY DEF Exit, Live
<1>2. PICK r \in ProcRecords : r = proc[p]
  BY HereState
<1>3. PICK n \in Nat, l \in Nat : n = free /\ l = lost
  BY HereState
<1>4. PICK t \in States : t = Here(p)
  BY HereState DEF Starts
<1>5. t.out = "ok" /\ t.s = r.space /\ Held(t) = n + l + Taken(r.space)
  BY <1>2, <1>3, <1>4, HereState DEF Starts
<1>6. PICK u : u = kfree(t)
  OBVIOUS
<1>7. u \in States /\ u.s = r.space /\ u.out = "ok" /\ Held(u) = n + l + Taken(r.space) + 1
  BY <1>5, <1>6, GivenUp
<1>8. PICK st : st = freevm(u)
  OBVIOUS
<1>9. /\ st \in States /\ st.out \in {u.out, "panic"}
      /\ st.out # "panic" =>
           st.s = NoSpace /\ st.free + st.lost = Held(u) + (IF u.s.kpt THEN 1 ELSE 0) + 1
  BY <1>7, <1>8, FreeGivesAll
<1>10. Becomes(st, p, NoProc)
  BY <1>1, <1>4, <1>6, <1>8
<1>11. ASSUME st.out # "panic"
       PROVE  /\ st.free \in Nat /\ st.lost \in Nat
              /\ st.free + st.lost + Need(NoProc) = free + lost + Need(proc[p])
  <2>1. r.space.kpt = TRUE /\ Need(proc[p]) = Taken(r.space) + 3
    BY <1>1, <1>2, ProcParts DEF Need
  <2>2. st.free + st.lost = n + l + Taken(r.space) + 3
    BY <1>7, <1>9, <1>11, <2>1, TakenNat
  <2>3. st.free \in Nat /\ st.lost \in Nat
    BY <1>9, StateParts
  <2> QED BY <1>3, <2>1, <2>2, <2>3, TakenNat, NoProcess
<1>12. Inv'
  BY <1>10, <1>11, NoProcess, BecomesKeeps
<1> QED BY <1>10, <1>12, EmptyFits, BecomesFits

\* exec keeps the invariant: the old image or the new one is given back.
LEMMA ExecStep ==
  ASSUME Inv, NEW p \in Procs, Exec(p)
  PROVE  Inv' /\ StaysBelow
<1>1. PICK size \in Programs :
        LET st  == setupkvm(free, lost)
            new == IF st.out = "ok" THEN allocuvm(st, 0, size) ELSE st
            old == freevm(Start(new.free, new.lost, proc[p].space))
        IN /\ proc[p].live
           /\ IF new.out = "ok"
                THEN Becomes(old, p, [proc[p] EXCEPT !.sz = size, !.space = new.s])
                ELSE Becomes(IF st.out = "ok" THEN freevm(new) ELSE new, p, proc[p])
  BY DEF Exec, Live
<1>2. PICK r \in ProcRecords : r = proc[p]
  BY HereState
<1>3. PICK n \in Nat, l \in Nat : n = free /\ l = lost
  BY HereState
<1>4. PICK st : st = setupkvm(n, l)
  OBVIOUS
<1>5. PICK new : new = IF st.out = "ok" THEN allocuvm(st, 0, size) ELSE st
  OBVIOUS
<1>6. PICK old : old = freevm(Start(new.free, new.lost, r.space))
  OBVIOUS
<1>7. /\ r.live
      /\ IF new.out = "ok"
           THEN Becomes(old, p, [r EXCEPT !.sz = size, !.space = new.s])
           ELSE Becomes(IF st.out = "ok" THEN freevm(new) ELSE new, p, r)
  BY <1>1, <1>2, <1>3, <1>4, <1>5, <1>6
<1>8. /\ st \in States /\ st.out \in {"ok", "fail"}
      /\ st.out = "ok" => /\ n + l = Held(st) + 2 /\ st.s.dir = TRUE /\ st.s.kpt = TRUE
                          /\ st.s.pte = NoSpace.pte
      /\ st.out = "fail" => st.free + st.lost = n + l
  BY <1>4, SetupTakes
<1>9. /\ r.live = TRUE /\ r.sz \in 0 .. KERNBASE /\ r.space \in Spaces /\ r.space.kpt = TRUE
      /\ Need(r) = Taken(r.space) + 3 /\ Taken(r.space) \in Nat
  BY <1>7, ProcParts, TakenNat DEF Need
<1>10. size \in Nat /\ 0 \in 0 .. KERNBASE /\ 0 <= size
  BY Bounds, Sizes
<1>11. CASE st.out # "ok"
  <2>1. new = st /\ st.out = "fail" /\ Becomes(new, p, r)
    BY <1>5, <1>7, <1>8, <1>11
  <2>2. /\ new.free \in Nat /\ new.lost \in Nat
        /\ new.free + new.lost + Need(r) = free + lost + Need(proc[p])
    BY <1>2, <1>3, <1>8, <1>9, <2>1, StateParts
  <2>3. Inv'
    BY <2>1, <2>2, BecomesKeeps
  <2>4. Below(p) => Fits(r)
    BY <1>2 DEF Below, Fits
  <2> QED BY <2>1, <2>3, <2>4, BecomesFits
<1>12. CASE st.out = "ok"
  <2>1. /\ Keeps(st, new)
        /\ new.out = "ok" => st.out = "ok" /\ size < KERNBASE
        /\ new.out # "panic" => \A a \in Pages :
             \/ new.s.pte[a] = st.s.pte[a]
             \/ new.s.pte[a] = None
             \/ new.s.pte[a] \in Mem /\ new.out = "ok" /\ a < size
    BY <1>5, <1>8, <1>10, <1>12, AllocKeeps
  <2>2. /\ new \in States /\ new.out \in Outs /\ new.free \in Nat /\ new.lost \in Nat /\ new.s \in Spaces
        /\ new.s.dir = TRUE /\ new.s.kpt = TRUE
        /\ new.out # "panic" => n + l = new.free + new.lost + Taken(new.s) + 2
    BY <1>8, <1>12, <2>1, StateParts DEF Keeps, Held
  <2>3. CASE new.out = "ok"
    <3>1. PICK s \in States :
            /\ s = Start(new.free, new.lost, r.space) /\ s.out = "ok"
            /\ s.s = r.space /\ Held(s) = new.free + new.lost + Taken(r.space)
      <4>1. PICK f \in Nat, k \in Nat : f = new.free /\ k = new.lost
        BY <2>2
      <4>2. PICK o \in Spaces : o = r.space
        BY <1>9
      <4>3. PICK s : s = Start(f, k, o)
        OBVIOUS
      <4>4. s \in States /\ s.out = "ok" /\ s.s = o /\ Held(s) = f + k + Taken(o)
        BY <4>3, StartState
      <4> QED BY <4>1, <4>2, <4>3, <4>4
    <3>2. /\ old \in States
          /\ old.out # "panic" => old.free + old.lost = Held(s) + (IF s.s.kpt THEN 1 ELSE 0) + 1
      BY <1>6, <3>1, FreeGivesAll
    <3> DEFINE q == [r EXCEPT !.sz = size, !.space = new.s]
    <3>3. Becomes(old, p, q)
      BY <1>7, <2>3
    <3>4. size \in 0 .. KERNBASE
      BY <1>10, <2>1, <2>3, Sizes
    <3>5. /\ q \in [live : BOOLEAN, sz : 0 .. KERNBASE, space : Spaces]
          /\ q.live = r.live /\ q.sz = size /\ q.space = new.s
      <4>1. r \in [live : BOOLEAN, sz : 0 .. KERNBASE, space : Spaces]
        BY DEF ProcRecords
      <4> QED BY <2>2, <3>4, <4>1
    <3> HIDE DEF q
    <3>6. q \in ProcRecords
      BY <2>2, <3>5 DEF ProcRecords
    <3>7. Fits(q)
      <4>1. ASSUME NEW a \in Memories(new.s) PROVE a < size
        <5>1. a \in Pages /\ new.s.pte[a] \in Mem
          BY DEF Memories, Mem
        <5>2. st.s.pte[a] \notin Mem
          BY <1>8, <1>12, <5>1, EmptySpace
        <5> QED BY <2>1, <2>3, <5>1, <5>2, Kinds
      <4> QED BY <3>5, <4>1 DEF Fits
    <3>8. ASSUME old.out # "panic"
          PROVE  /\ old.free \in Nat /\ old.lost \in Nat
                 /\ old.free + old.lost + Need(q) = free + lost + Need(proc[p])
      <4>1. Need(q) = Taken(new.s) + 3 /\ Taken(new.s) \in Nat
        BY <1>9, <3>5, TakenNat DEF Need
      <4>2. old.free + old.lost = new.free + new.lost + Taken(r.space) + 2
        BY <1>9, <2>2, <3>1, <3>2, <3>8
      <4>3. n + l = new.free + new.lost + Taken(new.s) + 2
        BY <2>2, <2>3
      <4>4. old.free \in Nat /\ old.lost \in Nat
        BY <3>2, StateParts
      <4> QED BY <1>2, <1>3, <1>9, <2>2, <4>1, <4>2, <4>3, <4>4
    <3>9. Inv'
      BY <3>3, <3>6, <3>8, BecomesKeeps
    <3> QED BY <3>3, <3>7, <3>9, BecomesFits
  <2>4. CASE new.out # "ok"
    <3>1. PICK u : u = freevm(new)
      OBVIOUS
    <3>2. /\ u \in States /\ u.out \in {new.out, "panic"}
          /\ u.out # "panic" => u.free + u.lost = Held(new) + (IF new.s.kpt THEN 1 ELSE 0) + 1
      BY <2>2, <3>1, FreeGivesAll
    <3>3. Becomes(u, p, r)
      BY <1>7, <1>12, <2>4, <3>1
    <3>4. ASSUME u.out # "panic"
          PROVE  /\ u.free \in Nat /\ u.lost \in Nat
                 /\ u.free + u.lost + Need(r) = free + lost + Need(proc[p])
      <4>1. new.out # "panic"
        BY <3>2, <3>4
      <4>2. u.free + u.lost = n + l
        BY <2>2, <3>2, <3>4, <4>1, TakenNat DEF Held
      <4>3. u.free \in Nat /\ u.lost \in Nat
        BY <3>2, StateParts
      <4> QED BY <1>2, <1>3, <1>9, <4>2, <4>3
    <3>5. Inv'
      BY <3>3, <3>4, BecomesKeeps
    <3>6. Below(p) => Fits(r)
      BY <1>2 DEF Below, Fits
    <3> QED BY <3>3, <3>5, <3>6, BecomesFits
  <2> QED BY <2>3, <2>4
<1> QED BY <1>11, <1>12

\* The first process is complete.
LEMMA FirstState ==
  ASSUME Init
  PROVE  Inv /\ \A p \in Procs : Below(p)
<1>1. PICK size \in Programs :
        LET st == allocuvm(setupkvm(Frames - 1, 0), 0, size)
        IN /\ st.out = "ok"
           /\ free = st.free /\ lost = st.lost
           /\ proc = [p \in Procs |-> IF p # First THEN NoProc
                        ELSE [live |-> TRUE, sz |-> size, space |-> st.s]]
           /\ halted = FALSE
  BY DEF Init
<1>2. PICK n \in Nat : n = Frames - 1
  BY Sizes
<1>3. PICK t : t = setupkvm(n, 0)
  OBVIOUS
<1>4. PICK st : st = allocuvm(t, 0, size)
  OBVIOUS
<1>5. /\ st.out = "ok" /\ free = st.free /\ lost = st.lost /\ halted = FALSE
      /\ proc = [p \in Procs |-> IF p # First THEN NoProc
                   ELSE [live |-> TRUE, sz |-> size, space |-> st.s]]
  BY <1>1, <1>2, <1>3, <1>4
<1>6. /\ t \in States /\ t.out \in {"ok", "fail"}
      /\ t.out = "ok" => /\ n + 0 = Held(t) + 2 /\ t.s.dir = TRUE /\ t.s.kpt = TRUE
                         /\ t.s.pte = NoSpace.pte
  <2>1. 0 \in Nat
    OBVIOUS
  <2> QED BY <1>3, <2>1, SetupTakes
<1>7. size \in Nat /\ 0 \in 0 .. KERNBASE /\ 0 <= size
  BY Bounds, Sizes
<1>8. /\ Keeps(t, st) /\ t.out = "ok" /\ size < KERNBASE
      /\ \A a \in Pages :
             \/ st.s.pte[a] = t.s.pte[a]
             \/ st.s.pte[a] = None
             \/ st.s.pte[a] \in Mem /\ st.out = "ok" /\ a < size
  BY <1>4, <1>5, <1>6, <1>7, AllocKeeps
<1>9. /\ st.s \in Spaces /\ st.free \in Nat /\ st.lost \in Nat /\ Taken(st.s) \in Nat
      /\ st.s.dir = TRUE /\ st.s.kpt = TRUE
      /\ n = st.free + st.lost + Taken(st.s) + 2
  BY <1>5, <1>6, <1>8, StateParts, TakenNat DEF Keeps, Held
<1> DEFINE q == [live |-> TRUE, sz |-> size, space |-> st.s]
           f == [p \in Procs |-> NoProc]
<1>10. /\ q.live = TRUE /\ q.sz = size /\ q.space = st.s
       /\ q \in [live : BOOLEAN, sz : 0 .. KERNBASE, space : Spaces]
  BY <1>7, <1>8, <1>9, Sizes
<1> HIDE DEF q
<1>11. q \in ProcRecords /\ Need(q) = Taken(st.s) + 3
  BY <1>9, <1>10 DEF ProcRecords, Need
<1>12. Fits(q)
  <2>1. ASSUME NEW a \in Memories(st.s) PROVE a < size
    <3>1. a \in Pages /\ st.s.pte[a] \in Mem
      BY DEF Memories, Mem
    <3>2. t.s.pte[a] \notin Mem
      BY <1>6, <1>8, <3>1, EmptySpace
    <3> QED BY <1>8, <3>1, <3>2, Kinds
  <2> QED BY <1>10, <2>1 DEF Fits
<1>13. proc = [f EXCEPT ![First] = q]
  BY <1>5, Bounds DEF q
<1>14. f \in [Procs -> ProcRecords] /\ f[First] = NoProc /\ First \in Procs
  BY NoProcess, Bounds
<1>15. FramesAccounted
  <2>1. Cardinality(All(f)) = 0
    BY NoneInUse
  <2> HIDE DEF f
  <2>2. Cardinality(All([f EXCEPT ![First] = q])) = Cardinality(All(f)) - Need(f[First]) + Need(q)
    BY <1>11, <1>14, AllButOne
  <2>3. Cardinality(InUse) = Need(q)
    BY <1>9, <1>11, <1>13, <1>14, <2>1, <2>2, InUseAll, NoProcess
  <2> QED BY <1>2, <1>5, <1>9, <1>11, <2>3, Sizes DEF FramesAccounted
<1>16. Inv
  <2> HIDE DEF f
  <2>1. proc \in [Procs -> ProcRecords]
    BY <1>11, <1>13, <1>14
  <2> QED BY <1>5, <1>9, <1>15, <2>1 DEF Inv
<1>17. \A p \in Procs : Below(p)
  <2>1. \A p \in Procs : Fits(proc[p])
    BY <1>12, <1>13, EmptyFits
  <2> QED BY <2>1 DEF Below, Fits
<1> QED BY <1>16, <1>17

\* Every step keeps the invariant, and memory below the sizes.
LEMMA NextKeeps ==
  ASSUME Inv, [Next]_vars
  PROVE  Inv' /\ StaysBelow
<1>1. CASE UNCHANGED vars
  <2>1. free' = free /\ lost' = lost /\ proc' = proc /\ halted' = halted
    BY <1>1 DEF vars
  <2>2. Inv'
    BY <2>1 DEF Inv, FramesAccounted, InUse
  <2>3. StaysBelow
    BY <2>1 DEF StaysBelow, Below
  <2> QED BY <2>2, <2>3
<1>2. ASSUME NEW p \in Procs,
             \/ Touch(p) \/ Grow(p) \/ Shrink(p) \/ IoMap(p) \/ HpMap(p)
             \/ Fork(p) \/ Exec(p) \/ Exit(p)
      PROVE  Inv' /\ StaysBelow
  BY <1>2, TouchStep, GrowStep, ShrinkStep, IoMapStep, HpMapStep, ForkStep, ExecStep, ExitStep
<1> QED BY <1>1, <1>2 DEF Next

\* Every reachable state satisfies the invariant.
THEOREM Invariance == Spec => []Inv
<1>1. Init => Inv
  BY FirstState
<1>2. Inv /\ [Next]_vars => Inv'
  BY NextKeeps
<1> QED BY <1>1, <1>2, PTL DEF Spec

-----------------------------------------------------------------------------
(* The theorems *)

\* What the invariant says of sizes and of free frames.
LEMMA InvTypes ==
  ASSUME Inv
  PROVE  TypeOK
<1>1. \A p \in Procs : proc[p].live \in BOOLEAN /\ proc[p].sz \in 0 .. KERNBASE
  BY HereState, ProcParts
<1>2. free \in 0..Frames /\ lost \in 0..Frames
  <2>1. PICK f \in [Procs -> ProcRecords] : f = proc
    BY DEF Inv
  <2>2. f[First] \in ProcRecords /\ First \in Procs
    BY Bounds
  <2>3. Cardinality(All(f)) \in Nat
    BY <2>2, AllButOne
  <2>4. free \in Nat /\ lost \in Nat /\ free + Cardinality(All(f)) + lost = Frames
    BY <2>1, InUseAll DEF Inv, FramesAccounted
  <2> QED BY <2>3, <2>4, Sizes
<1> QED BY <1>1, <1>2 DEF Inv, TypeOK

\* No process is larger than user space and there never are more free or lost
\* frames than frames, whatever the calls and their arguments are.
THEOREM TypeCorrect == Spec => []TypeOK
<1>1. Inv => TypeOK
  BY InvTypes
<1> QED BY <1>1, Invariance, PTL

\* growproc, iomap, hpmap, fork, exec and exit free no frame twice and count none
\* twice: free, in use or lost, there are as many as there were.  Which frames
\* are lost is in the model: those of pages used before they are unmapped, and
\* those whose entry goes into a huge page.
THEOREM FramesAreAccounted == Spec => []FramesAccounted
<1>1. Inv => FramesAccounted
  BY DEF Inv
<1> QED BY <1>1, Invariance, PTL

\* No mapping, however far its end wraps around, replaces an entry of the
\* kernel.
THEOREM KernelIsKept == Spec => []KernelKept
<1>1. Inv => KernelKept
  <2>1. SUFFICES ASSUME Inv, NEW p \in Procs
                 PROVE  \A a \in Pages : a >= KERNBASE => proc[p].space.pte[a] = Kernel
    BY DEF KernelKept
  <2>2. PICK q \in ProcRecords : q = proc[p]
    BY <2>1, HereState
  <2>3. SpaceOK(q.space)
    BY ProcParts DEF Spaces
  <2> QED BY <2>2, <2>3 DEF SpaceOK
<1> QED BY <1>1, Invariance, PTL

\* Whatever the arguments are: a process whose memory is below its size keeps
\* it there but for the hpmap whose sum wraps around.
THEOREM MemoryKeptBelow == Spec => MemoryStaysBelow
<1>1. Init => \A p \in Procs : Below(p)
  BY FirstState
<1>2. Inv /\ [Next]_vars => [\A p \in Procs : Below(p) => Below(p)' \/ Wrapped(p)]_vars
  BY NextKeeps DEF StaysBelow
<1> QED BY <1>1, <1>2, Invariance, PTL DEF Spec, MemoryStaysBelow
=============================================================================
