------------------------------ MODULE WFSProofs ------------------------------
(***************************************************************************)
(* WFS for images of every size, wherever the daemon is killed.  First the *)
(* inductive invariant, with the lemmas about what can be reached and what *)
(* a store to a directory entry changes; then that every step keeps it, so *)
(* that every entry that can be reached names an inode of its own and every*)
(* block that can be reached is held once; last what a user sees: the names*)
(* change as Namespace says, one call at one step, and a kill costs one    *)
(* inode or leaves one entry without a name.                               *)
(***************************************************************************)
EXTENDS WFS, NatLemmas, SequenceTheorems

USE ImageAssumption

------------------------------------------------------------------------------
(* What the root reaches *)

Graphs0 == [Inums -> SUBSET Inums]

Closed(kids, S) == 0 \in S /\ \A i \in S : kids[i] \subseteq S

\* There are finitely many inodes.
LEMMA InumsFinite ==
  /\ NumInodes \in Nat \ {0} /\ 0 \in Inums
  /\ IsFiniteSet(Inums) /\ Cardinality(Inums) = NumInodes
<1>1. NumInodes \in Nat \ {0}
  OBVIOUS
<1>2. IsFiniteSet(Inums) /\ Cardinality(Inums) = NumInodes
  <2>1. IsFiniteSet(0 .. NumInodes - 1) /\ Cardinality(0 .. NumInodes - 1) = NumInodes
    <3>1. 0 \in Int /\ NumInodes - 1 \in Int /\ ~ (0 > NumInodes - 1) /\ (NumInodes - 1) - 0 + 1 = NumInodes
      BY <1>1
    <3> QED BY <3>1, FS_Interval
  <2> QED BY <2>1 DEF Inums
<1> QED BY <1>1, <1>2 DEF Inums

(* The sets the root reaches in 0, 1, ... steps. *)
Levels(kids, w) ==
  /\ w \in [0 .. NumInodes -> SUBSET Inums]
  /\ w[0] = {0}
  /\ \A n \in 1 .. NumInodes : w[n] = w[n - 1] \cup UNION {kids[i] : i \in w[n - 1]}
  /\ Reached(kids) = w[NumInodes]

\* The rounds of the search from the root have values.
LEMMA LevelsExist ==
  ASSUME NEW kids \in Graphs0
  PROVE  \E w : Levels(kids, w)
<1> DEFINE V == SUBSET Inums
           step == [n \in 1 .. NumInodes |-> [W \in V |-> W \cup UNION {kids[i] : i \in W}]]
           Def(f) == f = [n \in 0 .. NumInodes |->
                            IF n = 0 THEN {0}
                            ELSE f[n - 1] \cup UNION {kids[i] : i \in f[n - 1]}]
<1>1. Steps(step, NumInodes, V) /\ {0} \in V /\ NumInodes \in Nat
  <2>1. ASSUME NEW W \in V PROVE W \cup UNION {kids[i] : i \in W} \in V
    BY DEF Graphs0
  <2>2. step \in [1 .. NumInodes -> [V -> V]]
    BY <2>1
  <2> QED BY <2>2, InumsFinite DEF Steps
<1>2. PICK f : Recursion(f, NumInodes, V, {0}, step)
  <2> HIDE DEF step, V
  <2> QED BY <1>1, RecursiveFunction
<1>3. ASSUME NEW n \in 1 .. NumInodes
      PROVE  f[n] = f[n - 1] \cup UNION {kids[i] : i \in f[n - 1]}
  <2>1. f[n - 1] \in V
    <3> n - 1 \in 0 .. NumInodes
      BY InumsFinite
    <3> HIDE DEF V, step
    <3> QED BY <1>2 DEF Recursion
  <2>2. step[n][f[n - 1]] = f[n - 1] \cup UNION {kids[i] : i \in f[n - 1]}
    BY <2>1
  <2> QED BY <1>2, <2>2 DEF Recursion
<1>4. Def(f)
  BY <1>2, <1>3 DEF Recursion
<1>5. \E w : Def(w) /\ Reached(kids) = w[NumInodes]
  <2> HIDE DEF Def
  <2>1. Reached(kids) = (CHOOSE w : Def(w))[NumInodes]
    BY DEF Reached, Def
  <2> QED BY <1>4, <2>1
<1>6. PICK w : Def(w) /\ Reached(kids) = w[NumInodes]
  BY <1>5
<1>7. /\ w[0] = {0}
      /\ \A n \in 1 .. NumInodes : /\ w[n] = w[n - 1] \cup UNION {kids[i] : i \in w[n - 1]}
                                   /\ n \in 0 .. NumInodes /\ n - 1 \in 0 .. NumInodes
  <2>1. ASSUME NEW n \in 0 .. NumInodes
        PROVE  w[n] = IF n = 0 THEN {0} ELSE w[n - 1] \cup UNION {kids[i] : i \in w[n - 1]}
    <3> DEFINE body(m) == IF m = 0 THEN {0} ELSE w[m - 1] \cup UNION {kids[i] : i \in w[m - 1]}
    <3>1. w = [m \in 0 .. NumInodes |-> body(m)]
      BY <1>6
    <3> HIDE DEF body
    <3>2. w[n] = body(n)
      BY <3>1
    <3> QED BY <3>2 DEF body
  <2>2. 0 \in 0 .. NumInodes /\ \A n \in 1 .. NumInodes : n # 0 /\ n \in 0 .. NumInodes /\ n - 1 \in 0 .. NumInodes
    BY InumsFinite
  <2> QED BY <2>1, <2>2
<1> DEFINE Bad == {n \in 0 .. NumInodes : w[n] \notin V}
<1>8. ASSUME Bad # {} PROVE FALSE
  <2>1. PICK m \in Bad : \A k \in Bad : m <= k
    <3>1. Bad \in SUBSET Nat
      OBVIOUS
    <3> HIDE DEF Bad
    <3> QED BY <1>8, <3>1, LeastElement
  <2>2. m \in 0 .. NumInodes /\ w[m] \notin V
    OBVIOUS
  <2>3. m # 0 /\ m \in 1 .. NumInodes
    BY <1>7, <2>2, InumsFinite
  <2>4. w[m - 1] \in V
    <3>1. m - 1 \in 0 .. NumInodes /\ m - 1 \notin Bad
      <4> HIDE DEF Bad
      <4> QED BY <2>1, <2>2, <2>3
    <3> QED BY <3>1
  <2>5. w[m] \in V
    BY <1>7, <2>3, <2>4 DEF Graphs0
  <2> QED BY <2>2, <2>5
<1>9. w \in [0 .. NumInodes -> V]
  <2>1. \A n \in 0 .. NumInodes : w[n] \in V
    BY <1>8
  <2>2. w = [n \in 0 .. NumInodes |-> w[n]]
    BY <1>6
  <2> HIDE DEF V
  <2> QED BY <2>1, <2>2
<1> QED BY <1>6, <1>7, <1>9 DEF Levels

(* Reached is the least set with the root that is closed under kids.       *)
LEMMA ReachedLeast ==
  ASSUME NEW kids \in Graphs0
  PROVE  /\ Reached(kids) \subseteq Inums /\ Closed(kids, Reached(kids))
         /\ \A S : Closed(kids, S) => Reached(kids) \subseteq S
<1>1. PICK w : Levels(kids, w)
  BY LevelsExist
<1> DEFINE N == NumInodes
<1>2. N \in Nat \ {0}
  BY InumsFinite
<1>3. ASSUME NEW S, Closed(kids, S) PROVE w[N] \subseteq S
  <2> DEFINE Bad == {n \in 0 .. N : ~ (w[n] \subseteq S)}
  <2>1. SUFFICES ASSUME Bad # {} PROVE FALSE
    BY <1>2
  <2>2. PICK m \in Bad : \A k \in Bad : m <= k
    <3>1. Bad \in SUBSET Nat
      OBVIOUS
    <3> HIDE DEF Bad
    <3> QED BY <2>1, <3>1, LeastElement
  <2>3. m \in 0 .. N /\ ~ (w[m] \subseteq S)
    OBVIOUS
  <2>4. m \in 1 .. N
    BY <1>1, <1>2, <1>3, <2>3 DEF Levels, Closed
  <2>5. m - 1 \in 0 .. N /\ m - 1 \notin Bad
    <3> HIDE DEF Bad
    <3> QED BY <2>2, <2>4
  <2>6. w[m] = w[m - 1] \cup UNION {kids[i] : i \in w[m - 1]} /\ w[m - 1] \subseteq S
    BY <1>1, <2>4, <2>5 DEF Levels
  <2> QED BY <1>3, <2>3, <2>6 DEF Closed
(* A level is closed, or has a node more than the level before it.         *)
<1> DEFINE Good(n) == 0 \in w[n] /\ (Closed(kids, w[n]) \/ Cardinality(w[n]) >= n + 1)
<1>4. \A n \in 0 .. N : w[n] \subseteq Inums /\ IsFiniteSet(w[n]) /\ Cardinality(w[n]) \in Nat
  BY <1>1, InumsFinite, FS_Subset, FS_CardinalityType DEF Levels
<1>5. ASSUME NEW n \in 1 .. N, Good(n - 1) PROVE Good(n)
  <2>1. n - 1 \in 0 .. N /\ n \in 0 .. N
    BY <1>2
  <2>2. w[n] = w[n - 1] \cup UNION {kids[i] : i \in w[n - 1]}
    BY <1>1 DEF Levels
  <2>3. 0 \in w[n] /\ w[n - 1] \subseteq w[n]
    BY <1>5, <2>2
  <2>4. CASE w[n] = w[n - 1]
    BY <2>2, <2>3, <2>4 DEF Closed
  <2>5. CASE w[n] # w[n - 1]
    <3>1. ~ Closed(kids, w[n - 1])
      BY <2>2, <2>5 DEF Closed
    <3>2. Cardinality(w[n - 1]) < Cardinality(w[n])
      BY <1>4, <2>1, <2>3, <2>5, FS_Subset
    <3> QED BY <1>2, <1>4, <1>5, <2>1, <2>3, <3>1, <3>2
  <2> QED BY <2>4, <2>5
<1>6. Good(0)
  <2>1. w[0] = {0}
    BY <1>1 DEF Levels
  <2>2. Cardinality({0}) = 1
    BY FS_Singleton
  <2> QED BY <2>1, <2>2
<1>7. Good(N)
  <2> HIDE DEF Good
  <2> DEFINE Bad == {n \in 0 .. N : ~ Good(n)}
  <2>1. SUFFICES ASSUME Bad # {} PROVE FALSE
    BY <1>2
  <2>2. PICK m \in Bad : \A k \in Bad : m <= k
    <3>1. Bad \in SUBSET Nat
      OBVIOUS
    <3> HIDE DEF Bad
    <3> QED BY <2>1, <3>1, LeastElement
  <2>3. m \in 0 .. N /\ ~ Good(m)
    OBVIOUS
  <2>4. m \in 1 .. N
    BY <1>2, <1>6, <2>3
  <2>5. m - 1 \in 0 .. N /\ m - 1 \notin Bad
    <3> HIDE DEF Bad
    <3> QED BY <2>2, <2>4
  <2> QED BY <1>5, <2>3, <2>4, <2>5
<1>8. Closed(kids, w[N])
  <2>1. N \in 0 .. N
    BY <1>2
  <2>2. Cardinality(w[N]) <= N
    BY <1>4, <2>1, InumsFinite, FS_Subset
  <2> QED BY <1>2, <1>4, <1>7, <2>1, <2>2
<1>9. w[N] \subseteq Inums
  BY <1>2, <1>4
<1> QED BY <1>1, <1>3, <1>8, <1>9 DEF Levels

(* What changes elsewhere makes no difference.                             *)
LEMMA ReachedSame ==
  ASSUME NEW kids \in Graphs0, NEW kids2 \in Graphs0,
         \A i \in Reached(kids) : kids2[i] = kids[i]
  PROVE  Reached(kids2) = Reached(kids)
<1>1. Reached(kids2) \subseteq Reached(kids)
  BY ReachedLeast DEF Closed
<1>2. Reached(kids) \subseteq Reached(kids2)
  BY <1>1, ReachedLeast DEF Closed
<1> QED BY <1>1, <1>2

(* A new leaf below d.                                                     *)
LEMMA ReachedAdd ==
  ASSUME NEW kids \in Graphs0, NEW kids2 \in Graphs0, NEW d \in Reached(kids), NEW n \in Inums,
         n \notin Reached(kids), kids2[n] = {}, kids2[d] = kids[d] \cup {n},
         \A i \in Reached(kids) \ {d} : kids2[i] = kids[i]
  PROVE  Reached(kids2) = Reached(kids) \cup {n}
<1>1. Closed(kids2, Reached(kids) \cup {n})
  BY ReachedLeast DEF Closed
<1>2. Reached(kids2) \subseteq Reached(kids) \cup {n}
  BY <1>1, ReachedLeast
<1>3. Closed(kids, Reached(kids2) \ {n})
  BY <1>2, ReachedLeast DEF Closed
<1>4. Reached(kids) \subseteq Reached(kids2)
  BY <1>3, ReachedLeast
<1>5. n \in Reached(kids2)
  BY <1>4, ReachedLeast DEF Closed
<1> QED BY <1>2, <1>4, <1>5

(* A leaf that only d named is no longer named.                            *)
LEMMA ReachedRemove ==
  ASSUME NEW kids \in Graphs0, NEW kids2 \in Graphs0, NEW d \in Reached(kids), NEW n \in kids[d],
         n # 0, kids[n] = {}, kids2[d] = kids[d] \ {n},
         \A i \in Reached(kids) \ {d} : kids2[i] = kids[i] /\ n \notin kids[i]
  PROVE  Reached(kids2) = Reached(kids) \ {n}
<1>1. Closed(kids2, Reached(kids) \ {n})
  BY ReachedLeast DEF Closed
<1>2. Reached(kids2) \subseteq Reached(kids) \ {n}
  BY <1>1, ReachedLeast
<1>3. Closed(kids, Reached(kids2) \cup {n})
  BY <1>2, ReachedLeast DEF Closed
<1>4. Reached(kids) \subseteq Reached(kids2) \cup {n}
  BY <1>3, ReachedLeast
<1> QED BY <1>2, <1>4
------------------------------------------------------------------------------
(* The inductive invariant *)

InodeRec == [mode : {"none", "file", "dir"}, size : Nat, nlinks : {0, 1},
             blocks : [0 .. NDirect -> Blocks \cup {0}]]
DentryRec == [num : Inums, name : Names \cup {NoName}]

Pcs == {"idle", "fill", "add", "name", "grow", "link", "lastname", "size", "wsize",
        "unname", "free", "wipe"}
Kinds == {"none", "file", "dir", "write", "unlink", "rmdir"}
Ops == [pc : Pcs, kind : Kinds, dir : Inums, name : Names \cup LongNames \cup {NoName},
        ino : Inums, at : Nat, upto : Nat, blk : Blocks \cup {0},
        todo : Seq(Blocks \cup {0})]

MapsOK == ibit \subseteq Inums /\ dbit \subseteq Blocks
InodesOK == inode \in [Inums -> InodeRec]
BlocksOK == /\ dents \in [Blocks -> [0 .. DPB - 1 -> DentryRec]]
            /\ ptrs \in [Blocks -> [0 .. PPB - 1 -> Blocks \cup {0}]]
OpOK == op \in Ops /\ crashes \in 0 .. MaxCrashes
Types == MapsOK /\ InodesOK /\ BlocksOK /\ OpOK

SizesOK ==
  \A i \in Inums : inode[i].size <= MaxFile * (IF inode[i].mode = "dir" THEN DPB ELSE 1)

(* What can be reached is in use; a directory is no larger than its blocks. *)
UseInv ==
  /\ inode[0].mode = "dir"
  /\ \A i \in Reach :
       /\ i \in ibit /\ inode[i].mode # "none" /\ inode[i].nlinks = 1
       /\ inode[i].mode = "dir" =>
            \A k \in 0 .. inode[i].size - 1 : BlockAt(i, k \div DPB) # 0

(* Each entry names another inode.                                         *)
EntryInv ==
  \A d, e \in Reach : inode[d].mode = "dir" /\ inode[e].mode = "dir" =>
    \A j \in Live(d), k \in Live(e) :
      Dentry(d, j).num = Dentry(e, k).num => d = e /\ j = k

(* The cells of an inode, in which it keeps its blocks: 0 .. NDirect in the *)
(* inode, of which the last holds the indirect block; then those in there. *)
Cells == 0 .. NDirect + PPB
Cell(i, c) ==
  LET ind == inode[i].blocks[NDirect] IN
  IF c <= NDirect THEN inode[i].blocks[c]
  ELSE IF ind = 0 THEN 0 ELSE ptrs[ind][c - NDirect - 1]

(* Nothing that can be reached holds block b.                              *)
Unheld(b) == \A i \in Reach, c \in Cells : Cell(i, c) # b

CellInv ==
  /\ \A i \in Reach, c \in Cells : Cell(i, c) # 0 => Cell(i, c) \in dbit
  /\ \A i, j \in Reach, c, e \in Cells :
       Cell(i, c) # 0 /\ Cell(i, c) = Cell(j, e) => i = j /\ c = e

TreeInv == UseInv /\ EntryInv /\ CellInv

(* What the running handler knows: the new inode is nobody's yet, ...      *)
Adds == \/ op.pc \in {"fill", "add", "lastname", "size"}
        \/ op.pc \in {"grow", "link"} /\ op.kind # "write"

AddInv ==
  Adds =>
    /\ op.kind \in {"file", "dir"} /\ op.todo = <<>> /\ op.name # NoName
    /\ op.dir \in Reach /\ inode[op.dir].mode = "dir"
    /\ op.ino \in ibit /\ op.ino \notin Reach
    /\ op.pc # "fill" => inode[op.ino] = NewInode(op.kind)
    /\ op.pc \notin {"fill", "add"} => op.name \in Names /\ op.at = inode[op.dir].size
    /\ op.pc \in {"lastname", "size"} =>
         BlockAt(op.dir, op.at \div DPB) # 0 /\ Dentry(op.dir, op.at).num = op.ino

NameInv ==
  op.pc = "name" =>
    /\ op.dir \in Reach /\ inode[op.dir].mode = "dir" /\ op.at \in Slots(op.dir)
    /\ op.name \in Names /\ Dentry(op.dir, op.at).num = op.ino /\ op.ino # 0

(* ... a file that is written stays where it is, ...                       *)
Writes == op.pc = "wsize" \/ (op.pc \in {"grow", "link"} /\ op.kind = "write")

WriteInv ==
  Writes => /\ op.ino \in Reach /\ inode[op.ino].mode = "file"
            /\ IF op.pc = "wsize" THEN op.upto <= MaxFile ELSE op.at < op.upto

(* ... the block to be linked is fresh, ...                                *)
LinkInv ==
  op.pc = "link" =>
    /\ op.blk \in dbit /\ Unheld(op.blk)
    /\ dents[op.blk] = ZeroDents /\ ptrs[op.blk] = ZeroPtrs
    /\ Missing \in {"direct", "indirect", "entry"}

(* ... and what is to be freed is nobody's any more.                       *)
FreeInv ==
  /\ op.pc \in {"unname", "free", "wipe"} =>
       /\ op.ino \notin Reach
       /\ \A j \in 1 .. Len(op.todo) : op.todo[j] # 0 => Unheld(op.todo[j])
  /\ op.pc = "unname" =>
       /\ op.kind \in {"unlink", "rmdir"} /\ inode[op.ino].nlinks = 1
       /\ op.dir \in Reach /\ inode[op.dir].mode = "dir"
       /\ op.at \in Slots(op.dir) /\ Dentry(op.dir, op.at).num = 0

OpInv == AddInv /\ NameInv /\ WriteInv /\ LinkInv /\ FreeInv

IInv == Types /\ SizesOK /\ TreeInv /\ OpInv

------------------------------------------------------------------------------
(* Reading an image of the right types *)

\* The sizes are positive, and zero is no block.
LEMMA Bounds ==
  /\ NumInodes \in Nat \ {0} /\ NumBlocks \in Nat \ {0} /\ NDirect \in Nat \ {0}
  /\ DPB \in Nat \ {0} /\ PPB \in Nat \ {0} /\ MaxWrite \in Nat \ {0}
  /\ MaxFile \in Nat \ {0} /\ 0 \notin Blocks /\ 0 \in Inums /\ None \notin Inums
BY DEF MaxFile, Blocks, Inums, None

\* A slot is known by its block and its place there, and blocks come in the order of slots.
LEMMA DivMod ==
  ASSUME NEW k \in Nat
  PROVE  /\ k \div DPB \in Nat /\ k % DPB \in 0 .. DPB - 1
         /\ \A j \in Nat : j \div DPB = k \div DPB /\ j % DPB = k % DPB => j = k
         /\ \A j \in Nat : j <= k => j \div DPB <= k \div DPB
         /\ \A m \in Nat : k \div DPB < m => k + 1 <= m * DPB
<1>1. \A j \in Nat : j \div DPB = k \div DPB /\ j % DPB = k % DPB => j = k
  BY Bounds
<1>2. \A j \in Nat : j <= k => j \div DPB <= k \div DPB
  BY Bounds
<1>3. \A m \in Nat : k \div DPB < m => k + 1 <= m * DPB
  BY Bounds
<1> QED BY <1>1, <1>2, <1>3, Bounds

(* The cell that names block bi of a file or directory.                    *)
CellOf(bi) == IF bi < NDirect THEN bi ELSE bi + 1

CellFacts ==
  \A i \in Inums :
    /\ inode[i] \in InodeRec
    /\ inode[i].mode \in {"none", "file", "dir"} /\ inode[i].size \in Nat
    /\ inode[i].nlinks \in {0, 1} /\ inode[i].blocks \in [0 .. NDirect -> Blocks \cup {0}]
    /\ \A c \in Cells : Cell(i, c) \in Blocks \cup {0}

\* A cell has no block or one of the image.
LEMMA CellTypes == Types => CellFacts
<1> SUFFICES ASSUME Types, NEW i \in Inums
    PROVE  /\ inode[i] \in InodeRec
           /\ inode[i].mode \in {"none", "file", "dir"} /\ inode[i].size \in Nat
           /\ inode[i].nlinks \in {0, 1} /\ inode[i].blocks \in [0 .. NDirect -> Blocks \cup {0}]
           /\ \A c \in Cells : Cell(i, c) \in Blocks \cup {0}
  BY DEF CellFacts
<1>1. inode[i] \in InodeRec
  BY DEF Types, InodesOK
<1>2. /\ inode[i].mode \in {"none", "file", "dir"} /\ inode[i].size \in Nat
      /\ inode[i].nlinks \in {0, 1} /\ inode[i].blocks \in [0 .. NDirect -> Blocks \cup {0}]
  BY <1>1 DEF InodeRec
<1>3. ASSUME NEW c \in Cells PROVE Cell(i, c) \in Blocks \cup {0}
  <2>1. NDirect \in 0 .. NDirect /\ (c <= NDirect => c \in 0 .. NDirect)
        /\ (~ (c <= NDirect) => c - NDirect - 1 \in 0 .. PPB - 1)
    BY Bounds DEF Cells
  <2>2. ptrs \in [Blocks -> [0 .. PPB - 1 -> Blocks \cup {0}]]
    BY DEF Types, BlocksOK
  <2> QED BY <1>2, <2>1, <2>2 DEF Cell
<1> QED BY <1>1, <1>2, <1>3

BlockFacts ==
  \A i \in Inums, bi \in Nat :
    /\ BlockAt(i, bi) = IF bi >= MaxFile THEN 0 ELSE Cell(i, CellOf(bi))
    /\ bi < MaxFile => CellOf(bi) \in Cells /\ CellOf(bi) # NDirect
    /\ BlockAt(i, bi) \in Blocks \cup {0}

\* The block with an index is what its cell points at.
LEMMA BlockIsCell == Types => BlockFacts
<1> SUFFICES ASSUME Types, NEW i \in Inums, NEW bi \in Nat
    PROVE  /\ BlockAt(i, bi) = IF bi >= MaxFile THEN 0 ELSE Cell(i, CellOf(bi))
           /\ bi < MaxFile => CellOf(bi) \in Cells /\ CellOf(bi) # NDirect
           /\ BlockAt(i, bi) \in Blocks \cup {0}
  BY DEF BlockFacts
<1>1. bi < MaxFile => CellOf(bi) \in Cells /\ CellOf(bi) # NDirect
  BY Bounds DEF CellOf, Cells, MaxFile
<1>2. BlockAt(i, bi) = IF bi >= MaxFile THEN 0 ELSE Cell(i, CellOf(bi))
  <2>1. CASE bi < NDirect
    BY <2>1, Bounds DEF BlockAt, Cell, CellOf, MaxFile
  <2>2. CASE bi >= MaxFile
    BY <2>2, Bounds DEF BlockAt, MaxFile
  <2>3. CASE bi >= NDirect /\ bi < MaxFile
    <3>1. (bi + 1) - NDirect - 1 = bi - NDirect /\ ~ (bi + 1 <= NDirect) /\ ~ (bi < NDirect)
          /\ ~ (bi - NDirect >= PPB) /\ ~ (bi >= MaxFile)
      BY <2>3, Bounds DEF MaxFile
    <3> QED BY <3>1 DEF BlockAt, Cell, CellOf
  <2> QED BY <2>1, <2>2, <2>3, Bounds
<1>3. bi >= MaxFile \/ bi < MaxFile
  BY Bounds
<1> QED BY <1>1, <1>2, <1>3, CellTypes DEF CellFacts

EntryFacts ==
  \A i \in Inums :
    /\ Slots(i) \subseteq 0 .. inode[i].size - 1
    /\ \A k \in Nat : BlockAt(i, k \div DPB) # 0 => Dentry(i, k) \in DentryRec
    /\ \A k \in Slots(i) : k \in Nat /\ BlockAt(i, k \div DPB) # 0
    /\ Live(i) \subseteq Slots(i)
    /\ Kids(i) \subseteq Inums

\* An entry of a block has a number and a name.
LEMMA EntryTypes == Types => EntryFacts
<1> SUFFICES ASSUME Types, NEW i \in Inums
    PROVE  /\ Slots(i) \subseteq 0 .. inode[i].size - 1
           /\ \A k \in Nat : BlockAt(i, k \div DPB) # 0 => Dentry(i, k) \in DentryRec
           /\ \A k \in Slots(i) : k \in Nat /\ BlockAt(i, k \div DPB) # 0
           /\ Live(i) \subseteq Slots(i)
           /\ Kids(i) \subseteq Inums
  BY DEF EntryFacts
<1>1. ASSUME NEW k \in Nat, BlockAt(i, k \div DPB) # 0 PROVE Dentry(i, k) \in DentryRec
  <2>1. BlockAt(i, k \div DPB) \in Blocks /\ k % DPB \in 0 .. DPB - 1
    BY <1>1, DivMod, BlockIsCell DEF BlockFacts
  <2> QED BY <2>1 DEF Dentry, Types, BlocksOK
<1>2. \A k \in Slots(i) : k \in Nat /\ BlockAt(i, k \div DPB) # 0
  <2>1. ASSUME NEW k \in Slots(i) PROVE k \in Nat /\ BlockAt(i, k \div DPB) # 0
    <3>1. k \in 0 .. inode[i].size - 1 /\ \A j \in 0 .. k : BlockAt(i, j \div DPB) # 0
      BY DEF Slots
    <3>2. k \in Nat /\ k \in 0 .. k
      BY <3>1, CellTypes DEF CellFacts
    <3> QED BY <3>1, <3>2
  <2> QED BY <2>1
<1>3. Slots(i) \subseteq 0 .. inode[i].size - 1 /\ Live(i) \subseteq Slots(i)
  BY DEF Slots, Live
<1>4. Kids(i) \subseteq Inums
  <2>1. \A k \in Live(i) : Dentry(i, k).num \in Inums
    BY <1>1, <1>2, <1>3 DEF DentryRec
  <2> QED BY <2>1 DEF Kids
<1> QED BY <1>1, <1>2, <1>3, <1>4

KidsOf == [i \in Inums |-> Kids(i)]

ReachFacts ==
  /\ KidsOf \in Graphs0 /\ Reach = Reached(KidsOf)
  /\ 0 \in Reach /\ Reach \subseteq Inums /\ \A d \in Reach : Kids(d) \subseteq Reach

\* What the root reaches are inodes, the root among them.
LEMMA ReachTypes == Types => ReachFacts
<1> SUFFICES ASSUME Types
    PROVE  /\ KidsOf \in Graphs0 /\ Reach = Reached(KidsOf)
           /\ 0 \in Reach /\ Reach \subseteq Inums /\ \A d \in Reach : Kids(d) \subseteq Reach
  BY DEF ReachFacts
<1>1. KidsOf \in Graphs0 /\ Reach = Reached(KidsOf) /\ \A d \in Inums : KidsOf[d] = Kids(d)
  BY EntryTypes DEF KidsOf, Graphs0, Reach, EntryFacts
<1> QED BY <1>1, ReachedLeast DEF Closed

(* In a directory that can be reached the loops visit every slot.          *)
FullFacts ==
  \A d \in Reach : inode[d].mode = "dir" =>
    /\ Slots(d) = 0 .. inode[d].size - 1
    /\ Cardinality(Slots(d)) = inode[d].size

\* A directory has the block of each of its slots.
LEMMA SlotsFull == Types /\ UseInv => FullFacts
<1> SUFFICES ASSUME Types, UseInv, NEW d \in Reach, inode[d].mode = "dir"
    PROVE  Slots(d) = 0 .. inode[d].size - 1 /\ Cardinality(Slots(d)) = inode[d].size
  BY DEF FullFacts
<1>1. inode[d].size \in Nat
  BY ReachTypes, CellTypes DEF CellFacts, ReachFacts
<1>2. \A k \in 0 .. inode[d].size - 1 : BlockAt(d, k \div DPB) # 0
  BY DEF UseInv
<1>3. Slots(d) = 0 .. inode[d].size - 1
  <2>1. ASSUME NEW k \in 0 .. inode[d].size - 1, NEW j \in 0 .. k
        PROVE  j \in 0 .. inode[d].size - 1
    BY <1>1
  <2> QED BY <1>2, <2>1 DEF Slots
<1>4. Cardinality(0 .. inode[d].size - 1) = inode[d].size
  <2>1. 0 \in Int /\ inode[d].size - 1 \in Int
    BY <1>1
  <2>2. Cardinality(0 .. inode[d].size - 1) =
          IF 0 > inode[d].size - 1 THEN 0 ELSE (inode[d].size - 1) - 0 + 1
    BY <2>1, FS_Interval
  <2> QED BY <1>1, <2>2
<1> QED BY <1>3, <1>4

(* The same of the state after a step.                                     *)
LEMMA CellNext == Types' => CellFacts'
BY CellTypes, PTL

\* BlockIsCell after the step.
LEMMA BlockNext == Types' => BlockFacts'
BY BlockIsCell, PTL

\* EntryTypes after the step.
LEMMA EntryNext == Types' => EntryFacts'
BY EntryTypes, PTL

\* ReachTypes after the step.
LEMMA ReachNext == Types' => ReachFacts'
BY ReachTypes, PTL

------------------------------------------------------------------------------
(* What a step leaves alone *)

SameCells(i) == \A c \in Cells : Cell(i, c)' = Cell(i, c)

SameSlots(i) == Slots(i)' = Slots(i) /\ \A j \in Slots(i) : Dentry(i, j)'.num = Dentry(i, j).num

(* The tree looks the same from the root.                                  *)
LooksSame ==
  \A i \in Reach :
    /\ inode'[i].mode = inode[i].mode /\ inode'[i].nlinks = inode[i].nlinks
    /\ inode[i].mode = "dir" => inode'[i].size = inode[i].size /\ SameSlots(i)

\* An inode whose mode and slots stay has the same entries and children.
LEMMA KidsKept ==
  ASSUME NEW i, i # None, inode'[i].mode = inode[i].mode,
         inode[i].mode = "dir" => SameSlots(i)
  PROVE  (inode[i].mode = "dir" => Live(i)' = Live(i)) /\ Kids(i)' = Kids(i)
<1>1. CASE inode[i].mode = "dir"
  <2>1. Live(i)' = Live(i)
    BY <1>1 DEF SameSlots, Live
  <2>2. {Dentry(i, k)'.num : k \in Live(i)} = {Dentry(i, k).num : k \in Live(i)}
    BY <1>1 DEF SameSlots, Live
  <2> QED BY <1>1, <2>1, <2>2 DEF Kids, IsDir
<1>2. CASE inode[i].mode # "dir"
  BY <1>2 DEF Kids, IsDir
<1> QED BY <1>1, <1>2

\* A step that changes no entry in use leaves what can be reached as it is.
LEMMA LooksKept ==
  ASSUME Types, Types', UseInv, EntryInv, LooksSame, \A i \in Reach : i \in ibit'
  PROVE  /\ Reach' = Reach /\ UseInv' /\ EntryInv'
         /\ \A i \in Reach : inode[i].mode = "dir" => Live(i)' = Live(i)
<1>1. \A i \in Reach : (inode[i].mode = "dir" => Live(i)' = Live(i)) /\ Kids(i)' = Kids(i)
  BY KidsKept, ReachTypes, Bounds DEF LooksSame, ReachFacts
<1>2. Reach' = Reach
  <2>1. KidsOf \in Graphs0 /\ Reach = Reached(KidsOf)
    BY ReachTypes DEF ReachFacts
  <2>2. KidsOf' \in Graphs0 /\ Reach' = Reached(KidsOf')
    <3>1. Types'
      OBVIOUS
    <3> QED BY <3>1, ReachNext DEF ReachFacts
  <2>3. \A i \in Reach : KidsOf'[i] = KidsOf[i]
    BY <1>1, ReachTypes DEF KidsOf, ReachFacts
  <2> HIDE DEF KidsOf
  <2> QED BY <2>1, <2>2, <2>3, ReachedSame
<1>3. UseInv'
  <2>1. inode'[0].mode = "dir"
    BY ReachTypes DEF LooksSame, UseInv, ReachFacts
  <2>2. ASSUME NEW i \in Reach, inode'[i].mode = "dir", NEW k \in 0 .. inode'[i].size - 1
        PROVE  BlockAt(i, k \div DPB)' # 0
    <3>1. inode[i].mode = "dir" /\ inode'[i].size = inode[i].size /\ Slots(i)' = Slots(i)
      BY <2>2 DEF LooksSame, SameSlots
    <3>2. k \in Slots(i)'
      BY <2>2, <3>1, SlotsFull DEF FullFacts
    <3> QED BY <3>2, EntryNext, ReachTypes DEF ReachFacts, EntryFacts
  <2> QED BY <1>2, <2>1, <2>2 DEF LooksSame, UseInv
<1>4. EntryInv'
  BY <1>1, <1>2 DEF LooksSame, SameSlots, EntryInv, Live
<1> QED BY <1>1, <1>2, <1>3, <1>4

\* A step that changes no cell in use keeps the owners of the blocks.
LEMMA CellsKept ==
  ASSUME CellInv, Reach' = Reach, \A i \in Reach : SameCells(i),
         \A i \in Reach, c \in Cells : Cell(i, c) # 0 => Cell(i, c) \in dbit'
  PROVE  CellInv' /\ \A b : Unheld(b) => Unheld(b)'
<1>1. \A i \in Reach, c \in Cells : Cell(i, c)' = Cell(i, c)
  BY DEF SameCells
<1>2. CellInv'
  BY <1>1 DEF CellInv
<1> QED BY <1>1, <1>2 DEF Unheld

(* An inode whose cells, or the ones of its blocks, are not stored to.     *)
LEMMA SameCellsOf ==
  ASSUME Types, NEW i \in Inums, inode'[i].blocks = inode[i].blocks,
         LET ind == inode[i].blocks[NDirect] IN ind # 0 => ptrs'[ind] = ptrs[ind]
  PROVE  SameCells(i)
BY DEF SameCells, Cell

\* A directory with the same cells and size has the same slots.
LEMMA SameSlotsOf ==
  ASSUME Types, Types', NEW i \in Inums, SameCells(i), inode'[i].size = inode[i].size
  PROVE  Slots(i)' = Slots(i) /\ \A bi \in Nat : BlockAt(i, bi)' = BlockAt(i, bi)
<1>1. \A bi \in Nat : BlockAt(i, bi)' = BlockAt(i, bi)
  <2>1. \A bi \in Nat : /\ BlockAt(i, bi) = IF bi >= MaxFile THEN 0 ELSE Cell(i, CellOf(bi))
                        /\ bi < MaxFile => CellOf(bi) \in Cells
    BY BlockIsCell DEF BlockFacts
  <2>2. \A bi \in Nat : BlockAt(i, bi)' = IF bi >= MaxFile THEN 0 ELSE Cell(i, CellOf(bi))'
    BY BlockNext DEF MaxFile, CellOf, Inums, BlockFacts
  <2>3. ASSUME NEW bi \in Nat PROVE BlockAt(i, bi)' = BlockAt(i, bi)
    <3>1. CASE bi >= MaxFile
      BY <2>1, <2>2, <3>1
    <3>2. CASE ~ (bi >= MaxFile)
      <4>1. CellOf(bi) \in Cells
        BY <2>1, <3>2, Bounds
      <4> QED BY <2>1, <2>2, <3>2, <4>1 DEF SameCells
    <3> QED BY <3>1, <3>2
  <2> QED BY <2>3
<1>2. \A k \in 0 .. inode[i].size - 1 : \A j \in 0 .. k : j \div DPB \in Nat
  BY DivMod, CellTypes DEF CellFacts
<1>3. Slots(i)' = {k \in 0 .. inode[i].size - 1 : \A j \in 0 .. k : BlockAt(i, j \div DPB)' # 0}
  BY DEF Slots
<1> QED BY <1>1, <1>2, <1>3 DEF Slots
------------------------------------------------------------------------------
(* A store to a directory entry *)

(* Two slots that can be reached are in the same place only if they are one. *)
LEMMA PlacesDiffer ==
  ASSUME Types, CellInv, NEW d \in Reach, NEW i \in Reach, NEW k \in Nat, NEW j \in Nat,
         BlockAt(d, k \div DPB) # 0, BlockAt(i, j \div DPB) = BlockAt(d, k \div DPB),
         j % DPB = k % DPB
  PROVE  i = d /\ j = k
<1>1. i \in Inums /\ d \in Inums
  BY ReachTypes DEF ReachFacts
<1>2. j \div DPB \in Nat /\ k \div DPB \in Nat
  BY DivMod
<1>3. /\ ~ (k \div DPB >= MaxFile) /\ BlockAt(d, k \div DPB) = Cell(d, CellOf(k \div DPB))
      /\ ~ (j \div DPB >= MaxFile) /\ BlockAt(i, j \div DPB) = Cell(i, CellOf(j \div DPB))
  BY <1>1, <1>2, BlockIsCell DEF BlockFacts
<1>4. CellOf(k \div DPB) \in Cells /\ CellOf(j \div DPB) \in Cells
  BY <1>1, <1>2, <1>3, BlockIsCell, Bounds DEF BlockFacts
<1>5. i = d /\ CellOf(j \div DPB) = CellOf(k \div DPB)
  BY <1>3, <1>4 DEF CellInv
<1>6. \A x, y \in Nat : CellOf(x) = CellOf(y) => x = y
  BY Bounds DEF CellOf
<1>7. j \div DPB = k \div DPB
  BY <1>2, <1>5, <1>6
<1> QED BY <1>5, <1>7, DivMod

\* A store to an entry changes that entry and no other.
LEMMA StoreEntry ==
  ASSUME Types, Types', CellInv, NEW d \in Reach, NEW k \in Nat, BlockAt(d, k \div DPB) # 0,
         NEW e, SetDentry(d, k, e), ptrs' = ptrs, \A i \in Reach : inode'[i] = inode[i]
  PROVE  /\ \A i \in Reach : /\ SameCells(i) /\ Slots(i)' = Slots(i)
                             /\ \A bi \in Nat : BlockAt(i, bi)' = BlockAt(i, bi)
         /\ Dentry(d, k)' = e
         /\ \A i \in Reach, j \in Nat :
              BlockAt(i, j \div DPB) # 0 /\ (i # d \/ j # k) => Dentry(i, j)' = Dentry(i, j)
<1>1. ASSUME NEW i \in Reach
      PROVE  /\ SameCells(i) /\ Slots(i)' = Slots(i)
             /\ \A bi \in Nat : BlockAt(i, bi)' = BlockAt(i, bi)
  <2>1. i \in Inums /\ inode'[i] = inode[i]
    BY ReachTypes DEF ReachFacts
  <2>2. SameCells(i)
    BY <2>1, SameCellsOf
  <2> QED BY <2>1, <2>2, SameSlotsOf
<1> DEFINE B == BlockAt(d, k \div DPB)
<1>2. B \in Blocks /\ k % DPB \in 0 .. DPB - 1
  BY DivMod, BlockIsCell, ReachTypes DEF BlockFacts, ReachFacts
<1>3. /\ dents'[B][k % DPB] = e
      /\ \A b \in Blocks, m \in 0 .. DPB - 1 : b # B \/ m # k % DPB => dents'[b][m] = dents[b][m]
  <2>1. dents \in [Blocks -> [0 .. DPB - 1 -> DentryRec]]
    BY DEF Types, BlocksOK
  <2>2. dents' = [dents EXCEPT ![B] = [dents[B] EXCEPT ![k % DPB] = e]]
    BY DEF SetDentry
  <2> HIDE DEF B
  <2>3. dents'[B] = [dents[B] EXCEPT ![k % DPB] = e] /\ \A b \in Blocks : b # B => dents'[b] = dents[b]
    BY <1>2, <2>1, <2>2
  <2>4. dents[B] \in [0 .. DPB - 1 -> DentryRec]
    BY <1>2, <2>1
  <2> QED BY <1>2, <2>3, <2>4
<1>4. Dentry(d, k)' = e
  <2>1. BlockAt(d, k \div DPB)' = B
    BY <1>1, DivMod
  <2> QED BY <1>3, <2>1 DEF Dentry
<1>5. ASSUME NEW i \in Reach, NEW j \in Nat, BlockAt(i, j \div DPB) # 0, i # d \/ j # k
      PROVE  Dentry(i, j)' = Dentry(i, j)
  <2>1. BlockAt(i, j \div DPB)' = BlockAt(i, j \div DPB)
    BY <1>1, DivMod
  <2>2. BlockAt(i, j \div DPB) \in Blocks /\ j % DPB \in 0 .. DPB - 1
    BY <1>5, DivMod, BlockIsCell, ReachTypes DEF BlockFacts, ReachFacts
  <2>3. BlockAt(i, j \div DPB) # B \/ j % DPB # k % DPB
    BY <1>5, PlacesDiffer
  <2>4. Dentry(i, j)' = dents'[BlockAt(i, j \div DPB)][j % DPB]
    BY <2>1 DEF Dentry
  <2> HIDE DEF B
  <2> QED BY <1>3, <2>2, <2>3, <2>4 DEF Dentry
<1> QED BY <1>1, <1>4, <1>5
------------------------------------------------------------------------------
(* What a step adds to the tree or takes from it *)

(* An inode that is reached now did not have another entry before.         *)
LEMMA TreeAdded ==
  ASSUME Types, Types', TreeInv, NEW d \in Reach, inode[d].mode = "dir",
         NEW n \in Inums, n \notin Reach, n \in ibit, NEW kind \in {"file", "dir"},
         inode'[n] = NewInode(kind), ibit' = ibit, dbit' = dbit,
         \A i \in Reach : /\ inode'[i].mode = inode[i].mode /\ inode'[i].nlinks = inode[i].nlinks
                          /\ SameCells(i),
         \A i \in Reach \ {d} : inode[i].mode = "dir" =>
                                  inode'[i].size = inode[i].size /\ SameSlots(i),
         NEW k, k \notin Live(d), Live(d)' = Live(d) \cup {k}, Dentry(d, k)'.num = n,
         \A j \in Live(d) : Dentry(d, j)'.num = Dentry(d, j).num,
         \A j \in 0 .. inode'[d].size - 1 : BlockAt(d, j \div DPB)' # 0
  PROVE  /\ Reach' = Reach \cup {n} /\ TreeInv'
         /\ \A b \in Blocks : Unheld(b) => Unheld(b)'
<1>1. /\ n # 0 /\ n # d /\ n # None /\ inode'[n].mode = kind /\ inode'[n].size = 0
      /\ inode'[n].nlinks = 1 /\ inode'[n].blocks = [j \in 0 .. NDirect |-> 0]
  <2>1. n # 0 /\ n # d /\ n # None
    BY ReachTypes, Bounds DEF ReachFacts
  <2> QED BY <2>1 DEF NewInode, ZeroInode
<1>2. Slots(n)' = {} /\ Live(n)' = {} /\ Kids(n)' = {}
  <2>1. Slots(n)' = {}
    BY <1>1, EntryNext DEF EntryFacts
  <2>2. Live(n)' = {}
    BY <2>1 DEF Live
  <2> QED BY <2>1, <2>2 DEF Kids
<1>3. \A c \in Cells : Cell(n, c)' = 0
  <2>1. ASSUME NEW c \in Cells PROVE Cell(n, c)' = 0
    <3>1. NDirect \in 0 .. NDirect /\ (c <= NDirect => c \in 0 .. NDirect)
      BY Bounds DEF Cells
    <3> QED BY <1>1, <3>1 DEF Cell
  <2> QED BY <2>1
<1>4. \A i \in Reach \ {d} : (inode[i].mode = "dir" => Live(i)' = Live(i)) /\ Kids(i)' = Kids(i)
  BY KidsKept, ReachTypes, Bounds DEF ReachFacts
<1>5. Kids(d)' = Kids(d) \cup {n}
  <2>1. Kids(d) = {Dentry(d, j).num : j \in Live(d)}
    BY ReachTypes, Bounds DEF Kids, IsDir, ReachFacts
  <2>2. Kids(d)' = {Dentry(d, j)'.num : j \in Live(d) \cup {k}}
    BY ReachTypes, Bounds DEF Kids, IsDir, ReachFacts
  <2> QED BY <2>1, <2>2
<1>6. Reach' = Reach \cup {n}
  <2>1. KidsOf \in Graphs0 /\ Reach = Reached(KidsOf)
    BY ReachTypes DEF ReachFacts
  <2>2. KidsOf' \in Graphs0 /\ Reach' = Reached(KidsOf')
    BY ReachNext DEF ReachFacts
  <2>3. /\ KidsOf'[n] = {} /\ KidsOf'[d] = KidsOf[d] \cup {n}
        /\ \A i \in Reach \ {d} : KidsOf'[i] = KidsOf[i]
    BY <1>2, <1>4, <1>5, ReachTypes DEF KidsOf, ReachFacts
  <2> HIDE DEF KidsOf
  <2> QED BY <2>1, <2>2, <2>3, ReachedAdd
<1>7. UseInv'
  <2>1. inode'[0].mode = "dir"
    BY ReachTypes DEF TreeInv, UseInv, ReachFacts
  <2>2. \A i \in Reach' : i \in ibit' /\ inode'[i].mode # "none" /\ inode'[i].nlinks = 1
    BY <1>1, <1>6 DEF TreeInv, UseInv
  <2>3. ASSUME NEW i \in Reach', inode'[i].mode = "dir", NEW j \in 0 .. inode'[i].size - 1
        PROVE  BlockAt(i, j \div DPB)' # 0
    <3>1. CASE i = d
      BY <3>1, <2>3
    <3>2. CASE i = n
      BY <1>1, <2>3, <3>2
    <3>3. CASE i \in Reach \ {d}
      <4>1. inode[i].mode = "dir" /\ inode'[i].size = inode[i].size /\ Slots(i)' = Slots(i)
        BY <2>3, <3>3 DEF SameSlots
      <4>2. j \in Slots(i)'
        BY <2>3, <3>3, <4>1, SlotsFull DEF TreeInv, FullFacts
      <4> QED BY <3>3, <4>2, EntryNext, ReachTypes DEF ReachFacts, EntryFacts
    <3> QED BY <1>6, <3>1, <3>2, <3>3
  <2> QED BY <2>1, <2>2, <2>3 DEF UseInv
<1>8. EntryInv'
  <2>1. \A i \in Reach : \A j \in Live(i) : inode[i].mode = "dir" => Dentry(i, j).num \in Reach
    <3>1. ASSUME NEW i \in Reach, NEW j \in Live(i), inode[i].mode = "dir" PROVE Dentry(i, j).num \in Reach
      <4>1. Dentry(i, j).num \in Kids(i)
        BY <3>1, ReachTypes, Bounds DEF Kids, IsDir, ReachFacts
      <4> QED BY <4>1, ReachTypes DEF ReachFacts
    <3> QED BY <3>1
  <2>2. ASSUME NEW i \in Reach', NEW j \in Live(i)', inode'[i].mode = "dir"
        PROVE  \/ /\ i \in Reach /\ inode[i].mode = "dir" /\ j \in Live(i)
                  /\ Dentry(i, j)'.num = Dentry(i, j).num /\ Dentry(i, j)'.num # n
               \/ i = d /\ j = k /\ Dentry(i, j)'.num = n
    <3>1. i \in Reach
      BY <1>2, <1>6, <2>2
    <3>2. CASE i = d
      BY <2>1, <2>2, <3>2
    <3>3. CASE i # d
      <4>1. inode[i].mode = "dir" /\ Live(i)' = Live(i) /\ SameSlots(i)
        BY <1>4, <2>2, <3>1, <3>3
      <4>2. j \in Slots(i) /\ j \in Live(i)
        BY <2>2, <4>1 DEF Live
      <4> QED BY <2>1, <3>1, <4>1, <4>2 DEF SameSlots
    <3> QED BY <3>2, <3>3
  <2>3. SUFFICES ASSUME NEW i \in Reach', NEW m \in Reach', inode'[i].mode = "dir", inode'[m].mode = "dir",
                        NEW j \in Live(i)', NEW l \in Live(m)', Dentry(i, j)'.num = Dentry(m, l)'.num
                 PROVE  i = m /\ j = l
    BY DEF EntryInv
  <2> QED BY <2>2, <2>3 DEF TreeInv, EntryInv
<1>9. CellInv' /\ \A b \in Blocks : Unheld(b) => Unheld(b)'
  <2>1. \A i \in Reach, c \in Cells : Cell(i, c)' = Cell(i, c)
    BY DEF SameCells
  <2>2. CellInv'
    BY <1>3, <1>6, <2>1 DEF TreeInv, CellInv
  <2>3. \A b \in Blocks : Unheld(b) => Unheld(b)'
    BY <1>3, <1>6, <2>1, Bounds DEF Unheld
  <2> QED BY <2>2, <2>3
<1> QED BY <1>6, <1>7, <1>8, <1>9 DEF TreeInv

(* A file, or a directory without entries, whose entry is gone: nothing    *)
(* that can be reached holds a block of it.                                *)
LEMMA TreeRemoved ==
  ASSUME Types, Types', TreeInv, NEW d \in Reach, inode[d].mode = "dir",
         NEW k \in Live(d), NEW n, n = Dentry(d, k).num, Kids(n) = {},
         inode' = inode, ibit' = ibit, dbit' = dbit,
         \A i \in Reach : SameCells(i) /\ (i # d => SameSlots(i)),
         Slots(d)' = Slots(d), Live(d)' = Live(d) \ {k},
         \A j \in Live(d)' : Dentry(d, j)'.num = Dentry(d, j).num
  PROVE  /\ Reach' = Reach \ {n} /\ TreeInv' /\ d \in Reach' /\ n \in Reach /\ n # 0
         /\ \A b \in Blocks, c \in Cells : Cell(n, c) = b => Unheld(b)'
<1>1. n \in Reach /\ n # 0 /\ n # d /\ Kids(d) = {Dentry(d, j).num : j \in Live(d)} /\ n \in Kids(d)
  <2>1. Kids(d) = {Dentry(d, j).num : j \in Live(d)}
    BY ReachTypes, Bounds DEF Kids, IsDir, ReachFacts
  <2>2. n \in Kids(d)
    BY <2>1
  <2> QED BY <2>1, <2>2, ReachTypes DEF Live, ReachFacts
<1>2. \A i \in Reach \ {d} : (inode[i].mode = "dir" => Live(i)' = Live(i)) /\ Kids(i)' = Kids(i)
  BY KidsKept, ReachTypes, Bounds DEF ReachFacts
<1>3. \A i \in Reach \ {d} : n \notin Kids(i)
  <2>1. ASSUME NEW i \in Reach \ {d}, n \in Kids(i) PROVE FALSE
    <3>1. inode[i].mode = "dir" /\ \E j \in Live(i) : Dentry(i, j).num = n
      BY <2>1 DEF Kids, IsDir
    <3> QED BY <2>1, <3>1 DEF TreeInv, EntryInv
  <2> QED BY <2>1
<1>4. Kids(d)' = Kids(d) \ {n}
  <2>1. Kids(d)' = {Dentry(d, j)'.num : j \in Live(d) \ {k}}
    BY ReachTypes, Bounds DEF Kids, IsDir, ReachFacts
  <2>2. \A j \in Live(d) : Dentry(d, j).num = n => j = k
    BY DEF TreeInv, EntryInv
  <2>3. \A j \in Live(d) \ {k} : Dentry(d, j)'.num = Dentry(d, j).num
    OBVIOUS
  <2> QED BY <1>1, <2>1, <2>2, <2>3
<1>5. Reach' = Reach \ {n}
  <2>1. KidsOf \in Graphs0 /\ Reach = Reached(KidsOf)
    BY ReachTypes DEF ReachFacts
  <2>2. KidsOf' \in Graphs0 /\ Reach' = Reached(KidsOf')
    BY ReachNext DEF ReachFacts
  <2>3. /\ n \in KidsOf[d] /\ KidsOf[n] = {} /\ KidsOf'[d] = KidsOf[d] \ {n}
        /\ \A i \in Reach \ {d} : KidsOf'[i] = KidsOf[i] /\ n \notin KidsOf[i]
    BY <1>1, <1>2, <1>3, <1>4, ReachTypes DEF KidsOf, ReachFacts
  <2> HIDE DEF KidsOf
  <2> QED BY <1>1, <2>1, <2>2, <2>3, ReachedRemove
<1>6. UseInv'
  <2>1. \A i \in Reach' : i \in Reach
    BY <1>5
  <2>2. ASSUME NEW i \in Reach', inode[i].mode = "dir", NEW j \in 0 .. inode[i].size - 1
        PROVE  BlockAt(i, j \div DPB)' # 0
    <3>1. i \in Reach /\ Slots(i)' = Slots(i)
      BY <2>1 DEF SameSlots
    <3>2. j \in Slots(i)'
      BY <2>2, <3>1, SlotsFull DEF TreeInv, FullFacts
    <3> QED BY <3>1, <3>2, EntryNext, ReachTypes DEF ReachFacts, EntryFacts
  <2> QED BY <2>1, <2>2 DEF UseInv, TreeInv
<1>7. EntryInv'
  <2>1. ASSUME NEW i \in Reach', NEW j \in Live(i)', inode[i].mode = "dir"
        PROVE  i \in Reach /\ j \in Live(i) /\ Dentry(i, j)'.num = Dentry(i, j).num
    <3>1. i \in Reach
      BY <1>5
    <3>2. CASE i = d
      BY <2>1, <3>2
    <3>3. CASE i # d
      BY <1>2, <2>1, <3>1, <3>3 DEF SameSlots, Live
    <3> QED BY <3>2, <3>3
  <2>2. SUFFICES ASSUME NEW i \in Reach', NEW m \in Reach', inode[i].mode = "dir", inode[m].mode = "dir",
                        NEW j \in Live(i)', NEW l \in Live(m)', Dentry(i, j)'.num = Dentry(m, l)'.num
                 PROVE  i = m /\ j = l
    BY DEF EntryInv
  <2> QED BY <2>1, <2>2 DEF TreeInv, EntryInv
<1>8. CellInv' /\ \A b \in Blocks, c \in Cells : Cell(n, c) = b => Unheld(b)'
  <2>1. \A i \in Reach, c \in Cells : Cell(i, c)' = Cell(i, c)
    BY DEF SameCells
  <2>2. CellInv'
    BY <1>5, <2>1 DEF TreeInv, CellInv
  <2>3. ASSUME NEW c \in Cells, Cell(n, c) # 0, NEW i \in Reach \ {n}, NEW e \in Cells
        PROVE  Cell(i, e)' # Cell(n, c)
    BY <1>1, <2>1, <2>3 DEF TreeInv, CellInv
  <2>4. \A b \in Blocks, c \in Cells : Cell(n, c) = b => Unheld(b)'
    BY <1>5, <2>3, Bounds DEF Unheld
  <2> QED BY <2>2, <2>4
<1> QED BY <1>1, <1>5, <1>6, <1>7, <1>8 DEF TreeInv
------------------------------------------------------------------------------
(* Looking a path up *)

\* First is the least number of a set.
LEMMA FirstIs ==
  ASSUME NEW S \in SUBSET Nat
  PROVE  /\ First(S) # None => First(S) \in S /\ \A k \in S : First(S) <= k
         /\ First(S) = None <=> S = {}
         /\ First(S) \in Nat \cup {None}
<1>1. CASE S = {}
  BY <1>1 DEF First, None
<1>2. CASE S # {}
  <2>1. Min(S) \in S /\ \A k \in S : Min(S) <= k
    BY <1>2, MinNat
  <2>2. First(S) = Min(S)
    BY <1>2 DEF First
  <2>3. None \notin Nat
    BY DEF None
  <2> QED BY <1>2, <2>1, <2>2, <2>3
<1> QED BY <1>1, <1>2

\* A name that is found is that of an entry in use.
LEMMA LookupInIs ==
  ASSUME Types, NEW d \in Inums \cup {None}, NEW n
  PROVE  /\ LookupIn(d, n) \in Inums \cup {None}
         /\ LookupIn(d, n) # None =>
              /\ d \in Inums /\ inode[d].mode = "dir" /\ LookupIn(d, n) \in Kids(d)
              /\ \E k \in Live(d) : Dentry(d, k).num = LookupIn(d, n) /\ Dentry(d, k).name = n
<1> DEFINE S == {j \in Live(d) : Dentry(d, j).name = n}
           k == IF IsDir(d) THEN First(S) ELSE None
<1>1. LookupIn(d, n) = IF k # None /\ Dentry(d, k).num \in ibit THEN Dentry(d, k).num ELSE None
  BY DEF LookupIn
<1>2. CASE IsDir(d)
  <2>1. d \in Inums /\ inode[d].mode = "dir"
    BY <1>2 DEF IsDir
  <2>2. S \in SUBSET Nat
    BY <2>1, EntryTypes DEF EntryFacts
  <2>3. k # None => k \in Live(d) /\ Dentry(d, k).name = n
    <3> HIDE DEF S
    <3>1. First(S) # None => First(S) \in S
      BY <2>2, FirstIs
    <3> USE DEF S
    <3> QED BY <1>2, <3>1
  <2>4. k # None => Dentry(d, k).num \in Kids(d) /\ Dentry(d, k).num \in Inums
    BY <1>2, <2>1, <2>3, EntryTypes DEF Kids, EntryFacts
  <2> HIDE DEF k
  <2> QED BY <1>1, <2>1, <2>3, <2>4
<1>3. CASE ~ IsDir(d)
  BY <1>1, <1>3
<1> QED BY <1>2, <1>3

(* The inodes on the way to a path.                                        *)
Way(path, w) ==
  /\ w \in [0 .. Len(path) -> Inums \cup {None}]
  /\ w[0] = 0
  /\ \A n \in 1 .. Len(path) : w[n] = LookupIn(w[n - 1], path[n])
  /\ Lookup(path) = w[Len(path)]

\* A path is a sequence of names.
LEMMA PathTypes ==
  ASSUME NEW path \in Paths
  PROVE  path \in Seq(Names) /\ Len(path) \in Nat
BY DEF Paths

\* The walk along a path has a value.
LEMMA WayExists ==
  ASSUME Types, NEW path \in Paths
  PROVE  \E w : Way(path, w)
<1> DEFINE N == Len(path)
           V == Inums \cup {None}
           step == [n \in 1 .. N |-> [d \in V |-> LookupIn(d, path[n])]]
           Def(f) == f = [n \in 0 .. N |-> IF n = 0 THEN 0 ELSE LookupIn(f[n - 1], path[n])]
<1>1. Steps(step, N, V) /\ 0 \in V /\ N \in Nat
  <2>1. \A n \in 1 .. N, d \in V : LookupIn(d, path[n]) \in V
    BY LookupInIs
  <2>2. step \in [1 .. N -> [V -> V]]
    BY <2>1
  <2> QED BY <2>2, PathTypes, Bounds DEF Steps
<1>2. PICK f : Recursion(f, N, V, 0, step)
  <2> HIDE DEF step, V, N
  <2> QED BY <1>1, RecursiveFunction
<1>3. ASSUME NEW n \in 1 .. N
      PROVE  f[n] = LookupIn(f[n - 1], path[n]) /\ n # 0
  <2>1. f[n - 1] \in V
    <3> n - 1 \in 0 .. N
      BY <1>1
    <3> HIDE DEF V, step
    <3> QED BY <1>2 DEF Recursion
  <2>2. step[n][f[n - 1]] = LookupIn(f[n - 1], path[n])
    BY <2>1
  <2>3. f[n] = step[n][f[n - 1]] /\ n # 0
    <3> HIDE DEF V, step
    <3> QED BY <1>1, <1>2 DEF Recursion
  <2> QED BY <2>2, <2>3
<1>4. Def(f)
  <2>1. f \in [0 .. N -> V] /\ f[0] = 0
    BY <1>2 DEF Recursion
  <2>2. \A n \in 0 .. N : n # 0 => n \in 1 .. N
    BY <1>1
  <2> QED BY <1>3, <2>1, <2>2
<1>5. \E w : Def(w) /\ Lookup(path) = w[N]
  <2> HIDE DEF Def
  <2>1. Lookup(path) = (CHOOSE w : Def(w))[N]
    BY DEF Lookup, Def
  <2> QED BY <1>4, <2>1
<1>6. PICK w : Def(w) /\ Lookup(path) = w[N]
  BY <1>5
<1>7. ASSUME NEW n \in 0 .. N
      PROVE  w[n] = IF n = 0 THEN 0 ELSE LookupIn(w[n - 1], path[n])
  <2> DEFINE body(m) == IF m = 0 THEN 0 ELSE LookupIn(w[m - 1], path[m])
  <2>1. w = [m \in 0 .. N |-> body(m)]
    BY <1>6
  <2> HIDE DEF body
  <2>2. w[n] = body(n)
    BY <2>1
  <2> QED BY <2>2 DEF body
<1>8. w[0] = 0 /\ \A n \in 1 .. N : w[n] = LookupIn(w[n - 1], path[n])
  <2>1. 0 \in 0 .. N /\ \A n \in 1 .. N : n # 0 /\ n \in 0 .. N
    BY <1>1
  <2> QED BY <1>7, <2>1
<1> DEFINE Bad == {n \in 0 .. N : w[n] \notin V}
<1>9. ASSUME Bad # {} PROVE FALSE
  <2>1. PICK m \in Bad : \A k \in Bad : m <= k
    <3>1. Bad \in SUBSET Nat
      OBVIOUS
    <3> HIDE DEF Bad
    <3> QED BY <1>9, <3>1, LeastElement
  <2>2. m \in 0 .. N /\ w[m] \notin V
    OBVIOUS
  <2>3. m \in 1 .. N
    BY <1>8, <2>2, Bounds
  <2>4. w[m - 1] \in V
    <3>1. m - 1 \in 0 .. N /\ m - 1 \notin Bad
      <4> HIDE DEF Bad
      <4> QED BY <2>1, <2>2, <2>3
    <3> QED BY <3>1
  <2>5. LookupIn(w[m - 1], path[m]) \in V
    BY <2>4, LookupInIs
  <2> QED BY <1>8, <2>2, <2>3, <2>5
<1>10. w \in [0 .. N -> V]
  <2>1. \A n \in 0 .. N : w[n] \in V
    BY <1>9
  <2>2. w = [n \in 0 .. N |-> w[n]]
    BY <1>6
  <2> HIDE DEF V
  <2> QED BY <2>1, <2>2
<1> QED BY <1>6, <1>8, <1>10 DEF Way

(* What is found is reached from the root; the directory it was found in   *)
(* has an entry with its number.                                           *)
LEMMA LookupIs ==
  ASSUME Types, NEW path \in Paths, Lookup(path) # None
  PROVE  /\ Lookup(path) \in Reach
         /\ path # <<>> =>
              /\ Lookup(Front(path)) \in Reach /\ inode[Lookup(Front(path))].mode = "dir"
              /\ \E k \in Live(Lookup(Front(path))) :
                   /\ Dentry(Lookup(Front(path)), k).num = Lookup(path)
                   /\ Dentry(Lookup(Front(path)), k).name \in Names
<1> DEFINE N == Len(path)
<1>1. PICK w : Way(path, w)
  BY WayExists
<1>2. N \in Nat /\ w[0] = 0 /\ Lookup(path) = w[N]
  BY <1>1, PathTypes DEF Way
<1>3. ASSUME NEW n \in 1 .. N
      PROVE  /\ n - 1 \in 0 .. N /\ w[n] = LookupIn(w[n - 1], path[n])
             /\ w[n - 1] \in Inums \cup {None}
  <2>1. n - 1 \in 0 .. N
    BY <1>2
  <2> QED BY <1>1, <2>1 DEF Way
<1>4. \A n \in 0 .. N : w[n] \in Reach \cup {None}
  <2> DEFINE Bad == {n \in 0 .. N : w[n] \notin Reach \cup {None}}
  <2>1. SUFFICES ASSUME Bad # {} PROVE FALSE
    OBVIOUS
  <2>2. PICK m \in Bad : \A k \in Bad : m <= k
    <3>1. Bad \in SUBSET Nat
      OBVIOUS
    <3> HIDE DEF Bad
    <3> QED BY <2>1, <3>1, LeastElement
  <2>3. m \in 0 .. N /\ w[m] \notin Reach \cup {None}
    OBVIOUS
  <2>4. m \in 1 .. N
    BY <1>2, <2>3, ReachTypes DEF ReachFacts
  <2>5. w[m - 1] \in Reach \cup {None}
    <3>1. m - 1 \in 0 .. N /\ m - 1 \notin Bad
      <4> HIDE DEF Bad
      <4> QED BY <1>2, <2>2, <2>3, <2>4
    <3> QED BY <3>1
  <2> QED BY <1>3, <2>3, <2>4, <2>5, LookupInIs, ReachTypes, Bounds DEF ReachFacts
<1>5. Lookup(path) \in Reach
  BY <1>2, <1>4
<1>6. ASSUME path # <<>>
      PROVE  /\ Lookup(Front(path)) \in Reach /\ inode[Lookup(Front(path))].mode = "dir"
             /\ \E k \in Live(Lookup(Front(path))) :
                  /\ Dentry(Lookup(Front(path)), k).num = Lookup(path)
                  /\ Dentry(Lookup(Front(path)), k).name \in Names
  <2>1. N \in 1 .. N /\ N - 1 \in Nat
    BY <1>6, PathTypes
  <2>2. /\ Front(path) \in Paths /\ Len(Front(path)) = N - 1
        /\ \A n \in 1 .. N - 1 : Front(path)[n] = path[n]
    <3>1. PICK m \in 0 .. MaxDepth : path \in [1 .. m -> Names]
      BY DEF Paths
    <3>2. m = N
      BY <3>1
    <3>3. Front(path) = [n \in 1 .. N - 1 |-> path[n]]
      BY <2>1, <3>1, <3>2 DEF Front
    <3>4. Front(path) \in [1 .. N - 1 -> Names] /\ N - 1 \in 0 .. MaxDepth
      BY <2>1, <3>1, <3>2, <3>3
    <3>5. Front(path) \in Paths
      BY <3>4 DEF Paths
    <3>6. Len(Front(path)) = N - 1
      BY <2>1, <3>3
    <3> QED BY <3>3, <3>5, <3>6
  <2>3. PICK v : Way(Front(path), v)
    BY <2>2, WayExists
  <2>4. v[0] = 0 /\ Lookup(Front(path)) = v[N - 1]
        /\ \A n \in 1 .. N - 1 : v[n] = LookupIn(v[n - 1], path[n])
    BY <2>2, <2>3 DEF Way
  <2> DEFINE Bad == {n \in 0 .. N - 1 : v[n] # w[n]}
  <2>5. ASSUME Bad # {} PROVE FALSE
    <3>1. PICK m \in Bad : \A k \in Bad : m <= k
      <4>1. Bad \in SUBSET Nat
        OBVIOUS
      <4> HIDE DEF Bad
      <4> QED BY <2>5, <4>1, LeastElement
    <3>2. m \in 0 .. N - 1 /\ v[m] # w[m]
      OBVIOUS
    <3>3. m \in 1 .. N - 1 /\ m \in 1 .. N
      BY <1>2, <2>1, <2>4, <3>2
    <3>4. v[m - 1] = w[m - 1]
      <4>1. m - 1 \in 0 .. N - 1 /\ m - 1 \notin Bad
        <5> HIDE DEF Bad
        <5> QED BY <2>1, <3>1, <3>2, <3>3
      <4> QED BY <4>1
    <3> QED BY <1>3, <2>4, <3>2, <3>3, <3>4
  <2>6. Lookup(Front(path)) = w[N - 1]
    <3>1. N - 1 \in 0 .. N - 1
      BY <2>1
    <3> QED BY <2>4, <2>5, <3>1
  <2>7. w[N - 1] \in Inums \cup {None} /\ w[N - 1] \in Reach \cup {None}
        /\ w[N] = LookupIn(w[N - 1], path[N])
    BY <1>3, <1>4, <2>1
  <2>8. /\ w[N - 1] \in Inums /\ inode[w[N - 1]].mode = "dir"
        /\ \E k \in Live(w[N - 1]) :
             Dentry(w[N - 1], k).num = w[N] /\ Dentry(w[N - 1], k).name = path[N]
    <3>p. PICK d : d = w[N - 1]
      OBVIOUS
    <3>n. PICK n : n = path[N]
      OBVIOUS
    <3>1. d \in Inums \cup {None} /\ w[N] = LookupIn(d, n) /\ w[N] # None
      BY <1>2, <2>7, <3>p, <3>n
    <3>2. /\ d \in Inums /\ inode[d].mode = "dir"
          /\ \E k \in Live(d) : Dentry(d, k).num = w[N] /\ Dentry(d, k).name = n
      BY <3>1, LookupInIs
    <3> QED BY <3>2, <3>p, <3>n
  <2>9. path[N] \in Names
    BY <2>1, PathTypes
  <2> QED BY <1>2, <2>6, <2>7, <2>8, <2>9, Bounds
<1> QED BY <1>5, <1>6

------------------------------------------------------------------------------
(* Steps that the tree does not see *)

(* Who can be reached, and what every entry says, stays as it is.          *)
SameNames ==
  /\ Reach' = Reach
  /\ \A i \in Reach :
       /\ inode'[i].mode = inode[i].mode
       /\ inode[i].mode = "dir" =>
            Live(i)' = Live(i) /\ \A k \in Live(i) : Dentry(i, k)' = Dentry(i, k)

(* An entry for inode n, which nothing named, is now in slot k of d.        *)
TreeGains(d, k, n) ==
  /\ d \in Reach /\ inode[d].mode = "dir" /\ k \notin Live(d) /\ k \in Live(d)'
  /\ n \in Inums \ {0} /\ n \notin Reach /\ Reach' = Reach \cup {n}
  /\ \A i \in Reach : inode'[i].mode = inode[i].mode
  /\ \A i \in Reach : inode[i].mode = "dir" =>
       /\ i # d => Live(i)' = Live(i)
       /\ \A j \in Live(i) : Dentry(i, j)' = Dentry(i, j)
  /\ Live(d)' = Live(d) \cup {k} /\ Dentry(d, k)'.num = n
  /\ inode'[n].mode \in {"file", "dir"} /\ Live(n)' = {}

(* The entry in slot k of d has another name now.                          *)
TreeNames(d, k, name) ==
  /\ d \in Reach /\ inode[d].mode = "dir" /\ k \in Live(d)
  /\ Reach' = Reach /\ inode' = inode
  /\ \A i \in Reach : inode[i].mode = "dir" =>
       /\ Live(i)' = Live(i)
       /\ \A j \in Live(i) : i # d \/ j # k => Dentry(i, j)' = Dentry(i, j)
  /\ Dentry(d, k)'.num = Dentry(d, k).num /\ Dentry(d, k)'.name = name

(* The entry in slot k of d, whose inode n has none, is gone.               *)
TreeLoses(d, k, n) ==
  /\ d \in Reach /\ inode[d].mode = "dir" /\ k \in Live(d)
  /\ Dentry(d, k).num = n /\ Dentry(d, k).name \in Names
  /\ n \in Reach \ {0} /\ Kids(n) = {} /\ Reach' = Reach \ {n} /\ inode' = inode
  /\ \A i \in Reach : inode[i].mode = "dir" =>
       /\ i # d => Live(i)' = Live(i)
       /\ \A j \in Live(i) : i # d \/ j # k => Dentry(i, j)' = Dentry(i, j)
  /\ Live(d)' = Live(d) \ {k}

(* A step that stores to no inode and no block that can be reached.        *)
LEMMA TreeUntouched ==
  ASSUME Types, Types', TreeInv,
         \A i \in Reach : inode'[i] = inode[i] /\ i \in ibit',
         \A b \in Blocks : ~ Unheld(b) => /\ dents'[b] = dents[b] /\ ptrs'[b] = ptrs[b]
                                          /\ b \in dbit => b \in dbit'
  PROVE  /\ Reach' = Reach /\ TreeInv' /\ \A b : Unheld(b) => Unheld(b)'
         /\ SameNames
         /\ \A i \in Reach :
              /\ Slots(i)' = Slots(i) /\ \A bi \in Nat : BlockAt(i, bi)' = BlockAt(i, bi)
              /\ \A k \in Nat : BlockAt(i, k \div DPB) # 0 => Dentry(i, k)' = Dentry(i, k)
<1>1. ASSUME NEW i \in Reach, NEW c \in Cells, Cell(i, c) # 0
      PROVE  Cell(i, c) \in Blocks /\ ~ Unheld(Cell(i, c))
  BY <1>1, CellTypes, ReachTypes DEF Unheld, CellFacts, ReachFacts
<1>2. ASSUME NEW i \in Reach
      PROVE  /\ SameCells(i) /\ Slots(i)' = Slots(i)
             /\ \A bi \in Nat : BlockAt(i, bi)' = BlockAt(i, bi)
  <2>1. i \in Inums /\ inode'[i] = inode[i]
    BY ReachTypes DEF ReachFacts
  <2>2. Cell(i, NDirect) = inode[i].blocks[NDirect] /\ NDirect \in Cells
    BY Bounds DEF Cell, Cells
  <2>3. SameCells(i)
    BY <1>1, <2>1, <2>2, SameCellsOf
  <2> QED BY <2>1, <2>3, SameSlotsOf
<1>3. ASSUME NEW i \in Reach, NEW k \in Nat, BlockAt(i, k \div DPB) # 0
      PROVE  Dentry(i, k)' = Dentry(i, k)
  <2>1. k \div DPB \in Nat /\ i \in Inums
    BY DivMod, ReachTypes DEF ReachFacts
  <2>2. BlockAt(i, k \div DPB)' = BlockAt(i, k \div DPB)
    BY <1>2, <2>1
  <2>3. BlockAt(i, k \div DPB) \in Blocks /\ ~ Unheld(BlockAt(i, k \div DPB))
    BY <1>1, <1>3, <2>1, BlockIsCell, Bounds DEF BlockFacts
  <2>4. Dentry(i, k)' = dents'[BlockAt(i, k \div DPB)][k % DPB]
    BY <2>2 DEF Dentry
  <2> QED BY <2>3, <2>4 DEF Dentry
<1>4. LooksSame
  BY <1>2, <1>3, EntryTypes, ReachTypes DEF LooksSame, SameSlots, EntryFacts, ReachFacts
<1>5. Reach' = Reach /\ UseInv' /\ EntryInv'
  BY <1>4, LooksKept DEF TreeInv
<1>6. CellInv' /\ \A b : Unheld(b) => Unheld(b)'
  <2>1. \A i \in Reach, c \in Cells : Cell(i, c) # 0 => Cell(i, c) \in dbit'
    BY <1>1 DEF TreeInv, CellInv
  <2> QED BY <1>2, <1>5, <2>1, CellsKept DEF TreeInv
<1>7. SameNames
  <2>1. \A i \in Reach : inode[i].mode = "dir" => Live(i)' = Live(i)
    BY <1>4, LooksKept DEF TreeInv
  <2>2. \A i \in Reach : \A k \in Live(i) : k \in Nat /\ BlockAt(i, k \div DPB) # 0
    BY EntryTypes, ReachTypes DEF EntryFacts, ReachFacts
  <2> QED BY <1>3, <1>5, <2>1, <2>2 DEF SameNames
<1> QED BY <1>2, <1>3, <1>5, <1>6, <1>7 DEF TreeInv

(* A store to an entry that leaves its number, or to one past the size.    *)
LEMMA EntryKept ==
  ASSUME Types, Types', TreeInv, NEW d \in Reach, NEW k \in Nat, BlockAt(d, k \div DPB) # 0,
         NEW e, SetDentry(d, k, e), ptrs' = ptrs, ibit' = ibit, dbit' = dbit,
         \A i \in Reach : inode'[i] = inode[i],
         k \in Slots(d) => e.num = Dentry(d, k).num
  PROVE  /\ Reach' = Reach /\ TreeInv' /\ \A b : Unheld(b) => Unheld(b)'
         /\ \A i \in Reach : /\ Slots(i)' = Slots(i)
                             /\ \A bi \in Nat : BlockAt(i, bi)' = BlockAt(i, bi)
         /\ Dentry(d, k)' = e
         /\ \A i \in Reach : inode[i].mode = "dir" => Live(i)' = Live(i)
         /\ \A i \in Reach : \A j \in Live(i) : (i # d \/ j # k) => Dentry(i, j)' = Dentry(i, j)
         /\ k \notin Live(d) => SameNames
<1>1. /\ \A i \in Reach : /\ SameCells(i) /\ Slots(i)' = Slots(i)
                          /\ \A bi \in Nat : BlockAt(i, bi)' = BlockAt(i, bi)
      /\ Dentry(d, k)' = e
      /\ \A i \in Reach, j \in Nat :
           BlockAt(i, j \div DPB) # 0 /\ (i # d \/ j # k) => Dentry(i, j)' = Dentry(i, j)
  BY StoreEntry DEF TreeInv
<1>2. LooksSame
  <2>1. ASSUME NEW i \in Reach, NEW j \in Slots(i) PROVE Dentry(i, j)'.num = Dentry(i, j).num
    <3>1. j \in Nat /\ BlockAt(i, j \div DPB) # 0
      BY EntryTypes, ReachTypes DEF EntryFacts, ReachFacts
    <3> QED BY <1>1, <3>1
  <2> QED BY <1>1, <2>1 DEF LooksSame, SameSlots
<1>3. Reach' = Reach /\ UseInv' /\ EntryInv'
  <2>1. \A i \in Reach : i \in ibit'
    BY DEF TreeInv, UseInv
  <2> QED BY <1>2, <2>1, LooksKept DEF TreeInv
<1>4. CellInv' /\ \A b : Unheld(b) => Unheld(b)'
  <2>1. \A i \in Reach, c \in Cells : Cell(i, c) # 0 => Cell(i, c) \in dbit'
    BY DEF TreeInv, CellInv
  <2> QED BY <1>1, <1>3, <2>1, CellsKept DEF TreeInv
<1>5. \A i \in Reach : inode[i].mode = "dir" => Live(i)' = Live(i)
  <2>1. \A i \in Reach : i \in ibit'
    BY DEF TreeInv, UseInv
  <2> QED BY <1>2, <2>1, LooksKept DEF TreeInv
<1>6. \A i \in Reach : \A j \in Live(i) : (i # d \/ j # k) => Dentry(i, j)' = Dentry(i, j)
  <2>1. \A i \in Reach : \A j \in Live(i) : j \in Nat /\ BlockAt(i, j \div DPB) # 0
    BY EntryTypes, ReachTypes DEF EntryFacts, ReachFacts
  <2> QED BY <1>1, <2>1
<1>7. k \notin Live(d) => SameNames
  BY <1>3, <1>5, <1>6 DEF SameNames
<1> QED BY <1>1, <1>3, <1>4, <1>5, <1>6, <1>7 DEF TreeInv

------------------------------------------------------------------------------
(* What the steps know *)

OpFacts ==
  /\ op \in Ops /\ op.pc \in Pcs /\ op.kind \in Kinds /\ op.dir \in Inums
  /\ op.name \in Names \cup LongNames \cup {NoName} /\ op.ino \in Inums
  /\ op.at \in Nat /\ op.upto \in Nat /\ op.blk \in Blocks \cup {0}
  /\ op.todo \in Seq(Blocks \cup {0}) /\ Len(op.todo) \in Nat
  /\ \A j \in 1 .. Len(op.todo) : op.todo[j] \in Blocks \cup {0}

\* The fields of the running handler have their types.
LEMMA OpTypes == Types => OpFacts
<1> SUFFICES ASSUME Types PROVE OpFacts
  OBVIOUS
<1>1. op \in Ops
  BY DEF Types, OpOK
<1>2. /\ op.pc \in Pcs /\ op.kind \in Kinds /\ op.dir \in Inums
      /\ op.name \in Names \cup LongNames \cup {NoName} /\ op.ino \in Inums
      /\ op.at \in Nat /\ op.upto \in Nat /\ op.blk \in Blocks \cup {0}
      /\ op.todo \in Seq(Blocks \cup {0})
  BY <1>1 DEF Ops
<1>3. Len(op.todo) \in Nat /\ \A j \in 1 .. Len(op.todo) : op.todo[j] \in Blocks \cup {0}
  BY <1>2
<1> QED BY <1>1, <1>2, <1>3 DEF OpFacts

\* OpTypes after the step.
LEMMA OpNext == Types' => OpFacts'
BY OpTypes, PTL

(* What Missing says.                                                      *)
LEMMA MissingIs ==
  ASSUME Types
  PROVE  /\ Index \in Nat /\ Target \in Inums
         /\ Missing = "nothing" <=> BlockAt(Target, Index) # 0
         /\ Missing = "direct" => Index < NDirect /\ BlockAt(Target, Index) = 0
         /\ Missing = "indirect" => Index >= NDirect /\ inode[Target].blocks[NDirect] = 0
         /\ Missing = "entry" => /\ Index >= NDirect /\ BlockAt(Target, Index) = 0
                                 /\ inode[Target].blocks[NDirect] # 0 /\ Index - NDirect < PPB
         /\ Missing \in {"nothing", "direct", "indirect", "limit", "entry"}
<1>1. Index \in Nat /\ Target \in Inums
  BY OpTypes, DivMod DEF Index, Target, OpFacts
<1>2. Index < NDirect \/ Index >= NDirect
  BY <1>1, Bounds
<1> DEFINE ind == inode[Target].blocks[NDirect]
<1>3. CASE BlockAt(Target, Index) # 0
  <2>1. ~ (Index >= NDirect /\ ind = 0) /\ ~ (Index >= NDirect /\ ind # 0 /\ Index - NDirect >= PPB)
    BY <1>1, <1>3, Bounds DEF BlockAt
  <2> QED BY <1>1, <1>3, <2>1 DEF Missing
<1>4. CASE BlockAt(Target, Index) = 0 /\ Index < NDirect
  <2>1. ~ (Index >= NDirect)
    BY <1>1, <1>4, Bounds
  <2> QED BY <1>1, <1>4, <2>1 DEF Missing
<1>5. CASE BlockAt(Target, Index) = 0 /\ Index >= NDirect
  <2>1. ~ (Index < NDirect)
    BY <1>1, <1>5, Bounds
  <2>2. Index - NDirect < PPB \/ Index - NDirect >= PPB
    BY <1>1, <1>5, Bounds
  <2>3. ~ (Index - NDirect < PPB /\ Index - NDirect >= PPB)
    BY <1>1, <1>5, Bounds
  <2> QED BY <1>1, <1>5, <2>1, <2>2, <2>3 DEF Missing
<1> QED BY <1>2, <1>3, <1>4, <1>5
(* Between the handlers there is nothing to know.                          *)
LEMMA AtRest == op' = Idle => OpInv'
BY DEF Idle, OpInv, AddInv, Adds, NameInv, WriteInv, Writes, LinkInv, FreeInv

\* That no handler runs is one of the states of op.
LEMMA IdleOK == Idle \in Ops
<1>1. <<>> \in Seq(Blocks \cup {0})
  OBVIOUS
<1> QED BY <1>1, Bounds DEF Idle, Ops, Pcs, Kinds

\* What fillin_inode and free_inode store are inodes.
LEMMA NewInodeOK ==
  /\ ZeroInode \in InodeRec /\ ZeroInode.mode = "none" /\ ZeroInode.size = 0
  /\ \A mode \in {"file", "dir"} :
       /\ NewInode(mode) \in InodeRec /\ NewInode(mode).mode = mode
       /\ NewInode(mode).size = 0 /\ NewInode(mode).nlinks = 1
<1>1. [j \in 0 .. NDirect |-> 0] \in [0 .. NDirect -> Blocks \cup {0}]
  OBVIOUS
<1> QED BY <1>1, Bounds DEF NewInode, ZeroInode, InodeRec

\* The largest sizes are numbers.
LEMMA SizeBound ==
  /\ MaxFile * DPB \in Nat /\ MaxFile * 1 \in Nat
  /\ 0 <= MaxFile * DPB /\ 0 <= MaxFile * 1
BY Bounds

------------------------------------------------------------------------------
(* mknod and mkdir *)

\* mknod and mkdir up to allocate_inode keep the invariant and all names.
LEMMA CreateStep ==
  ASSUME IInv, op = Idle, NEW d, IsDir(d), d \in Reach, NEW n \in Names \cup LongNames,
         NEW mode \in {"file", "dir"}, Create(d, n, mode)
  PROVE  IInv' /\ SameNames
<1> DEFINE i == Min(Inums \ ibit)
<1>1. i \in Inums \ ibit
  <2>1. Inums \ ibit \in SUBSET Nat /\ Inums \ ibit # {}
    BY DEF Create, Inums
  <2> QED BY <2>1, MinNat
<1>2. /\ ibit' = ibit \cup {i} /\ dbit' = dbit /\ inode' = inode /\ dents' = dents
      /\ ptrs' = ptrs /\ crashes' = crashes
      /\ op' = [Idle EXCEPT !.pc = "fill", !.kind = mode, !.dir = d, !.name = n, !.ino = i]
  BY DEF Create
<1> HIDE DEF i
<1>3. /\ op'.pc = "fill" /\ op'.kind = mode /\ op'.dir = d /\ op'.name = n /\ op'.ino = i
      /\ op'.at = 0 /\ op'.upto = 0 /\ op'.blk = 0 /\ op'.todo = <<>>
  BY <1>2 DEF Idle
<1>4. d \in Inums /\ inode[d].mode = "dir" /\ n # NoName
  BY ReachTypes DEF IsDir, IInv, ReachFacts
<1>5. Types'
  <2>1. op' \in Ops
    <3>1. <<>> \in Seq(Blocks \cup {0}) /\ 0 \in Inums
      BY Bounds
    <3> QED BY <1>1, <1>2, <1>4, <3>1 DEF Idle, Ops, Pcs, Kinds
  <2> QED BY <1>1, <1>2, <2>1 DEF IInv, Types, MapsOK, InodesOK, BlocksOK, OpOK
<1>6. SizesOK'
  BY <1>2 DEF IInv, SizesOK
<1>7. Reach' = Reach /\ TreeInv' /\ SameNames
  BY <1>2, <1>5, TreeUntouched DEF IInv, TreeInv, UseInv
<1>8. i \notin Reach
  BY <1>1 DEF IInv, TreeInv, UseInv
<1>9. AddInv'
  BY <1>2, <1>3, <1>4, <1>7, <1>8 DEF AddInv, Adds
<1>10. NameInv' /\ WriteInv' /\ LinkInv' /\ FreeInv'
  BY <1>3 DEF NameInv, WriteInv, Writes, LinkInv, FreeInv
<1> QED BY <1>5, <1>6, <1>7, <1>9, <1>10 DEF IInv, OpInv

\* fillin_inode keeps the invariant and all names.
LEMMA FillInodeStep ==
  ASSUME IInv, FillInode
  PROVE  IInv' /\ SameNames
<1>1. /\ op.pc = "fill" /\ inode' = [inode EXCEPT ![op.ino] = NewInode(op.kind)]
      /\ op' = [op EXCEPT !.pc = "add"]
      /\ ibit' = ibit /\ dbit' = dbit /\ dents' = dents /\ ptrs' = ptrs /\ crashes' = crashes
  BY DEF FillInode
<1>2. /\ op.kind \in {"file", "dir"} /\ op.todo = <<>> /\ op.name # NoName
      /\ op.dir \in Reach /\ inode[op.dir].mode = "dir" /\ op.ino \in ibit /\ op.ino \notin Reach
  BY <1>1 DEF IInv, OpInv, AddInv, Adds
<1>3. /\ op' \in Ops /\ op'.pc = "add" /\ op'.kind = op.kind /\ op'.dir = op.dir
      /\ op'.name = op.name /\ op'.ino = op.ino /\ op'.todo = op.todo
  BY <1>1, OpTypes DEF IInv, Ops, Pcs, OpFacts
<1>4. /\ op.ino \in Inums /\ inode \in [Inums -> InodeRec] /\ inode'[op.ino] = NewInode(op.kind)
      /\ \A i \in Inums \ {op.ino} : inode'[i] = inode[i]
  BY <1>1, OpTypes DEF IInv, Types, InodesOK, OpFacts
<1>5. Types'
  BY <1>1, <1>2, <1>3, <1>4, NewInodeOK DEF IInv, Types, MapsOK, InodesOK, BlocksOK, OpOK
<1>6. SizesOK'
  BY <1>2, <1>4, NewInodeOK, SizeBound DEF IInv, SizesOK
<1>7. Reach' = Reach /\ TreeInv' /\ SameNames
  BY <1>1, <1>2, <1>4, <1>5, TreeUntouched, ReachTypes DEF IInv, TreeInv, UseInv, ReachFacts
<1>8. AddInv'
  BY <1>1, <1>2, <1>3, <1>4, <1>7, ReachTypes DEF AddInv, Adds, IInv, ReachFacts
<1>9. NameInv' /\ WriteInv' /\ LinkInv' /\ FreeInv'
  BY <1>3 DEF NameInv, WriteInv, Writes, LinkInv, FreeInv
<1> QED BY <1>5, <1>6, <1>7, <1>8, <1>9 DEF IInv, OpInv

\* A refused add_dentry keeps the invariant and all names.
LEMMA AddRefusedStep ==
  ASSUME IInv, AddRefused
  PROVE  IInv' /\ SameNames
<1>1. /\ op.pc = "add" /\ op' = [op EXCEPT !.pc = "free"]
      /\ ibit' = ibit /\ dbit' = dbit /\ inode' = inode /\ dents' = dents /\ ptrs' = ptrs
      /\ crashes' = crashes
  BY DEF AddRefused, image
<1>2. op.todo = <<>> /\ op.ino \notin Reach
  BY <1>1 DEF IInv, OpInv, AddInv, Adds
<1>3. op' \in Ops /\ op'.pc = "free" /\ op'.ino = op.ino /\ op'.todo = op.todo
  BY <1>1, OpTypes DEF IInv, Ops, Pcs, OpFacts
<1>4. Types'
  BY <1>1, <1>3 DEF IInv, Types, MapsOK, InodesOK, BlocksOK, OpOK
<1>5. SizesOK'
  BY <1>1 DEF IInv, SizesOK
<1>6. Reach' = Reach /\ TreeInv' /\ SameNames
  BY <1>1, <1>4, TreeUntouched DEF IInv, TreeInv, UseInv
<1>7. AddInv' /\ NameInv' /\ WriteInv' /\ LinkInv'
  BY <1>3 DEF AddInv, Adds, NameInv, WriteInv, Writes, LinkInv
<1>8. FreeInv'
  <2>1. 1 .. Len(op'.todo) = {}
    BY <1>2, <1>3
  <2> QED BY <1>2, <1>3, <1>6, <2>1 DEF FreeInv
<1> QED BY <1>4, <1>5, <1>6, <1>7, <1>8 DEF IInv, OpInv

\* add_dentry that finds no hole keeps the invariant and all names.
LEMMA AddAtEndStep ==
  ASSUME IInv, AddAtEnd
  PROVE  IInv' /\ SameNames
<1> DEFINE n == Cardinality(Slots(op.dir))
<1>1. /\ op.pc = "add" /\ op.name \notin LongNames /\ op' = [op EXCEPT !.pc = "grow", !.at = n]
      /\ ibit' = ibit /\ dbit' = dbit /\ inode' = inode /\ dents' = dents /\ ptrs' = ptrs
      /\ crashes' = crashes
  BY DEF AddAtEnd, image
<1>2. /\ op.kind \in {"file", "dir"} /\ op.todo = <<>> /\ op.name # NoName
      /\ op.dir \in Reach /\ inode[op.dir].mode = "dir" /\ op.ino \in ibit /\ op.ino \notin Reach
      /\ inode[op.ino] = NewInode(op.kind)
  BY <1>1 DEF IInv, OpInv, AddInv, Adds
<1>3. n = inode[op.dir].size /\ n \in Nat /\ op.name \in Names
  BY <1>1, <1>2, SlotsFull, CellTypes, OpTypes, ReachTypes
     DEF IInv, TreeInv, OpFacts, CellFacts, ReachFacts, FullFacts
<1> HIDE DEF n
<1>4. /\ op' \in Ops /\ op'.pc = "grow" /\ op'.kind = op.kind /\ op'.dir = op.dir
      /\ op'.name = op.name /\ op'.ino = op.ino /\ op'.todo = op.todo /\ op'.at = n
  BY <1>1, <1>3, OpTypes DEF IInv, Ops, Pcs, OpFacts
<1>5. Types'
  BY <1>1, <1>4 DEF IInv, Types, MapsOK, InodesOK, BlocksOK, OpOK
<1>6. SizesOK'
  BY <1>1 DEF IInv, SizesOK
<1>7. Reach' = Reach /\ TreeInv' /\ SameNames
  BY <1>1, <1>5, TreeUntouched DEF IInv, TreeInv, UseInv
<1>8. AddInv'
  BY <1>1, <1>2, <1>3, <1>4, <1>7 DEF AddInv, Adds
<1>9. NameInv' /\ WriteInv' /\ LinkInv' /\ FreeInv'
  BY <1>2, <1>4 DEF NameInv, WriteInv, Writes, LinkInv, FreeInv
<1> QED BY <1>5, <1>6, <1>7, <1>8, <1>9 DEF IInv, OpInv
\* The number stored in a hole adds one entry to the tree.
LEMMA AddInHoleStep ==
  ASSUME IInv, AddInHole, NEW d, d = op.dir, NEW n, n = op.ino
  PROVE  IInv' /\ \E k : TreeGains(d, k, n) /\ op'.at = k
<1>d. d = op.dir
  OBVIOUS
<1>k. PICK k : k = Stop
  OBVIOUS
<1>e. PICK e : e = [Dentry(d, k) EXCEPT !.num = op.ino]
  OBVIOUS
<1>1. /\ op.pc = "add" /\ op.name \notin LongNames /\ k # None /\ Dentry(d, k).num = 0
      /\ SetDentry(d, k, e) /\ op' = [op EXCEPT !.pc = "name", !.at = k]
      /\ ibit' = ibit /\ dbit' = dbit /\ inode' = inode /\ ptrs' = ptrs /\ crashes' = crashes
  BY <1>d, <1>k, <1>e DEF AddInHole
<1>2. /\ op.kind \in {"file", "dir"} /\ op.todo = <<>> /\ op.name # NoName
      /\ d \in Reach /\ inode[d].mode = "dir" /\ op.ino \in ibit /\ op.ino \notin Reach
      /\ inode[op.ino] = NewInode(op.kind)
  BY <1>d, <1>1 DEF IInv, OpInv, AddInv, Adds
<1>3. d \in Inums /\ op.ino \in Inums /\ op.ino # 0 /\ op.name \in Names
  BY <1>d, <1>1, <1>2, OpTypes, ReachTypes DEF IInv, OpFacts, ReachFacts
<1>4. k \in Slots(d) /\ k \in Nat /\ BlockAt(d, k \div DPB) # 0
  <2> DEFINE S == {j \in Slots(d) : Dentry(d, j).num = 0 \/ Dentry(d, j).name = op.name}
  <2>1. \A j \in Slots(d) : j \in Nat /\ BlockAt(d, j \div DPB) # 0
    BY <1>3, EntryTypes DEF IInv, EntryFacts
  <2>2. S \in SUBSET Nat /\ k = First(S)
    BY <1>d, <1>k, <2>1 DEF Stop
  <2> HIDE DEF S
  <2>3. k \in S
    BY <1>1, <2>2, FirstIs
  <2> USE DEF S
  <2> QED BY <2>1, <2>3
<1>5. Dentry(d, k) \in DentryRec /\ e \in DentryRec /\ e.num = op.ino
  <2>1. Dentry(d, k) \in DentryRec
    BY <1>3, <1>4, EntryTypes DEF IInv, EntryFacts
  <2> QED BY <1>e, <1>3, <2>1 DEF DentryRec
<1>6. /\ op' \in Ops /\ op'.pc = "name" /\ op'.kind = op.kind /\ op'.dir = d
      /\ op'.name = op.name /\ op'.ino = op.ino /\ op'.todo = op.todo /\ op'.at = k
  BY <1>d, <1>1, <1>4, OpTypes DEF IInv, Ops, Pcs, OpFacts
<1>7. Types'
  <2>1. dents' \in [Blocks -> [0 .. DPB - 1 -> DentryRec]]
    <3>1. dents \in [Blocks -> [0 .. DPB - 1 -> DentryRec]]
      BY DEF IInv, Types, BlocksOK
    <3> QED BY <1>1, <1>5, <3>1 DEF SetDentry
  <2> QED BY <1>1, <1>6, <2>1 DEF IInv, Types, MapsOK, InodesOK, BlocksOK, OpOK
<1>8. SizesOK'
  BY <1>1 DEF IInv, SizesOK
<1>9. /\ \A i \in Reach : SameCells(i) /\ Slots(i)' = Slots(i)
      /\ Dentry(d, k)' = e
      /\ \A i \in Reach, j \in Nat :
           BlockAt(i, j \div DPB) # 0 /\ (i # d \/ j # k) => Dentry(i, j)' = Dentry(i, j)
      /\ \A i \in Reach : \A bi \in Nat : BlockAt(i, bi)' = BlockAt(i, bi)
  BY <1>1, <1>2, <1>4, <1>7, StoreEntry DEF IInv, TreeInv
<1>10. \A i \in Reach : \A j \in Slots(i) :
         i # d \/ j # k => Dentry(i, j)' = Dentry(i, j)
  <2>1. \A i \in Reach : \A j \in Slots(i) : j \in Nat /\ BlockAt(i, j \div DPB) # 0
    BY EntryTypes, ReachTypes DEF IInv, EntryFacts, ReachFacts
  <2> QED BY <1>9, <2>1
<1>11. k \notin Live(d) /\ Live(d)' = Live(d) \cup {k}
  <2>1. Live(d)' = {j \in Slots(d) : Dentry(d, j)'.num # 0}
    BY <1>2, <1>6, <1>9 DEF Live
  <2> QED BY <1>1, <1>2, <1>3, <1>4, <1>5, <1>9, <1>10, <2>1 DEF Live
<1>12. /\ Reach' = Reach \cup {op.ino} /\ TreeInv'
  <2>1. \A i \in Reach \ {d} : SameSlots(i)
    BY <1>9, <1>10 DEF SameSlots
  <2>2. \A j \in Live(d) : Dentry(d, j)'.num = Dentry(d, j).num
    BY <1>2, <1>10, <1>11 DEF Live
  <2>3. \A j \in 0 .. inode'[d].size - 1 : BlockAt(d, j \div DPB)' # 0
    <3>1. inode[d].size \in Nat
      BY <1>3, CellTypes DEF IInv, CellFacts
    <3>2. \A j \in 0 .. inode[d].size - 1 : j \in Nat /\ BlockAt(d, j \div DPB) # 0
      BY <1>2, <3>1 DEF IInv, TreeInv, UseInv
    <3>3. \A j \in 0 .. inode[d].size - 1 : j \div DPB \in Nat
      BY <3>2, DivMod
    <3> QED BY <1>1, <1>2, <1>9, <3>2, <3>3
  <2> QED BY <1>1, <1>2, <1>3, <1>5, <1>7, <1>9, <1>11, <2>1, <2>2, <2>3, TreeAdded DEF IInv
<1>13. NameInv'
  BY <1>1, <1>2, <1>3, <1>4, <1>5, <1>6, <1>9, <1>12 DEF NameInv
<1>14. AddInv' /\ WriteInv' /\ LinkInv' /\ FreeInv'
  BY <1>2, <1>6 DEF AddInv, Adds, WriteInv, Writes, LinkInv, FreeInv
<1>15. TreeGains(d, k, n)
  <2>1. \A i \in Reach : inode'[i].mode = inode[i].mode
    BY <1>1
  <2>2. \A i \in Reach : inode[i].mode = "dir" =>
          /\ i # d => Live(i)' = Live(i)
          /\ \A j \in Live(i) : Dentry(i, j)' = Dentry(i, j)
    <3>1. \A i \in Reach \ {d} : SameSlots(i)
      BY <1>9, <1>10 DEF SameSlots
    <3>2. \A i \in Reach \ {d} : Live(i)' = Live(i)
      BY <3>1 DEF SameSlots, Live
    <3>3. \A i \in Reach : \A j \in Live(i) : j \in Slots(i)
      BY DEF Live
    <3> QED BY <1>10, <1>11, <3>2, <3>3
  <2>3. inode'[n].mode \in {"file", "dir"} /\ Live(n)' = {}
    <3>1. n \in Inums /\ inode'[n].mode = op.kind /\ inode'[n].size = 0
      BY <1>1, <1>2, <1>3, NewInodeOK
    <3>2. Slots(n)' = {}
      BY <1>7, <3>1, EntryNext DEF EntryFacts
    <3> QED BY <1>2, <3>1, <3>2 DEF Live
  <2> QED BY <1>2, <1>3, <1>5, <1>9, <1>11, <1>12, <2>1, <2>2, <2>3 DEF TreeGains
<1> QED BY <1>6, <1>7, <1>8, <1>12, <1>13, <1>14, <1>15 DEF IInv, OpInv

\* The number stored past the end keeps the invariant and all names.
LEMMA AppendNumStep ==
  ASSUME IInv, AppendNum
  PROVE  IInv' /\ SameNames
<1> DEFINE d == op.dir
           e == [Dentry(d, op.at) EXCEPT !.num = op.ino]
<1>1. /\ op.pc = "grow" /\ op.kind # "write" /\ BlockAt(d, op.at \div DPB) # 0
      /\ SetDentry(d, op.at, e) /\ op' = [op EXCEPT !.pc = "lastname"]
      /\ ibit' = ibit /\ dbit' = dbit /\ inode' = inode /\ ptrs' = ptrs /\ crashes' = crashes
  BY DEF AppendNum
<1>2. /\ op.kind \in {"file", "dir"} /\ op.todo = <<>> /\ op.name # NoName /\ op.name \in Names
      /\ d \in Reach /\ inode[d].mode = "dir" /\ op.ino \in ibit /\ op.ino \notin Reach
      /\ inode[op.ino] = NewInode(op.kind) /\ op.at = inode[d].size
  BY <1>1 DEF IInv, OpInv, AddInv, Adds
<1>3. d \in Inums /\ op.ino \in Inums /\ op.at \in Nat
  BY OpTypes DEF IInv, OpFacts
<1>4. e \in DentryRec /\ e.num = op.ino
  <2>1. Dentry(d, op.at) \in DentryRec
    BY <1>1, <1>3, EntryTypes DEF IInv, EntryFacts
  <2> QED BY <1>3, <2>1 DEF DentryRec
<1> HIDE DEF e
<1>5. /\ op' \in Ops /\ op'.pc = "lastname" /\ op'.kind = op.kind /\ op'.dir = d
      /\ op'.name = op.name /\ op'.ino = op.ino /\ op'.todo = op.todo /\ op'.at = op.at
  BY <1>1, OpTypes DEF IInv, Ops, Pcs, OpFacts
<1>6. Types'
  <2>1. dents' \in [Blocks -> [0 .. DPB - 1 -> DentryRec]]
    <3>1. dents \in [Blocks -> [0 .. DPB - 1 -> DentryRec]]
      BY DEF IInv, Types, BlocksOK
    <3> QED BY <1>1, <1>4, <3>1 DEF SetDentry
  <2> QED BY <1>1, <1>5, <2>1 DEF IInv, Types, MapsOK, InodesOK, BlocksOK, OpOK
<1>7. SizesOK'
  BY <1>1 DEF IInv, SizesOK
<1>8. op.at \notin Slots(d) /\ op.at \notin Live(d)
  <2>1. Slots(d) \subseteq 0 .. op.at - 1 /\ Live(d) \subseteq Slots(d)
    BY <1>2, <1>3, EntryTypes DEF IInv, EntryFacts
  <2> QED BY <1>3, <2>1
<1>9. /\ Reach' = Reach /\ TreeInv' /\ SameNames /\ Dentry(d, op.at)' = e
      /\ \A bi \in Nat : BlockAt(d, bi)' = BlockAt(d, bi)
  BY <1>1, <1>2, <1>3, <1>6, <1>8, EntryKept DEF IInv
<1>10. AddInv'
  <2>1. op.at \div DPB \in Nat
    BY <1>3, DivMod
  <2>2. BlockAt(d, op.at \div DPB)' # 0
    BY <1>1, <1>9, <2>1
  <2>3. BlockAt(op.dir, op.at \div DPB)' # 0 /\ Dentry(op.dir, op.at)'.num = op'.ino
    BY <1>4, <1>5, <1>9, <2>2
  <2> QED BY <1>1, <1>2, <1>5, <1>9, <2>3 DEF AddInv, Adds
<1>11. NameInv' /\ WriteInv' /\ LinkInv' /\ FreeInv'
  BY <1>2, <1>5 DEF NameInv, WriteInv, Writes, LinkInv, FreeInv
<1> QED BY <1>6, <1>7, <1>9, <1>10, <1>11 DEF IInv, OpInv
\* The name stored in a hole names that entry.
LEMMA NameHoleStep ==
  ASSUME IInv, NameHole, NEW d, d = op.dir, NEW k, k = op.at, NEW name, name = op.name
  PROVE  IInv' /\ TreeNames(d, k, name)
<1>e. PICK e : e = [Dentry(d, k) EXCEPT !.name = name]
  OBVIOUS
<1>1. /\ op.pc = "name" /\ SetDentry(d, k, e) /\ op' = Idle
      /\ ibit' = ibit /\ dbit' = dbit /\ inode' = inode /\ ptrs' = ptrs /\ crashes' = crashes
  BY <1>e DEF NameHole
<1>2. /\ d \in Reach /\ inode[d].mode = "dir" /\ k \in Slots(d) /\ Dentry(d, k).num # 0
      /\ name \in Names /\ d \in Inums /\ k \in Nat
  BY <1>1, OpTypes DEF IInv, OpInv, NameInv, OpFacts
<1>3. BlockAt(d, k \div DPB) # 0 /\ Dentry(d, k) \in DentryRec
  BY <1>2, EntryTypes DEF IInv, EntryFacts
<1>4. e \in DentryRec /\ e.num = Dentry(d, k).num /\ e.name = name
  BY <1>e, <1>2, <1>3 DEF DentryRec
<1>5. Types'
  <2>1. dents' \in [Blocks -> [0 .. DPB - 1 -> DentryRec]]
    <3>1. dents \in [Blocks -> [0 .. DPB - 1 -> DentryRec]]
      BY DEF IInv, Types, BlocksOK
    <3> QED BY <1>1, <1>4, <3>1 DEF SetDentry
  <2> QED BY <1>1, <2>1, IdleOK DEF IInv, Types, MapsOK, InodesOK, BlocksOK, OpOK
<1>6. SizesOK'
  BY <1>1 DEF IInv, SizesOK
<1>7. /\ Reach' = Reach /\ TreeInv' /\ Dentry(d, k)' = e
      /\ \A i \in Reach : inode[i].mode = "dir" => Live(i)' = Live(i)
      /\ \A i \in Reach : \A j \in Live(i) : (i # d \/ j # k) => Dentry(i, j)' = Dentry(i, j)
  BY <1>1, <1>2, <1>3, <1>4, <1>5, EntryKept DEF IInv
<1>8. TreeNames(d, k, name)
  BY <1>1, <1>2, <1>4, <1>7 DEF TreeNames, Live
<1> QED BY <1>1, <1>5, <1>6, <1>7, <1>8, AtRest DEF IInv

\* The name stored past the end keeps the invariant and all names.
LEMMA NameLastStep ==
  ASSUME IInv, NameLast
  PROVE  IInv' /\ SameNames /\ Dentry(op.dir, op.at)'.name = op'.name
<1>d. PICK d : d = op.dir
  OBVIOUS
<1>e. PICK e : e = [Dentry(d, op.at) EXCEPT !.name = op.name]
  OBVIOUS
<1>1. /\ op.pc = "lastname" /\ SetDentry(d, op.at, e) /\ op' = [op EXCEPT !.pc = "size"]
      /\ ibit' = ibit /\ dbit' = dbit /\ inode' = inode /\ ptrs' = ptrs /\ crashes' = crashes
  BY <1>d, <1>e DEF NameLast
<1>2. /\ op.kind \in {"file", "dir"} /\ op.todo = <<>> /\ op.name # NoName /\ op.name \in Names
      /\ d \in Reach /\ inode[d].mode = "dir" /\ op.ino \in ibit /\ op.ino \notin Reach
      /\ inode[op.ino] = NewInode(op.kind) /\ op.at = inode[d].size
      /\ BlockAt(d, op.at \div DPB) # 0 /\ Dentry(d, op.at).num = op.ino
  BY <1>d, <1>1 DEF IInv, OpInv, AddInv, Adds
<1>3. d \in Inums /\ op.at \in Nat /\ Dentry(d, op.at) \in DentryRec
  BY <1>d, <1>2, OpTypes, EntryTypes DEF IInv, OpFacts, EntryFacts
<1>4. e \in DentryRec /\ e.num = op.ino /\ e.name = op.name
  BY <1>e, <1>2, <1>3 DEF DentryRec
<1>5. /\ op' \in Ops /\ op'.pc = "size" /\ op'.kind = op.kind /\ op'.dir = d
      /\ op'.name = op.name /\ op'.ino = op.ino /\ op'.todo = op.todo /\ op'.at = op.at
  BY <1>d, <1>1, OpTypes DEF IInv, Ops, Pcs, OpFacts
<1>6. Types'
  <2>1. dents' \in [Blocks -> [0 .. DPB - 1 -> DentryRec]]
    <3>1. dents \in [Blocks -> [0 .. DPB - 1 -> DentryRec]]
      BY DEF IInv, Types, BlocksOK
    <3> QED BY <1>1, <1>4, <3>1 DEF SetDentry
  <2> QED BY <1>1, <1>5, <2>1 DEF IInv, Types, MapsOK, InodesOK, BlocksOK, OpOK
<1>7. SizesOK'
  BY <1>1 DEF IInv, SizesOK
<1>8. /\ Reach' = Reach /\ TreeInv' /\ SameNames /\ Dentry(d, op.at)' = e
      /\ \A bi \in Nat : BlockAt(d, bi)' = BlockAt(d, bi)
  <2>1. op.at \notin Live(d)
    <3>1. Slots(d) \subseteq 0 .. op.at - 1 /\ Live(d) \subseteq Slots(d)
      BY <1>2, <1>3, EntryTypes DEF IInv, EntryFacts
    <3> QED BY <1>3, <3>1
  <2> QED BY <1>1, <1>2, <1>3, <1>4, <1>6, <2>1, EntryKept DEF IInv
<1>9. AddInv'
  <2>1. op.at \div DPB \in Nat
    BY <1>3, DivMod
  <2>2. BlockAt(d, op.at \div DPB)' # 0
    BY <1>2, <1>5, <1>8, <2>1
  <2>3. BlockAt(op.dir, op.at \div DPB)' # 0 /\ Dentry(op.dir, op.at)'.num = op'.ino
    BY <1>d, <1>4, <1>5, <1>8, <2>2
  <2> QED BY <1>1, <1>2, <1>5, <1>8, <2>3 DEF AddInv, Adds
<1>10. NameInv' /\ WriteInv' /\ LinkInv' /\ FreeInv'
  BY <1>2, <1>5 DEF NameInv, WriteInv, Writes, LinkInv, FreeInv
<1>11. Dentry(op.dir, op.at)'.name = op'.name
  BY <1>4, <1>5, <1>8
<1> QED BY <1>6, <1>7, <1>8, <1>9, <1>10, <1>11 DEF IInv, OpInv

\* An inode with a new size is an inode.
LEMMA Resized ==
  ASSUME NEW q \in InodeRec, NEW m \in Nat, NEW r, r = [q EXCEPT !.size = m]
  PROVE  /\ r \in InodeRec /\ r.mode = q.mode /\ r.size = m
         /\ r.nlinks = q.nlinks /\ r.blocks = q.blocks
BY DEF InodeRec

\* The new size of the directory adds its last entry to the tree.
LEMMA GrowDirStep ==
  ASSUME IInv, GrowDir, NEW d, d = op.dir, NEW n, n = op.ino, NEW k, k = op.at
  PROVE  IInv' /\ TreeGains(d, k, n) /\ Dentry(d, k)' = Dentry(d, k)
<1>1. /\ op.pc = "size" /\ inode' = [inode EXCEPT ![d].size = @ + 1] /\ op' = Idle
      /\ ibit' = ibit /\ dbit' = dbit /\ dents' = dents /\ ptrs' = ptrs /\ crashes' = crashes
  BY DEF GrowDir
<1>2. /\ op.kind \in {"file", "dir"} /\ d \in Reach /\ inode[d].mode = "dir"
      /\ n \in ibit /\ n \notin Reach /\ inode[n] = NewInode(op.kind) /\ k = inode[d].size
      /\ BlockAt(d, k \div DPB) # 0 /\ Dentry(d, k).num = n
  BY <1>1 DEF IInv, OpInv, AddInv, Adds
<1>3. d \in Inums /\ n \in Inums /\ k \in Nat /\ n # d /\ n # 0
  BY <1>2, OpTypes, ReachTypes DEF IInv, OpFacts, ReachFacts
<1>4. /\ inode' \in [Inums -> InodeRec]
      /\ inode'[d].mode = "dir" /\ inode'[d].size = k + 1 /\ inode'[d].nlinks = inode[d].nlinks
      /\ inode'[d].blocks = inode[d].blocks
      /\ \A i \in Inums \ {d} : inode'[i] = inode[i]
  <2>1. inode \in [Inums -> InodeRec] /\ inode[d] \in InodeRec
    BY <1>3 DEF IInv, Types, InodesOK
  <2>q. PICK q : q = inode[d]
    OBVIOUS
  <2>2. PICK r : r = [q EXCEPT !.size = k + 1]
    OBVIOUS
  <2>3. /\ r \in InodeRec /\ r.mode = inode[d].mode /\ r.size = k + 1
        /\ r.nlinks = inode[d].nlinks /\ r.blocks = inode[d].blocks
    <3>1. q \in InodeRec
      BY <2>1, <2>q
    <3>2. /\ r \in InodeRec /\ r.mode = q.mode /\ r.size = k + 1
          /\ r.nlinks = q.nlinks /\ r.blocks = q.blocks
      BY <1>3, <2>2, <3>1, Resized
    <3> QED BY <2>q, <3>2
  <2>4. inode' = [inode EXCEPT ![d] = r]
    BY <1>1, <1>2, <2>q, <2>2
  <2>5. inode'[d] = r /\ \A i \in Inums \ {d} : inode'[i] = inode[i]
    BY <1>3, <2>1, <2>4
  <2>6. inode' \in [Inums -> InodeRec]
    BY <1>3, <2>1, <2>3, <2>4
  <2> QED BY <1>2, <2>3, <2>5, <2>6
<1>5. Types'
  BY <1>1, <1>4, IdleOK DEF IInv, Types, MapsOK, InodesOK, BlocksOK, OpOK
<1>6. SizesOK'
  <2>1. k \div DPB \in Nat /\ k \div DPB < MaxFile
    <3>1. k \div DPB \in Nat
      BY <1>3, DivMod
    <3>2. k \div DPB >= MaxFile => BlockAt(d, k \div DPB) = 0
      BY <1>3, <3>1, BlockIsCell DEF IInv, BlockFacts
    <3> QED BY <1>2, <3>1, <3>2, Bounds
  <2>2. k + 1 <= MaxFile * DPB
    BY <1>3, <2>1, DivMod, Bounds
  <2> QED BY <1>3, <1>4, <2>2 DEF IInv, SizesOK
<1>7. \A i \in Reach : /\ SameCells(i)
                       /\ \A bi \in Nat : BlockAt(i, bi)' = BlockAt(i, bi)
                       /\ i # d => Slots(i)' = Slots(i)
  <2>1. ASSUME NEW i \in Reach
        PROVE  /\ SameCells(i) /\ \A bi \in Nat : BlockAt(i, bi)' = BlockAt(i, bi)
               /\ i # d => Slots(i)' = Slots(i)
    <3>1. i \in Inums /\ inode'[i].blocks = inode[i].blocks
      BY <1>4, ReachTypes DEF IInv, ReachFacts
    <3>2. SameCells(i)
      BY <1>1, <3>1, SameCellsOf DEF IInv
    <3>3. \A bi \in Nat : BlockAt(i, bi)' = BlockAt(i, bi)
      BY <1>1, <3>1 DEF BlockAt
    <3>4. i # d => Slots(i)' = Slots(i)
      BY <1>4, <1>5, <3>1, <3>2, SameSlotsOf DEF IInv
    <3> QED BY <3>2, <3>3, <3>4
  <2> QED BY <2>1
<1>8. \A i \in Reach, j \in Nat : Dentry(i, j)' = Dentry(i, j)
  <2>1. ASSUME NEW i \in Reach, NEW j \in Nat PROVE Dentry(i, j)' = Dentry(i, j)
    <3>1. BlockAt(i, j \div DPB)' = BlockAt(i, j \div DPB)
      BY <1>7, DivMod
    <3> QED BY <1>1, <3>1 DEF Dentry
  <2> QED BY <2>1
<1>9. \A j \in 0 .. inode'[d].size - 1 : BlockAt(d, j \div DPB)' # 0
  <2>1. ASSUME NEW j \in 0 .. k PROVE BlockAt(d, j \div DPB)' # 0
    <3>1. j \div DPB \in Nat /\ (j = k \/ j \in 0 .. inode[d].size - 1)
      <4>1. j \in Nat /\ (j = k \/ j \in 0 .. k - 1)
        BY <1>3
      <4> QED BY <1>2, <4>1, DivMod
    <3>2. BlockAt(d, j \div DPB) # 0
      BY <1>2, <3>1 DEF IInv, TreeInv, UseInv
    <3> QED BY <1>2, <1>7, <3>1, <3>2
  <2> QED BY <1>3, <1>4, <2>1
<1>10. Slots(d) = 0 .. k - 1 /\ Slots(d)' = 0 .. k
  <2>1. Slots(d) = 0 .. k - 1
    BY <1>2, SlotsFull DEF IInv, TreeInv, FullFacts
  <2>2. Slots(d)' = {m \in 0 .. k : \A j \in 0 .. m : BlockAt(d, j \div DPB)' # 0}
    BY <1>3, <1>4 DEF Slots
  <2>3. \A m \in 0 .. k : \A j \in 0 .. m : BlockAt(d, j \div DPB)' # 0
    <3>1. \A m \in 0 .. k : \A j \in 0 .. m : j \in 0 .. inode'[d].size - 1
      BY <1>3, <1>4
    <3> QED BY <1>9, <3>1
  <2> QED BY <2>1, <2>2, <2>3
<1>11. k \notin Live(d) /\ Live(d)' = Live(d) \cup {k}
  <2>1. Live(d) = {j \in Slots(d) : Dentry(d, j).num # 0}
    BY DEF Live
  <2>2. Live(d)' = {j \in 0 .. k : Dentry(d, j)'.num # 0}
    BY <1>10 DEF Live
  <2>3. \A j \in 0 .. k : j \in Nat /\ Dentry(d, j)' = Dentry(d, j)
    BY <1>2, <1>3, <1>8
  <2>4. 0 .. k = (0 .. k - 1) \cup {k} /\ k \notin 0 .. k - 1 /\ Slots(d) = 0 .. k - 1
    BY <1>3, <1>10
  <2>5. Live(d)' = {j \in 0 .. k : Dentry(d, j).num # 0}
    BY <2>2, <2>3
  <2> QED BY <1>2, <1>3, <2>1, <2>4, <2>5
<1>12. TreeInv' /\ Reach' = Reach \cup {n}
  <2>1. \A i \in Reach \ {d} : SameSlots(i)
    <3>1. \A i \in Reach : \A j \in Slots(i) : j \in Nat
      BY EntryTypes, ReachTypes DEF IInv, EntryFacts, ReachFacts
    <3> QED BY <1>7, <1>8, <3>1 DEF SameSlots
  <2>2. \A j \in Live(d) : Dentry(d, j)'.num = Dentry(d, j).num
    <3>1. \A j \in Live(d) : j \in Nat
      BY <1>3, EntryTypes DEF IInv, EntryFacts
    <3> QED BY <1>2, <1>8, <3>1
  <2>3. Dentry(d, k)'.num = n
    BY <1>2, <1>3, <1>8
  <2>4. inode'[n] = NewInode(op.kind)
    BY <1>2, <1>3, <1>4
  <2>5. \A i \in Reach : inode'[i].mode = inode[i].mode /\ inode'[i].nlinks = inode[i].nlinks
    BY <1>2, <1>4, ReachTypes DEF IInv, ReachFacts
  <2>6. \A i \in Reach \ {d} : inode'[i].size = inode[i].size
    BY <1>4, ReachTypes DEF IInv, ReachFacts
  <2>7. \A i \in Reach : SameCells(i)
    BY <1>7
  <2> QED BY <1>1, <1>2, <1>3, <1>5, <1>9, <1>11, <2>1, <2>2, <2>3, <2>4, <2>5, <2>6, <2>7, TreeAdded, SMTT(30) DEF IInv
<1>13. TreeGains(d, k, n)
  <2>1. \A i \in Reach : inode'[i].mode = inode[i].mode
    BY <1>2, <1>4, ReachTypes DEF IInv, ReachFacts
  <2>2. \A i \in Reach : \A j \in Live(i) : j \in Nat /\ Dentry(i, j)' = Dentry(i, j)
    <3>1. \A i \in Reach : \A j \in Live(i) : j \in Nat
      BY EntryTypes, ReachTypes DEF IInv, EntryFacts, ReachFacts
    <3> QED BY <1>8, <3>1
  <2>3. \A i \in Reach \ {d} : Live(i)' = Live(i)
    <3>1. \A i \in Reach : \A j \in Slots(i) : j \in Nat
      BY EntryTypes, ReachTypes DEF IInv, EntryFacts, ReachFacts
    <3> QED BY <1>7, <1>8, <3>1 DEF Live
  <2>4. inode'[n].mode \in {"file", "dir"} /\ Live(n)' = {}
    <3>1. inode'[n].mode = op.kind /\ inode'[n].size = 0
      BY <1>2, <1>3, <1>4, NewInodeOK
    <3>2. Slots(n)' = {}
      BY <1>3, <1>5, <3>1, EntryNext DEF EntryFacts
    <3> QED BY <1>2, <3>1, <3>2 DEF Live
  <2>5. Dentry(d, k)'.num = n
    BY <1>2, <1>3, <1>8
  <2> QED BY <1>2, <1>3, <1>11, <1>12, <2>1, <2>2, <2>3, <2>4, <2>5 DEF TreeGains
<1>14. Dentry(d, k)' = Dentry(d, k)
  BY <1>2, <1>3, <1>8
<1> QED BY <1>1, <1>5, <1>6, <1>12, <1>13, <1>14, AtRest DEF IInv
------------------------------------------------------------------------------
(* A block for a directory or a file *)

\* Who data_offset allocates for: the file written, or the directory of the new entry.
LEMMA TargetIs ==
  ASSUME IInv, op.pc \in {"grow", "link"}
  PROVE  /\ Target \in Reach /\ Target \in Inums /\ op.todo \in Seq(Blocks \cup {0})
         /\ op.kind = "write" => /\ Target = op.ino /\ op.ino \in Reach
                                 /\ inode[op.ino].mode = "file" /\ op.at < op.upto
         /\ op.kind # "write" =>
              /\ Target = op.dir /\ op.kind \in {"file", "dir"} /\ op.todo = <<>>
              /\ op.name # NoName /\ op.name \in Names /\ op.dir \in Reach
              /\ inode[op.dir].mode = "dir" /\ op.ino \in ibit /\ op.ino \notin Reach
              /\ inode[op.ino] = NewInode(op.kind) /\ op.at = inode[op.dir].size
<1>1. op.kind = "write" => op.ino \in Reach /\ inode[op.ino].mode = "file" /\ op.at < op.upto
  BY DEF IInv, OpInv, WriteInv, Writes
<1>2. op.kind # "write" =>
        /\ op.kind \in {"file", "dir"} /\ op.todo = <<>>
        /\ op.name # NoName /\ op.name \in Names /\ op.dir \in Reach
        /\ inode[op.dir].mode = "dir" /\ op.ino \in ibit /\ op.ino \notin Reach
        /\ inode[op.ino] = NewInode(op.kind) /\ op.at = inode[op.dir].size
  BY DEF IInv, OpInv, AddInv, Adds
<1> QED BY <1>1, <1>2, ReachTypes, OpTypes DEF Target, IInv, OpFacts, ReachFacts

(* What the handler knows is still so when its target has another block.   *)
LEMMA GrowsOn ==
  ASSUME IInv, op.pc \in {"grow", "link"}, Types', Reach' = Reach, ibit' = ibit,
         op'.pc \in {"grow", "link"}, op'.kind = op.kind, op'.dir = op.dir, op'.name = op.name,
         op'.ino = op.ino, op'.at = op.at, op'.upto = op.upto, op'.todo = op.todo,
         inode'[op.ino] = inode[op.ino] \/ op.kind = "write",
         \A i \in Reach : inode'[i].mode = inode[i].mode /\ inode'[i].size = inode[i].size
  PROVE  AddInv' /\ NameInv' /\ WriteInv' /\ FreeInv'
<1>1. AddInv'
  <2>1. CASE op.kind = "write"
    BY <2>1 DEF AddInv, Adds
  <2>2. CASE op.kind # "write"
    BY <2>2, TargetIs DEF AddInv, Adds
  <2> QED BY <2>1, <2>2
<1>2. WriteInv'
  BY TargetIs DEF WriteInv, Writes
<1> QED BY <1>1, <1>2 DEF NameInv, FreeInv

\* allocate_data_block keeps the invariant and all names.
LEMMA GrowAllocStep ==
  ASSUME IInv, GrowAlloc
  PROVE  IInv' /\ SameNames
<1>b. PICK b : b = Min(Blocks \ dbit)
  OBVIOUS
<1>1. /\ op.pc = "grow" /\ Missing \in {"direct", "indirect", "entry"} /\ Blocks \ dbit # {}
      /\ dbit' = dbit \cup {b} /\ dents' = [dents EXCEPT ![b] = ZeroDents]
      /\ ptrs' = [ptrs EXCEPT ![b] = ZeroPtrs] /\ op' = [op EXCEPT !.pc = "link", !.blk = b]
      /\ ibit' = ibit /\ inode' = inode /\ crashes' = crashes
  BY <1>b DEF GrowAlloc
<1>2. b \in Blocks /\ b \notin dbit /\ b # 0
  <2>1. Blocks \ dbit \in SUBSET Nat
    BY DEF Blocks
  <2> QED BY <1>b, <1>1, <2>1, MinNat, Bounds
<1>3. /\ op' \in Ops /\ op'.pc = "link" /\ op'.blk = b /\ op'.kind = op.kind /\ op'.dir = op.dir
      /\ op'.name = op.name /\ op'.ino = op.ino /\ op'.at = op.at /\ op'.upto = op.upto
      /\ op'.todo = op.todo
  BY <1>1, <1>2, OpTypes DEF IInv, Ops, Pcs, OpFacts
<1>4. /\ dents \in [Blocks -> [0 .. DPB - 1 -> DentryRec]]
      /\ ptrs \in [Blocks -> [0 .. PPB - 1 -> Blocks \cup {0}]]
      /\ ZeroDents \in [0 .. DPB - 1 -> DentryRec] /\ ZeroPtrs \in [0 .. PPB - 1 -> Blocks \cup {0}]
  <2>1. NoDentry \in DentryRec
    BY Bounds DEF NoDentry, DentryRec
  <2> QED BY <2>1 DEF IInv, Types, BlocksOK, ZeroDents, ZeroPtrs
<1>5. /\ dents' \in [Blocks -> [0 .. DPB - 1 -> DentryRec]] /\ dents'[b] = ZeroDents
      /\ ptrs' \in [Blocks -> [0 .. PPB - 1 -> Blocks \cup {0}]] /\ ptrs'[b] = ZeroPtrs
      /\ \A a \in Blocks \ {b} : dents'[a] = dents[a] /\ ptrs'[a] = ptrs[a]
  BY <1>1, <1>2, <1>4
<1>6. Types'
  BY <1>1, <1>2, <1>3, <1>5 DEF IInv, Types, MapsOK, InodesOK, BlocksOK, OpOK
<1>7. SizesOK'
  BY <1>1 DEF IInv, SizesOK
<1>8. Unheld(b)
  BY <1>2 DEF Unheld, IInv, TreeInv, CellInv
<1>9. /\ Reach' = Reach /\ TreeInv' /\ SameNames /\ Unheld(b)'
      /\ \A i \in Reach : \A bi \in Nat : BlockAt(i, bi)' = BlockAt(i, bi)
  BY <1>1, <1>5, <1>6, <1>8, TreeUntouched DEF IInv, TreeInv, UseInv
<1>10. AddInv' /\ NameInv' /\ WriteInv' /\ FreeInv'
  BY <1>1, <1>3, <1>6, <1>9, GrowsOn
<1>11. LinkInv'
  <2>1. Target' = Target /\ Index' = Index
    BY <1>3 DEF Target, Index
  <2>2. BlockAt(Target, Index)' = BlockAt(Target, Index)
    BY <1>1, <1>9, <2>1, TargetIs, MissingIs DEF IInv
  <2>3. Missing' = Missing
    BY <1>1, <2>1, <2>2 DEF Missing
  <2> QED BY <1>1, <1>3, <1>5, <1>9, <2>3 DEF LinkInv
<1> QED BY <1>6, <1>7, <1>9, <1>10, <1>11 DEF IInv, OpInv

(* One cell of the target, empty before, has the block.                    *)
LEMMA LinkOne ==
  ASSUME IInv, GrowLink, NEW t, t = Target, NEW blk, blk = op.blk
  PROVE  /\ inode' \in [Inums -> InodeRec] /\ ptrs' \in [Blocks -> [0 .. PPB - 1 -> Blocks \cup {0}]]
         /\ \A i \in Inums \ {t} : inode'[i] = inode[i]
         /\ inode'[t].mode = inode[t].mode /\ inode'[t].size = inode[t].size
         /\ inode'[t].nlinks = inode[t].nlinks
         /\ \A i \in Reach \ {t} : SameCells(i)
         /\ \E c0 \in Cells : /\ Cell(t, c0) = 0 /\ Cell(t, c0)' = blk
                              /\ \A c \in Cells \ {c0} : Cell(t, c)' = Cell(t, c)
<1>m. PICK m : m = Index
  OBVIOUS
<1>1. op.pc = "link"
  BY DEF GrowLink
<1>2. /\ blk \in Blocks /\ Unheld(blk) /\ ptrs[blk] = ZeroPtrs
      /\ Missing \in {"direct", "indirect", "entry"}
  <2>1. blk \in dbit
    BY <1>1 DEF IInv, OpInv, LinkInv
  <2>2. blk \in Blocks
    BY <2>1 DEF IInv, Types, MapsOK
  <2> QED BY <1>1, <2>2 DEF IInv, OpInv, LinkInv
<1>3. t \in Reach /\ t \in Inums /\ m \in Nat /\ NDirect \in 0 .. NDirect
  BY <1>m, <1>1, TargetIs, MissingIs, Bounds DEF IInv
<1>4. /\ inode \in [Inums -> InodeRec] /\ inode[t].blocks \in [0 .. NDirect -> Blocks \cup {0}]
      /\ ptrs \in [Blocks -> [0 .. PPB - 1 -> Blocks \cup {0}]]
  BY <1>3, CellTypes DEF IInv, Types, InodesOK, BlocksOK, CellFacts
(* The pointer in the inode, or its entry for the indirect block.          *)
<1>5. ASSUME NEW x \in 0 .. NDirect, inode' = [inode EXCEPT ![t].blocks[x] = blk], ptrs' = ptrs,
             inode[t].blocks[x] = 0
      PROVE  /\ inode' \in [Inums -> InodeRec] /\ \A i \in Inums \ {t} : inode'[i] = inode[i]
             /\ inode'[t].mode = inode[t].mode /\ inode'[t].size = inode[t].size
             /\ inode'[t].nlinks = inode[t].nlinks
             /\ \A i \in Reach \ {t} : SameCells(i)
             /\ Cell(t, x) = 0 /\ Cell(t, x)' = blk /\ x \in Cells
             /\ \A c \in Cells \ {x} : Cell(t, c)' = Cell(t, c)
  <2>q. PICK q : q = inode[t]
    OBVIOUS
  <2>p. PICK p : p = [q.blocks EXCEPT ![x] = blk]
    OBVIOUS
  <2>r. PICK r : r = [q EXCEPT !.blocks = p]
    OBVIOUS
  <2>1. q \in InodeRec /\ q.blocks \in [0 .. NDirect -> Blocks \cup {0}]
    BY <1>3, <1>4, <2>q
  <2>2. /\ p \in [0 .. NDirect -> Blocks \cup {0}] /\ p[x] = blk
        /\ \A c \in 0 .. NDirect : c # x => p[c] = q.blocks[c]
    BY <1>2, <2>1, <2>p
  <2>3. /\ r \in InodeRec /\ r.mode = q.mode /\ r.size = q.size /\ r.nlinks = q.nlinks
        /\ r.blocks = p
    BY <2>1, <2>2, <2>r DEF InodeRec
  <2>4. inode' = [inode EXCEPT ![t] = r]
    BY <1>5, <2>q, <2>p, <2>r
  <2>5. inode' \in [Inums -> InodeRec] /\ inode'[t] = r /\ \A i \in Inums \ {t} : inode'[i] = inode[i]
    BY <1>3, <1>4, <2>3, <2>4
  <2>6. \A i \in Reach \ {t} : SameCells(i)
    BY <1>5, <2>5, ReachTypes, SameCellsOf DEF IInv, ReachFacts
  <2>7. x <= NDirect /\ x \in Cells
    BY Bounds DEF Cells
  <2>8. Cell(t, x) = 0 /\ Cell(t, x)' = blk
    BY <1>5, <2>2, <2>3, <2>5, <2>7 DEF Cell
  <2>9. ASSUME NEW c \in Cells \ {x} PROVE Cell(t, c)' = Cell(t, c)
    <3>1. CASE c <= NDirect
      <4>1. c \in 0 .. NDirect
        BY <3>1, Bounds DEF Cells
      <4> QED BY <2>2, <2>3, <2>5, <2>q, <3>1, <4>1 DEF Cell
    <3>2. CASE ~ (c <= NDirect)
      <4>1. CASE x = NDirect
        <5>1. c - NDirect - 1 \in 0 .. PPB - 1
          BY <3>2, Bounds DEF Cells
        <5>2. ptrs'[blk][c - NDirect - 1] = 0
          BY <1>2, <1>5, <5>1 DEF ZeroPtrs
        <5>3. Cell(t, c)' = 0
          BY <1>2, <2>2, <2>3, <2>5, <3>2, <4>1, <5>2, Bounds DEF Cell
        <5> QED BY <1>5, <3>2, <4>1, <5>3 DEF Cell
      <4>2. CASE x # NDirect
        BY <1>3, <1>5, <2>2, <2>3, <2>5, <2>q, <3>2, <4>2 DEF Cell
      <4> QED BY <4>1, <4>2
    <3> QED BY <3>1, <3>2
  <2> QED BY <2>3, <2>5, <2>6, <2>7, <2>8, <2>9, <2>q
<1>6. CASE Missing = "direct"
  <2>1. inode' = [inode EXCEPT ![t].blocks[m] = blk] /\ ptrs' = ptrs
    BY <1>m, <1>6 DEF GrowLink
  <2>2. m \in 0 .. NDirect /\ m < NDirect /\ inode[t].blocks[m] = 0
    BY <1>m, <1>3, <1>6, MissingIs, Bounds DEF IInv, BlockAt
  <2> QED BY <1>4, <1>5, <2>1, <2>2
<1>7. CASE Missing = "indirect"
  <2>1. inode' = [inode EXCEPT ![t].blocks[NDirect] = blk] /\ ptrs' = ptrs
    BY <1>7 DEF GrowLink
  <2>2. inode[t].blocks[NDirect] = 0
    BY <1>7, MissingIs DEF IInv
  <2> QED BY <1>3, <1>4, <1>5, <2>1, <2>2
<1>8. CASE Missing = "entry"
  <2>i. PICK ind : ind = inode[t].blocks[NDirect]
    OBVIOUS
  <2>1. ptrs' = [ptrs EXCEPT ![ind][m - NDirect] = blk] /\ inode' = inode
    BY <1>m, <1>8, <2>i DEF GrowLink
  <2>2. /\ m >= NDirect /\ BlockAt(t, m) = 0 /\ ind # 0 /\ m - NDirect < PPB
    BY <1>m, <1>8, <2>i, MissingIs DEF IInv
  <2>3. ind \in Blocks /\ m - NDirect \in 0 .. PPB - 1 /\ m + 1 \in Cells
    BY <1>3, <1>4, <2>2, <2>i, Bounds DEF Cells
  <2>4. ptrs[ind][m - NDirect] = 0
    BY <1>3, <2>2, <2>3, <2>i, Bounds DEF BlockAt
  <2>5. /\ ptrs' \in [Blocks -> [0 .. PPB - 1 -> Blocks \cup {0}]]
        /\ \A a \in Blocks \ {ind} : ptrs'[a] = ptrs[a]
        /\ ptrs'[ind][m - NDirect] = blk
        /\ \A x \in 0 .. PPB - 1 : x # m - NDirect => ptrs'[ind][x] = ptrs[ind][x]
    BY <1>2, <1>4, <2>1, <2>3
  <2>6. \A i \in Reach \ {t} : SameCells(i)
    <3>1. ASSUME NEW i \in Reach \ {t} PROVE SameCells(i)
      <4>1. Cell(i, NDirect) = inode[i].blocks[NDirect] /\ NDirect \in Cells
            /\ Cell(t, NDirect) = ind
        BY <2>i, Bounds DEF Cell, Cells
      <4>2. inode[i].blocks[NDirect] # ind /\ i \in Inums
        BY <1>3, <2>2, <4>1, ReachTypes DEF IInv, TreeInv, CellInv, ReachFacts
      <4>3. inode[i].blocks[NDirect] \in Blocks \cup {0}
        BY <1>3, <4>2, CellTypes DEF IInv, CellFacts
      <4> QED BY <2>1, <2>5, <4>2, <4>3, SameCellsOf DEF IInv
    <3> QED BY <3>1
  <2>7. ~ (m + 1 <= NDirect) /\ (m + 1) - NDirect - 1 = m - NDirect
    BY <1>3, <2>2, Bounds
  <2>8. Cell(t, m + 1) = 0 /\ Cell(t, m + 1)' = blk
    BY <2>1, <2>2, <2>4, <2>5, <2>7, <2>i DEF Cell
  <2>9. ASSUME NEW c \in Cells \ {m + 1} PROVE Cell(t, c)' = Cell(t, c)
    <3>1. CASE c <= NDirect
      BY <2>1, <3>1 DEF Cell
    <3>2. CASE ~ (c <= NDirect)
      <4>1. c - NDirect - 1 \in 0 .. PPB - 1 /\ c - NDirect - 1 # m - NDirect
        BY <1>3, <3>2, Bounds DEF Cells
      <4>2. ptrs'[ind][c - NDirect - 1] = ptrs[ind][c - NDirect - 1]
        BY <2>5, <4>1
      <4> QED BY <2>1, <2>2, <2>i, <3>2, <4>2 DEF Cell
    <3> QED BY <3>1, <3>2
  <2> QED BY <1>4, <2>1, <2>3, <2>5, <2>6, <2>8, <2>9
<1> QED BY <1>2, <1>6, <1>7, <1>8
\* Linking the new block keeps the invariant and all names.
LEMMA GrowLinkStep ==
  ASSUME IInv, GrowLink
  PROVE  IInv' /\ SameNames
<1>t. PICK t : t = Target
  OBVIOUS
<1>b. PICK blk : blk = op.blk
  OBVIOUS
<1>1. /\ op.pc = "link" /\ op' = [op EXCEPT !.pc = "grow", !.blk = 0]
      /\ ibit' = ibit /\ dbit' = dbit /\ dents' = dents /\ crashes' = crashes
  BY DEF GrowLink
<1>2. /\ inode' \in [Inums -> InodeRec] /\ ptrs' \in [Blocks -> [0 .. PPB - 1 -> Blocks \cup {0}]]
      /\ \A i \in Inums \ {t} : inode'[i] = inode[i]
      /\ inode'[t].mode = inode[t].mode /\ inode'[t].size = inode[t].size
      /\ inode'[t].nlinks = inode[t].nlinks
      /\ \A i \in Reach \ {t} : SameCells(i)
      /\ \E c0 \in Cells : /\ Cell(t, c0) = 0 /\ Cell(t, c0)' = blk
                           /\ \A c \in Cells \ {c0} : Cell(t, c)' = Cell(t, c)
  BY <1>t, <1>b, LinkOne
<1>3. PICK c0 \in Cells : /\ Cell(t, c0) = 0 /\ Cell(t, c0)' = blk
                          /\ \A c \in Cells \ {c0} : Cell(t, c)' = Cell(t, c)
  BY <1>2
<1>4. blk \in dbit /\ Unheld(blk) /\ blk # 0
  BY <1>b, <1>1, Bounds DEF IInv, OpInv, LinkInv, Types, MapsOK
<1>5. t \in Reach /\ t \in Inums
  BY <1>t, <1>1, TargetIs
<1>6. /\ op' \in Ops /\ op'.pc = "grow" /\ op'.kind = op.kind /\ op'.dir = op.dir
      /\ op'.name = op.name /\ op'.ino = op.ino /\ op'.at = op.at /\ op'.upto = op.upto
      /\ op'.todo = op.todo
  BY <1>1, OpTypes DEF IInv, Ops, Pcs, OpFacts
<1>7. Types'
  BY <1>1, <1>2, <1>6 DEF IInv, Types, MapsOK, InodesOK, BlocksOK, OpOK
<1>8. SizesOK'
  BY <1>2 DEF IInv, SizesOK
<1>9. ASSUME NEW i \in Reach, NEW bi \in Nat, BlockAt(i, bi) # 0
      PROVE  BlockAt(i, bi)' = BlockAt(i, bi)
  <2>1. i \in Inums
    BY ReachTypes DEF IInv, ReachFacts
  <2>2. /\ ~ (bi >= MaxFile) /\ CellOf(bi) \in Cells /\ BlockAt(i, bi) = Cell(i, CellOf(bi))
    BY <1>9, <2>1, BlockIsCell, Bounds DEF IInv, BlockFacts
  <2>3. BlockAt(i, bi)' = Cell(i, CellOf(bi))'
    BY <1>7, <2>1, <2>2, BlockNext DEF MaxFile, CellOf, Inums, BlockFacts
  <2>4. Cell(i, CellOf(bi))' = Cell(i, CellOf(bi))
    BY <1>2, <1>3, <1>9, <2>2 DEF SameCells
  <2> QED BY <2>2, <2>3, <2>4
<1>10. LooksSame
  <2>1. ASSUME NEW i \in Reach, inode[i].mode = "dir" PROVE SameSlots(i)
    <3>1. i \in Inums /\ inode[i].size \in Nat /\ inode'[i].size = inode[i].size
      BY <1>2, ReachTypes, CellTypes DEF IInv, CellFacts, ReachFacts
    <3>2. Slots(i) = 0 .. inode[i].size - 1
      BY <2>1, SlotsFull DEF IInv, TreeInv, FullFacts
    <3>3. \A k \in Slots(i) : k \in Nat /\ k \div DPB \in Nat /\ BlockAt(i, k \div DPB) # 0
      BY <3>1, EntryTypes, DivMod DEF IInv, EntryFacts
    <3>4. \A k \in Slots(i) : BlockAt(i, k \div DPB)' = BlockAt(i, k \div DPB)
      BY <1>9, <3>3
    <3>5. Slots(i)' = {k \in 0 .. inode[i].size - 1 : \A j \in 0 .. k : BlockAt(i, j \div DPB)' # 0}
      BY <3>1 DEF Slots
    <3>6. \A k \in 0 .. inode[i].size - 1 : \A j \in 0 .. k : BlockAt(i, j \div DPB)' # 0
      <4>1. \A k \in 0 .. inode[i].size - 1 : \A j \in 0 .. k : j \in Slots(i)
        BY <3>1, <3>2
      <4> QED BY <3>3, <3>4, <4>1
    <3>7. Slots(i)' = Slots(i)
      BY <3>2, <3>5, <3>6
    <3>8. \A k \in Slots(i) : Dentry(i, k)' = Dentry(i, k)
      BY <1>1, <3>4 DEF Dentry
    <3> QED BY <3>7, <3>8 DEF SameSlots
  <2> QED BY <1>2, <2>1, ReachTypes DEF LooksSame, IInv, ReachFacts
<1>11. Reach' = Reach /\ UseInv' /\ EntryInv'
  BY <1>1, <1>7, <1>10, LooksKept DEF IInv, TreeInv, UseInv
<1>12. CellInv'
  <2>1. ASSUME NEW i \in Reach, NEW c \in Cells
        PROVE  \/ i = t /\ c = c0 /\ Cell(i, c)' = blk
               \/ Cell(i, c)' = Cell(i, c)
    BY <1>2, <1>3 DEF SameCells
  <2>2. \A i \in Reach, c \in Cells : Cell(i, c) # blk
    BY <1>4 DEF Unheld
  <2>3. \A i \in Reach, c \in Cells : Cell(i, c)' # 0 => Cell(i, c)' \in dbit
    BY <1>4, <2>1 DEF IInv, TreeInv, CellInv
  <2>4. \A i, j \in Reach, c, e \in Cells :
          Cell(i, c)' # 0 /\ Cell(i, c)' = Cell(j, e)' => i = j /\ c = e
    BY <1>4, <2>1, <2>2 DEF IInv, TreeInv, CellInv
  <2> QED BY <1>1, <1>11, <2>3, <2>4 DEF CellInv
<1>13. AddInv' /\ NameInv' /\ WriteInv' /\ FreeInv'
  <2>1. inode'[op.ino] = inode[op.ino] \/ op.kind = "write"
    BY <1>t, <1>1, <1>2, <1>5, TargetIs, OpTypes DEF IInv, OpFacts
  <2>2. \A i \in Reach : inode'[i].mode = inode[i].mode /\ inode'[i].size = inode[i].size
    BY <1>2, ReachTypes DEF IInv, ReachFacts
  <2> QED BY <1>1, <1>6, <1>7, <1>11, <2>1, <2>2, GrowsOn
<1>14. LinkInv'
  BY <1>6 DEF LinkInv
<1>15. SameNames
  <2>1. \A i \in Reach : inode[i].mode = "dir" => Live(i)' = Live(i)
    BY <1>1, <1>7, <1>10, LooksKept DEF IInv, TreeInv, UseInv
  <2>2. ASSUME NEW i \in Reach, NEW k \in Live(i) PROVE Dentry(i, k)' = Dentry(i, k)
    <3>1. k \in Nat /\ k \div DPB \in Nat /\ BlockAt(i, k \div DPB) # 0
      BY <2>2, ReachTypes, EntryTypes, DivMod DEF IInv, EntryFacts, ReachFacts
    <3>2. BlockAt(i, k \div DPB)' = BlockAt(i, k \div DPB)
      BY <1>9, <3>1
    <3> QED BY <1>1, <3>2 DEF Dentry
  <2> QED BY <1>10, <1>11, <2>1, <2>2 DEF SameNames, LooksSame
<1> QED BY <1>7, <1>8, <1>11, <1>12, <1>13, <1>14, <1>15 DEF IInv, TreeInv, OpInv

\* data_offset that fails keeps the invariant and all names.
LEMMA GrowFailStep ==
  ASSUME IInv, GrowFail
  PROVE  IInv' /\ SameNames
<1>1. /\ op.pc = "grow" /\ op' = IF op.kind = "write" THEN Idle ELSE [op EXCEPT !.pc = "free"]
      /\ ibit' = ibit /\ dbit' = dbit /\ inode' = inode /\ dents' = dents /\ ptrs' = ptrs
      /\ crashes' = crashes
  BY DEF GrowFail, image
<1>2. op' \in Ops
  BY <1>1, IdleOK, OpTypes DEF IInv, Ops, Pcs, OpFacts
<1>3. Types'
  BY <1>1, <1>2 DEF IInv, Types, MapsOK, InodesOK, BlocksOK, OpOK
<1>4. SizesOK'
  BY <1>1 DEF IInv, SizesOK
<1>5. Reach' = Reach /\ TreeInv' /\ SameNames
  BY <1>1, <1>3, TreeUntouched DEF IInv, TreeInv, UseInv
<1>6. OpInv'
  <2>1. CASE op.kind = "write"
    BY <1>1, <2>1, AtRest
  <2>2. CASE op.kind # "write"
    <3>1. op'.pc = "free" /\ op'.ino = op.ino /\ op'.todo = op.todo
      BY <1>1, <2>2, OpTypes DEF IInv, Ops, OpFacts
    <3>2. op.todo = <<>> /\ op.ino \notin Reach
      BY <1>1, <2>2, TargetIs
    <3>3. 1 .. Len(op'.todo) = {}
      BY <3>1, <3>2
    <3>4. FreeInv'
      BY <1>5, <3>1, <3>2, <3>3 DEF FreeInv
    <3> QED BY <3>1, <3>4 DEF OpInv, AddInv, Adds, NameInv, WriteInv, Writes, LinkInv
  <2> QED BY <2>1, <2>2
<1> QED BY <1>3, <1>4, <1>5, <1>6 DEF IInv

------------------------------------------------------------------------------
(* write *)

\* The start of wfs_write keeps the invariant and all names.
LEMMA WriteStep ==
  ASSUME IInv, NEW path \in Paths, NEW bi \in 0 .. MaxFile, NEW n \in 1 .. MaxWrite,
         Write(path, bi, n)
  PROVE  IInv' /\ SameNames
<1>i. PICK i : i = Lookup(path)
  OBVIOUS
<1>1. /\ i # None /\ inode[i].mode = "file"
      /\ op' = [Idle EXCEPT !.pc = "grow", !.kind = "write", !.ino = i, !.at = bi, !.upto = bi + n]
      /\ ibit' = ibit /\ dbit' = dbit /\ inode' = inode /\ dents' = dents /\ ptrs' = ptrs
      /\ crashes' = crashes
  BY <1>i DEF Write, IsFile, image
<1>2. i \in Reach /\ i \in Inums
  BY <1>i, <1>1, LookupIs, ReachTypes DEF IInv, ReachFacts
<1>3. bi \in Nat /\ bi + n \in Nat /\ bi < bi + n
  BY Bounds
<1>4. /\ op' \in Ops /\ op'.pc = "grow" /\ op'.kind = "write" /\ op'.ino = i /\ op'.at = bi
      /\ op'.upto = bi + n
  <2>1. <<>> \in Seq(Blocks \cup {0}) /\ 0 \in Inums
    BY Bounds
  <2> QED BY <1>1, <1>2, <1>3, <2>1 DEF Idle, Ops, Pcs, Kinds
<1>5. Types'
  BY <1>1, <1>4 DEF IInv, Types, MapsOK, InodesOK, BlocksOK, OpOK
<1>6. SizesOK'
  BY <1>1 DEF IInv, SizesOK
<1>7. Reach' = Reach /\ TreeInv' /\ SameNames
  BY <1>1, <1>5, TreeUntouched DEF IInv, TreeInv, UseInv
<1>8. WriteInv'
  BY <1>1, <1>2, <1>3, <1>4, <1>7 DEF WriteInv, Writes
<1>9. AddInv' /\ NameInv' /\ LinkInv' /\ FreeInv'
  BY <1>4 DEF AddInv, Adds, NameInv, LinkInv, FreeInv
<1> QED BY <1>5, <1>6, <1>7, <1>8, <1>9 DEF IInv, OpInv

\* The next block of wfs_write keeps the invariant and all names.
LEMMA WriteBlockStep ==
  ASSUME IInv, WriteBlock
  PROVE  IInv' /\ SameNames
<1>1. /\ op.pc = "grow" /\ op.kind = "write" /\ Missing = "nothing"
      /\ op' = [op EXCEPT !.at = @ + 1, !.pc = IF op.at + 1 = op.upto THEN "wsize" ELSE "grow"]
      /\ ibit' = ibit /\ dbit' = dbit /\ inode' = inode /\ dents' = dents /\ ptrs' = ptrs
      /\ crashes' = crashes
  BY DEF WriteBlock, image
<1>2. op.ino \in Reach /\ inode[op.ino].mode = "file" /\ op.at < op.upto /\ Target = op.ino
  BY <1>1, TargetIs
<1>3. op.at \in Nat /\ op.upto \in Nat /\ op.at < MaxFile
  <2>1. BlockAt(op.ino, op.at) # 0 /\ op.at \in Nat /\ op.ino \in Inums /\ op.upto \in Nat
    BY <1>1, <1>2, MissingIs, OpTypes DEF IInv, Index, OpFacts
  <2>2. ~ (op.at >= MaxFile)
    BY <2>1, BlockIsCell DEF IInv, BlockFacts
  <2> QED BY <2>1, <2>2, Bounds
<1>4. /\ op' \in Ops /\ op'.kind = "write" /\ op'.ino = op.ino /\ op'.at = op.at + 1
      /\ op'.upto = op.upto /\ op'.pc = IF op.at + 1 = op.upto THEN "wsize" ELSE "grow"
  <2>p. PICK p \in Pcs : p = IF op.at + 1 = op.upto THEN "wsize" ELSE "grow"
    BY DEF Pcs
  <2>a. PICK a \in Nat : a = op.at + 1
    BY <1>3
  <2>1. op' = [op EXCEPT !.at = a, !.pc = p]
    BY <1>1, <2>p, <2>a
  <2>2. /\ op' \in Ops /\ op'.kind = op.kind /\ op'.ino = op.ino /\ op'.at = a
        /\ op'.upto = op.upto /\ op'.pc = p
    BY <2>1, OpTypes DEF IInv, Ops, OpFacts
  <2> QED BY <1>1, <2>2, <2>p, <2>a
<1>5. Types'
  BY <1>1, <1>4 DEF IInv, Types, MapsOK, InodesOK, BlocksOK, OpOK
<1>6. SizesOK'
  BY <1>1 DEF IInv, SizesOK
<1>7. Reach' = Reach /\ TreeInv' /\ SameNames
  BY <1>1, <1>5, TreeUntouched DEF IInv, TreeInv, UseInv
<1>8. WriteInv'
  <2>1. op.upto <= MaxFile \/ op.at + 1 # op.upto
    BY <1>3, Bounds
  <2>2. op.at + 1 = op.upto \/ op.at + 1 < op.upto
    BY <1>2, <1>3
  <2> QED BY <1>1, <1>2, <1>4, <1>7, <2>1, <2>2 DEF WriteInv, Writes, MaxFile
<1>9. AddInv' /\ NameInv' /\ LinkInv' /\ FreeInv'
  BY <1>4 DEF AddInv, Adds, NameInv, LinkInv, FreeInv
<1> QED BY <1>5, <1>6, <1>7, <1>8, <1>9 DEF IInv, OpInv

\* The new size of a file keeps the invariant and all names.
LEMMA WriteSizeStep ==
  ASSUME IInv, WriteSize
  PROVE  IInv' /\ SameNames
<1>t. PICK t : t = op.ino
  OBVIOUS
<1>s. PICK s : s = Max({inode[t].size, op.upto})
  OBVIOUS
<1>1. /\ op.pc = "wsize" /\ inode' = [inode EXCEPT ![t].size = s] /\ op' = Idle
      /\ ibit' = ibit /\ dbit' = dbit /\ dents' = dents /\ ptrs' = ptrs /\ crashes' = crashes
  BY <1>t, <1>s DEF WriteSize
<1>2. t \in Reach /\ t \in Inums /\ inode[t].mode = "file" /\ op.upto <= MaxFile /\ op.upto \in Nat
  BY <1>t, <1>1, ReachTypes, OpTypes DEF IInv, OpInv, WriteInv, Writes, OpFacts, ReachFacts
<1>3. inode[t].size \in Nat /\ inode[t].size <= MaxFile * 1
  BY <1>2, CellTypes DEF IInv, SizesOK, CellFacts
<1>4. s \in Nat /\ s <= MaxFile * 1
  <2>1. s = IF inode[t].size >= op.upto THEN inode[t].size ELSE op.upto
    BY <1>s, <1>2, <1>3, MaxPair
  <2> QED BY <1>2, <1>3, <2>1, Bounds
<1>5. /\ inode' \in [Inums -> InodeRec]
      /\ inode'[t].mode = "file" /\ inode'[t].size = s /\ inode'[t].nlinks = inode[t].nlinks
      /\ inode'[t].blocks = inode[t].blocks
      /\ \A i \in Inums \ {t} : inode'[i] = inode[i]
  <2>q. PICK q : q = inode[t]
    OBVIOUS
  <2>r. PICK r : r = [q EXCEPT !.size = s]
    OBVIOUS
  <2>1. inode \in [Inums -> InodeRec] /\ q \in InodeRec
    BY <1>2, <2>q DEF IInv, Types, InodesOK
  <2>2. /\ r \in InodeRec /\ r.mode = q.mode /\ r.size = s /\ r.nlinks = q.nlinks
        /\ r.blocks = q.blocks
    BY <1>4, <2>1, <2>r DEF InodeRec
  <2>3. inode' = [inode EXCEPT ![t] = r]
    BY <1>1, <2>q, <2>r
  <2>4. inode' \in [Inums -> InodeRec] /\ inode'[t] = r /\ \A i \in Inums \ {t} : inode'[i] = inode[i]
    BY <1>2, <2>1, <2>2, <2>3
  <2> QED BY <1>2, <2>2, <2>4, <2>q
<1>6. Types'
  BY <1>1, <1>5, IdleOK DEF IInv, Types, MapsOK, InodesOK, BlocksOK, OpOK
<1>7. SizesOK'
  BY <1>4, <1>5 DEF IInv, SizesOK, MaxFile
<1>8. \A i \in Reach : SameCells(i)
  <2>1. \A i \in Reach : i \in Inums /\ inode'[i].blocks = inode[i].blocks
    BY <1>5, ReachTypes DEF IInv, ReachFacts
  <2> QED BY <1>1, <2>1, SameCellsOf DEF IInv
<1>9. LooksSame
  <2>1. ASSUME NEW i \in Reach, inode[i].mode = "dir" PROVE inode'[i].size = inode[i].size /\ SameSlots(i)
    <3>1. i \in Inums /\ inode'[i] = inode[i]
      BY <1>2, <1>5, <2>1, ReachTypes DEF IInv, ReachFacts
    <3>2. Slots(i)' = Slots(i) /\ \A bi \in Nat : BlockAt(i, bi)' = BlockAt(i, bi)
      BY <1>6, <1>8, <3>1, SameSlotsOf DEF IInv
    <3>3. \A k \in Slots(i) : k \in Nat /\ k \div DPB \in Nat
      BY <3>1, EntryTypes, DivMod DEF IInv, EntryFacts
    <3>4. \A k \in Slots(i) : Dentry(i, k)' = Dentry(i, k)
      BY <1>1, <3>2, <3>3 DEF Dentry
    <3> QED BY <3>1, <3>2, <3>4 DEF SameSlots
  <2> QED BY <1>2, <1>5, <2>1, ReachTypes DEF IInv, LooksSame, ReachFacts
<1>10. Reach' = Reach /\ UseInv' /\ EntryInv'
  BY <1>1, <1>6, <1>9, LooksKept DEF IInv, TreeInv, UseInv
<1>11. CellInv'
  BY <1>1, <1>8, <1>10, CellsKept DEF IInv, TreeInv, CellInv
<1>12. SameNames
  <2>1. \A i \in Reach : inode[i].mode = "dir" => Live(i)' = Live(i)
    BY <1>1, <1>6, <1>9, LooksKept DEF IInv, TreeInv, UseInv
  <2>2. ASSUME NEW i \in Reach, NEW k \in Live(i) PROVE Dentry(i, k)' = Dentry(i, k)
    <3>1. i \in Inums /\ inode'[i].blocks = inode[i].blocks
      BY <1>5, ReachTypes DEF IInv, ReachFacts
    <3>2. BlockAt(i, k \div DPB)' = BlockAt(i, k \div DPB)
      BY <1>1, <3>1 DEF BlockAt
    <3> QED BY <1>1, <3>2 DEF Dentry
  <2> QED BY <1>9, <1>10, <2>1, <2>2 DEF SameNames, LooksSame
<1> QED BY <1>1, <1>6, <1>7, <1>10, <1>11, <1>12, AtRest DEF IInv, TreeInv
------------------------------------------------------------------------------
(* unlink and rmdir *)

(* What an inode holds, which is all that its handler will free.           *)
Owned(i) == {Cell(i, c) : c \in Cells}

\* What unlink and rmdir free is what the inode holds.
LEMMA OwnedOnly ==
  ASSUME Types, NEW i \in Inums
  PROVE  /\ Owned(i) \subseteq Blocks \cup {0}
         /\ Direct(i) \o Pointed(i) \o Indirect(i) \in Seq(Owned(i))
         /\ Direct(i) \o Indirect(i) \in Seq(Owned(i))
<1>1. Owned(i) \subseteq Blocks \cup {0}
  BY CellTypes DEF Owned, CellFacts
<1>2. \A c \in 0 .. NDirect : c \in Cells /\ Cell(i, c) = inode[i].blocks[c]
  BY Bounds DEF Cells, Cell
<1>3. Direct(i) \in Seq(Owned(i))
  <2>1. ASSUME NEW j \in 1 .. NDirect PROVE inode[i].blocks[j - 1] \in Owned(i)
    <3>1. j - 1 \in 0 .. NDirect
      BY Bounds
    <3> QED BY <1>2, <3>1 DEF Owned
  <2>2. [j \in 1 .. NDirect |-> inode[i].blocks[j - 1]] \in [1 .. NDirect -> Owned(i)]
    BY <2>1
  <2> QED BY <2>2, Bounds DEF Direct
<1>4. Indirect(i) \in Seq(Owned(i))
  <2>1. inode[i].blocks[NDirect] \in Owned(i)
    BY <1>2, Bounds DEF Owned
  <2> QED BY <2>1 DEF Indirect
<1>5. Pointed(i) \in Seq(Owned(i))
  <2>i. PICK ind : ind = inode[i].blocks[NDirect]
    OBVIOUS
  <2>1. CASE ind = 0
    BY <2>i, <2>1 DEF Pointed
  <2>2. CASE ind # 0
    <3>1. ASSUME NEW j \in 1 .. PPB PROVE ptrs[ind][j - 1] \in Owned(i)
      <4>1. NDirect + j \in Cells /\ ~ (NDirect + j <= NDirect) /\ (NDirect + j) - NDirect - 1 = j - 1
        BY Bounds DEF Cells
      <4>2. Cell(i, NDirect + j) = ptrs[ind][j - 1]
        BY <2>i, <2>2, <4>1 DEF Cell
      <4> QED BY <4>1, <4>2 DEF Owned
    <3>2. [j \in 1 .. PPB |-> ptrs[ind][j - 1]] \in [1 .. PPB -> Owned(i)]
      BY <3>1
    <3>3. Pointed(i) = [j \in 1 .. PPB |-> ptrs[ind][j - 1]]
      BY <2>i, <2>2 DEF Pointed
    <3> QED BY <3>2, <3>3, Bounds
  <2> QED BY <2>1, <2>2
<1>6. Direct(i) \o Pointed(i) \in Seq(Owned(i)) /\ Direct(i) \o Indirect(i) \in Seq(Owned(i))
  BY <1>3, <1>4, <1>5, ConcatProperties
<1>7. Direct(i) \o Pointed(i) \o Indirect(i) \in Seq(Owned(i))
  BY <1>4, <1>6, ConcatProperties
<1> QED BY <1>1, <1>6, <1>7

\* The number cleared by remove_dentry takes one entry out of the tree.
LEMMA RemoveStep ==
  ASSUME IInv, NEW path \in Paths, path # <<>>, NEW i, i = Lookup(path), i # None, Kids(i) = {},
         NEW kind \in {"unlink", "rmdir"}, NEW todo \in Seq(Owned(i)), RemoveNum(path, kind, todo)
  PROVE  IInv' /\ op'.ino = i /\ \E d, k : TreeLoses(d, k, i)
<1>d. PICK d : d = Lookup(Front(path))
  OBVIOUS
<1>k. PICK k : k = First({j \in Live(d) : Dentry(d, j).num = i})
  OBVIOUS
<1>e. PICK e : e = [Dentry(d, k) EXCEPT !.num = 0]
  OBVIOUS
<1>1. /\ SetDentry(d, k, e)
      /\ op' = [Idle EXCEPT !.pc = "unname", !.kind = kind, !.dir = d, !.ino = i, !.at = k,
                            !.todo = todo]
      /\ ibit' = ibit /\ dbit' = dbit /\ inode' = inode /\ ptrs' = ptrs /\ crashes' = crashes
  BY <1>d, <1>k, <1>e DEF RemoveNum
<1>2. /\ i \in Reach /\ d \in Reach /\ inode[d].mode = "dir"
      /\ \E j \in Live(d) : Dentry(d, j).num = i /\ Dentry(d, j).name \in Names
  BY <1>d, LookupIs DEF IInv
<1>3. i \in Inums /\ d \in Inums
  BY <1>2, ReachTypes DEF IInv, ReachFacts
<1>4. /\ k \in Live(d) /\ Dentry(d, k).num = i /\ k \in Slots(d) /\ k \in Nat
      /\ BlockAt(d, k \div DPB) # 0 /\ Dentry(d, k) \in DentryRec
  <2> DEFINE S == {j \in Live(d) : Dentry(d, j).num = i}
  <2>1. \A j \in Live(d) : j \in Slots(d) /\ j \in Nat
    BY <1>3, EntryTypes DEF IInv, EntryFacts
  <2>2. S \in SUBSET Nat /\ S # {} /\ k = First(S)
    BY <1>2, <1>k, <2>1
  <2> HIDE DEF S
  <2>3. k \in S
    BY <2>2, FirstIs
  <2> USE DEF S
  <2>4. k \in Live(d) /\ Dentry(d, k).num = i /\ k \in Slots(d) /\ k \in Nat
    BY <2>1, <2>3
  <2> QED BY <1>3, <2>4, EntryTypes DEF IInv, EntryFacts
<1>5. e \in DentryRec /\ e.num = 0
  BY <1>e, <1>4, Bounds DEF DentryRec
<1>6. todo \in Seq(Blocks \cup {0}) /\ \A j \in 1 .. Len(todo) : todo[j] \in Owned(i)
  BY <1>3, OwnedOnly DEF IInv
<1>7. /\ op' \in Ops /\ op'.pc = "unname" /\ op'.kind = kind /\ op'.dir = d /\ op'.ino = i
      /\ op'.at = k /\ op'.todo = todo
  BY <1>1, <1>3, <1>4, <1>6, Bounds DEF Idle, Ops, Pcs, Kinds
<1>8. Types'
  <2>1. dents' \in [Blocks -> [0 .. DPB - 1 -> DentryRec]]
    <3>1. dents \in [Blocks -> [0 .. DPB - 1 -> DentryRec]]
      BY DEF IInv, Types, BlocksOK
    <3> QED BY <1>1, <1>5, <3>1 DEF SetDentry
  <2> QED BY <1>1, <1>7, <2>1 DEF IInv, Types, MapsOK, InodesOK, BlocksOK, OpOK
<1>9. SizesOK'
  BY <1>1 DEF IInv, SizesOK
<1>10. /\ \A a \in Reach : SameCells(a) /\ Slots(a)' = Slots(a)
       /\ Dentry(d, k)' = e
       /\ \A a \in Reach, j \in Nat :
            BlockAt(a, j \div DPB) # 0 /\ (a # d \/ j # k) => Dentry(a, j)' = Dentry(a, j)
  BY <1>1, <1>2, <1>4, <1>8, StoreEntry DEF IInv, TreeInv
<1>11. \A a \in Reach : \A j \in Slots(a) : a # d \/ j # k => Dentry(a, j)' = Dentry(a, j)
  <2>1. \A a \in Reach : \A j \in Slots(a) : j \in Nat /\ BlockAt(a, j \div DPB) # 0
    BY EntryTypes, ReachTypes DEF IInv, EntryFacts, ReachFacts
  <2> QED BY <1>10, <2>1
<1>12. Live(d)' = Live(d) \ {k} /\ \A j \in Live(d)' : Dentry(d, j)'.num = Dentry(d, j).num
  <2>1. Live(d)' = {j \in Slots(d) : Dentry(d, j)'.num # 0}
    BY <1>2, <1>10 DEF Live
  <2>2. Live(d) = {j \in Slots(d) : Dentry(d, j).num # 0}
    BY DEF Live
  <2> QED BY <1>2, <1>4, <1>5, <1>10, <1>11, <2>1, <2>2
<1>13. /\ Reach' = Reach \ {i} /\ TreeInv' /\ d \in Reach' /\ i # 0
       /\ \A b \in Blocks, c \in Cells : Cell(i, c) = b => Unheld(b)'
  <2>1. \A a \in Reach : SameCells(a) /\ (a # d => SameSlots(a))
    BY <1>10, <1>11 DEF SameSlots
  <2> QED BY <1>1, <1>2, <1>4, <1>8, <1>10, <1>12, <2>1, TreeRemoved, SMTT(30) DEF IInv
<1>14. FreeInv'
  <2>1. inode[i].nlinks = 1
    BY <1>2 DEF IInv, TreeInv, UseInv
  <2>2. ASSUME NEW j \in 1 .. Len(todo), todo[j] # 0 PROVE Unheld(todo[j])'
    <3>1. PICK c \in Cells : Cell(i, c) = todo[j]
      BY <1>6 DEF Owned
    <3>2. todo[j] \in Blocks
      BY <1>3, <1>6, <2>2, OwnedOnly DEF IInv
    <3> QED BY <1>13, <3>1, <3>2
  <2>3. k \in Slots(d)' /\ Dentry(d, k)'.num = 0
    BY <1>2, <1>4, <1>5, <1>10
  <2>4. op'.at \in Slots(op.dir)' /\ Dentry(op.dir, op.at)'.num = 0
    BY <1>7, <2>3
  <2>5. \A j \in 1 .. Len(op'.todo) : op'.todo[j] # 0 => Unheld(op.todo[j])'
    <3>1. ASSUME NEW j \in 1 .. Len(todo), todo[j] # 0
          PROVE  Unheld(op.todo[j])'
      BY <1>7, <2>2, <3>1
    <3> QED BY <1>7, <3>1
  <2> QED BY <1>1, <1>2, <1>7, <1>13, <2>1, <2>4, <2>5 DEF FreeInv
<1>15. AddInv' /\ NameInv' /\ WriteInv' /\ LinkInv'
  BY <1>7 DEF AddInv, Adds, NameInv, WriteInv, Writes, LinkInv
<1>16. TreeLoses(d, k, i)
  <2>1. Dentry(d, k).name \in Names
    BY <1>2, <1>4 DEF IInv, TreeInv, EntryInv
  <2>2. \A a \in Reach : \A j \in Live(a) : a # d \/ j # k => Dentry(a, j)' = Dentry(a, j)
    BY <1>11 DEF Live
  <2>3. \A a \in Reach \ {d} : Live(a)' = Live(a)
    BY <1>10, <1>11 DEF Live
  <2> QED BY <1>1, <1>2, <1>4, <1>12, <1>13, <2>1, <2>2, <2>3 DEF TreeLoses
<1>17. op'.ino = i
  BY <1>7
<1> QED BY <1>8, <1>9, <1>13, <1>14, <1>15, <1>16, <1>17 DEF IInv, OpInv
\* unlink takes the entry of its file out of the tree.
LEMMA UnlinkStep ==
  ASSUME IInv, NEW path \in Paths, Unlink(path)
  PROVE  IInv' /\ \E d, k, n : TreeLoses(d, k, n) /\ op'.ino = n
<1>i. PICK i : i = Lookup(path)
  OBVIOUS
<1>t. PICK todo : todo = Direct(i) \o Pointed(i) \o Indirect(i)
  OBVIOUS
<1>1. /\ path # <<>> /\ i # None /\ inode[i].mode = "file" /\ RemoveNum(path, "unlink", todo)
  BY <1>i, <1>t DEF Unlink, IsFile
<1>2. Kids(i) = {} /\ i \in Inums
  BY <1>i, <1>1, LookupIs, ReachTypes DEF Kids, IsDir, IInv, ReachFacts
<1>3. todo \in Seq(Owned(i))
  BY <1>t, <1>2, OwnedOnly DEF IInv
<1> QED BY <1>i, <1>1, <1>2, <1>3, RemoveStep

\* rmdir takes the entry of its directory out of the tree.
LEMMA RmdirStep ==
  ASSUME IInv, NEW path \in Paths, Rmdir(path)
  PROVE  IInv' /\ \E d, k, n : TreeLoses(d, k, n) /\ op'.ino = n
<1>i. PICK i : i = Lookup(path)
  OBVIOUS
<1>t. PICK todo : todo = Direct(i) \o Indirect(i)
  OBVIOUS
<1>1. /\ path # <<>> /\ i # None /\ Live(i) = {} /\ RemoveNum(path, "rmdir", todo)
  BY <1>i, <1>t DEF Rmdir, IsDir
<1>2. Kids(i) = {} /\ i \in Inums
  BY <1>i, <1>1, LookupIs, ReachTypes DEF Kids, IInv, ReachFacts
<1>3. todo \in Seq(Owned(i))
  BY <1>t, <1>2, OwnedOnly DEF IInv
<1> QED BY <1>i, <1>1, <1>2, <1>3, RemoveStep

\* The name cleared by remove_dentry keeps the invariant and all names.
LEMMA ClearNameStep ==
  ASSUME IInv, ClearName
  PROVE  IInv' /\ SameNames
<1>d. PICK d : d = op.dir
  OBVIOUS
<1>k. PICK k : k = op.at
  OBVIOUS
<1>n. PICK n : n = op.ino
  OBVIOUS
<1>e. PICK e : e = [Dentry(d, k) EXCEPT !.name = NoName]
  OBVIOUS
<1>1. /\ op.pc = "unname" /\ SetDentry(d, k, e)
      /\ inode' = IF op.kind = "unlink" THEN [inode EXCEPT ![n].nlinks = @ - 1] ELSE inode
      /\ op' = IF op.kind = "unlink" /\ inode[n].nlinks # 1 THEN Idle ELSE [op EXCEPT !.pc = "free"]
      /\ ibit' = ibit /\ dbit' = dbit /\ ptrs' = ptrs /\ crashes' = crashes
  BY <1>d, <1>k, <1>n, <1>e DEF ClearName
<1>2. /\ n \notin Reach /\ inode[n].nlinks = 1 /\ d \in Reach /\ inode[d].mode = "dir"
      /\ k \in Slots(d) /\ Dentry(d, k).num = 0
      /\ \A j \in 1 .. Len(op.todo) : op.todo[j] # 0 => Unheld(op.todo[j])
  BY <1>d, <1>k, <1>n, <1>1 DEF IInv, OpInv, FreeInv
<1>3. n \in Inums /\ d \in Inums /\ k \in Nat
  BY <1>d, <1>k, <1>n, OpTypes DEF IInv, OpFacts
<1>4. BlockAt(d, k \div DPB) # 0 /\ Dentry(d, k) \in DentryRec
  BY <1>2, <1>3, EntryTypes DEF IInv, EntryFacts
<1>5. e \in DentryRec /\ e.num = 0
  BY <1>e, <1>2, <1>4 DEF DentryRec
<1>6. /\ op' \in Ops /\ op'.pc = "free" /\ op'.ino = n /\ op'.todo = op.todo
  BY <1>n, <1>1, <1>2, OpTypes DEF IInv, Ops, Pcs, OpFacts
<1>7. /\ inode' \in [Inums -> InodeRec] /\ \A i \in Inums \ {n} : inode'[i] = inode[i]
      /\ inode'[n].mode = inode[n].mode /\ inode'[n].size = inode[n].size
  <2>q. PICK q : q = inode[n]
    OBVIOUS
  <2>r. PICK r : r = [q EXCEPT !.nlinks = 0]
    OBVIOUS
  <2>1. inode \in [Inums -> InodeRec] /\ q \in InodeRec
    BY <1>3, <2>q DEF IInv, Types, InodesOK
  <2>2. r \in InodeRec /\ r.mode = q.mode /\ r.size = q.size
    BY <2>1, <2>r DEF InodeRec
  <2>3. inode' = [inode EXCEPT ![n] = r] \/ inode' = inode
    BY <1>1, <1>2, <2>q, <2>r
  <2> QED BY <1>3, <2>1, <2>2, <2>3, <2>q
<1>8. Types'
  <2>1. dents' \in [Blocks -> [0 .. DPB - 1 -> DentryRec]]
    <3>1. dents \in [Blocks -> [0 .. DPB - 1 -> DentryRec]]
      BY DEF IInv, Types, BlocksOK
    <3> QED BY <1>1, <1>5, <3>1 DEF SetDentry
  <2> QED BY <1>1, <1>6, <1>7, <2>1 DEF IInv, Types, MapsOK, InodesOK, BlocksOK, OpOK
<1>9. SizesOK'
  BY <1>7 DEF IInv, SizesOK
<1>10. Reach' = Reach /\ TreeInv' /\ SameNames /\ \A b : Unheld(b) => Unheld(b)'
  <2>1. \A i \in Reach : inode'[i] = inode[i]
    BY <1>2, <1>7, ReachTypes DEF IInv, ReachFacts
  <2>2. k \notin Live(d)
    BY <1>2 DEF Live
  <2> QED BY <1>1, <1>2, <1>3, <1>4, <1>5, <1>8, <2>1, <2>2, EntryKept DEF IInv
<1>11. FreeInv'
  <2>1. \A j \in 1 .. Len(op.todo) : op'.todo[j] # 0 => Unheld(op.todo[j])'
    BY <1>2, <1>6, <1>10
  <2> QED BY <1>2, <1>6, <1>10, <2>1 DEF FreeInv
<1>12. AddInv' /\ NameInv' /\ WriteInv' /\ LinkInv'
  BY <1>6 DEF AddInv, Adds, NameInv, WriteInv, Writes, LinkInv
<1> QED BY <1>8, <1>9, <1>10, <1>11, <1>12 DEF IInv, OpInv

\* free_block keeps the invariant and all names.
LEMMA FreeBlockStep ==
  ASSUME IInv, FreeBlock
  PROVE  IInv' /\ SameNames
<1>m. PICK m : m = Min(ToFree)
  OBVIOUS
<1>b. PICK b : b = op.todo[m]
  OBVIOUS
<1>s. PICK s : s = SubSeq(op.todo, m + 1, Len(op.todo))
  OBVIOUS
<1>1. /\ op.pc = "free" /\ ToFree # {}
      /\ dbit' = dbit \ {b} /\ dents' = [dents EXCEPT ![b] = ZeroDents]
      /\ ptrs' = [ptrs EXCEPT ![b] = ZeroPtrs] /\ op' = [op EXCEPT !.todo = s]
      /\ ibit' = ibit /\ inode' = inode /\ crashes' = crashes
  BY <1>m, <1>b, <1>s DEF FreeBlock
<1>2. /\ op.ino \notin Reach
      /\ \A j \in 1 .. Len(op.todo) : op.todo[j] # 0 => Unheld(op.todo[j])
  BY <1>1 DEF IInv, OpInv, FreeInv
<1>3. m \in 1 .. Len(op.todo) /\ b \in Blocks /\ Unheld(b)
  <2>1. ToFree \in SUBSET Nat
    BY OpTypes DEF IInv, ToFree, OpFacts
  <2>2. m \in ToFree
    BY <1>m, <1>1, <2>1, MinNat
  <2> QED BY <1>b, <1>2, <2>2, OpTypes DEF IInv, ToFree, OpFacts
<1>4. /\ s \in Seq(Blocks \cup {0}) /\ Len(s) \in Nat
      /\ \A j \in 1 .. Len(s) : \E l \in 1 .. Len(op.todo) : s[j] = op.todo[l]
  <2>1. op.todo \in Seq(Blocks \cup {0}) /\ Len(op.todo) \in Nat
    BY OpTypes DEF IInv, OpFacts
  <2>2. s \in Seq(Blocks \cup {0}) /\ Len(s) = Len(op.todo) - m
        /\ \A j \in 1 .. Len(s) : s[j] = op.todo[m + j]
    BY <1>s, <1>3, <2>1, SMTT(30)
  <2>3. ASSUME NEW j \in 1 .. Len(s)
        PROVE  \E l \in 1 .. Len(op.todo) : s[j] = op.todo[l]
    <3>1. m + j \in 1 .. Len(op.todo)
      BY <1>3, <2>1, <2>2
    <3> QED BY <2>2, <3>1
  <2>4. Len(s) \in Nat
    BY <2>2
  <2> QED BY <2>2, <2>3, <2>4
<1>5. op' \in Ops /\ op'.pc = "free" /\ op'.ino = op.ino /\ op'.todo = s
  BY <1>1, <1>4, OpTypes DEF IInv, Ops, OpFacts
<1>6. /\ dents' \in [Blocks -> [0 .. DPB - 1 -> DentryRec]]
      /\ ptrs' \in [Blocks -> [0 .. PPB - 1 -> Blocks \cup {0}]]
      /\ \A a \in Blocks \ {b} : dents'[a] = dents[a] /\ ptrs'[a] = ptrs[a]
  <2>1. NoDentry \in DentryRec
    BY Bounds DEF NoDentry, DentryRec
  <2>2. /\ dents \in [Blocks -> [0 .. DPB - 1 -> DentryRec]]
        /\ ptrs \in [Blocks -> [0 .. PPB - 1 -> Blocks \cup {0}]]
        /\ ZeroDents \in [0 .. DPB - 1 -> DentryRec] /\ ZeroPtrs \in [0 .. PPB - 1 -> Blocks \cup {0}]
    BY <2>1 DEF IInv, Types, BlocksOK, ZeroDents, ZeroPtrs
  <2> QED BY <1>1, <1>3, <2>2
<1>7. Types'
  BY <1>1, <1>5, <1>6 DEF IInv, Types, MapsOK, InodesOK, BlocksOK, OpOK
<1>8. SizesOK'
  BY <1>1 DEF IInv, SizesOK
<1>9. Reach' = Reach /\ TreeInv' /\ SameNames /\ \A a : Unheld(a) => Unheld(a)'
  BY <1>1, <1>3, <1>6, <1>7, TreeUntouched DEF IInv, TreeInv, UseInv
<1>10. FreeInv'
  <2>1. ASSUME NEW j \in 1 .. Len(s), s[j] # 0 PROVE Unheld(op.todo[j])'
    <3>1. Unheld(s[j])
      BY <1>2, <1>4, <2>1
    <3> QED BY <1>5, <1>9, <3>1
  <2> QED BY <1>2, <1>5, <1>9, <2>1 DEF FreeInv
<1>11. AddInv' /\ NameInv' /\ WriteInv' /\ LinkInv'
  BY <1>5 DEF AddInv, Adds, NameInv, WriteInv, Writes, LinkInv
<1> QED BY <1>7, <1>8, <1>9, <1>10, <1>11 DEF IInv, OpInv

\* free_inode keeps the invariant and all names.
LEMMA FreeInodeStep ==
  ASSUME IInv, FreeInode
  PROVE  IInv' /\ SameNames
<1>1. /\ op.pc = "free" /\ ibit' = ibit \ {op.ino} /\ op' = [op EXCEPT !.pc = "wipe"]
      /\ dbit' = dbit /\ inode' = inode /\ dents' = dents /\ ptrs' = ptrs /\ crashes' = crashes
  BY DEF FreeInode
<1>2. /\ op.ino \notin Reach
      /\ \A j \in 1 .. Len(op.todo) : op.todo[j] # 0 => Unheld(op.todo[j])
  BY <1>1 DEF IInv, OpInv, FreeInv
<1>3. op' \in Ops /\ op'.pc = "wipe" /\ op'.ino = op.ino /\ op'.todo = op.todo
  BY <1>1, OpTypes DEF IInv, Ops, Pcs, OpFacts
<1>4. Types'
  BY <1>1, <1>3 DEF IInv, Types, MapsOK, InodesOK, BlocksOK, OpOK
<1>5. SizesOK'
  BY <1>1 DEF IInv, SizesOK
<1>6. Reach' = Reach /\ TreeInv' /\ SameNames /\ \A a : Unheld(a) => Unheld(a)'
  BY <1>1, <1>2, <1>4, TreeUntouched DEF IInv, TreeInv, UseInv
<1>7. FreeInv'
  <2>1. \A j \in 1 .. Len(op.todo) : op'.todo[j] # 0 => Unheld(op.todo[j])'
    BY <1>2, <1>3, <1>6
  <2> QED BY <1>2, <1>3, <1>6, <2>1 DEF FreeInv
<1>8. AddInv' /\ NameInv' /\ WriteInv' /\ LinkInv'
  BY <1>3 DEF AddInv, Adds, NameInv, WriteInv, Writes, LinkInv
<1> QED BY <1>4, <1>5, <1>6, <1>7, <1>8 DEF IInv, OpInv

\* Zeroing the freed inode keeps the invariant and all names.
LEMMA WipeInodeStep ==
  ASSUME IInv, WipeInode
  PROVE  IInv' /\ SameNames
<1>1. /\ op.pc = "wipe" /\ inode' = [inode EXCEPT ![op.ino] = ZeroInode] /\ op' = Idle
      /\ ibit' = ibit /\ dbit' = dbit /\ dents' = dents /\ ptrs' = ptrs /\ crashes' = crashes
  BY DEF WipeInode
<1>2. op.ino \notin Reach /\ op.ino \in Inums
  BY <1>1, OpTypes DEF IInv, OpInv, FreeInv, OpFacts
<1>3. /\ inode' \in [Inums -> InodeRec] /\ inode'[op.ino] = ZeroInode
      /\ \A i \in Inums \ {op.ino} : inode'[i] = inode[i]
  BY <1>1, <1>2, NewInodeOK DEF IInv, Types, InodesOK
<1>4. Types'
  BY <1>1, <1>3, IdleOK DEF IInv, Types, MapsOK, InodesOK, BlocksOK, OpOK
<1>5. SizesOK'
  BY <1>3, NewInodeOK, SizeBound DEF IInv, SizesOK
<1>6. TreeInv' /\ SameNames
  BY <1>1, <1>2, <1>3, <1>4, ReachTypes, TreeUntouched DEF IInv, TreeInv, UseInv, ReachFacts
<1> QED BY <1>1, <1>4, <1>5, <1>6, AtRest DEF IInv

------------------------------------------------------------------------------
(* The daemon is killed, or nothing is stored *)

\* A kill of the daemon keeps the invariant and all names.
LEMMA CrashStep ==
  ASSUME IInv, Crash
  PROVE  IInv' /\ SameNames
<1>1. /\ op' = Idle /\ ibit' = ibit /\ dbit' = dbit /\ inode' = inode /\ dents' = dents
      /\ ptrs' = ptrs /\ crashes' = crashes + 1 /\ crashes < MaxCrashes
  BY DEF Crash, image
<1>2. Types'
  BY <1>1, IdleOK DEF IInv, Types, MapsOK, InodesOK, BlocksOK, OpOK
<1>3. SizesOK'
  BY <1>1 DEF IInv, SizesOK
<1>4. TreeInv' /\ SameNames
  BY <1>1, <1>2, TreeUntouched DEF IInv, TreeInv, UseInv
<1> QED BY <1>1, <1>2, <1>3, <1>4, AtRest DEF IInv

\* A step that changes nothing keeps the invariant and all names.
LEMMA StutterStep ==
  ASSUME IInv, UNCHANGED vars
  PROVE  IInv' /\ SameNames
<1>1. /\ op' = op /\ ibit' = ibit /\ dbit' = dbit /\ inode' = inode /\ dents' = dents
      /\ ptrs' = ptrs /\ crashes' = crashes
  BY DEF vars, image
<1>2. Types' /\ SizesOK'
  BY <1>1 DEF IInv, Types, MapsOK, InodesOK, BlocksOK, OpOK, SizesOK
<1>3. /\ Reach' = Reach /\ TreeInv' /\ SameNames /\ \A b : Unheld(b) => Unheld(b)'
      /\ \A i \in Reach :
           /\ Slots(i)' = Slots(i) /\ \A bi \in Nat : BlockAt(i, bi)' = BlockAt(i, bi)
           /\ \A k \in Nat : BlockAt(i, k \div DPB) # 0 => Dentry(i, k)' = Dentry(i, k)
  BY <1>1, <1>2, TreeUntouched DEF IInv, TreeInv, UseInv
<1>4. \A i \in Reach : \A k \in Slots(i) : k \in Nat /\ BlockAt(i, k \div DPB) # 0
  BY ReachTypes, EntryTypes DEF IInv, EntryFacts, ReachFacts
<1>5. \A k \in Nat : k \div DPB \in Nat
  BY DivMod
<1>6. op.at \in Nat
  BY OpTypes DEF IInv, OpFacts
<1>7. AddInv'
  <2>1. ASSUME op.pc \in {"lastname", "size"}
        PROVE  BlockAt(op.dir, op.at \div DPB)' # 0 /\ Dentry(op.dir, op.at)'.num = op.ino
    BY <1>1, <1>3, <1>5, <1>6, <2>1 DEF IInv, OpInv, AddInv, Adds
  <2> QED BY <1>1, <1>3, <2>1 DEF IInv, OpInv, AddInv, Adds
<1>8. NameInv' /\ WriteInv'
  BY <1>1, <1>3, <1>4 DEF IInv, OpInv, NameInv, WriteInv, Writes
<1>9. LinkInv'
  <2>1. Missing' = Missing
    BY <1>1 DEF Missing, Target, Index, BlockAt
  <2> QED BY <1>1, <1>3, <2>1 DEF IInv, OpInv, LinkInv
<1>10. FreeInv'
  BY <1>1, <1>3, <1>4 DEF IInv, OpInv, FreeInv
<1> QED BY <1>2, <1>3, <1>7, <1>8, <1>9, <1>10 DEF IInv, OpInv
------------------------------------------------------------------------------
(* The invariant *)

\* The invariant holds of the image mkfs writes.
LEMMA InitIInv == Init => IInv
<1> SUFFICES ASSUME Init PROVE IInv
  OBVIOUS
<1>1. /\ ibit = {0} /\ dbit = {} /\ op = Idle /\ crashes = 0
      /\ inode = [i \in Inums |-> IF i = 0 THEN NewInode("dir") ELSE ZeroInode]
      /\ dents = [b \in Blocks |-> ZeroDents] /\ ptrs = [b \in Blocks |-> ZeroPtrs]
  BY DEF Init
<1>2. /\ inode \in [Inums -> InodeRec] /\ inode[0].mode = "dir" /\ inode[0].nlinks = 1
      /\ \A i \in Inums : inode[i].size = 0 /\ inode[i].blocks = [j \in 0 .. NDirect |-> 0]
  <2>1. \A mode : NewInode(mode).blocks = [j \in 0 .. NDirect |-> 0]
    BY DEF NewInode, ZeroInode
  <2>2. ZeroInode.blocks = [j \in 0 .. NDirect |-> 0]
    BY DEF ZeroInode
  <2> QED BY <1>1, <2>1, <2>2, NewInodeOK, Bounds
<1>3. Types
  <2>1. NoDentry \in DentryRec
    BY Bounds DEF NoDentry, DentryRec
  <2>2. /\ ZeroDents \in [0 .. DPB - 1 -> DentryRec] /\ ZeroPtrs \in [0 .. PPB - 1 -> Blocks \cup {0}]
    BY <2>1 DEF ZeroDents, ZeroPtrs
  <2> QED BY <1>1, <1>2, <2>2, IdleOK, Bounds DEF Types, MapsOK, InodesOK, BlocksOK, OpOK
<1>4. SizesOK
  BY <1>2, SizeBound DEF SizesOK
<1>5. \A i \in Inums : Slots(i) = {} /\ Live(i) = {} /\ Kids(i) = {}
  <2>1. ASSUME NEW i \in Inums PROVE Slots(i) = {}
    <3>1. Slots(i) \subseteq 0 .. inode[i].size - 1
      BY <1>3, EntryTypes DEF EntryFacts
    <3> QED BY <1>2, <3>1
  <2> QED BY <2>1 DEF Live, Kids
<1>6. Reach = {0}
  <2>1. KidsOf \in Graphs0 /\ Reach = Reached(KidsOf)
    BY <1>3, ReachTypes DEF ReachFacts
  <2>2. Closed(KidsOf, {0})
    BY <1>5, Bounds DEF KidsOf, Closed
  <2>3. Reach \subseteq {0}
    <3> HIDE DEF KidsOf
    <3> QED BY <2>1, <2>2, ReachedLeast
  <2> QED BY <1>3, <2>3, ReachTypes DEF ReachFacts
<1>7. \A i \in Inums, c \in Cells : Cell(i, c) = 0
  <2>1. ASSUME NEW i \in Inums, NEW c \in Cells PROVE Cell(i, c) = 0
    <3>1. NDirect \in 0 .. NDirect /\ (c <= NDirect => c \in 0 .. NDirect)
      BY Bounds DEF Cells
    <3> QED BY <1>2, <3>1 DEF Cell
  <2> QED BY <2>1
<1>8. UseInv
  <2>1. 0 .. inode[0].size - 1 = {}
    BY <1>2, Bounds
  <2> QED BY <1>1, <1>2, <1>6, <2>1 DEF UseInv
<1>9. EntryInv
  BY <1>5, <1>6, Bounds DEF EntryInv
<1>10. CellInv
  BY <1>6, <1>7, Bounds DEF CellInv
<1>11. OpInv
  BY <1>1 DEF Idle, OpInv, AddInv, Adds, NameInv, WriteInv, Writes, LinkInv, FreeInv
<1> QED BY <1>3, <1>4, <1>8, <1>9, <1>10, <1>11 DEF IInv, TreeInv

\* mknod and mkdir, whatever their arguments, keep the invariant and all names.
LEMMA NewStep ==
  ASSUME IInv, NEW p \in DirPaths, NEW n \in Names \cup LongNames, Mknod(p, n) \/ Mkdir(p, n)
  PROVE  IInv' /\ SameNames
<1>1. p \in Paths
  BY DEF DirPaths
<1>2. CASE Mknod(p, n)
  <2>d. PICK d : d = Lookup(p)
    OBVIOUS
  <2>1. op = Idle /\ IsDir(d) /\ Create(d, n, "file")
    BY <1>2, <2>d DEF Mknod
  <2>2. d \in Reach
    BY <1>1, <2>d, <2>1, LookupIs DEF IInv, IsDir
  <2> QED BY <2>1, <2>2, CreateStep
<1>3. CASE Mkdir(p, n)
  <2>d. PICK d : d = Lookup(p)
    OBVIOUS
  <2>1. op = Idle /\ IsDir(d) /\ Create(d, n, "dir")
    BY <1>3, <2>d DEF Mkdir
  <2>2. d \in Reach
    BY <1>1, <2>d, <2>1, LookupIs DEF IInv, IsDir
  <2> QED BY <2>1, <2>2, CreateStep
<1> QED BY <1>2, <1>3

\* Every store and every kill keeps the invariant.
LEMMA StepIInv == IInv /\ [Next]_vars => IInv'
<1> SUFFICES ASSUME IInv, [Next]_vars PROVE IInv'
  OBVIOUS
<1>1. CASE Unchanging \/ UNCHANGED vars
  BY <1>1, StutterStep DEF Unchanging
<1>2. CASE \E p \in DirPaths, n \in Names \cup LongNames : Mknod(p, n) \/ Mkdir(p, n)
  BY <1>2, NewStep
<1>3. CASE \E p \in Paths : Unlink(p) \/ Rmdir(p)
  BY <1>3, UnlinkStep, RmdirStep
<1>4. CASE \E p \in Paths, bi \in 0 .. MaxFile, n \in 1 .. MaxWrite : Write(p, bi, n)
  BY <1>4, WriteStep
<1>5. CASE FillInode \/ AddRefused \/ AddInHole \/ AddAtEnd
  BY <1>5, FillInodeStep, AddRefusedStep, AddInHoleStep, AddAtEndStep
<1>6. CASE AppendNum \/ NameHole \/ NameLast \/ GrowDir
  BY <1>6, AppendNumStep, NameHoleStep, NameLastStep, GrowDirStep
<1>7. CASE GrowAlloc \/ GrowLink \/ GrowFail
  BY <1>7, GrowAllocStep, GrowLinkStep, GrowFailStep
<1>8. CASE WriteBlock \/ WriteSize
  BY <1>8, WriteBlockStep, WriteSizeStep
<1>9. CASE ClearName \/ FreeBlock \/ FreeInode \/ WipeInode
  BY <1>9, ClearNameStep, FreeBlockStep, FreeInodeStep, WipeInodeStep
<1>10. CASE Crash
  BY <1>10, CrashStep
<1> QED BY <1>1, <1>2, <1>3, <1>4, <1>5, <1>6, <1>7, <1>8, <1>9, <1>10 DEF Next, Call

\* The image is in order after every store and after every kill.
THEOREM Invariance == Spec => []IInv
<1>1. Init => IInv
  BY InitIInv
<1>2. IInv /\ [Next]_vars => IInv'
  BY StepIInv
<1> QED BY <1>1, <1>2, PTL DEF Spec

------------------------------------------------------------------------------
(* What follows *)

(* Every variable has its type, whatever the size of the image: no inode   *)
(* number, block number or size that wfs.c stores is out of its range.     *)
THEOREM TypeCorrect == Spec => []TypeOK
<1>1. ASSUME IInv PROVE TypeOK
  <2>1. ibit \subseteq Inums /\ dbit \subseteq Blocks /\ crashes \in 0 .. MaxCrashes
    BY <1>1 DEF IInv, Types, MapsOK, OpOK
  <2>2. /\ dents \in [Blocks -> [0 .. DPB - 1 -> [num : Inums, name : Names \cup {NoName}]]]
        /\ ptrs \in [Blocks -> [0 .. PPB - 1 -> Blocks \cup {0}]]
    BY <1>1 DEF IInv, Types, BlocksOK, DentryRec
  <2>3. /\ op.dir \in Inums /\ op.ino \in Inums /\ op.blk \in Blocks \cup {0}
        /\ op.todo \in Seq(Blocks \cup {0})
    BY <1>1, OpTypes DEF IInv, OpFacts
  <2>4. ASSUME NEW i \in Inums
        PROVE  /\ inode[i].mode \in {"none", "file", "dir"}
               /\ inode[i].size \in 0 .. MaxFile * (IF inode[i].mode = "dir" THEN DPB ELSE 1)
               /\ inode[i].nlinks \in {0, 1}
               /\ inode[i].blocks \in [0 .. NDirect -> Blocks \cup {0}]
    <3>1. /\ inode[i].mode \in {"none", "file", "dir"} /\ inode[i].size \in Nat
          /\ inode[i].nlinks \in {0, 1} /\ inode[i].blocks \in [0 .. NDirect -> Blocks \cup {0}]
      BY <1>1, CellTypes DEF IInv, CellFacts
    <3>2. inode[i].size <= MaxFile * (IF inode[i].mode = "dir" THEN DPB ELSE 1)
      BY <1>1 DEF IInv, SizesOK
    <3>3. MaxFile * (IF inode[i].mode = "dir" THEN DPB ELSE 1) \in Nat
      BY SizeBound
    <3> QED BY <3>1, <3>2, <3>3
  <2> QED BY <2>1, <2>2, <2>3, <2>4 DEF TypeOK
<1> QED BY <1>1, Invariance, PTL

(* Wherever the daemon is killed, an entry that can be reached names an    *)
(* inode that is allocated, in use and named by no other entry.            *)
THEOREM InodesAreExclusive == Spec => []InodesExclusive
<1>1. ASSUME IInv PROVE InodesExclusive
  <2>1. ASSUME NEW x \in Entries
        PROVE  \E d \in Reach : \E k \in Live(d) : x = <<d, k>> /\ inode[d].mode = "dir"
    BY <2>1 DEF Entries, IsDir
  <2>2. ASSUME NEW x \in Entries
        PROVE  EntryAt(x).num \in Reach
    <3>1. PICK d \in Reach : \E k \in Live(d) : x = <<d, k>> /\ inode[d].mode = "dir"
      BY <2>1
    <3>2. PICK k \in Live(d) : x = <<d, k>> /\ inode[d].mode = "dir"
      BY <3>1
    <3>3. Dentry(d, k).num \in Kids(d)
      BY <1>1, <3>2, ReachTypes, Bounds DEF Kids, IsDir, IInv, ReachFacts
    <3> QED BY <1>1, <3>2, <3>3, ReachTypes DEF IInv, EntryAt, ReachFacts
  <2>3. ASSUME NEW x \in Entries, NEW y \in Entries, EntryAt(x).num = EntryAt(y).num
        PROVE  x = y
    <3>1. PICK d \in Reach : \E k \in Live(d) : x = <<d, k>> /\ inode[d].mode = "dir"
      BY <2>1
    <3>2. PICK k \in Live(d) : x = <<d, k>> /\ inode[d].mode = "dir"
      BY <3>1
    <3>3. PICK e \in Reach : \E j \in Live(e) : y = <<e, j>> /\ inode[e].mode = "dir"
      BY <2>1
    <3>4. PICK j \in Live(e) : y = <<e, j>> /\ inode[e].mode = "dir"
      BY <3>3
    <3>5. Dentry(d, k).num = Dentry(e, j).num
      BY <2>3, <3>2, <3>4 DEF EntryAt
    <3> QED BY <1>1, <3>2, <3>4, <3>5 DEF IInv, TreeInv, EntryInv
  <2> QED BY <1>1, <2>2, <2>3 DEF InodesExclusive, IInv, TreeInv, UseInv
<1> QED BY <1>1, Invariance, PTL

(* Wherever the daemon is killed, a block that a reachable inode holds is  *)
(* marked in the bitmap and held in one place only.                        *)
THEOREM BlocksAreExclusive == Spec => []BlocksExclusive
<1>1. ASSUME IInv PROVE BlocksExclusive
(* The cell that a place is.                                               *)
  <2> DEFINE At(p) == IF p[2] = "inode" THEN p[3] ELSE NDirect + 1 + p[3]
  <2>1. ASSUME NEW p \in Held
        PROVE  /\ p[1] \in Reach /\ At(p) \in Cells /\ HeldAt(p) = Cell(p[1], At(p))
               /\ HeldAt(p) # 0 /\ p[3] \in Nat
               /\ \/ p = <<p[1], "inode", p[3]>> /\ p[3] <= NDirect
                  \/ p = <<p[1], "indirect", p[3]>>
    <3>1. PICK i \in Reach : p \in Holds(i)
      BY <2>1 DEF Held
    <3>i. PICK ind : ind = inode[i].blocks[NDirect]
      OBVIOUS
    <3>2. \/ \E j \in 0 .. NDirect : p = <<i, "inode", j>> /\ inode[i].blocks[j] # 0
          \/ \E j \in 0 .. PPB - 1 : p = <<i, "indirect", j>> /\ ind # 0 /\ ptrs[ind][j] # 0
      BY <3>1, <3>i DEF Holds
    <3>3. CASE \E j \in 0 .. NDirect : p = <<i, "inode", j>> /\ inode[i].blocks[j] # 0
      <4>1. PICK j \in 0 .. NDirect : p = <<i, "inode", j>> /\ inode[i].blocks[j] # 0
        BY <3>3
      <4>2. At(p) = j /\ p[1] = i /\ p[2] = "inode" /\ p[3] = j /\ j \in Cells /\ j <= NDirect /\ j \in Nat
        BY <4>1, Bounds DEF Cells
      <4> QED BY <4>1, <4>2 DEF HeldAt, Cell
    <3>4. CASE \E j \in 0 .. PPB - 1 : p = <<i, "indirect", j>> /\ ind # 0 /\ ptrs[ind][j] # 0
      <4>1. PICK j \in 0 .. PPB - 1 : p = <<i, "indirect", j>> /\ ind # 0 /\ ptrs[ind][j] # 0
        BY <3>4
      <4>2. /\ At(p) = NDirect + 1 + j /\ p[1] = i /\ p[2] = "indirect" /\ p[3] = j
            /\ NDirect + 1 + j \in Cells /\ ~ (NDirect + 1 + j <= NDirect)
            /\ (NDirect + 1 + j) - NDirect - 1 = j /\ j \in Nat
        BY <4>1, Bounds DEF Cells
      <4> QED BY <3>i, <4>1, <4>2 DEF HeldAt, Cell
    <3> QED BY <3>2, <3>3, <3>4
  <2>2. ASSUME NEW p \in Held, NEW q \in Held, HeldAt(p) = HeldAt(q)
        PROVE  p = q
    <3>1. p[1] = q[1] /\ At(p) = At(q)
      <4> HIDE DEF At
      <4> QED BY <1>1, <2>1, <2>2 DEF IInv, TreeInv, CellInv
    <3>2. \/ p = <<p[1], "inode", p[3]>> /\ p[3] <= NDirect /\ At(p) = p[3] /\ p[3] \in Nat
          \/ p = <<p[1], "indirect", p[3]>> /\ At(p) = NDirect + 1 + p[3] /\ p[3] \in Nat
      BY <2>1
    <3>3. \/ q = <<q[1], "inode", q[3]>> /\ q[3] <= NDirect /\ At(q) = q[3] /\ q[3] \in Nat
          \/ q = <<q[1], "indirect", q[3]>> /\ At(q) = NDirect + 1 + q[3] /\ q[3] \in Nat
      BY <2>1
    <3> HIDE DEF At
    <3> QED BY <3>1, <3>2, <3>3, Bounds
  <2>3. \A p \in Held : HeldAt(p) \in dbit
    <3> HIDE DEF At
    <3> QED BY <1>1, <2>1 DEF IInv, TreeInv, CellInv
  <2> QED BY <2>2, <2>3 DEF BlocksExclusive
<1> QED BY <1>1, Invariance, PTL

------------------------------------------------------------------------------
(* The names: WFS implements Namespace *)

(* An entry that one can look up.                                          *)
Shown(d, k) ==
  /\ d \in Reach /\ inode[d].mode = "dir" /\ k \in Live(d)
  /\ Dentry(d, k).name # NoName
  /\ ~ (op.pc = "name" /\ d = op.dir /\ k = op.at)

(* A handler makes the entry op.name of directory op.dir.                  *)
Makes == Adds \/ op.pc = "name"

(* The kernel found no such name, and no one has added it since.           *)
NewName ==
  KernelChecks /\ Makes =>
    \A k \in Live(op.dir) :
      Dentry(op.dir, k).name = op.name => op.pc = "name" /\ k = op.at

(* A directory in which something is, or is being made, was looked up, so   *)
(* it has a name: one that a kill left without a name stays empty.          *)
Found ==
  \A e \in Reach \ {0} :
    inode[e].mode = "dir" /\ (Live(e) # {} \/ (Makes /\ e = op.dir)) =>
      \E d \in Reach : \E k \in Live(d) : Shown(d, k) /\ Dentry(d, k).num = e

(* The slot past the end has its name before the size covers it.           *)
LastNamed == op.pc = "size" => Dentry(op.dir, op.at).name = op.name

(* What the invariant of WFS does not say of names.                        *)
NameOK == NewName /\ Found /\ LastNamed
Rec(d, k) == [dir |-> d, name |-> Dentry(d, k).name, ino |-> Dentry(d, k).num,
              kind |-> inode[Dentry(d, k).num].mode]

NamedFacts ==
  \A r : r \in Named <=> \E d \in Reach : \E k \in Live(d) : Shown(d, k) /\ r = Rec(d, k)

\* The named entries are those in use that have a name.
LEMMA NamedIs == Types => NamedFacts
<1> SUFFICES ASSUME Types PROVE NamedFacts
  OBVIOUS
<1>1. \A f : f \in Entries <=>
        \E d \in Reach : \E k \in Live(d) : inode[d].mode = "dir" /\ f = <<d, k>>
  <2>1. \A d \in Reach : IsDir(d) <=> inode[d].mode = "dir"
    BY ReachTypes, Bounds DEF IsDir, ReachFacts
  <2> QED BY <2>1 DEF Entries
<1>2. \A d, k : EntryAt(<<d, k>>) = Dentry(d, k)
  BY DEF EntryAt
<1>3. ASSUME NEW d \in Reach, NEW k \in Live(d), Shown(d, k)
      PROVE  Rec(d, k) \in Named
  <2>1. <<d, k>> \in Entries
    BY <1>1, <1>3 DEF Shown
  <2>2. <<d, k>> \in {f \in Entries : /\ EntryAt(f).name # NoName
                                      /\ op.pc = "name" => f # <<op.dir, op.at>>}
    BY <1>2, <1>3, <2>1 DEF Shown
  <2>3. <<d, k>>[1] = d
    OBVIOUS
  <2> QED BY <1>2, <2>2, <2>3 DEF Named, Rec
<1>4. ASSUME NEW r \in Named
      PROVE  \E d \in Reach : \E k \in Live(d) : Shown(d, k) /\ r = Rec(d, k)
  <2>1. PICK f \in Entries :
          /\ EntryAt(f).name # NoName /\ (op.pc = "name" => f # <<op.dir, op.at>>)
          /\ r = [dir |-> f[1], name |-> EntryAt(f).name, ino |-> EntryAt(f).num,
                  kind |-> inode[EntryAt(f).num].mode]
    BY <1>4 DEF Named
  <2>2. PICK d \in Reach : \E k \in Live(d) : inode[d].mode = "dir" /\ f = <<d, k>>
    BY <1>1
  <2>3. PICK k \in Live(d) : inode[d].mode = "dir" /\ f = <<d, k>>
    BY <2>2
  <2>4. EntryAt(f) = Dentry(d, k) /\ f[1] = d
    BY <1>2, <2>3
  <2> QED BY <2>1, <2>3, <2>4 DEF Shown, Rec
<1> QED BY <1>3, <1>4 DEF NamedFacts

\* NamedIs after the step.
LEMMA NamedNext == Types' => NamedFacts'
BY NamedIs, PTL

(* What an entry that is shown says.                                       *)
EntryOK(d, k) ==
  /\ d \in Reach /\ d \in Inums /\ inode[d].mode = "dir" /\ k \in Live(d)
  /\ Dentry(d, k).num \in Reach \ {0} /\ Dentry(d, k).num \in Inums
  /\ Dentry(d, k).name \in Names
  /\ inode[Dentry(d, k).num].mode \in {"file", "dir"}

\* An entry with a name has its directory and its inode among what can be reached.
LEMMA ShownIs ==
  ASSUME IInv, NEW d, NEW k, Shown(d, k)
  PROVE  EntryOK(d, k)
<1>1. d \in Reach /\ d \in Inums /\ inode[d].mode = "dir" /\ k \in Live(d)
  BY ReachTypes DEF Shown, IInv, ReachFacts
<1>2. k \in Slots(d) /\ k \in Nat /\ BlockAt(d, k \div DPB) # 0 /\ Dentry(d, k).num # 0
  BY <1>1, EntryTypes DEF IInv, EntryFacts, Live
<1>3. Dentry(d, k) \in DentryRec
  BY <1>1, <1>2, EntryTypes DEF IInv, EntryFacts
<1>4. Dentry(d, k).num \in Reach
  <2>1. Dentry(d, k).num \in Kids(d)
    BY <1>1, Bounds DEF Kids, IsDir
  <2> QED BY <1>1, <2>1, ReachTypes DEF IInv, ReachFacts
<1>5. Dentry(d, k).num \in Inums /\ Dentry(d, k).name \in Names
  BY <1>3 DEF DentryRec, Shown
<1>6. inode[Dentry(d, k).num].mode \in {"file", "dir"}
  BY <1>4, <1>5, CellTypes DEF IInv, TreeInv, UseInv, CellFacts
<1> QED BY <1>1, <1>2, <1>4, <1>5, <1>6 DEF EntryOK

\* ShownIs after the step.
LEMMA ShownNext ==
  ASSUME NEW d, NEW k
  PROVE  IInv' /\ Shown(d, k)' => EntryOK(d, k)'
<1>1. IInv /\ Shown(d, k) => EntryOK(d, k)
  BY ShownIs
<1> QED BY <1>1, PTL

(* The names before and after a step, from the entries that are shown.      *)
LEMMA NamesAre ==
  ASSUME IInv, IInv'
  PROVE  /\ \A r : r \in Named <=> \E d, k : Shown(d, k) /\ r = Rec(d, k)
         /\ \A r : r \in Named' <=> \E d, k : Shown(d, k)' /\ r = Rec(d, k)'
<1>1. \A r : r \in Named <=> \E d, k : Shown(d, k) /\ r = Rec(d, k)
  <2>1. \A d, k : Shown(d, k) => d \in Reach /\ k \in Live(d)
    BY DEF Shown
  <2> QED BY <2>1, NamedIs DEF IInv, NamedFacts
<1>2. \A r : r \in Named' <=> \E d, k : Shown(d, k)' /\ r = Rec(d, k)'
  <2>1. \A d, k : Shown(d, k)' => d \in Reach' /\ k \in Live(d)'
    BY DEF Shown
  <2> QED BY <2>1, NamedNext DEF IInv, NamedFacts
<1> QED BY <1>1, <1>2

\* A step that changes no entry with a name leaves the names as they are.
LEMMA NamedSame ==
  ASSUME IInv, IInv', \A d, k : Shown(d, k)' <=> Shown(d, k),
         \A d, k : Shown(d, k) => Rec(d, k)' = Rec(d, k)
  PROVE  Named' = Named
<1>1. \A r : r \in Named' <=> r \in Named
  BY NamesAre
<1>2. \A S, T : (\A r : r \in S <=> r \in T) => S = T
  OBVIOUS
<1> QED BY <1>1, <1>2

(* A step that neither begins nor ends the naming of a hole, and changes    *)
(* nothing that can be reached, leaves the names as they are.               *)
LEMMA SameShown ==
  ASSUME IInv, IInv', SameNames, op'.pc = "name" <=> op.pc = "name",
         op.pc = "name" => op'.dir = op.dir /\ op'.at = op.at
  PROVE  /\ \A d, k : Shown(d, k)' <=> Shown(d, k)
         /\ Named' = Named
<1>1. \A d, k : Shown(d, k)' <=> Shown(d, k)
  BY DEF SameNames, Shown
<1>2. ASSUME NEW d, NEW k, Shown(d, k) PROVE Rec(d, k)' = Rec(d, k)
  <2>1. EntryOK(d, k)
    BY <1>2, ShownIs
  <2>2. Dentry(d, k)' = Dentry(d, k)
    BY <2>1 DEF SameNames, EntryOK
  <2> QED BY <2>1, <2>2 DEF SameNames, EntryOK, Rec
<1> QED BY <1>1, <1>2, NamedSame

(* The handler goes on with the entry that it makes, or makes none.         *)
SameWork ==
  /\ op'.pc = "name" <=> op.pc = "name"
  /\ op.pc = "name" => op'.at = op.at
  /\ Makes' => Makes /\ op'.dir = op.dir /\ op'.name = op.name

\* The handler that makes an inode does so in a directory that can be reached.
LEMMA MakesIn ==
  ASSUME IInv, Makes
  PROVE  op.dir \in Reach /\ inode[op.dir].mode = "dir"
BY DEF IInv, OpInv, AddInv, NameInv, Makes

\* Found is kept where names and the work of the handler are.
LEMMA FoundKept ==
  ASSUME IInv, IInv', Found, SameNames, SameWork
  PROVE  Found' /\ Named' = Named
<1>1. (\A d, k : Shown(d, k)' <=> Shown(d, k)) /\ Named' = Named
  BY SameShown DEF SameWork, Makes
<1>2. ASSUME NEW i \in Reach' \ {0}, inode'[i].mode = "dir",
             Live(i)' # {} \/ (Makes' /\ i = op'.dir)
      PROVE  \E d \in Reach' : \E k \in Live(d)' : Shown(d, k)' /\ Dentry(d, k)'.num = i
  <2>1. i \in Reach \ {0} /\ inode[i].mode = "dir" /\ (Live(i) # {} \/ (Makes /\ i = op.dir))
    BY <1>2 DEF SameNames, SameWork
  <2>2. PICK d \in Reach : \E k \in Live(d) : Shown(d, k) /\ Dentry(d, k).num = i
    BY <2>1 DEF Found
  <2>3. PICK k \in Live(d) : Shown(d, k) /\ Dentry(d, k).num = i
    BY <2>2
  <2>4. inode[d].mode = "dir"
    BY <2>3 DEF Shown
  <2>5. d \in Reach' /\ k \in Live(d)' /\ Dentry(d, k)' = Dentry(d, k)
    BY <2>4 DEF SameNames
  <2> QED BY <1>1, <2>3, <2>5
<1> QED BY <1>1, <1>2 DEF Found

\* A step of the same handler that changes no name keeps all about names.
LEMMA QuietStep ==
  ASSUME IInv, IInv', NameOK, SameNames, SameWork, LastNamed'
  PROVE  NameOK' /\ Named' = Named
<1>1. Found' /\ Named' = Named
  BY FoundKept DEF NameOK
<1>2. ASSUME KernelChecks, Makes', NEW k \in Live(op.dir)', Dentry(op.dir, k)'.name = op'.name
      PROVE  op'.pc = "name" /\ k = op'.at
  <2>d. PICK d : d = op.dir
    OBVIOUS
  <2>1. Makes /\ op'.dir = d /\ op'.name = op.name
    BY <1>2, <2>d DEF SameWork
  <2>2. d \in Reach /\ inode[d].mode = "dir"
    BY <2>d, <2>1, MakesIn
  <2>3. k \in Live(d)' /\ Dentry(d, k)'.name = op.name
    BY <1>2, <2>1
  <2>4. k \in Live(d) /\ Dentry(d, k).name = op.name
    BY <2>2, <2>3 DEF SameNames
  <2>5. op.pc = "name" /\ k = op.at
    BY <1>2, <2>d, <2>1, <2>4 DEF NameOK, NewName
  <2> QED BY <2>5 DEF SameWork
<1>3. NewName'
  BY <1>2 DEF NewName
<1> QED BY <1>1, <1>3 DEF NameOK

(* One entry more: a new inode, in a directory that one can look up.       *)
LEMMA Gained ==
  ASSUME IInv, IInv', Found, Makes, NEW d, d = op.dir, NEW k,
         \A a, j : Shown(a, j)' <=> Shown(a, j) \/ (a = d /\ j = k),
         \A a, j : Shown(a, j) => Rec(a, j)' = Rec(a, j) /\ Dentry(a, j).num # Dentry(d, k)'.num
  PROVE  \E r \in Tree!Entry : r = Rec(d, k)' /\ Tree!Fresh(r) /\ Named' = Named \cup {r}
<1>r. PICK r : r = Rec(d, k)'
  OBVIOUS
<1>1. EntryOK(d, k)'
  BY ShownNext
<1>2. /\ r = [dir |-> d, name |-> Dentry(d, k)'.name, ino |-> Dentry(d, k)'.num,
              kind |-> inode'[Dentry(d, k)'.num].mode]
      /\ r.dir = d /\ r.ino = Dentry(d, k)'.num
  BY <1>r DEF Rec
<1>3. r \in Tree!Entry
  <2>1. /\ d \in Inums /\ Dentry(d, k)'.name \in Names /\ Dentry(d, k)'.num \in Inums \ {0}
        /\ inode'[Dentry(d, k)'.num].mode \in {"file", "dir"}
    BY <1>1 DEF EntryOK, Inums
  <2> QED BY <1>2, <2>1 DEF Tree!Entry
<1>4. d \in Tree!Dirs
  <2>1. CASE d = 0
    BY <2>1 DEF Tree!Dirs
  <2>2. CASE d # 0
    <3>1. d \in Reach /\ inode[d].mode = "dir"
      BY MakesIn
    <3>2. PICK a \in Reach : \E j \in Live(a) : Shown(a, j) /\ Dentry(a, j).num = d
      BY <2>2, <3>1 DEF Found
    <3>3. PICK j \in Live(a) : Shown(a, j) /\ Dentry(a, j).num = d
      BY <3>2
    <3>4. Rec(a, j) \in Named /\ Rec(a, j).kind = "dir" /\ Rec(a, j).ino = d
      BY <3>1, <3>3, NamesAre DEF Rec
    <3> QED BY <3>4 DEF Tree!Dirs
  <2> QED BY <2>1, <2>2
<1>5. \A f \in Named : f.ino # r.ino
  <2>1. \A a, j : Rec(a, j).ino = Dentry(a, j).num
    BY DEF Rec
  <2> QED BY <1>2, <2>1, NamesAre
<1>6. Named' = Named \cup {r}
  <2>1. \A x : x \in Named' <=> x \in Named \/ x = r
    BY <1>r, NamesAre
  <2> QED BY <2>1
<1> QED BY <1>r, <1>2, <1>3, <1>4, <1>5, <1>6 DEF Tree!Fresh

(* mknod and mkdir begin: the directory was looked up.                     *)
LEMMA LookedUp ==
  ASSUME IInv, op.pc # "name", NEW p \in Paths, Lookup(p) # None, Lookup(p) # 0
  PROVE  \E d \in Reach : \E k \in Live(d) : Shown(d, k) /\ Dentry(d, k).num = Lookup(p)
<1>1. p # <<>>
  <2>1. ASSUME p = <<>> PROVE FALSE
    <3>1. PICK w : Way(p, w)
      BY WayExists DEF IInv
    <3>2. Len(p) = 0
      BY <2>1
    <3> QED BY <3>1, <3>2 DEF Way
  <2> QED BY <2>1
<1>d. PICK d : d = Lookup(Front(p))
  OBVIOUS
<1>2. /\ d \in Reach /\ inode[d].mode = "dir"
      /\ \E k \in Live(d) : Dentry(d, k).num = Lookup(p) /\ Dentry(d, k).name \in Names
  BY <1>1, <1>d, LookupIs DEF IInv
<1>3. NoName \notin Names
  OBVIOUS
<1> QED BY <1>2, <1>3 DEF Shown

\* A name that is not found is that of no entry in use.
LEMMA NotThere ==
  ASSUME IInv, NEW d \in Reach, IsDir(d), NEW n, LookupIn(d, n) = None
  PROVE  \A k \in Live(d) : Dentry(d, k).name # n
<1> DEFINE S == {j \in Live(d) : Dentry(d, j).name = n}
<1>1. SUFFICES ASSUME S # {} PROVE FALSE
  OBVIOUS
<1>2. d \in Inums /\ \A j \in Live(d) : j \in Nat
  BY ReachTypes, EntryTypes DEF IInv, ReachFacts, EntryFacts
<1>k. PICK k : k = First(S)
  OBVIOUS
<1>3. k \in S
  <2>1. S \in SUBSET Nat
    BY <1>2
  <2> HIDE DEF S
  <2> QED BY <1>1, <1>k, <2>1, FirstIs
<1>4. k # None
  BY <1>2, <1>3 DEF None
<1>5. Dentry(d, k).num \in Kids(d)
  BY <1>3 DEF Kids
<1>6. Dentry(d, k).num \in Reach /\ Dentry(d, k).num \in ibit /\ Dentry(d, k).num # None
  BY <1>5, ReachTypes, Bounds DEF IInv, ReachFacts, TreeInv, UseInv
<1>7. LookupIn(d, n) = Dentry(d, k).num
  BY <1>k, <1>4, <1>6 DEF LookupIn
<1> QED BY <1>6, <1>7

\* The start of mknod and mkdir changes no name.
LEMMA CreateNames ==
  ASSUME IInv, IInv', NameOK, SameNames, op = Idle, NEW p \in Paths, NEW n, NEW mode,
         IsDir(Lookup(p)), KernelChecks => LookupIn(Lookup(p), n) = None,
         Create(Lookup(p), n, mode)
  PROVE  NameOK' /\ UNCHANGED Tree!nsVars
<1>d. PICK d : d = Lookup(p)
  OBVIOUS
<1>1. /\ op.pc = "idle" /\ op'.pc = "fill" /\ op'.dir = d /\ op'.name = n /\ crashes' = crashes
  BY <1>d DEF Create, Idle
<1>2. d \in Reach /\ inode[d].mode = "dir" /\ d # None /\ IsDir(d)
  BY <1>d, LookupIs DEF IInv, IsDir
<1>3. (\A a, k : Shown(a, k)' <=> Shown(a, k)) /\ Named' = Named
  BY <1>1, SameShown
<1>4. NewName'
  <2>1. ASSUME KernelChecks, NEW k \in Live(d)', Dentry(d, k)'.name = n PROVE FALSE
    <3>1. k \in Live(d) /\ Dentry(d, k).name = n
      BY <1>2, <2>1 DEF SameNames
    <3> QED BY <1>d, <1>2, <2>1, <3>1, NotThere
  <2> QED BY <1>1, <2>1 DEF NewName
<1>5. Found'
  <2>1. ASSUME NEW i \in Reach' \ {0}, inode'[i].mode = "dir", Live(i)' # {} \/ i = d
        PROVE  \E a \in Reach' : \E k \in Live(a)' : Shown(a, k)' /\ Dentry(a, k)'.num = i
    <3>1. i \in Reach \ {0} /\ inode[i].mode = "dir" /\ (Live(i) # {} \/ i = d)
      BY <2>1 DEF SameNames
    <3>2. \E a \in Reach : \E k \in Live(a) : Shown(a, k) /\ Dentry(a, k).num = i
      <4>1. CASE Live(i) # {}
        BY <3>1, <4>1 DEF NameOK, Found
      <4>2. CASE i = d
        BY <1>d, <1>1, <1>2, <3>1, <4>2, LookedUp
      <4> QED BY <3>1, <4>1, <4>2
    <3>3. PICK a \in Reach : \E k \in Live(a) : Shown(a, k) /\ Dentry(a, k).num = i
      BY <3>2
    <3>4. PICK k \in Live(a) : Shown(a, k) /\ Dentry(a, k).num = i
      BY <3>3
    <3>5. inode[a].mode = "dir"
      BY <3>4 DEF Shown
    <3>6. a \in Reach' /\ k \in Live(a)' /\ Dentry(a, k)' = Dentry(a, k)
      BY <3>5 DEF SameNames
    <3> QED BY <1>3, <3>4, <3>6
  <2> QED BY <1>1, <2>1 DEF Found
<1>6. LastNamed'
  BY <1>1 DEF LastNamed
<1> QED BY <1>1, <1>3, <1>4, <1>5, <1>6 DEF NameOK, Tree!nsVars

(* The hole has its number: the entry is still the handler's own.          *)
LEMMA AddInHoleNames ==
  ASSUME IInv, IInv', NameOK, AddInHole
  PROVE  NameOK' /\ UNCHANGED Tree!nsVars
<1>d. PICK d : d = op.dir
  OBVIOUS
<1>n. PICK n : n = op.ino
  OBVIOUS
<1>1. PICK k : TreeGains(d, k, n) /\ op'.at = k
  BY <1>d, <1>n, AddInHoleStep
<1>2. /\ op.pc = "add" /\ op'.pc = "name" /\ op'.dir = d /\ op'.name = op.name
      /\ crashes' = crashes
  <2>1. op' = [op EXCEPT !.pc = "name", !.at = Stop] /\ op.pc = "add" /\ crashes' = crashes
    BY DEF AddInHole
  <2> QED BY <1>d, <2>1, OpTypes DEF IInv, OpFacts, Ops
<1>3. /\ d \in Reach /\ inode[d].mode = "dir" /\ k \notin Live(d) /\ Reach' = Reach \cup {n}
      /\ n \notin Reach /\ Live(n)' = {} /\ Live(d)' = Live(d) \cup {k}
      /\ \A i \in Reach : inode'[i].mode = inode[i].mode
      /\ \A i \in Reach : inode[i].mode = "dir" =>
           /\ i # d => Live(i)' = Live(i)
           /\ \A j \in Live(i) : Dentry(i, j)' = Dentry(i, j)
  BY <1>1 DEF TreeGains
<1>4. \A a, j : Shown(a, j)' <=> Shown(a, j)
  <2>1. ASSUME NEW a, NEW j, Shown(a, j) PROVE Shown(a, j)'
    BY <1>1, <1>2, <1>3, <2>1 DEF Shown
  <2>2. ASSUME NEW a, NEW j, Shown(a, j)' PROVE Shown(a, j)
    <3>1. a # n /\ a \in Reach
      BY <1>3, <2>2 DEF Shown
    <3>2. inode[a].mode = "dir" /\ j \in Live(a)
      BY <1>1, <1>2, <1>3, <2>2, <3>1 DEF Shown
    <3> QED BY <1>2, <1>3, <2>2, <3>1, <3>2 DEF Shown
  <2> QED BY <2>1, <2>2
<1>5. ASSUME NEW a, NEW j, Shown(a, j) PROVE Rec(a, j)' = Rec(a, j)
  <2>1. EntryOK(a, j)
    BY <1>5, ShownIs
  <2> QED BY <1>3, <2>1 DEF EntryOK, Rec
<1>6. Named' = Named
  BY <1>4, <1>5, NamedSame
<1>7. NewName'
  <2>1. ASSUME KernelChecks, NEW j \in Live(d), Dentry(d, j)'.name = op.name PROVE FALSE
    <3>1. Makes /\ Dentry(d, j).name = op.name
      BY <1>2, <1>3, <2>1 DEF Makes, Adds
    <3> QED BY <1>d, <1>2, <2>1, <3>1 DEF NameOK, NewName
  <2> QED BY <1>1, <1>2, <1>3, <2>1 DEF NewName
<1>8. Found'
  <2>1. ASSUME NEW i \in Reach' \ {0}, inode'[i].mode = "dir", Live(i)' # {} \/ i = d
        PROVE  \E a \in Reach' : \E j \in Live(a)' : Shown(a, j)' /\ Dentry(a, j)'.num = i
    <3>1. i \in Reach \ {0} /\ inode[i].mode = "dir" /\ (Live(i) # {} \/ i = d)
      BY <1>3, <2>1
    <3>2. Makes
      BY <1>2 DEF Makes, Adds
    <3>3. PICK a \in Reach : \E j \in Live(a) : Shown(a, j) /\ Dentry(a, j).num = i
      BY <1>d, <3>1, <3>2 DEF NameOK, Found
    <3>4. PICK j \in Live(a) : Shown(a, j) /\ Dentry(a, j).num = i
      BY <3>3
    <3>5. Shown(a, j)' /\ Dentry(a, j)' = Dentry(a, j)
      BY <1>3, <1>4, <3>4 DEF Shown
    <3>6. a \in Reach' /\ j \in Live(a)'
      BY <3>5 DEF Shown
    <3> QED BY <3>4, <3>5, <3>6
  <2> QED BY <1>2, <2>1 DEF Found
<1>9. LastNamed'
  BY <1>2 DEF LastNamed
<1> QED BY <1>2, <1>6, <1>7, <1>8, <1>9 DEF NameOK, Tree!nsVars

(* No handler makes an entry after a step that ends one.                   *)
LEMMA FoundAtRest ==
  ASSUME IInv, IInv', Found, op' = Idle,
         \A i \in Reach' : inode'[i].mode = "dir" /\ Live(i)' # {} =>
           i \in Reach /\ inode[i].mode = "dir" /\ (Live(i) # {} \/ (Makes /\ i = op.dir)),
         \A a, j : Shown(a, j) => Shown(a, j)' /\ Dentry(a, j)'.num = Dentry(a, j).num
  PROVE  NameOK'
<1>1. op'.pc = "idle" /\ ~ Makes'
  BY DEF Idle, Makes, Adds
<1>2. NewName' /\ LastNamed'
  BY <1>1 DEF NewName, LastNamed
<1>3. ASSUME NEW i \in Reach' \ {0}, inode'[i].mode = "dir", Live(i)' # {}
      PROVE  \E a \in Reach' : \E j \in Live(a)' : Shown(a, j)' /\ Dentry(a, j)'.num = i
  <2>1. i \in Reach \ {0} /\ inode[i].mode = "dir" /\ (Live(i) # {} \/ (Makes /\ i = op.dir))
    BY <1>3
  <2>2. PICK a \in Reach : \E j \in Live(a) : Shown(a, j) /\ Dentry(a, j).num = i
    BY <2>1 DEF Found
  <2>3. PICK j \in Live(a) : Shown(a, j) /\ Dentry(a, j).num = i
    BY <2>2
  <2>4. Shown(a, j)' /\ Dentry(a, j)'.num = i
    BY <2>3
  <2>5. a \in Reach' /\ j \in Live(a)'
    BY <2>4 DEF Shown
  <2> QED BY <2>4, <2>5
<1>4. Found'
  BY <1>1, <1>3 DEF Found
<1> QED BY <1>2, <1>4 DEF NameOK

(* The hole has its name: the entry is made.                               *)
LEMMA NameHoleNames ==
  ASSUME IInv, IInv', NameOK, NameHole
  PROVE  NameOK' /\ \E r \in Tree!Entry \cap Named' : Tree!Create(r)
<1>d. PICK d : d = op.dir
  OBVIOUS
<1>k. PICK k : k = op.at
  OBVIOUS
<1>n. PICK name : name = op.name
  OBVIOUS
<1>1. TreeNames(d, k, name)
  BY <1>d, <1>k, <1>n, NameHoleStep
<1>2. op.pc = "name" /\ op' = Idle /\ op'.pc = "idle" /\ crashes' = crashes /\ Makes
  BY DEF NameHole, Idle, Makes
<1>3. /\ d \in Reach /\ inode[d].mode = "dir" /\ k \in Live(d)
      /\ Reach' = Reach /\ inode' = inode
      /\ \A i \in Reach : inode[i].mode = "dir" =>
           /\ Live(i)' = Live(i)
           /\ \A j \in Live(i) : i # d \/ j # k => Dentry(i, j)' = Dentry(i, j)
      /\ Dentry(d, k)'.num = Dentry(d, k).num /\ Dentry(d, k)'.name = name
  BY <1>1 DEF TreeNames
<1>4. name \in Names /\ name # NoName
  BY <1>n, <1>2 DEF IInv, OpInv, NameInv
<1>5. \A a, j : Shown(a, j)' <=> Shown(a, j) \/ (a = d /\ j = k)
  <2>1. ASSUME NEW a, NEW j, Shown(a, j) PROVE Shown(a, j)'
    <3>1. a \in Reach /\ j \in Live(a) /\ inode[a].mode = "dir" /\ (a # d \/ j # k)
      BY <1>d, <1>k, <1>2, <2>1 DEF Shown
    <3> QED BY <1>2, <1>3, <2>1, <3>1 DEF Shown
  <2>2. Shown(d, k)'
    BY <1>2, <1>3, <1>4 DEF Shown
  <2>3. ASSUME NEW a, NEW j, Shown(a, j)', a # d \/ j # k PROVE Shown(a, j)
    BY <1>d, <1>k, <1>3, <2>3 DEF Shown
  <2> QED BY <2>1, <2>2, <2>3
<1>6. ASSUME NEW a, NEW j, Shown(a, j)
      PROVE  /\ Dentry(a, j)' = Dentry(a, j) /\ Rec(a, j)' = Rec(a, j)
             /\ Dentry(a, j).num # Dentry(d, k)'.num
  <2>1. a \in Reach /\ j \in Live(a) /\ inode[a].mode = "dir" /\ (a # d \/ j # k)
    BY <1>d, <1>k, <1>2, <1>6 DEF Shown
  <2>2. Dentry(a, j)' = Dentry(a, j)
    BY <1>3, <2>1
  <2>3. Dentry(a, j).num # Dentry(d, k).num
    BY <1>3, <2>1 DEF IInv, TreeInv, EntryInv
  <2> QED BY <1>3, <2>2, <2>3 DEF Rec
<1>7. PICK r \in Tree!Entry : r = Rec(d, k)' /\ Tree!Fresh(r) /\ Named' = Named \cup {r}
  BY <1>d, <1>2, <1>5, <1>6, Gained DEF NameOK
<1>8. ASSUME KernelChecks, NEW f \in Named, f.dir = r.dir PROVE f.name # r.name
  <2>1. PICK a, j : Shown(a, j) /\ f = Rec(a, j)
    BY NamesAre
  <2>2. a = d /\ f.name = Dentry(d, j).name /\ r.name = name /\ j \in Live(d) /\ j # k
    BY <1>d, <1>k, <1>2, <1>3, <1>7, <1>8, <2>1 DEF Rec, Shown
  <2> QED BY <1>d, <1>k, <1>n, <1>2, <1>8, <2>2 DEF NameOK, NewName
<1>9. Tree!Create(r)
  BY <1>2, <1>7, <1>8 DEF Tree!Create
<1>10. NameOK'
  <2>1. \A i \in Reach' : inode'[i].mode = "dir" /\ Live(i)' # {} =>
          i \in Reach /\ inode[i].mode = "dir" /\ (Live(i) # {} \/ (Makes /\ i = op.dir))
    BY <1>3
  <2> QED BY <1>2, <1>5, <1>6, <2>1, FoundAtRest DEF NameOK
<1> QED BY <1>7, <1>9, <1>10

(* The size covers the last entry: it is made.                             *)
LEMMA GrowDirNames ==
  ASSUME IInv, IInv', NameOK, GrowDir
  PROVE  NameOK' /\ \E r \in Tree!Entry \cap Named' : Tree!Create(r)
<1>d. PICK d : d = op.dir
  OBVIOUS
<1>k. PICK k : k = op.at
  OBVIOUS
<1>n. PICK n : n = op.ino
  OBVIOUS
<1>1. TreeGains(d, k, n) /\ Dentry(d, k)' = Dentry(d, k)
  BY <1>d, <1>k, <1>n, GrowDirStep
<1>2. /\ op.pc = "size" /\ op' = Idle /\ op'.pc = "idle" /\ crashes' = crashes /\ Makes
  BY DEF GrowDir, Idle, Makes, Adds
<1>3. /\ d \in Reach /\ inode[d].mode = "dir" /\ k \notin Live(d) /\ Reach' = Reach \cup {n}
      /\ n \notin Reach /\ Live(n)' = {} /\ Live(d)' = Live(d) \cup {k}
      /\ \A i \in Reach : inode'[i].mode = inode[i].mode
      /\ \A i \in Reach : inode[i].mode = "dir" =>
           /\ i # d => Live(i)' = Live(i)
           /\ \A j \in Live(i) : Dentry(i, j)' = Dentry(i, j)
      /\ Dentry(d, k)'.num = n
  BY <1>1 DEF TreeGains
<1>4. Dentry(d, k)'.name = op.name /\ op.name \in Names /\ op.name # NoName
  <2>1. Dentry(d, k).name = op.name
    BY <1>d, <1>k, <1>2 DEF NameOK, LastNamed
  <2> QED BY <1>1, <1>2, <2>1 DEF IInv, OpInv, AddInv, Adds
<1>5. \A a, j : Shown(a, j)' <=> Shown(a, j) \/ (a = d /\ j = k)
  <2>1. ASSUME NEW a, NEW j, Shown(a, j) PROVE Shown(a, j)'
    <3>1. a \in Reach /\ j \in Live(a) /\ inode[a].mode = "dir"
      BY <2>1 DEF Shown
    <3> QED BY <1>2, <1>3, <2>1, <3>1 DEF Shown
  <2>2. Shown(d, k)'
    BY <1>2, <1>3, <1>4 DEF Shown
  <2>3. ASSUME NEW a, NEW j, Shown(a, j)', a # d \/ j # k PROVE Shown(a, j)
    <3>1. a # n /\ a \in Reach
      BY <1>3, <2>3 DEF Shown
    <3>2. inode[a].mode = "dir" /\ j \in Live(a)
      BY <1>3, <2>3, <3>1 DEF Shown
    <3> QED BY <1>2, <1>3, <2>3, <3>1, <3>2 DEF Shown
  <2> QED BY <2>1, <2>2, <2>3
<1>6. ASSUME NEW a, NEW j, Shown(a, j)
      PROVE  /\ Dentry(a, j)' = Dentry(a, j) /\ Rec(a, j)' = Rec(a, j)
             /\ Dentry(a, j).num # Dentry(d, k)'.num
  <2>1. EntryOK(a, j)
    BY <1>6, ShownIs
  <2>2. Dentry(a, j)' = Dentry(a, j) /\ Dentry(a, j).num \in Reach
    BY <1>3, <2>1 DEF EntryOK
  <2> QED BY <1>3, <2>2 DEF Rec
<1>7. PICK r \in Tree!Entry : r = Rec(d, k)' /\ Tree!Fresh(r) /\ Named' = Named \cup {r}
  BY <1>d, <1>2, <1>5, <1>6, Gained DEF NameOK
<1>8. ASSUME KernelChecks, NEW f \in Named, f.dir = r.dir PROVE f.name # r.name
  <2>1. PICK a, j : Shown(a, j) /\ f = Rec(a, j)
    BY NamesAre
  <2>2. f.name = Dentry(d, j).name /\ r.name = op.name /\ j \in Live(d)
    BY <1>4, <1>7, <1>8, <2>1 DEF Rec, Shown
  <2> QED BY <1>d, <1>2, <1>8, <2>2 DEF NameOK, NewName
<1>9. Tree!Create(r)
  BY <1>2, <1>7, <1>8 DEF Tree!Create
<1>10. NameOK'
  <2>1. \A i \in Reach' : inode'[i].mode = "dir" /\ Live(i)' # {} =>
          i \in Reach /\ inode[i].mode = "dir" /\ (Live(i) # {} \/ (Makes /\ i = op.dir))
    BY <1>d, <1>2, <1>3
  <2> QED BY <1>2, <1>5, <1>6, <2>1, FoundAtRest DEF NameOK
<1> QED BY <1>7, <1>9, <1>10

(* unlink and rmdir: the entry is gone, and it was the one that was named.  *)
LEMMA RemoveNames ==
  ASSUME IInv, IInv', NameOK, NEW d, NEW k, NEW n, TreeLoses(d, k, n),
         op = Idle, op'.pc = "unname", crashes' = crashes
  PROVE  NameOK' /\ \E r \in Named \ Named' : Tree!Remove(r)
<1>1. /\ d \in Reach /\ inode[d].mode = "dir" /\ k \in Live(d)
      /\ Dentry(d, k).num = n /\ Dentry(d, k).name # NoName
      /\ n \in Reach \ {0} /\ Kids(n) = {} /\ Reach' = Reach \ {n} /\ inode' = inode
      /\ Live(d)' = Live(d) \ {k}
      /\ \A i \in Reach : inode[i].mode = "dir" =>
           /\ i # d => Live(i)' = Live(i)
           /\ \A j \in Live(i) : i # d \/ j # k => Dentry(i, j)' = Dentry(i, j)
  BY DEF TreeLoses
<1>2. op.pc = "idle" /\ ~ Makes'
  BY DEF Idle, Makes, Adds
<1>3. \A a, j : Shown(a, j) => a # n
  <2>1. ASSUME NEW j, Shown(n, j) PROVE FALSE
    <3>1. j \in Live(n) /\ IsDir(n)
      BY <2>1, ReachTypes, Bounds DEF Shown, IsDir, IInv, ReachFacts
    <3>2. Dentry(n, j).num \in Kids(n)
      BY <3>1 DEF Kids
    <3> QED BY <1>1, <3>2
  <2> QED BY <2>1
<1>4. \A a, j : Shown(a, j)' <=> Shown(a, j) /\ ~ (a = d /\ j = k)
  <2>1. ASSUME NEW a, NEW j, Shown(a, j), a # d \/ j # k PROVE Shown(a, j)'
    <3>1. a \in Reach' /\ inode'[a].mode = "dir" /\ j \in Live(a)' /\ Dentry(a, j)' = Dentry(a, j)
      BY <1>1, <1>3, <2>1 DEF Shown
    <3> QED BY <2>1, <3>1 DEF Shown
  <2>2. ASSUME NEW a, NEW j, Shown(a, j)' PROVE Shown(a, j) /\ ~ (a = d /\ j = k)
    <3>1. a \in Reach /\ inode[a].mode = "dir" /\ j \in Live(a) /\ ~ (a = d /\ j = k)
      BY <1>1, <2>2 DEF Shown
    <3> QED BY <1>1, <1>2, <2>2, <3>1 DEF Shown
  <2> QED BY <2>1, <2>2
<1>5. \A a, j : Shown(a, j)' => Dentry(a, j)' = Dentry(a, j) /\ Rec(a, j)' = Rec(a, j)
  <2>1. ASSUME NEW a, NEW j, Shown(a, j)' PROVE Dentry(a, j)' = Dentry(a, j)
    BY <1>1, <1>4, <2>1 DEF Shown
  <2> QED BY <1>1, <2>1 DEF Rec
<1>6. \A a, j : Shown(a, j)' => Dentry(a, j).num # n
  <2>1. ASSUME NEW a, NEW j, Shown(a, j)', Dentry(a, j).num = n PROVE FALSE
    <3>1. a \in Reach /\ inode[a].mode = "dir" /\ j \in Live(a) /\ ~ (a = d /\ j = k)
      BY <1>4, <2>1 DEF Shown
    <3> QED BY <1>1, <2>1, <3>1 DEF IInv, TreeInv, EntryInv
  <2> QED BY <2>1
<1>r. PICK r : r = Rec(d, k)
  OBVIOUS
<1>7. r \in Named /\ r.ino = n
  <2>1. Shown(d, k)
    BY <1>1, <1>2 DEF Shown
  <2> QED BY <1>1, <1>r, <2>1, NamesAre DEF Rec
<1>8. Named' = Named \ {r}
  <2>1. \A a, j : Shown(a, j)' => Rec(a, j) # r
    BY <1>6, <1>7 DEF Rec
  <2>2. \A x : x \in Named' <=> x \in Named /\ x # r
    <3>1. ASSUME NEW x \in Named' PROVE x \in Named /\ x # r
      <4>1. PICK a, j : Shown(a, j)' /\ x = Rec(a, j)'
        BY NamesAre
      <4> QED BY <1>4, <1>5, <2>1, <4>1, NamesAre
    <3>2. ASSUME NEW x \in Named, x # r PROVE x \in Named'
      <4>1. PICK a, j : Shown(a, j) /\ x = Rec(a, j)
        BY NamesAre
      <4>2. Shown(a, j)' /\ x = Rec(a, j)'
        BY <1>4, <1>5, <1>r, <3>2, <4>1
      <4> QED BY <4>2, NamesAre
    <3> QED BY <3>1, <3>2
  <2> QED BY <2>2
<1>9. \A f \in Named : f.dir # r.ino
  <2>1. \A a, j : Rec(a, j).dir = a
    BY DEF Rec
  <2> QED BY <1>3, <1>7, <2>1, NamesAre
<1>10. Tree!Remove(r)
  BY <1>7, <1>8, <1>9 DEF Tree!Remove
<1>11. Found'
  <2>1. ASSUME NEW i \in Reach' \ {0}, inode'[i].mode = "dir", Live(i)' # {}
        PROVE  \E a \in Reach' : \E j \in Live(a)' : Shown(a, j)' /\ Dentry(a, j)'.num = i
    <3>1. i \in Reach \ {0} /\ i # n /\ inode[i].mode = "dir" /\ Live(i) # {}
      BY <1>1, <2>1
    <3>2. PICK a \in Reach : \E j \in Live(a) : Shown(a, j) /\ Dentry(a, j).num = i
      BY <3>1 DEF NameOK, Found
    <3>3. PICK j \in Live(a) : Shown(a, j) /\ Dentry(a, j).num = i
      BY <3>2
    <3>4. Shown(a, j)' /\ Dentry(a, j)' = Dentry(a, j)
      BY <1>1, <1>4, <1>5, <3>1, <3>3
    <3>5. a \in Reach' /\ j \in Live(a)'
      BY <3>4 DEF Shown
    <3> QED BY <3>3, <3>4, <3>5
  <2> QED BY <1>2, <2>1 DEF Found
<1>12. NewName' /\ LastNamed'
  BY <1>2 DEF NewName, LastNamed
<1> QED BY <1>7, <1>8, <1>10, <1>11, <1>12 DEF NameOK

(* A kill: the entry that was being named keeps the hole's old name.       *)
LEMMA CrashNames ==
  ASSUME IInv, IInv', NameOK, Crash
  PROVE  NameOK' /\ Tree!Interrupt
<1>1. op' = Idle /\ op'.pc = "idle" /\ crashes' = crashes + 1 /\ ~ Makes' /\ SameNames
  <2>1. SameNames
    BY CrashStep
  <2> QED BY <2>1 DEF Crash, Idle, Makes, Adds
<1>2. CASE op.pc # "name"
  <2>1. SameWork /\ LastNamed'
    BY <1>1, <1>2 DEF SameWork, LastNamed
  <2>2. NameOK' /\ Named' = Named
    BY <1>1, <2>1, QuietStep
  <2> QED BY <1>1, <2>2 DEF Tree!Interrupt
<1>3. CASE op.pc = "name"
  <2>d. PICK d : d = op.dir
    OBVIOUS
  <2>k. PICK k : k = op.at
    OBVIOUS
  <2>1. /\ d \in Reach /\ inode[d].mode = "dir" /\ k \in Live(d) /\ Makes
    BY <1>3, <2>d, <2>k DEF IInv, OpInv, NameInv, Live, Makes
  <2>2. \A a, j : Shown(a, j) => /\ a \in Reach /\ inode[a].mode = "dir" /\ j \in Live(a)
                                 /\ (a # d \/ j # k) /\ Dentry(a, j)' = Dentry(a, j)
    BY <1>1, <1>3, <2>d, <2>k DEF Shown, SameNames
  <2>3. \A a, j : Shown(a, j)' <=>
          Shown(a, j) \/ (a = d /\ j = k /\ Dentry(d, k).name # NoName)
    <3>1. ASSUME NEW a, NEW j, Shown(a, j) PROVE Shown(a, j)'
      BY <1>1, <2>2, <3>1 DEF Shown, SameNames
    <3>2. Dentry(d, k).name # NoName => Shown(d, k)'
      BY <1>1, <2>1 DEF Shown, SameNames
    <3>3. ASSUME NEW a, NEW j, Shown(a, j)', ~ Shown(a, j)
          PROVE  a = d /\ j = k /\ Dentry(d, k).name # NoName
      <4>1. /\ a \in Reach /\ inode[a].mode = "dir" /\ j \in Live(a)
            /\ Dentry(a, j).name # NoName
        BY <1>1, <3>3 DEF Shown, SameNames
      <4> QED BY <2>d, <2>k, <3>3, <4>1 DEF Shown
    <3> QED BY <3>1, <3>2, <3>3
  <2>4. ASSUME NEW a, NEW j, Shown(a, j)
        PROVE  Rec(a, j)' = Rec(a, j) /\ Dentry(a, j).num # Dentry(d, k)'.num
    <3>1. Dentry(d, k)' = Dentry(d, k)
      BY <1>1, <2>1 DEF SameNames
    <3>2. Dentry(a, j).num # Dentry(d, k).num
      BY <2>1, <2>2, <2>4 DEF IInv, TreeInv, EntryInv
    <3>3. EntryOK(a, j)
      BY <2>4, ShownIs
    <3> QED BY <1>1, <2>2, <2>4, <3>1, <3>2, <3>3 DEF EntryOK, SameNames, Rec
  <2>5. NameOK'
    <3>1. \A i \in Reach' : inode'[i].mode = "dir" /\ Live(i)' # {} =>
            i \in Reach /\ inode[i].mode = "dir" /\ (Live(i) # {} \/ (Makes /\ i = op.dir))
      BY <1>1 DEF SameNames
    <3>2. \A a, j : Shown(a, j) => Shown(a, j)' /\ Dentry(a, j)'.num = Dentry(a, j).num
      BY <2>2, <2>3
    <3> QED BY <1>1, <3>1, <3>2, FoundAtRest DEF NameOK
  <2>6. CASE Dentry(d, k).name = NoName
    <3>1. Named' = Named
      BY <2>3, <2>4, <2>6, NamedSame
    <3> QED BY <1>1, <2>5, <3>1 DEF Tree!Interrupt
  <2>7. CASE Dentry(d, k).name # NoName
    <3>1. \A a, j : Shown(a, j)' <=> Shown(a, j) \/ (a = d /\ j = k)
      BY <2>3, <2>7
    <3>2. PICK r \in Tree!Entry : Tree!Fresh(r) /\ Named' = Named \cup {r}
      BY <2>d, <2>1, <2>4, <3>1, Gained DEF NameOK
    <3> QED BY <1>1, <2>5, <3>2 DEF Tree!Interrupt
  <2> QED BY <2>6, <2>7
<1> QED BY <1>2, <1>3

(* The steps in between, which the names do not show.                      *)
LEMMA QuietNames ==
  ASSUME IInv, IInv', NameOK, SameNames, crashes' = crashes, SameWork, LastNamed'
  PROVE  NameOK' /\ UNCHANGED Tree!nsVars
BY QuietStep DEF Tree!nsVars

\* The steps of mknod and mkdir before the entry appears change no name.
LEMMA MakingNames ==
  ASSUME IInv, IInv', NameOK, FillInode \/ AddRefused \/ AddAtEnd \/ AppendNum \/ NameLast
  PROVE  NameOK' /\ UNCHANGED Tree!nsVars
<1>1. op \in Ops
  BY OpTypes DEF IInv, OpFacts
<1>2. SameNames
  BY FillInodeStep, AddRefusedStep, AddAtEndStep, AppendNumStep, NameLastStep
<1>3. SameWork /\ crashes' = crashes
  <2>1. CASE FillInode
    BY <1>1, <2>1 DEF FillInode, SameWork, Makes, Adds, Ops
  <2>2. CASE AddRefused
    BY <1>1, <2>2 DEF AddRefused, SameWork, Makes, Adds, Ops
  <2>3. CASE AddAtEnd
    BY <1>1, <2>3 DEF AddAtEnd, SameWork, Makes, Adds, Ops
  <2>4. CASE AppendNum
    BY <1>1, <2>4 DEF AppendNum, SameWork, Makes, Adds, Ops
  <2>5. CASE NameLast
    BY <1>1, <2>5 DEF NameLast, SameWork, Makes, Adds, Ops
  <2> QED BY <2>1, <2>2, <2>3, <2>4, <2>5
<1>4. LastNamed'
  <2>1. CASE NameLast
    BY <2>1, NameLastStep DEF LastNamed
  <2>2. CASE ~ NameLast
    <3>1. op'.pc # "size"
      BY <1>1, <2>2 DEF FillInode, AddRefused, AddAtEnd, AppendNum, Ops
    <3> QED BY <3>1 DEF LastNamed
  <2> QED BY <2>1, <2>2
<1> QED BY <1>2, <1>3, <1>4, QuietNames

\* The steps of data_offset and wfs_write change no name.
LEMMA GrowingNames ==
  ASSUME IInv, IInv', NameOK, GrowAlloc \/ GrowLink \/ GrowFail \/ WriteBlock \/ WriteSize
  PROVE  NameOK' /\ UNCHANGED Tree!nsVars
<1>1. op \in Ops
  BY OpTypes DEF IInv, OpFacts
<1>2. SameNames
  BY GrowAllocStep, GrowLinkStep, GrowFailStep, WriteBlockStep, WriteSizeStep
<1>3. SameWork /\ crashes' = crashes /\ op'.pc # "size"
  <2>1. CASE GrowAlloc
    BY <1>1, <2>1 DEF GrowAlloc, SameWork, Makes, Adds, Ops
  <2>2. CASE GrowLink
    BY <1>1, <2>2 DEF GrowLink, SameWork, Makes, Adds, Ops
  <2>3. CASE GrowFail
    BY <1>1, <2>3 DEF GrowFail, SameWork, Makes, Adds, Ops, Idle
  <2>4. CASE WriteBlock
    BY <1>1, <2>4 DEF WriteBlock, SameWork, Makes, Adds, Ops
  <2>5. CASE WriteSize
    BY <1>1, <2>5 DEF WriteSize, SameWork, Makes, Adds, Ops, Idle
  <2> QED BY <2>1, <2>2, <2>3, <2>4, <2>5
<1> QED BY <1>2, <1>3, QuietNames DEF LastNamed

\* The steps of unlink and rmdir after the entry is gone change no name.
LEMMA FreeingNames ==
  ASSUME IInv, IInv', NameOK, ClearName \/ FreeBlock \/ FreeInode \/ WipeInode
  PROVE  NameOK' /\ UNCHANGED Tree!nsVars
<1>1. op \in Ops
  BY OpTypes DEF IInv, OpFacts
<1>2. SameNames
  BY ClearNameStep, FreeBlockStep, FreeInodeStep, WipeInodeStep
<1>3. SameWork /\ crashes' = crashes /\ op'.pc # "size"
  <2>1. CASE ClearName
    BY <1>1, <2>1 DEF ClearName, SameWork, Makes, Adds, Ops, Idle
  <2>2. CASE FreeBlock
    BY <1>1, <2>2 DEF FreeBlock, SameWork, Makes, Adds, Ops
  <2>3. CASE FreeInode
    BY <1>1, <2>3 DEF FreeInode, SameWork, Makes, Adds, Ops
  <2>4. CASE WipeInode
    BY <1>1, <2>4 DEF WipeInode, SameWork, Makes, Adds, Ops, Idle
  <2> QED BY <2>1, <2>2, <2>3, <2>4
<1> QED BY <1>2, <1>3, QuietNames DEF LastNamed

(* Nothing is stored at all.                                               *)
LEMMA StutterNames ==
  ASSUME IInv, IInv', NameOK, UNCHANGED vars
  PROVE  NameOK' /\ UNCHANGED Tree!nsVars
<1>1. /\ op' = op /\ inode' = inode /\ dents' = dents /\ ptrs' = ptrs /\ crashes' = crashes
      /\ SameNames
  BY StutterStep DEF vars, image
<1>2. SameWork
  BY <1>1 DEF SameWork, Makes, Adds
<1>3. LastNamed'
  BY <1>1 DEF NameOK, LastNamed, Dentry, BlockAt
<1> QED BY <1>1, <1>2, <1>3, QuietNames

(* A handler begins.                                                       *)
LEMMA CallNames ==
  ASSUME IInv, IInv', NameOK, Call
  PROVE  NameOK' /\ [Tree!Next]_(Tree!nsVars)
<1>1. CASE Unchanging
  BY <1>1, StutterNames DEF Unchanging
<1>2. CASE \E p \in DirPaths, n \in Names \cup LongNames : Mknod(p, n) \/ Mkdir(p, n)
  <2>1. PICK p \in DirPaths, n \in Names \cup LongNames : Mknod(p, n) \/ Mkdir(p, n)
    BY <1>2
  <2>2. SameNames /\ p \in Paths
    BY <2>1, NewStep DEF DirPaths
  <2>3. /\ op = Idle /\ IsDir(Lookup(p)) /\ (KernelChecks => LookupIn(Lookup(p), n) = None)
        /\ Create(Lookup(p), n, "file") \/ Create(Lookup(p), n, "dir")
    BY <2>1 DEF Mknod, Mkdir
  <2> QED BY <2>2, <2>3, CreateNames
<1>3. CASE \E p \in Paths : Unlink(p) \/ Rmdir(p)
  <2>1. PICK p \in Paths : Unlink(p) \/ Rmdir(p)
    BY <1>3
  <2>2. \E d, k, n : TreeLoses(d, k, n)
    BY <2>1, UnlinkStep, RmdirStep
  <2>3. op = Idle /\ op'.pc = "unname" /\ crashes' = crashes
    BY <2>1 DEF Unlink, Rmdir, RemoveNum, Idle
  <2>4. NameOK' /\ \E r \in Named \ Named' : Tree!Remove(r)
    BY <2>2, <2>3, RemoveNames
  <2> QED BY <2>4 DEF Tree!Next
<1>4. CASE \E p \in Paths, bi \in 0 .. MaxFile, m \in 1 .. MaxWrite : Write(p, bi, m)
  <2>1. PICK p \in Paths, bi \in 0 .. MaxFile, m \in 1 .. MaxWrite : Write(p, bi, m)
    BY <1>4
  <2>2. SameNames
    BY <2>1, WriteStep
  <2>3. SameWork /\ crashes' = crashes /\ op'.pc # "size"
    BY <2>1 DEF Write, Idle, SameWork, Makes, Adds
  <2> QED BY <2>2, <2>3, QuietNames DEF LastNamed
<1> QED BY <1>1, <1>2, <1>3, <1>4 DEF Call

\* Every step is one of the namespace, or none.
LEMMA StepNames ==
  IInv /\ NameOK /\ [Next]_vars => NameOK' /\ [Tree!Next]_(Tree!nsVars)
<1> SUFFICES ASSUME IInv, NameOK, [Next]_vars PROVE NameOK' /\ [Tree!Next]_(Tree!nsVars)
  OBVIOUS
<1>i. IInv'
  BY StepIInv
<1>1. CASE UNCHANGED vars
  BY <1>i, <1>1, StutterNames
<1>2. CASE Call
  BY <1>i, <1>2, CallNames
<1>3. CASE FillInode \/ AddRefused \/ AddAtEnd \/ AppendNum \/ NameLast
  BY <1>i, <1>3, MakingNames
<1>4. CASE AddInHole
  BY <1>i, <1>4, AddInHoleNames
<1>5. CASE NameHole \/ GrowDir
  <2>1. NameOK' /\ \E r \in Tree!Entry \cap Named' : Tree!Create(r)
    BY <1>i, <1>5, NameHoleNames, GrowDirNames
  <2> QED BY <2>1 DEF Tree!Next
<1>6. CASE GrowAlloc \/ GrowLink \/ GrowFail \/ WriteBlock \/ WriteSize
  BY <1>i, <1>6, GrowingNames
<1>7. CASE ClearName \/ FreeBlock \/ FreeInode \/ WipeInode
  BY <1>i, <1>7, FreeingNames
<1>8. CASE Crash
  <2>1. NameOK' /\ Tree!Interrupt
    BY <1>i, <1>8, CrashNames
  <2> QED BY <2>1 DEF Tree!Next
<1> QED BY <1>1, <1>2, <1>3, <1>4, <1>5, <1>6, <1>7, <1>8 DEF Next

\* The image mkfs writes has the names the namespace begins with.
LEMMA InitNames == Init => NameOK /\ Tree!Init
<1> SUFFICES ASSUME Init PROVE NameOK /\ Tree!Init
  OBVIOUS
<1>1. IInv
  BY InitIInv
<1>2. op = Idle /\ crashes = 0 /\ \A i \in Inums : inode[i].size = 0
  BY NewInodeOK DEF Init, NewInode
<1>3. \A d \in Reach : Live(d) = {}
  <2>1. ASSUME NEW d \in Reach PROVE Live(d) = {}
    <3>1. d \in Inums /\ Live(d) \subseteq 0 .. inode[d].size - 1
      BY <1>1, ReachTypes, EntryTypes DEF IInv, ReachFacts, EntryFacts
    <3> QED BY <1>2, <3>1
  <2> QED BY <2>1
<1>4. Named = {}
  BY <1>1, <1>3, NamedIs DEF IInv, NamedFacts
<1>5. NameOK
  BY <1>2, <1>3 DEF NameOK, NewName, Found, LastNamed, Makes, Adds, Idle
<1> QED BY <1>2, <1>4, <1>5 DEF Tree!Init

(* Every call does its work at one step or not at all, whatever the size of *)
(* the image and wherever the daemon is killed: a kill leaves at most the   *)
(* entry that was being made, under the old name of the hole it is in.      *)
THEOREM NamesAreAtomic == Spec => ImplementsNamespace
<1>1. Init => IInv /\ NameOK /\ Tree!Init
  BY InitIInv, InitNames
<1>2. IInv /\ NameOK /\ [Next]_vars => IInv' /\ NameOK' /\ [Tree!Next]_(Tree!nsVars)
  BY StepIInv, StepNames
<1> QED BY <1>1, <1>2, PTL DEF Spec, ImplementsNamespace, Tree!Spec
------------------------------------------------------------------------------
(* What a kill costs in inodes *)

(* The entries without a name, but for the one that is being named.        *)
Bare(d, k) ==
  /\ d \in Reach /\ inode[d].mode = "dir" /\ k \in Live(d)
  /\ Dentry(d, k).name = NoName
  /\ ~ (op.pc = "name" /\ d = op.dir /\ k = op.at)

(* What a kill between a hole's number and its name leaves.                *)
Unnamed == {e \in Entries : Bare(e[1], e[2])}

(* The handler answers for an inode that nothing names.                    *)
Answers == Adds \/ op.pc \in {"unname", "free"}

(* Every inode that is lost, and every entry without a name, is a kill's or *)
(* the handler's.                                                          *)
LostInv ==
  /\ Answers => op.ino \in ibit
  /\ IsFiniteSet(Unnamed)
  /\ Cardinality(ibit \ Reach) + Cardinality(Unnamed) <= crashes + (IF Answers THEN 1 ELSE 0)

BareFacts == \A x : x \in Unnamed <=> \E d, k : Bare(d, k) /\ x = <<d, k>>

\* The entries without a name are those in use that are bare and not being named.
LEMMA UnnamedIs == Types => BareFacts
<1> SUFFICES ASSUME Types PROVE BareFacts
  OBVIOUS
<1>1. \A f : f \in Entries <=>
        \E d \in Reach : \E k \in Live(d) : inode[d].mode = "dir" /\ f = <<d, k>>
  <2>1. \A d \in Reach : IsDir(d) <=> inode[d].mode = "dir"
    BY ReachTypes, Bounds DEF IsDir, ReachFacts
  <2> QED BY <2>1 DEF Entries
<1>2. \A d, k : Bare(d, k) => d \in Reach /\ k \in Live(d) /\ inode[d].mode = "dir"
  BY DEF Bare
<1>3. \A d, k : <<d, k>>[1] = d /\ <<d, k>>[2] = k
  OBVIOUS
<1>4. ASSUME NEW x \in Unnamed PROVE \E d, k : Bare(d, k) /\ x = <<d, k>>
  <2>1. x \in Entries /\ Bare(x[1], x[2])
    BY DEF Unnamed
  <2>2. PICK d \in Reach : \E k \in Live(d) : inode[d].mode = "dir" /\ x = <<d, k>>
    BY <1>1, <2>1
  <2>3. PICK k \in Live(d) : inode[d].mode = "dir" /\ x = <<d, k>>
    BY <2>2
  <2> QED BY <1>3, <2>1, <2>3
<1>5. ASSUME NEW d, NEW k, Bare(d, k) PROVE <<d, k>> \in Unnamed
  <2>1. <<d, k>> \in Entries
    BY <1>1, <1>2, <1>5
  <2> QED BY <1>3, <1>5, <2>1 DEF Unnamed
<1> QED BY <1>4, <1>5 DEF BareFacts

\* UnnamedIs after the step.
LEMMA UnnamedNext == Types' => BareFacts'
BY UnnamedIs, PTL

\* A step that bares no entry leaves the entries without a name as they are.
LEMMA UnnamedSame ==
  ASSUME IInv, IInv', \A d, k : Bare(d, k)' <=> Bare(d, k)
  PROVE  Unnamed' = Unnamed
<1>1. \A x : x \in Unnamed <=> \E d, k : Bare(d, k) /\ x = <<d, k>>
  BY UnnamedIs DEF IInv, BareFacts
<1>2. \A x : x \in Unnamed' <=> \E d, k : Bare(d, k)' /\ x = <<d, k>>
  BY UnnamedNext DEF IInv, BareFacts
<1>3. \A x : x \in Unnamed' <=> x \in Unnamed
  BY <1>1, <1>2
<1>4. \A S, T : (\A x : x \in S <=> x \in T) => S = T
  OBVIOUS
<1> QED BY <1>3, <1>4

\* So does a step that changes neither names nor the naming under way.
LEMMA BareSame ==
  ASSUME IInv, IInv', SameNames, op'.pc = "name" <=> op.pc = "name",
         op.pc = "name" => op'.dir = op.dir /\ op'.at = op.at
  PROVE  Unnamed' = Unnamed
<1>1. \A d, k : Bare(d, k)' <=> Bare(d, k)
  BY DEF SameNames, Bare
<1> QED BY <1>1, UnnamedSame

(* The inodes that are marked and cannot be reached are finitely many.     *)
LostFacts == IsFiniteSet(ibit \ Reach) /\ Cardinality(ibit \ Reach) \in Nat

\* The lost inodes can be counted.
LEMMA LostIs == Types => LostFacts
<1> SUFFICES ASSUME Types PROVE LostFacts
  OBVIOUS
<1>1. ibit \ Reach \subseteq Inums
  BY DEF Types, MapsOK
<1>2. IsFiniteSet(ibit \ Reach)
  BY <1>1, InumsFinite, FS_Subset
<1> QED BY <1>2, FS_CardinalityType DEF LostFacts

\* LostIs after the step.
LEMMA LostNext == Types' => LostFacts'
BY LostIs, PTL

(* A step that loses an inode answers for it.                              *)
LEMMA LostKept ==
  ASSUME IInv, IInv', LostInv, Unnamed' = Unnamed, crashes' = crashes,
         Answers' => op'.ino \in ibit',
         \/ ibit' \ Reach' = ibit \ Reach /\ (Answers => Answers')
         \/ \E n : /\ n \notin ibit \ Reach /\ ibit' \ Reach' = (ibit \ Reach) \cup {n}
                   /\ ~ Answers /\ Answers'
         \/ \E n \in ibit \ Reach : ibit' \ Reach' = (ibit \ Reach) \ {n}
  PROVE  LostInv'
<1>1. /\ IsFiniteSet(ibit \ Reach) /\ Cardinality(ibit \ Reach) \in Nat
      /\ IsFiniteSet(Unnamed) /\ Cardinality(Unnamed) \in Nat /\ crashes \in Nat
  BY LostIs, FS_CardinalityType DEF IInv, Types, OpOK, LostFacts, LostInv
<1>2. Cardinality(ibit \ Reach) + Cardinality(Unnamed) <= crashes + (IF Answers THEN 1 ELSE 0)
  BY DEF LostInv
<1>l. PICK L : L = ibit \ Reach
  OBVIOUS
<1>m. PICK M : M = ibit' \ Reach'
  OBVIOUS
<1>c. PICK c : c = Cardinality(L) /\ c \in Nat /\ IsFiniteSet(L)
  BY <1>1, <1>l
<1>3. Cardinality(M) <= c + (IF Answers' THEN 1 ELSE 0) - (IF Answers THEN 1 ELSE 0)
  <2>1. CASE M = L /\ (Answers => Answers')
    BY <1>c, <2>1
  <2>2. CASE \E n : n \notin L /\ M = L \cup {n} /\ ~ Answers /\ Answers'
    <3>1. PICK n : n \notin L /\ M = L \cup {n} /\ ~ Answers /\ Answers'
      BY <2>2
    <3>2. Cardinality(M) = c + 1
      BY <1>c, <3>1, FS_AddElement
    <3> QED BY <1>c, <3>1, <3>2
  <2>3. CASE \E n \in L : M = L \ {n}
    <3>1. PICK n \in L : M = L \ {n}
      BY <2>3
    <3>2. Cardinality(M) = c - 1
      BY <1>c, <3>1, FS_RemoveElement
    <3> QED BY <1>c, <3>2
  <2> QED BY <1>l, <1>m, <2>1, <2>2, <2>3
<1>4. Cardinality(M) \in Nat
  BY <1>m, LostNext DEF IInv, LostFacts
<1>u. PICK u : u = Cardinality(Unnamed) /\ u \in Nat
  BY <1>1
<1>5. c + u <= crashes + (IF Answers THEN 1 ELSE 0)
  BY <1>2, <1>l, <1>c, <1>u
<1>6. Cardinality(M) + u <= crashes + (IF Answers' THEN 1 ELSE 0)
  <2>v. PICK v : v = Cardinality(M) /\ v \in Nat
    BY <1>4
  <2> QED BY <1>1, <1>3, <1>5, <1>c, <1>u, <2>v
<1> QED BY <1>1, <1>6, <1>m, <1>u DEF LostInv

\* A step of the same handler that changes neither names nor the inode bitmap keeps the
\* count.
LEMMA QuietLost ==
  ASSUME IInv, IInv', LostInv, SameNames, crashes' = crashes, ibit' = ibit,
         op'.pc = "name" <=> op.pc = "name",
         op.pc = "name" => op'.dir = op.dir /\ op'.at = op.at,
         Answers' <=> Answers, Answers => op'.ino = op.ino
  PROVE  LostInv'
<1>1. Unnamed' = Unnamed
  BY BareSame
<1>2. ibit' \ Reach' = ibit \ Reach /\ (Answers' => op'.ino \in ibit')
  BY DEF SameNames, LostInv
<1> QED BY <1>1, <1>2, LostKept

\* The inode that is allocated is answered for.
LEMMA CreateLost ==
  ASSUME IInv, IInv', LostInv, SameNames, op = Idle, NEW d, NEW n, NEW mode, Create(d, n, mode)
  PROVE  LostInv'
<1>i. PICK i : i = Min(Inums \ ibit)
  OBVIOUS
<1>1. i \in Inums \ ibit
  <2>1. Inums \ ibit \in SUBSET Nat /\ Inums \ ibit # {}
    BY DEF Create, Inums
  <2> QED BY <1>i, <2>1, MinNat
<1>2. /\ op.pc = "idle" /\ op'.pc = "fill" /\ op'.ino = i /\ ibit' = ibit \cup {i}
      /\ crashes' = crashes
  BY <1>i DEF Create, Idle
<1>3. ~ Answers /\ Answers'
  BY <1>2 DEF Answers, Adds
<1>4. Unnamed' = Unnamed
  BY <1>2, BareSame
<1>5. i \notin Reach
  BY <1>1 DEF IInv, TreeInv, UseInv
<1>6. ibit' \ Reach' = (ibit \ Reach) \cup {i} /\ i \notin ibit \ Reach
  BY <1>1, <1>2, <1>5 DEF SameNames
<1> QED BY <1>2, <1>3, <1>4, <1>6, LostKept

\* The inode whose number is stored in a hole is lost no more; its name is under way.
LEMMA AddInHoleLost ==
  ASSUME IInv, IInv', LostInv, AddInHole
  PROVE  LostInv'
<1>d. PICK d : d = op.dir
  OBVIOUS
<1>n. PICK n : n = op.ino
  OBVIOUS
<1>1. PICK k : TreeGains(d, k, n) /\ op'.at = k
  BY <1>d, <1>n, AddInHoleStep
<1>2. /\ op.pc = "add" /\ op'.pc = "name" /\ op'.dir = d /\ crashes' = crashes /\ ibit' = ibit
  <2>1. op' = [op EXCEPT !.pc = "name", !.at = Stop] /\ op.pc = "add" /\ crashes' = crashes
        /\ ibit' = ibit
    BY DEF AddInHole
  <2> QED BY <1>d, <2>1, OpTypes DEF IInv, OpFacts, Ops
<1>3. /\ d \in Reach /\ inode[d].mode = "dir" /\ k \notin Live(d) /\ Reach' = Reach \cup {n}
      /\ n \notin Reach /\ Live(n)' = {} /\ Live(d)' = Live(d) \cup {k}
      /\ \A i \in Reach : inode'[i].mode = inode[i].mode
      /\ \A i \in Reach : inode[i].mode = "dir" =>
           /\ i # d => Live(i)' = Live(i)
           /\ \A j \in Live(i) : Dentry(i, j)' = Dentry(i, j)
  BY <1>1 DEF TreeGains
<1>4. \A a, j : Bare(a, j)' <=> Bare(a, j)
  <2>1. ASSUME NEW a, NEW j, Bare(a, j) PROVE Bare(a, j)'
    BY <1>1, <1>2, <1>3, <2>1 DEF Bare
  <2>2. ASSUME NEW a, NEW j, Bare(a, j)' PROVE Bare(a, j)
    <3>1. a # n /\ a \in Reach
      BY <1>3, <2>2 DEF Bare
    <3>2. inode[a].mode = "dir" /\ j \in Live(a)
      BY <1>1, <1>2, <1>3, <2>2, <3>1 DEF Bare
    <3> QED BY <1>2, <1>3, <2>2, <3>1, <3>2 DEF Bare
  <2> QED BY <2>1, <2>2
<1>5. Unnamed' = Unnamed
  BY <1>4, UnnamedSame
<1>6. ibit' \ Reach' = (ibit \ Reach) \ {n} /\ n \in ibit \ Reach
  BY <1>n, <1>2, <1>3 DEF LostInv, Answers, Adds
<1>7. ~ Answers'
  BY <1>2 DEF Answers, Adds
<1> QED BY <1>2, <1>5, <1>6, <1>7, LostKept

\* The name ends what the handler answers for.
LEMMA NameHoleLost ==
  ASSUME IInv, IInv', LostInv, NameHole
  PROVE  LostInv'
<1>d. PICK d : d = op.dir
  OBVIOUS
<1>k. PICK k : k = op.at
  OBVIOUS
<1>n. PICK name : name = op.name
  OBVIOUS
<1>1. TreeNames(d, k, name)
  BY <1>d, <1>k, <1>n, NameHoleStep
<1>2. op.pc = "name" /\ op'.pc = "idle" /\ crashes' = crashes /\ ibit' = ibit
  BY DEF NameHole, Idle
<1>3. /\ Reach' = Reach /\ inode' = inode
      /\ \A i \in Reach : inode[i].mode = "dir" =>
           /\ Live(i)' = Live(i)
           /\ \A j \in Live(i) : i # d \/ j # k => Dentry(i, j)' = Dentry(i, j)
      /\ Dentry(d, k)'.name = name
  BY <1>1 DEF TreeNames
<1>4. name # NoName
  BY <1>n, <1>2 DEF IInv, OpInv, NameInv
<1>5. \A a, j : Bare(a, j)' <=> Bare(a, j)
  <2>1. ASSUME NEW a, NEW j, Bare(a, j) PROVE Bare(a, j)'
    <3>1. a # d \/ j # k
      BY <1>d, <1>k, <1>2, <2>1 DEF Bare
    <3> QED BY <1>2, <1>3, <2>1, <3>1 DEF Bare
  <2>2. ASSUME NEW a, NEW j, Bare(a, j)' PROVE Bare(a, j)
    <3>1. a # d \/ j # k
      BY <1>3, <1>4, <2>2 DEF Bare
    <3> QED BY <1>d, <1>k, <1>3, <2>2, <3>1 DEF Bare
  <2> QED BY <2>1, <2>2
<1>6. ~ Answers /\ ~ Answers' /\ Unnamed' = Unnamed /\ ibit' \ Reach' = ibit \ Reach
  BY <1>2, <1>3, <1>5, UnnamedSame DEF Answers, Adds
<1> QED BY <1>2, <1>6, LostKept

\* The entry that appears with its name ends what the handler answers for.
LEMMA GrowDirLost ==
  ASSUME IInv, IInv', LostInv, NameOK, GrowDir
  PROVE  LostInv'
<1>d. PICK d : d = op.dir
  OBVIOUS
<1>k. PICK k : k = op.at
  OBVIOUS
<1>n. PICK n : n = op.ino
  OBVIOUS
<1>1. TreeGains(d, k, n) /\ Dentry(d, k)' = Dentry(d, k)
  BY <1>d, <1>k, <1>n, GrowDirStep
<1>2. op.pc = "size" /\ op'.pc = "idle" /\ crashes' = crashes /\ ibit' = ibit
  BY DEF GrowDir, Idle
<1>3. /\ d \in Reach /\ inode[d].mode = "dir" /\ k \notin Live(d) /\ Reach' = Reach \cup {n}
      /\ n \notin Reach /\ Live(n)' = {} /\ Live(d)' = Live(d) \cup {k}
      /\ \A i \in Reach : inode'[i].mode = inode[i].mode
      /\ \A i \in Reach : inode[i].mode = "dir" =>
           /\ i # d => Live(i)' = Live(i)
           /\ \A j \in Live(i) : Dentry(i, j)' = Dentry(i, j)
  BY <1>1 DEF TreeGains
<1>4. Dentry(d, k)'.name # NoName
  <2>1. Dentry(d, k).name = op.name
    BY <1>d, <1>k, <1>2 DEF NameOK, LastNamed
  <2> QED BY <1>1, <1>2, <2>1 DEF IInv, OpInv, AddInv, Adds
<1>5. \A a, j : Bare(a, j)' <=> Bare(a, j)
  <2>1. ASSUME NEW a, NEW j, Bare(a, j) PROVE Bare(a, j)'
    <3>1. a \in Reach /\ j \in Live(a) /\ inode[a].mode = "dir"
      BY <2>1 DEF Bare
    <3> QED BY <1>2, <1>3, <2>1, <3>1 DEF Bare
  <2>2. ASSUME NEW a, NEW j, Bare(a, j)' PROVE Bare(a, j)
    <3>1. a # n /\ a \in Reach /\ (a # d \/ j # k)
      BY <1>3, <1>4, <2>2 DEF Bare
    <3>2. inode[a].mode = "dir" /\ j \in Live(a)
      BY <1>3, <2>2, <3>1 DEF Bare
    <3> QED BY <1>2, <1>3, <2>2, <3>1, <3>2 DEF Bare
  <2> QED BY <2>1, <2>2
<1>6. ibit' \ Reach' = (ibit \ Reach) \ {n} /\ n \in ibit \ Reach
  BY <1>n, <1>2, <1>3 DEF LostInv, Answers, Adds
<1>7. ~ Answers' /\ Unnamed' = Unnamed
  BY <1>2, <1>5, UnnamedSame DEF Answers, Adds
<1> QED BY <1>2, <1>6, <1>7, LostKept

\* The inode whose entry is gone is answered for.
LEMMA RemoveLost ==
  ASSUME IInv, IInv', LostInv, NEW d, NEW k, NEW n, TreeLoses(d, k, n), op = Idle,
         op'.pc = "unname", op'.ino = n, crashes' = crashes, ibit' = ibit
  PROVE  LostInv'
<1>1. /\ d \in Reach /\ inode[d].mode = "dir" /\ k \in Live(d)
      /\ Dentry(d, k).name # NoName
      /\ n \in Reach \ {0} /\ Kids(n) = {} /\ Reach' = Reach \ {n} /\ inode' = inode
      /\ Live(d)' = Live(d) \ {k}
      /\ \A i \in Reach : inode[i].mode = "dir" =>
           /\ i # d => Live(i)' = Live(i)
           /\ \A j \in Live(i) : i # d \/ j # k => Dentry(i, j)' = Dentry(i, j)
  BY DEF TreeLoses
<1>2. op.pc = "idle" /\ ~ Answers /\ Answers'
  BY DEF Idle, Answers, Adds
<1>3. \A a, j : Bare(a, j) => a # n
  <2>1. ASSUME NEW j, Bare(n, j) PROVE FALSE
    <3>1. j \in Live(n) /\ IsDir(n)
      BY <2>1, ReachTypes, Bounds DEF Bare, IsDir, IInv, ReachFacts
    <3>2. Dentry(n, j).num \in Kids(n)
      BY <3>1 DEF Kids
    <3> QED BY <1>1, <3>2
  <2> QED BY <2>1
<1>4. \A a, j : Bare(a, j)' <=> Bare(a, j)
  <2>1. ASSUME NEW a, NEW j, Bare(a, j) PROVE Bare(a, j)'
    <3>1. a # d \/ j # k
      BY <1>1, <2>1 DEF Bare
    <3>2. a \in Reach' /\ inode'[a].mode = "dir" /\ j \in Live(a)' /\ Dentry(a, j)' = Dentry(a, j)
      BY <1>1, <1>3, <2>1, <3>1 DEF Bare
    <3> QED BY <2>1, <3>2 DEF Bare
  <2>2. ASSUME NEW a, NEW j, Bare(a, j)' PROVE Bare(a, j)
    <3>1. a \in Reach /\ inode[a].mode = "dir" /\ j \in Live(a) /\ ~ (a = d /\ j = k)
      BY <1>1, <2>2 DEF Bare
    <3> QED BY <1>1, <1>2, <2>2, <3>1 DEF Bare
  <2> QED BY <2>1, <2>2
<1>5. n \in ibit /\ ibit' \ Reach' = (ibit \ Reach) \cup {n} /\ n \notin ibit \ Reach
  BY <1>1 DEF IInv, TreeInv, UseInv
<1>6. Unnamed' = Unnamed
  BY <1>4, UnnamedSame
<1> QED BY <1>2, <1>5, <1>6, LostKept

\* The inode whose bit is cleared is lost no more.
LEMMA FreeInodeLost ==
  ASSUME IInv, IInv', LostInv, FreeInode
  PROVE  LostInv'
<1>n. PICK n : n = op.ino
  OBVIOUS
<1>1. /\ op.pc = "free" /\ op'.pc = "wipe" /\ ibit' = ibit \ {n} /\ crashes' = crashes
  <2>1. op' = [op EXCEPT !.pc = "wipe"]
    BY DEF FreeInode
  <2> QED BY <1>n, <2>1, OpTypes DEF FreeInode, IInv, OpFacts, Ops
<1>2. n \notin Reach /\ n \in ibit /\ Reach' = Reach
  BY <1>n, <1>1, FreeInodeStep DEF IInv, OpInv, FreeInv, LostInv, Answers, SameNames
<1>3. Unnamed' = Unnamed
  BY <1>1, FreeInodeStep, BareSame
<1>4. ibit' \ Reach' = (ibit \ Reach) \ {n} /\ n \in ibit \ Reach /\ ~ Answers'
  BY <1>1, <1>2 DEF Answers, Adds
<1> QED BY <1>1, <1>3, <1>4, LostKept

(* The steps in between, which lose nothing and name nothing.              *)
LEMMA MakingLost ==
  ASSUME IInv, IInv', LostInv, FillInode \/ AddRefused \/ AddAtEnd \/ AppendNum \/ NameLast
  PROVE  LostInv'
<1>1. op \in Ops
  BY OpTypes DEF IInv, OpFacts
<1>2. SameNames
  BY FillInodeStep, AddRefusedStep, AddAtEndStep, AppendNumStep, NameLastStep
<1>3. /\ crashes' = crashes /\ ibit' = ibit /\ op.pc # "name" /\ op'.pc # "name"
      /\ Answers /\ Answers' /\ op'.ino = op.ino
  <2>1. CASE FillInode
    BY <1>1, <2>1 DEF FillInode, Answers, Adds, Ops
  <2>2. CASE AddRefused
    BY <1>1, <2>2 DEF AddRefused, Answers, Adds, Ops, image
  <2>3. CASE AddAtEnd
    <3>1. op.kind # "write"
      BY <2>3 DEF AddAtEnd, IInv, OpInv, AddInv, Adds
    <3> QED BY <1>1, <2>3, <3>1 DEF AddAtEnd, Answers, Adds, Ops, image
  <2>4. CASE AppendNum
    BY <1>1, <2>4 DEF AppendNum, Answers, Adds, Ops
  <2>5. CASE NameLast
    BY <1>1, <2>5 DEF NameLast, Answers, Adds, Ops
  <2> QED BY <1>2, <2>1, <2>2, <2>3, <2>4, <2>5
<1> QED BY <1>2, <1>3, QuietLost

\* The steps of data_offset and wfs_write lose no inode.
LEMMA GrowingLost ==
  ASSUME IInv, IInv', LostInv, GrowAlloc \/ GrowLink \/ GrowFail \/ WriteBlock \/ WriteSize
  PROVE  LostInv'
<1>1. op \in Ops
  BY OpTypes DEF IInv, OpFacts
<1>2. SameNames
  BY GrowAllocStep, GrowLinkStep, GrowFailStep, WriteBlockStep, WriteSizeStep
<1>3. /\ crashes' = crashes /\ ibit' = ibit /\ op.pc # "name" /\ op'.pc # "name"
      /\ (Answers' <=> Answers) /\ (Answers => op'.ino = op.ino)
  <2>1. CASE GrowAlloc
    BY <1>1, <2>1 DEF GrowAlloc, Answers, Adds, Ops
  <2>2. CASE GrowLink
    BY <1>1, <2>2 DEF GrowLink, Answers, Adds, Ops
  <2>3. CASE GrowFail
    BY <1>1, <2>3 DEF GrowFail, Answers, Adds, Ops, Idle, image
  <2>4. CASE WriteBlock
    BY <1>1, <2>4 DEF WriteBlock, Answers, Adds, Ops, image
  <2>5. CASE WriteSize
    BY <1>1, <2>5 DEF WriteSize, Answers, Adds, Ops, Idle
  <2> QED BY <1>2, <2>1, <2>2, <2>3, <2>4, <2>5
<1> QED BY <1>2, <1>3, QuietLost

\* The other steps of unlink and rmdir lose no inode.
LEMMA FreeingLost ==
  ASSUME IInv, IInv', LostInv, ClearName \/ FreeBlock \/ WipeInode
  PROVE  LostInv'
<1>1. op \in Ops
  BY OpTypes DEF IInv, OpFacts
<1>2. SameNames
  BY ClearNameStep, FreeBlockStep, WipeInodeStep
<1>3. /\ crashes' = crashes /\ ibit' = ibit /\ op.pc # "name" /\ op'.pc # "name"
      /\ (Answers' <=> Answers) /\ (Answers => op'.ino = op.ino)
  <2>1. CASE ClearName
    <3>1. inode[op.ino].nlinks = 1
      BY <2>1 DEF ClearName, IInv, OpInv, FreeInv
    <3> QED BY <1>1, <2>1, <3>1 DEF ClearName, Answers, Adds, Ops
  <2>2. CASE FreeBlock
    BY <1>1, <2>2 DEF FreeBlock, Answers, Adds, Ops
  <2>3. CASE WipeInode
    BY <1>1, <2>3 DEF WipeInode, Answers, Adds, Ops, Idle
  <2> QED BY <1>2, <2>1, <2>2, <2>3
<1> QED BY <1>2, <1>3, QuietLost

\* A step that changes nothing loses nothing.
LEMMA StutterLost ==
  ASSUME IInv, IInv', LostInv, UNCHANGED vars
  PROVE  LostInv'
<1>1. op' = op /\ ibit' = ibit /\ crashes' = crashes /\ SameNames
  BY StutterStep DEF vars, image
<1> QED BY <1>1, QuietLost DEF Answers, Adds

(* A kill loses what the handler answers for, or leaves one more entry      *)
(* without a name; never both.                                             *)
LEMMA CrashLost ==
  ASSUME IInv, IInv', LostInv, Crash
  PROVE  LostInv'
<1>1. /\ op'.pc = "idle" /\ crashes' = crashes + 1 /\ ibit' = ibit /\ SameNames
      /\ ~ Answers'
  <2>1. SameNames
    BY CrashStep
  <2> QED BY <2>1 DEF Crash, Idle, image, Answers, Adds
<1>2. /\ IsFiniteSet(ibit \ Reach) /\ Cardinality(ibit \ Reach) \in Nat
      /\ IsFiniteSet(Unnamed) /\ Cardinality(Unnamed) \in Nat /\ crashes \in Nat
  BY LostIs, FS_CardinalityType DEF IInv, Types, OpOK, LostFacts, LostInv
<1>3. Cardinality(ibit \ Reach) + Cardinality(Unnamed) <= crashes + (IF Answers THEN 1 ELSE 0)
  BY DEF LostInv
<1>4. ibit' \ Reach' = ibit \ Reach
  BY <1>1 DEF SameNames
<1>d. PICK d : d = op.dir
  OBVIOUS
<1>k. PICK k : k = op.at
  OBVIOUS
<1>l. PICK l : l = Cardinality(ibit \ Reach) /\ l \in Nat
  BY <1>2
<1>m. l = Cardinality(ibit' \ Reach') /\ l \in Nat
  BY <1>4, <1>l
<1>r. ASSUME IsFiniteSet(Unnamed'), NEW t \in Nat, t = Cardinality(Unnamed'), l + t <= crashes + 1
      PROVE  LostInv'
  <2>1. Answers' => op'.ino \in ibit'
    BY <1>1
  <2>2. l + t <= crashes' + (IF Answers' THEN 1 ELSE 0)
    BY <1>1, <1>2, <1>l, <1>r
  <2> QED BY <1>m, <1>r, <2>1, <2>2 DEF LostInv
<1>S. PICK S : S = Unnamed /\ IsFiniteSet(S) /\ Cardinality(S) \in Nat
  BY <1>2
<1>T. PICK T : T = Unnamed'
  OBVIOUS
<1>5. CASE op.pc # "name"
  <2>1. T = S
    BY <1>1, <1>5, <1>S, <1>T, BareSame
  <2>2. l + Cardinality(T) <= crashes + 1
    <3>s. PICK s : s = Cardinality(S) /\ s \in Nat
      BY <1>S
    <3>1. l + s <= crashes + (IF Answers THEN 1 ELSE 0)
      BY <1>3, <1>l, <1>S, <3>s
    <3>2. l + s <= crashes + 1
      BY <1>2, <1>l, <3>s, <3>1
    <3> QED BY <2>1, <3>s, <3>2
  <2>3. IsFiniteSet(T)
    BY <1>S, <2>1
  <2> QED BY <1>r, <1>S, <1>T, <2>1, <2>2, <2>3
<1>6. CASE op.pc = "name"
  <2>1. \A a, j : Bare(a, j)' => Bare(a, j) \/ <<a, j>> = <<d, k>>
    BY <1>1, <1>d, <1>k DEF SameNames, Bare
  <2>2. T \subseteq S \cup {<<d, k>>}
    <3>1. \A x : x \in T <=> \E a, j : Bare(a, j)' /\ x = <<a, j>>
      BY <1>T, UnnamedNext DEF IInv, BareFacts
    <3>2. \A x : x \in S <=> \E a, j : Bare(a, j) /\ x = <<a, j>>
      BY <1>S, UnnamedIs DEF IInv, BareFacts
    <3> QED BY <2>1, <3>1, <3>2
  <2>3. IsFiniteSet(S \cup {<<d, k>>}) /\ Cardinality(S \cup {<<d, k>>}) <= Cardinality(S) + 1
    <3>1. CASE <<d, k>> \in S
      <4>1. S \cup {<<d, k>>} = S
        BY <3>1
      <4>2. \A s \in Nat : s <= s + 1
        OBVIOUS
      <4> QED BY <1>S, <4>1, <4>2
    <3>2. CASE <<d, k>> \notin S
      BY <1>S, <3>2, FS_AddElement
    <3> QED BY <3>1, <3>2
  <2>4. IsFiniteSet(T) /\ Cardinality(T) <= Cardinality(S \cup {<<d, k>>})
    BY <2>2, <2>3, FS_Subset
  <2>5. Cardinality(T) \in Nat /\ Cardinality(S \cup {<<d, k>>}) \in Nat
    BY <2>3, <2>4, FS_CardinalityType
  <2>6. ~ Answers
    BY <1>6 DEF Answers, Adds
  <2>7. l + Cardinality(S) <= crashes
    BY <1>2, <1>3, <1>l, <1>S, <2>6
  <2>8. l + Cardinality(T) <= crashes + 1
    <3>t. PICK t : t = Cardinality(T) /\ t \in Nat
      BY <2>5
    <3>u. PICK u : u = Cardinality(S \cup {<<d, k>>}) /\ u \in Nat
      BY <2>5
    <3>s. PICK s : s = Cardinality(S) /\ s \in Nat
      BY <1>S
    <3>1. t <= u /\ u <= s + 1 /\ l + s <= crashes
      BY <2>3, <2>4, <2>7, <3>t, <3>u, <3>s
    <3> QED BY <1>2, <1>l, <3>t, <3>1, <3>s, <3>u
  <2> QED BY <1>r, <1>T, <2>4, <2>5, <2>8
<1> QED BY <1>5, <1>6

(* A handler begins.                                                       *)
LEMMA CallLost ==
  ASSUME IInv, IInv', LostInv, Call
  PROVE  LostInv'
<1>1. CASE Unchanging
  BY <1>1, StutterLost DEF Unchanging
<1>2. CASE \E p \in DirPaths, n \in Names \cup LongNames : Mknod(p, n) \/ Mkdir(p, n)
  <2>1. PICK p \in DirPaths, n \in Names \cup LongNames : Mknod(p, n) \/ Mkdir(p, n)
    BY <1>2
  <2>2. SameNames
    BY <2>1, NewStep DEF DirPaths
  <2>3. /\ op = Idle
        /\ Create(Lookup(p), n, "file") \/ Create(Lookup(p), n, "dir")
    BY <2>1 DEF Mknod, Mkdir
  <2> QED BY <2>2, <2>3, CreateLost
<1>3. CASE \E p \in Paths : Unlink(p) \/ Rmdir(p)
  <2>1. PICK p \in Paths : Unlink(p) \/ Rmdir(p)
    BY <1>3
  <2>2. PICK d, k, n : TreeLoses(d, k, n) /\ op'.ino = n
    BY <2>1, UnlinkStep, RmdirStep
  <2>3. op = Idle /\ op'.pc = "unname" /\ crashes' = crashes /\ ibit' = ibit
    BY <2>1 DEF Unlink, Rmdir, RemoveNum, Idle
  <2> QED BY <2>2, <2>3, RemoveLost
<1>4. CASE \E p \in Paths, bi \in 0 .. MaxFile, m \in 1 .. MaxWrite : Write(p, bi, m)
  <2>1. PICK p \in Paths, bi \in 0 .. MaxFile, m \in 1 .. MaxWrite : Write(p, bi, m)
    BY <1>4
  <2>2. SameNames
    BY <2>1, WriteStep
  <2>3. /\ crashes' = crashes /\ ibit' = ibit /\ op.pc # "name" /\ op'.pc # "name"
        /\ ~ Answers /\ ~ Answers'
    BY <2>1 DEF Write, Idle, image, Answers, Adds
  <2> QED BY <2>2, <2>3, QuietLost
<1> QED BY <1>1, <1>2, <1>3, <1>4 DEF Call

\* Every step keeps the count, and a kill adds at most one.
LEMMA StepLost ==
  IInv /\ NameOK /\ LostInv /\ [Next]_vars => LostInv'
<1> SUFFICES ASSUME IInv, NameOK, LostInv, [Next]_vars PROVE LostInv'
  OBVIOUS
<1>i. IInv'
  BY StepIInv
<1>1. CASE UNCHANGED vars
  BY <1>i, <1>1, StutterLost
<1>2. CASE Call
  BY <1>i, <1>2, CallLost
<1>3. CASE FillInode \/ AddRefused \/ AddAtEnd \/ AppendNum \/ NameLast
  BY <1>i, <1>3, MakingLost
<1>4. CASE AddInHole \/ NameHole \/ GrowDir
  BY <1>i, <1>4, AddInHoleLost, NameHoleLost, GrowDirLost
<1>5. CASE GrowAlloc \/ GrowLink \/ GrowFail \/ WriteBlock \/ WriteSize
  BY <1>i, <1>5, GrowingLost
<1>6. CASE ClearName \/ FreeBlock \/ WipeInode
  BY <1>i, <1>6, FreeingLost
<1>7. CASE FreeInode
  BY <1>i, <1>7, FreeInodeLost
<1>8. CASE Crash
  BY <1>i, <1>8, CrashLost
<1> QED BY <1>1, <1>2, <1>3, <1>4, <1>5, <1>6, <1>7, <1>8 DEF Next

\* mkfs loses nothing.
LEMMA InitLost == Init => LostInv
<1> SUFFICES ASSUME Init PROVE LostInv
  OBVIOUS
<1>1. IInv
  BY InitIInv
<1>2. op = Idle /\ crashes = 0 /\ ibit = {0} /\ \A i \in Inums : inode[i].size = 0
  BY NewInodeOK DEF Init, NewInode
<1>3. \A d \in Reach : Live(d) = {}
  <2>1. ASSUME NEW d \in Reach PROVE Live(d) = {}
    <3>1. d \in Inums /\ Live(d) \subseteq 0 .. inode[d].size - 1
      BY <1>1, ReachTypes, EntryTypes DEF IInv, ReachFacts, EntryFacts
    <3> QED BY <1>2, <3>1
  <2> QED BY <2>1
<1>4. Unnamed = {}
  <2>1. \A d, k : ~ Bare(d, k)
    BY <1>3 DEF Bare
  <2> QED BY <1>1, <2>1, UnnamedIs DEF IInv, BareFacts
<1>5. ibit \ Reach = {}
  BY <1>1, <1>2, ReachTypes DEF IInv, ReachFacts
<1>6. ~ Answers
  BY <1>2 DEF Idle, Answers, Adds
<1>7. Cardinality({}) = 0 /\ IsFiniteSet({})
  BY FS_EmptySet
<1>8. Cardinality(ibit \ Reach) + Cardinality(Unnamed) <= crashes + 0
  <2>1. 0 + 0 <= 0 + 0
    OBVIOUS
  <2> QED BY <1>2, <1>4, <1>5, <1>7, <2>1
<1> QED BY <1>4, <1>6, <1>7, <1>8 DEF LostInv

\* The count bounds the damage.
LEMMA LostImpliesDamage == IInv /\ LostInv => InodeDamage
<1> SUFFICES ASSUME IInv, LostInv, op = Idle
             PROVE  Cardinality(ibit \ Reach)
                      + Cardinality({e \in Entries : EntryAt(e).name = NoName}) <= crashes
  BY DEF InodeDamage
<1>1. op.pc = "idle" /\ ~ Answers
  BY DEF Idle, Answers, Adds
<1>2. {e \in Entries : EntryAt(e).name = NoName} = Unnamed
  <2>1. \A e \in Entries : Bare(e[1], e[2]) <=> EntryAt(e).name = NoName
    BY <1>1 DEF Bare, EntryAt, Entries, IsDir
  <2> QED BY <2>1 DEF Unnamed
<1>3. Cardinality(ibit \ Reach) + Cardinality(Unnamed) <= crashes + (IF Answers THEN 1 ELSE 0)
  BY DEF LostInv
<1>4. crashes \in Nat /\ Cardinality(ibit \ Reach) \in Nat /\ Cardinality(Unnamed) \in Nat
  BY LostIs, FS_CardinalityType DEF IInv, Types, OpOK, LostFacts, LostInv
<1>5. \A l, u, n \in Nat : l + u <= n + 0 => l + u <= n
  OBVIOUS
<1>6. Cardinality(ibit \ Reach) + Cardinality(Unnamed) <= crashes + 0
  BY <1>1, <1>3
<1>7. Cardinality(ibit \ Reach) + Cardinality(Unnamed) <= crashes
  BY <1>4, <1>5, <1>6
<1> QED BY <1>2, <1>7

(* Between calls, whatever the size of the image and wherever the daemon is *)
(* killed: a kill costs at most one inode, or leaves one entry without a    *)
(* name, and nothing else does.                                            *)
THEOREM InodeDamageBounded == Spec => []InodeDamage
<1>1. Init => IInv /\ NameOK /\ LostInv
  BY InitIInv, InitNames, InitLost
<1>2. IInv /\ NameOK /\ LostInv /\ [Next]_vars => IInv' /\ NameOK' /\ LostInv'
  BY StepIInv, StepNames, StepLost
<1> QED BY <1>1, <1>2, LostImpliesDamage, PTL DEF Spec
==============================================================================
