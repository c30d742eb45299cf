------------------------------- MODULE WFSFile -------------------------------
(***************************************************************************)
(* What the files of a WFS image contain: the handlers of wfs.c as they    *)
(* find, read and write the bytes, the colors and the times of the files   *)
(* of one directory, the root.                                             *)
(*                                                                         *)
(* FUSE runs one handler at a time (-s), and each is one step here; what a *)
(* handler that is killed leaves behind, and the tree of directories, are  *)
(* in WFS.  A time is only ever set to "now", so the state keeps which     *)
(* times the last call set.                                                *)
(***************************************************************************)
EXTENDS Integers, Sequences, FiniteSets, FiniteSetsExt, SequencesExt, Functions

CONSTANTS
  NumInodes,      \* sb->num_inodes
  AskedBlocks,    \* the argument -b of mkfs
  Word,           \* bits in a word of a bitmap, 32
  BS,             \* BLOCK_SIZE, 512
  NDirect,        \* direct pointers of an inode, N_BLOCKS - 1 = 7
  PPB,            \* pointers in an indirect block, 64
  DPB,            \* directory entries in a block, 16
  Chars,          \* characters
  Names,          \* names of files: sequences of characters, without Esc
  Esc,            \* the character that starts an escape sequence; "m" ends it
  Ansi,           \* the escape sequence of each color, wfs_color_from_code
  Reset,          \* the escape sequence that ends a color
  Paths,          \* bound: the names in calls, plain or as ls shows them
  Data, Offs,     \* bounds: what one write stores, and where
  Lens            \* bound: how much one read asks for

Colors == DOMAIN Ansi

IsEscape(s) ==
  /\ s \in Seq(Chars) /\ Len(s) > 1 /\ s[1] = Esc /\ s[Len(s)] = "m"
  /\ \A k \in 2 .. Len(s) - 1 : s[k] # "m"

ASSUME FileAssumption ==
  /\ {NumInodes, AskedBlocks, Word, BS, NDirect, PPB, DPB} \subseteq Nat \ {0}
  /\ Names \cup Paths \subseteq Seq(Chars)
  /\ \A n \in Names : n # <<>> /\ Esc \notin ToSet(n)
  /\ Esc # "m" /\ IsEscape(Reset) /\ \A c \in Colors \ {"none"} : IsEscape(Ansi[c])
  /\ "none" \in Colors
  /\ Data \subseteq Seq(Nat) /\ <<>> \notin Data /\ Offs \cup Lens \subseteq Nat

roundup(num, factor) ==
  IF num % factor = 0 THEN num ELSE num + (factor - (num % factor))

NumBlocks == roundup(AskedBlocks, Word)
Words == NumBlocks \div Word

VARIABLES
  disk,           \* the image
  touched         \* the times the last call set: <<inode, time>>

vars == <<disk, touched>>

Inums == 0 .. NumInodes - 1
Blocks == 1 .. NumBlocks          \* 0 is the absence of a block
MaxFile == NDirect + PPB
Bytes == {0} \cup UNION {ToSet(d) : d \in Data}

NewInode == [live |-> TRUE, size |-> 0, color |-> "none",
             blocks |-> [j \in 0..NDirect |-> 0]]
ZeroInode == [NewInode EXCEPT !.live = FALSE]
NoDentry == [num |-> 0, name |-> <<>>]
ZeroBytes == [k \in 0 .. BS - 1 |-> 0]
ZeroPtrs == [k \in 0 .. PPB - 1 |-> 0]

(* mkfs.  dents is the root's entries, in the order of its blocks. *)
Init ==
  /\ disk = [inode |-> [i \in Inums |-> IF i = 0 THEN NewInode ELSE ZeroInode],
             bits |-> {}, dents |-> <<>>,
             bytes |-> [b \in Blocks |-> ZeroBytes],
             ptrs |-> [b \in Blocks |-> ZeroPtrs]]
  /\ touched = {}

------------------------------------------------------------------------------
(* Blocks *)

(* The zero bits in the words of the data bitmap. *)
Free(d) == {b \in 1 .. Words * Word : b \notin d.bits}

(* statfs: f_bfree *)
Bfree == Cardinality(Free(disk))

(* allocate_data_block: the lowest free block, zeroed. *)
Allocated(d) ==
  [d EXCEPT !.bits = @ \cup {Min(Free(d))},
            !.bytes[Min(Free(d))] = ZeroBytes, !.ptrs[Min(Free(d))] = ZeroPtrs]

(* data_offset without alloc: the block that holds block bi of inode i. *)
BlockAt(d, i, bi) ==
  LET ind == d.inode[i].blocks[NDirect] IN
  IF bi < NDirect THEN d.inode[i].blocks[bi]
  ELSE IF ind = 0 \/ bi - NDirect >= PPB THEN 0
  ELSE d.ptrs[ind][bi - NDirect]

WithPointer(d, i, j) ==
  IF d.inode[i].blocks[j] # 0 \/ Free(d) = {} THEN d
  ELSE [Allocated(d) EXCEPT !.inode[i].blocks[j] = Min(Free(d))]

WithEntry(d, i, k) ==
  LET ind == d.inode[i].blocks[NDirect] IN
  IF ind = 0 \/ k >= PPB \/ Free(d) = {} THEN d
  ELSE IF d.ptrs[ind][k] # 0 THEN d
  ELSE [Allocated(d) EXCEPT !.ptrs[ind][k] = Min(Free(d))]

(* data_offset with alloc: what it could allocate stays linked when the     *)
(* rest fails, the indirect block also when bi is beyond its last entry.    *)
Provide(d, i, bi) ==
  IF bi < NDirect THEN WithPointer(d, i, bi)
  ELSE WithEntry(WithPointer(d, i, NDirect), i, bi - NDirect)

------------------------------------------------------------------------------
(* Names and paths *)

(* A bug of the kind StripChar must not have: a sequence is two characters. *)
StripOne(s, ch) ==
  IF ch = Esc THEN [s EXCEPT !.escape = TRUE]
  ELSE IF s.escape THEN [s EXCEPT !.escape = FALSE]
  ELSE [s EXCEPT !.out = Append(@, ch)]

StripChar(s, ch) ==
  IF ch = Esc THEN [s EXCEPT !.escape = TRUE]
  ELSE IF s.escape THEN [s EXCEPT !.escape = ch # "m"]
  ELSE [s EXCEPT !.out = Append(@, ch)]

(* strip_ansi_codes *)
Strip(p) ==
  LET after[k \in 0 .. Len(p)] ==
        IF k = 0 THEN [out |-> <<>>, escape |-> FALSE] ELSE StripChar(after[k - 1], p[k])
  IN  after[Len(p)].out

(* The name ls is given. *)
Decorated(n, c) == IF c = "none" THEN n ELSE Ansi[c] \o n \o Reset

Live(d) == {k \in DOMAIN d.dents : d.dents[k].num # 0}

(* get_inode_from_path in the root: 0 when there is no such entry. *)
Find(d, name) ==
  LET ks == {k \in Live(d) : d.dents[k].name = name}
  IN  IF ks = {} THEN 0 ELSE d.dents[Min(ks)].num

------------------------------------------------------------------------------
(* wfs_mknod *)

Spare(d) == {i \in Inums : ~d.inode[i].live}
Holes(d) == DOMAIN d.dents \ Live(d)
Dentry(i, n) == [num |-> i, name |-> n]
NewTimes(i) == {i} \X {"atim", "mtim", "ctim"}

(* add_dentry, in the first place that was removed: the root's times stay. *)
MknodInHole(n) ==
  LET i == Min(Spare(disk)) IN
  /\ Find(disk, n) = 0 /\ Spare(disk) # {} /\ Holes(disk) # {}
  /\ disk' = [disk EXCEPT !.inode[i] = NewInode,
                          !.dents[Min(Holes(disk))] = Dentry(i, n)]
  /\ touched' = NewTimes(i)

(* The size of a directory counts its entries. *)
Longer(inode) == [inode EXCEPT !.size = @ + 1]

(* add_dentry, at the end. *)
MknodAtEnd(n) ==
  LET i == Min(Spare(disk))
      d == Provide(disk, 0, Len(disk.dents) \div DPB)
  IN  /\ Find(disk, n) = 0 /\ Spare(disk) # {} /\ Holes(disk) = {}
      /\ BlockAt(d, 0, Len(disk.dents) \div DPB) # 0
      /\ disk' = [d EXCEPT !.inode = [d.inode EXCEPT ![i] = NewInode, ![0] = Longer(@)],
                           !.dents = Append(@, Dentry(i, n))]
      /\ touched' = NewTimes(i) \cup {0} \X {"mtim", "ctim"}

(* add_dentry finds no block: the inode is given back. *)
MknodFails(n) ==
  LET d == Provide(disk, 0, Len(disk.dents) \div DPB) IN
  /\ Find(disk, n) = 0 /\ Spare(disk) # {} /\ Holes(disk) = {}
  /\ BlockAt(d, 0, Len(disk.dents) \div DPB) = 0
  /\ disk' = d
  /\ touched' = {}

------------------------------------------------------------------------------
(* wfs_read, wfs_write *)

(* A bug of the kind Piece must not have: the first block is entered at its *)
(* beginning, wherever off is.                                             *)
PieceFromZero(off, n, len) == Min({BS - (n % BS), len - n})

(* How many of len bytes from off one memcpy takes, n bytes being done. *)
Piece(off, n, len) == Min({BS - ((off + n) % BS), len - n})

(* A bug of the kind Clipped must not have: one byte past the size. *)
ClippedLate(i, off, len) == Min({len, (disk.inode[i].size - off) + 1})

Clipped(i, off, len) == Min({len, disk.inode[i].size - off})

(* A round of wfs_read's loop, when s.n bytes are done; none at a hole. *)
ReadPiece(s, i, off, len) ==
  LET b == BlockAt(disk, i, (off + s.n) \div BS)
      c == Piece(off, s.n, len)
  IN  IF s.n = len \/ b = 0 THEN s
      ELSE [n |-> s.n + c,
            out |-> s.out \o [j \in 1..c |-> disk.bytes[b][((off + s.n) % BS) + j - 1]]]

(* The bytes wfs_read returns; a round copies one at least. *)
ReadBytes(i, off, len) ==
  LET n == Clipped(i, off, len)
      after[r \in 0..n] ==
        IF r = 0 THEN [n |-> 0, out |-> <<>>] ELSE ReadPiece(after[r - 1], i, off, n)
  IN  IF off >= disk.inode[i].size THEN <<>> ELSE after[n].out

Read(p, off, len) ==
  LET i == Find(disk, Strip(p)) IN
  /\ i # 0
  /\ touched' = IF ReadBytes(i, off, len) = <<>> THEN {} ELSE {<<i, "atim">>}
  /\ UNCHANGED disk

(* A round of wfs_write's loop, when s.n bytes are done: nothing after the *)
(* first block that is not to be had.                                      *)
WritePiece(s, i, off, data) ==
  LET d == Provide(s.disk, i, (off + s.n) \div BS)
      b == BlockAt(d, i, (off + s.n) \div BS)
      at == (off + s.n) % BS
      c == Piece(off, s.n, Len(data))
  IN  IF s.failed \/ s.n = Len(data) THEN s
      ELSE IF b = 0 THEN [disk |-> d, n |-> s.n, failed |-> TRUE]
      ELSE [disk |-> [d EXCEPT !.bytes[b] =
                        [k \in 0 .. BS - 1 |-> IF k \in at .. at + c - 1
                                                 THEN data[s.n + (k - at) + 1] ELSE @[k]]],
            n |-> s.n + c, failed |-> FALSE]

(* A round stores one byte at least, or fails. *)
Written(i, off, data) ==
  LET after[r \in 0 .. Len(data)] ==
        IF r = 0 THEN [disk |-> disk, n |-> 0, failed |-> FALSE]
        ELSE WritePiece(after[r - 1], i, off, data)
  IN  after[Len(data)]

Write(p, off, data) ==
  LET i == Find(disk, Strip(p))
      s == Written(i, off, data)
  IN  /\ i # 0
      /\ ~s.failed
      /\ disk' = [s.disk EXCEPT !.inode[i].size = Max({@, off + Len(data)})]
      /\ touched' = {i} \X {"mtim", "ctim"}

(* ENOSPC or EFBIG: the handler returns at once. *)
WriteFails(p, off, data) ==
  LET i == Find(disk, Strip(p))
      s == Written(i, off, data)
  IN  /\ i # 0
      /\ s.failed
      /\ disk' = s.disk
      /\ touched' = {}

------------------------------------------------------------------------------
(* wfs_unlink *)

Direct(d, i) == {d.inode[i].blocks[j] : j \in 0 .. NDirect - 1} \ {0}
Indirect(d, i) == {d.inode[i].blocks[NDirect]} \ {0}
Pointed(d, i) ==
  (UNION {{d.ptrs[ind][k] : k \in 0 .. PPB - 1} : ind \in Indirect(d, i)}) \ {0}

Held(d, i) == Direct(d, i) \cup Pointed(d, i) \cup Indirect(d, i)

(* A bug of the kind Released must not have: the indirect block is kept. *)
ReleasedPointed(d, i) == Direct(d, i) \cup Pointed(d, i)

(* What unlink passes to free_block. *)
Released(d, i) == Direct(d, i) \cup Pointed(d, i) \cup Indirect(d, i)

(* A bug of the kind Unlink must not have: the entry is left. *)
UnlinkKeepsEntry(p) ==
  LET i == Find(disk, p) IN
  /\ i # 0
  /\ disk' = [disk EXCEPT !.inode[i] = ZeroInode, !.bits = @ \ Released(disk, i)]
  /\ touched' = {0} \X {"mtim", "ctim"}

(* The path is not stripped of escape sequences here. *)
Unlink(p) ==
  LET i == Find(disk, p)
      k == Min({j \in Live(disk) : disk.dents[j].num = i})
  IN  /\ i # 0
      /\ disk' = [disk EXCEPT
                    !.dents[k] = NoDentry, !.inode[i] = ZeroInode,
                    !.bits = @ \ Released(disk, i),
                    !.bytes = [b \in Blocks |-> IF b \in Released(disk, i) THEN ZeroBytes ELSE @[b]],
                    !.ptrs = [b \in Blocks |-> IF b \in Released(disk, i) THEN ZeroPtrs ELSE @[b]]]
      /\ touched' = {0} \X {"mtim", "ctim"}

------------------------------------------------------------------------------
(* user.color *)

(* setxattr; flag 1 is XATTR_CREATE, flag 2 XATTR_REPLACE. *)
Setxattr(p, c, flags) ==
  LET i == Find(disk, Strip(p)) IN
  /\ i # 0
  /\ flags = 1 => disk.inode[i].color = "none"
  /\ flags = 2 => disk.inode[i].color # "none"
  /\ disk' = [disk EXCEPT !.inode[i].color = c]
  /\ touched' = {<<i, "ctim">>}

Removexattr(p) ==
  LET i == Find(disk, Strip(p)) IN
  /\ i # 0
  /\ disk.inode[i].color # "none"
  /\ disk' = [disk EXCEPT !.inode[i].color = "none"]
  /\ touched' = {<<i, "ctim">>}

------------------------------------------------------------------------------
(* What readdir gives for entry k. *)
Listed(k, ls) ==
  IF ls THEN Decorated(disk.dents[k].name, disk.inode[disk.dents[k].num].color)
        ELSE disk.dents[k].name

Readdir ==
  /\ touched' = {<<0, "atim">>}
  /\ UNCHANGED disk

(* getattr, getxattr, statfs, and every call refused before it stores. *)
Look ==
  /\ touched' = {}
  /\ UNCHANGED disk

Next ==
  \/ \E n \in Names : MknodInHole(n) \/ MknodAtEnd(n) \/ MknodFails(n)
  \/ \E p \in Paths :
       \/ Unlink(p) \/ Removexattr(p)
       \/ \E off \in Offs, len \in Lens : Read(p, off, len)
       \/ \E off \in Offs, data \in Data : Write(p, off, data) \/ WriteFails(p, off, data)
       \/ \E c \in Colors, flags \in 0..2 : Setxattr(p, c, flags)
  \/ Readdir
  \/ Look

Spec == Init /\ [][Next]_vars

------------------------------------------------------------------------------
Files(d) == {i \in Inums \ {0} : d.inode[i].live}

(* Every variable has its type: no size passes what an inode can address,  *)
(* no pointer what mkfs made.                                              *)
TypeOK ==
  /\ disk.bits \subseteq Blocks
  /\ \A i \in Inums :
       /\ disk.inode[i].size \in 0 .. MaxFile * (IF i = 0 THEN DPB ELSE BS)
       /\ disk.inode[i].color \in Colors
       /\ disk.inode[i].blocks \in [0..NDirect -> 0..NumBlocks]
  /\ disk.bytes \in [Blocks -> [0 .. BS - 1 -> Bytes]]
  /\ disk.ptrs \in [Blocks -> [0 .. PPB - 1 -> 0..NumBlocks]]
  /\ \A k \in DOMAIN disk.dents : disk.dents[k].num \in Files(disk) \cup {0}
  /\ touched \subseteq Inums \X {"atim", "mtim", "ctim"}

Hole == -1
Limit == MaxFile * BS

(* The bytes of a file, wherever its blocks are. *)
Tape(d, i) ==
  [p \in 0 .. Limit - 1 |->
     LET b == BlockAt(d, i, p \div BS)
     IN  IF b = 0 THEN Hole ELSE d.bytes[b][p % BS]]

(* A read returns the bytes of the file from its offset on, all that were  *)
(* asked for unless the file ends or a hole comes first (wfs.c:761): it    *)
(* mixes in no other block and nothing from beyond the size.               *)
ReadsTheFile ==
  \A i \in Files(disk), off \in Offs, len \in Lens :
    LET got == ReadBytes(i, off, len)
        want == {p \in 0 .. Limit - 1 : p >= off /\ p < off + len /\ p < disk.inode[i].size}
    IN  /\ \A k \in DOMAIN got : off + k - 1 \in want /\ got[k] = Tape(disk, i)[off + k - 1]
        /\ Len(got) < Cardinality(want) => Tape(disk, i)[off + Len(got)] = Hole

(* The free blocks statfs counts are the blocks no inode holds: nothing is *)
(* leaked by a call that fails or lost by one that frees, and the words of *)
(* the bitmap cover every block mkfs made.                                 *)
StatfsTrue ==
  Bfree = NumBlocks - Cardinality(UNION {Held(disk, i) : i \in Files(disk) \cup {0}})

(* 04_Color_Color: "all path-based operations (getattr, read, write) must  *)
(* go through" the cleaner: a name ls was given finds the file it is of.   *)
ListedResolve ==
  \A k \in Live(disk), ls \in BOOLEAN :
    Find(disk, Strip(Listed(k, ls))) = disk.dents[k].num

(* What FileStore sees of an image. *)
NameOf(d, i) ==
  IF i = 0 THEN <<>>
  ELSE d.dents[Min({k \in Live(d) : d.dents[k].num = i})].name
Contents(d) ==
  [n \in {d.dents[k].name : k \in Live(d)} |->
     [tape |-> Tape(d, Find(d, n)), size |-> d.inode[Find(d, n)].size,
      color |-> d.inode[Find(d, n)].color]]
Store == INSTANCE FileStore WITH
           files <- Contents(disk),
           free <- Cardinality(Free(disk)),
           touched <- {<<NameOf(disk, t[1]), t[2]>> : t \in touched}

(* mknod puts an entry in the place of a removed one, and the times of the *)
(* directory stay (wfs.c:508).                                             *)
EntryInHole == Holes(disk) # {} /\ \E n \in Names : Store!CreateUntimed(n)

(* Each call does to the named file what FileStore says, and nothing to    *)
(* another: no two files share a byte, no new file shows what a removed    *)
(* one held, a write reports failure only when the image or the file is    *)
(* full, and the times that are set are those of what changed.  Only the   *)
(* times of the directory are not asked for when an entry goes in a hole;  *)
(* that this is less than the documents want is ImplementsFiles.           *)
ImplementsFilesButATime ==
  Store!Init /\ [][Store!Next \/ EntryInHole]_(Store!fsVars)

(* "when you add or remove a child, the parent directory's modification    *)
(* and change times should advance" (03_Tick_Tok_Tick_Tok.md:12): the same *)
(* without that exception, which the code does not keep.                   *)
ImplementsFiles == Store!Spec
==============================================================================
