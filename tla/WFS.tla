-------------------------------- MODULE WFS --------------------------------
(***************************************************************************)
(* The WFS image and the handlers of wfs.c that change its structure:      *)
(* mknod, mkdir, unlink, rmdir and write.                                  *)
(*                                                                         *)
(* FUSE runs the handlers one at a time (-s), so nothing interleaves with  *)
(* a handler; but the image is a shared mapping, and what the daemon has   *)
(* stored when it is killed is what the next mount finds.  A step is       *)
(* therefore one store, or one run of stores of which only the last makes  *)
(* a difference to who can reach what, and Crash may come between any two. *)
(*                                                                         *)
(* Sizes are counted in directory entries and in blocks.  What a file's    *)
(* blocks contain and the times are in WFSFile.                            *)
(***************************************************************************)
EXTENDS Integers, FiniteSets, Sequences, FiniteSetsExt, SequencesExt

CONSTANTS
  NumInodes,      \* sb->num_inodes
  NumBlocks,      \* sb->num_data_blocks
  NDirect,        \* direct pointers of an inode, N_BLOCKS - 1 = 7
  DPB,            \* directory entries in a block, 16
  PPB,            \* pointers in an indirect block, 64
  Names,          \* names of less than MAX_NAME characters
  LongNames,      \* names of MAX_NAME characters or more
  NoName,         \* the name of a zeroed entry
  MaxDepth,       \* bound: components of a path
  MaxWrite,       \* bound: blocks of one write
  MaxCrashes,     \* bound: kills of the daemon
  KernelChecks    \* TRUE: as under the kernel, which looks a name up first

ASSUME ImageAssumption ==
  /\ {NumInodes, NumBlocks, NDirect, DPB, PPB, MaxWrite} \subseteq Nat \ {0}
  /\ MaxDepth \in Nat \ {0} /\ MaxCrashes \in Nat
  /\ Names \cap LongNames = {} /\ NoName \notin Names \cup LongNames
  /\ KernelChecks \in BOOLEAN

VARIABLES
  ibit, dbit,     \* the inodes and the data blocks marked in the bitmaps
  inode,          \* the inode table
  dents,          \* a block read as directory entries
  ptrs,           \* a block read as pointers
  op,             \* the handler that is running: in the daemon's memory only
  crashes         \* times the daemon was killed in a handler

image == <<ibit, dbit, inode, dents, ptrs>>
vars == <<image, op, crashes>>

Inums == 0 .. NumInodes - 1
Blocks == 1 .. NumBlocks          \* 0 is the absence of a block
MaxFile == NDirect + PPB          \* blocks an inode can address

ZeroInode == [mode |-> "none", size |-> 0, nlinks |-> 0,
              blocks |-> [j \in 0..NDirect |-> 0]]
NoDentry == [num |-> 0, name |-> NoName]
ZeroDents == [k \in 0 .. DPB - 1 |-> NoDentry]
ZeroPtrs == [k \in 0 .. PPB - 1 |-> 0]

NewInode(mode) == [ZeroInode EXCEPT !.mode = mode, !.nlinks = 1]

(* No handler runs; what a handler keeps is named at its first step. *)
Idle == [pc |-> "idle", kind |-> "none", dir |-> 0, name |-> NoName,
         ino |-> 0, at |-> 0, upto |-> 0, blk |-> 0, todo |-> <<>>]

None == -1

(* mkfs: the superblock, the root's bit and the root's inode. *)
Init ==
  /\ ibit = {0}
  /\ dbit = {}
  /\ inode = [i \in Inums |-> IF i = 0 THEN NewInode("dir") ELSE ZeroInode]
  /\ dents = [b \in Blocks |-> ZeroDents]
  /\ ptrs = [b \in Blocks |-> ZeroPtrs]
  /\ op = Idle
  /\ crashes = 0

------------------------------------------------------------------------------
(* Reading the image *)

(* data_offset without alloc: the block that holds block bi of inode i, or 0. *)
BlockAt(i, bi) ==
  LET ind == inode[i].blocks[NDirect] IN
  IF bi < NDirect THEN inode[i].blocks[bi]
  ELSE IF ind = 0 \/ bi - NDirect >= PPB THEN 0
  ELSE ptrs[ind][bi - NDirect]

(* The slots a loop over directory d visits: it stops at a missing block. *)
Slots(d) ==
  {k \in 0 .. inode[d].size - 1 : \A j \in 0..k : BlockAt(d, j \div DPB) # 0}

Dentry(d, k) == dents[BlockAt(d, k \div DPB)][k % DPB]

SetDentry(d, k, e) ==
  dents' = [dents EXCEPT ![BlockAt(d, k \div DPB)][k % DPB] = e]

(* The first slot of a set, None when there is none. *)
First(S) == IF S = {} THEN None ELSE Min(S)

Live(d) == {k \in Slots(d) : Dentry(d, k).num # 0}

IsDir(i) == i # None /\ inode[i].mode = "dir"
IsFile(i) == i # None /\ inode[i].mode = "file"

(* One component of get_inode_from_path, retrieve_inode included. *)
LookupIn(d, n) ==
  LET k == IF IsDir(d) THEN First({j \in Live(d) : Dentry(d, j).name = n})
                       ELSE None
  IN  IF k # None /\ Dentry(d, k).num \in ibit THEN Dentry(d, k).num ELSE None

(* get_inode_from_path: one component after the other, from the root. *)
Lookup(path) ==
  LET found[n \in 0 .. Len(path)] ==
        IF n = 0 THEN 0 ELSE LookupIn(found[n - 1], path[n])
  IN  found[Len(path)]

Paths == UNION {[1..n -> Names] : n \in 0..MaxDepth}
DirPaths == {p \in Paths : Len(p) < MaxDepth}

------------------------------------------------------------------------------
(* wfs_mknod, wfs_mkdir *)

(* allocate_inode, for a new entry of directory d.                         *)
Create(d, n, mode) ==
  /\ Inums \ ibit # {}
  /\ ibit' = ibit \cup {Min(Inums \ ibit)}
  /\ op' = [Idle EXCEPT !.pc = "fill", !.kind = mode, !.dir = d,
                        !.name = n, !.ino = Min(Inums \ ibit)]
  /\ UNCHANGED <<dbit, inode, dents, ptrs, crashes>>

(* Each handler up to there; it goes on with the steps below.              *)
Mknod(path, n) ==
  /\ op = Idle
  /\ IsDir(Lookup(path))
  /\ KernelChecks => LookupIn(Lookup(path), n) = None
  /\ Create(Lookup(path), n, "file")

Mkdir(path, n) ==
  /\ op = Idle
  /\ IsDir(Lookup(path))
  /\ KernelChecks => LookupIn(Lookup(path), n) = None
  /\ Create(Lookup(path), n, "dir")

(* A bug of the kind FillInode must not have: the pointers are not zeroed. *)
FillInodeKeepsBlocks ==
  /\ op.pc = "fill"
  /\ inode' = [inode EXCEPT ![op.ino] =
                 [NewInode(op.kind) EXCEPT !.blocks = inode[op.ino].blocks]]
  /\ op' = [op EXCEPT !.pc = "add"]
  /\ UNCHANGED <<ibit, dbit, dents, ptrs, crashes>>

(* memset, then fillin_inode. *)
FillInode ==
  /\ op.pc = "fill"
  /\ inode' = [inode EXCEPT ![op.ino] = NewInode(op.kind)]
  /\ op' = [op EXCEPT !.pc = "add"]
  /\ UNCHANGED <<ibit, dbit, dents, ptrs, crashes>>

(* Where add_dentry's loop ends: at the name or at a hole. *)
Stop == First({k \in Slots(op.dir) :
                 Dentry(op.dir, k).num = 0 \/ Dentry(op.dir, k).name = op.name})

(* EINVAL or EEXIST: the handler frees the inode it allocated. *)
AddRefused ==
  /\ op.pc = "add"
  /\ \/ op.name \in LongNames
     \/ Stop # None /\ Dentry(op.dir, Stop).num # 0
  /\ op' = [op EXCEPT !.pc = "free"]
  /\ UNCHANGED <<image, crashes>>

(* The hole's number is stored before its name. *)
AddInHole ==
  /\ op.pc = "add"
  /\ op.name \notin LongNames
  /\ Stop # None
  /\ Dentry(op.dir, Stop).num = 0
  /\ SetDentry(op.dir, Stop, [Dentry(op.dir, Stop) EXCEPT !.num = op.ino])
  /\ op' = [op EXCEPT !.pc = "name", !.at = Stop]
  /\ UNCHANGED <<ibit, dbit, inode, ptrs, crashes>>

AddAtEnd ==
  /\ op.pc = "add"
  /\ op.name \notin LongNames
  /\ Stop = None
  /\ op' = [op EXCEPT !.pc = "grow", !.at = Cardinality(Slots(op.dir))]
  /\ UNCHANGED <<image, crashes>>

(* A slot past the directory's size is not seen until the size covers it. *)
AppendNum ==
  /\ op.pc = "grow"
  /\ op.kind # "write"
  /\ BlockAt(op.dir, op.at \div DPB) # 0
  /\ SetDentry(op.dir, op.at, [Dentry(op.dir, op.at) EXCEPT !.num = op.ino])
  /\ op' = [op EXCEPT !.pc = "lastname"]
  /\ UNCHANGED <<ibit, dbit, inode, ptrs, crashes>>

(* A bug of the kind NameHole must not have: a reused slot is counted again. *)
NameHoleCounted ==
  /\ op.pc = "name"
  /\ SetDentry(op.dir, op.at, [Dentry(op.dir, op.at) EXCEPT !.name = op.name])
  /\ inode' = [inode EXCEPT ![op.dir].size = @ + 1]
  /\ op' = Idle
  /\ UNCHANGED <<ibit, dbit, ptrs, crashes>>

(* add_dentry returns from here, without the directory's times.  The copy  *)
(* of the name is one store here: what a kill in the middle of it leaves,  *)
(* the beginning of a name, is not modelled.                               *)
NameHole ==
  /\ op.pc = "name"
  /\ SetDentry(op.dir, op.at, [Dentry(op.dir, op.at) EXCEPT !.name = op.name])
  /\ op' = Idle
  /\ UNCHANGED <<ibit, dbit, inode, ptrs, crashes>>

NameLast ==
  /\ op.pc = "lastname"
  /\ SetDentry(op.dir, op.at, [Dentry(op.dir, op.at) EXCEPT !.name = op.name])
  /\ op' = [op EXCEPT !.pc = "size"]
  /\ UNCHANGED <<ibit, dbit, inode, ptrs, crashes>>

(* The size, and with it the times, which WFSFile has. *)
GrowDir ==
  /\ op.pc = "size"
  /\ inode' = [inode EXCEPT ![op.dir].size = @ + 1]
  /\ op' = Idle
  /\ UNCHANGED <<ibit, dbit, dents, ptrs, crashes>>

------------------------------------------------------------------------------
(* data_offset with alloc: for the directory an entry is added to, or for  *)
(* the file that is written.                                               *)

Target == IF op.kind = "write" THEN op.ino ELSE op.dir
Index == IF op.kind = "write" THEN op.at ELSE op.at \div DPB

(* What is missing before block Index of Target can be used: nothing, its  *)
(* pointer in the inode, the indirect block, its entry there, or all hope. *)
Missing ==
  LET ind == inode[Target].blocks[NDirect] IN
  CASE BlockAt(Target, Index) # 0 -> "nothing"
    [] BlockAt(Target, Index) = 0 /\ Index < NDirect -> "direct"
    [] Index >= NDirect /\ ind = 0 -> "indirect"
    [] Index >= NDirect /\ ind # 0 /\ Index - NDirect >= PPB -> "limit"
    [] OTHER -> "entry"

(* allocate_data_block: the lowest free block, marked and zeroed. *)
GrowAlloc ==
  LET free == Blocks \ dbit IN
  /\ op.pc = "grow"
  /\ Missing \in {"direct", "indirect", "entry"}
  /\ free # {}
  /\ dbit' = dbit \cup {Min(free)}
  /\ dents' = [dents EXCEPT ![Min(free)] = ZeroDents]
  /\ ptrs' = [ptrs EXCEPT ![Min(free)] = ZeroPtrs]
  /\ op' = [op EXCEPT !.pc = "link", !.blk = Min(free)]
  /\ UNCHANGED <<ibit, inode, crashes>>

GrowLink ==
  /\ op.pc = "link"
  /\ IF Missing = "entry"
     THEN /\ ptrs' = [ptrs EXCEPT
                        ![inode[Target].blocks[NDirect]][Index - NDirect] = op.blk]
          /\ UNCHANGED inode
     ELSE /\ inode' = [inode EXCEPT
                         ![Target].blocks[IF Missing = "direct" THEN Index
                                          ELSE NDirect] = op.blk]
          /\ UNCHANGED ptrs
  /\ op' = [op EXCEPT !.pc = "grow", !.blk = 0]
  /\ UNCHANGED <<ibit, dbit, dents, crashes>>

(* ENOSPC or EFBIG: a write returns with what it has, a create frees the   *)
(* inode; the blocks that were linked stay.                                *)
GrowFail ==
  /\ op.pc = "grow"
  /\ \/ Missing = "limit"
     \/ Missing \in {"direct", "indirect", "entry"} /\ dbit = Blocks
  /\ op' = IF op.kind = "write" THEN Idle ELSE [op EXCEPT !.pc = "free"]
  /\ UNCHANGED <<image, crashes>>

------------------------------------------------------------------------------
(* wfs_write: blocks bi to bi + n - 1 of a file *)

Write(path, bi, n) ==
  /\ op = Idle
  /\ IsFile(Lookup(path))
  /\ op' = [Idle EXCEPT !.pc = "grow", !.kind = "write", !.ino = Lookup(path),
                        !.at = bi, !.upto = bi + n]
  /\ UNCHANGED <<image, crashes>>

WriteBlock ==
  /\ op.pc = "grow"
  /\ op.kind = "write"
  /\ Missing = "nothing"
  /\ op' = [op EXCEPT !.at = @ + 1,
                      !.pc = IF op.at + 1 = op.upto THEN "wsize" ELSE "grow"]
  /\ UNCHANGED <<image, crashes>>

WriteSize ==
  /\ op.pc = "wsize"
  /\ inode' = [inode EXCEPT ![op.ino].size = Max({@, op.upto})]
  /\ op' = Idle
  /\ UNCHANGED <<ibit, dbit, dents, ptrs, crashes>>

------------------------------------------------------------------------------
(* wfs_unlink, wfs_rmdir *)

Direct(i) == [j \in 1..NDirect |-> inode[i].blocks[j - 1]]
Indirect(i) == <<inode[i].blocks[NDirect]>>
Pointed(i) ==
  LET ind == inode[i].blocks[NDirect]
  IN  IF ind = 0 THEN <<>> ELSE [j \in 1..PPB |-> ptrs[ind][j - 1]]

(* A bug of the kind RemoveNum must not have: only the name is erased. *)
RemoveNumKept(path, kind, todo) ==
  LET i == Lookup(path)
      d == Lookup(Front(path))
      k == First({j \in Live(d) : Dentry(d, j).num = i})
  IN  /\ op' = [Idle EXCEPT !.pc = "unname", !.kind = kind, !.dir = d,
                            !.ino = i, !.at = k, !.todo = todo]
      /\ UNCHANGED <<image, crashes>>

(* remove_dentry's first store, in the slot that has the inode's number;   *)
(* todo is the pointers whose blocks the handler will free, in its order.  *)
RemoveNum(path, kind, todo) ==
  LET i == Lookup(path)
      d == Lookup(Front(path))
      k == First({j \in Live(d) : Dentry(d, j).num = i})
  IN  /\ SetDentry(d, k, [Dentry(d, k) EXCEPT !.num = 0])
      /\ op' = [Idle EXCEPT !.pc = "unname", !.kind = kind, !.dir = d,
                            !.ino = i, !.at = k, !.todo = todo]
      /\ UNCHANGED <<ibit, dbit, inode, ptrs, crashes>>

(* A bug of the kind Unlink must not have: the indirect block is kept. *)
UnlinkKeepsIndirect(path) ==
  /\ op = Idle
  /\ path # <<>>
  /\ IsFile(Lookup(path))
  /\ RemoveNum(path, "unlink", Direct(Lookup(path)) \o Pointed(Lookup(path)))

Unlink(path) ==
  /\ op = Idle
  /\ path # <<>>
  /\ IsFile(Lookup(path))
  /\ RemoveNum(path, "unlink", Direct(Lookup(path)) \o Pointed(Lookup(path))
                                                    \o Indirect(Lookup(path)))

(* A bug of the kind Rmdir must not have: a directory with entries goes. *)
RmdirNotEmpty(path) ==
  /\ op = Idle
  /\ path # <<>>
  /\ IsDir(Lookup(path))
  /\ RemoveNum(path, "rmdir", Direct(Lookup(path)) \o Indirect(Lookup(path)))

(* The kernel does not send the root.  What the indirect block points to   *)
(* is not freed.                                                           *)
Rmdir(path) ==
  /\ op = Idle
  /\ path # <<>>
  /\ IsDir(Lookup(path))
  /\ Live(Lookup(path)) = {}
  /\ RemoveNum(path, "rmdir", Direct(Lookup(path)) \o Indirect(Lookup(path)))

(* The name; then unlink's nlinks--. *)
ClearName ==
  /\ op.pc = "unname"
  /\ SetDentry(op.dir, op.at, [Dentry(op.dir, op.at) EXCEPT !.name = NoName])
  /\ inode' = IF op.kind = "unlink" THEN [inode EXCEPT ![op.ino].nlinks = @ - 1]
                                    ELSE inode
  /\ op' = IF op.kind = "unlink" /\ inode[op.ino].nlinks # 1
           THEN Idle ELSE [op EXCEPT !.pc = "free"]
  /\ UNCHANGED <<ibit, dbit, ptrs, crashes>>

(* The pointers still to free; the loops pass over those that are 0. *)
ToFree == {j \in 1 .. Len(op.todo) : op.todo[j] # 0}

(* free_block: the bit, then the block is zeroed. *)
FreeBlock ==
  /\ op.pc = "free"
  /\ ToFree # {}
  /\ LET b == op.todo[Min(ToFree)] IN
     /\ dbit' = dbit \ {b}
     /\ dents' = [dents EXCEPT ![b] = ZeroDents]
     /\ ptrs' = [ptrs EXCEPT ![b] = ZeroPtrs]
  /\ op' = [op EXCEPT !.todo = SubSeq(@, Min(ToFree) + 1, Len(@))]
  /\ UNCHANGED <<ibit, inode, crashes>>

(* A bug of the kind FreeInode must not have: the bit is not cleared. *)
FreeInodeKeepsBit ==
  /\ op.pc = "free"
  /\ ToFree = {}
  /\ op' = [op EXCEPT !.pc = "wipe"]
  /\ UNCHANGED <<image, crashes>>

(* free_inode: the bit, then the inode is zeroed. *)
FreeInode ==
  /\ op.pc = "free"
  /\ ToFree = {}
  /\ ibit' = ibit \ {op.ino}
  /\ op' = [op EXCEPT !.pc = "wipe"]
  /\ UNCHANGED <<dbit, inode, dents, ptrs, crashes>>

WipeInode ==
  /\ op.pc = "wipe"
  /\ inode' = [inode EXCEPT ![op.ino] = ZeroInode]
  /\ op' = Idle
  /\ UNCHANGED <<ibit, dbit, dents, ptrs, crashes>>

------------------------------------------------------------------------------
(* The daemon is killed in a handler; main maps the image as it is. *)
Crash ==
  /\ op # Idle
  /\ crashes < MaxCrashes
  /\ crashes' = crashes + 1
  /\ op' = Idle
  /\ UNCHANGED image

(* A call that only reads, or that returns an error before it stores        *)
(* anything: a missing path, no inode left, a directory that is not empty.  *)
Unchanging ==
  /\ op = Idle
  /\ UNCHANGED vars

Call ==
  \/ Unchanging
  \/ \E p \in DirPaths, n \in Names \cup LongNames : Mknod(p, n) \/ Mkdir(p, n)
  \/ \E p \in Paths : Unlink(p) \/ Rmdir(p)
  \/ \E p \in Paths, bi \in 0..MaxFile, n \in 1..MaxWrite : Write(p, bi, n)

Next ==
  \/ Call
  \/ FillInode \/ AddRefused \/ AddInHole \/ AddAtEnd
  \/ AppendNum \/ NameHole \/ NameLast \/ GrowDir
  \/ GrowAlloc \/ GrowLink \/ GrowFail
  \/ WriteBlock \/ WriteSize
  \/ ClearName \/ FreeBlock \/ FreeInode \/ WipeInode
  \/ Crash

Spec == Init /\ [][Next]_vars

------------------------------------------------------------------------------
(* What can be reached from the root *)

Kids(d) == IF IsDir(d) THEN {Dentry(d, k).num : k \in Live(d)} ELSE {}

(* What the root reaches in a graph with NumInodes nodes. *)
Reached(kids) ==
  LET within[n \in 0 .. NumInodes] ==
        IF n = 0 THEN {0}
        ELSE LET W == within[n - 1] IN W \cup UNION {kids[i] : i \in W}
  IN  within[NumInodes]

Reach == Reached([i \in Inums |-> Kids(i)])

(* The places that name an inode, and the places that hold a block. *)
EntryAt(e) == Dentry(e[1], e[2])

Holds(i) ==
  {<<i, "inode", j>> : j \in {k \in 0..NDirect : inode[i].blocks[k] # 0}} \cup
  IF inode[i].blocks[NDirect] = 0 THEN {}
  ELSE {<<i, "indirect", j>> :
          j \in {k \in 0 .. PPB - 1 : ptrs[inode[i].blocks[NDirect]][k] # 0}}
HeldAt(p) == IF p[2] = "inode" THEN inode[p[1]].blocks[p[3]]
                               ELSE ptrs[inode[p[1]].blocks[NDirect]][p[3]]

Entries == UNION {{<<d, k>> : k \in Live(d)} : d \in {i \in Reach : IsDir(i)}}
Held == UNION {Holds(i) : i \in Reach}

(* Every variable has its type: in particular a size never passes what an  *)
(* inode can address.                                                      *)
TypeOK ==
  /\ ibit \subseteq Inums /\ dbit \subseteq Blocks
  /\ \A i \in Inums :
       /\ inode[i].mode \in {"none", "file", "dir"}
       /\ inode[i].size \in 0 .. MaxFile * (IF inode[i].mode = "dir" THEN DPB ELSE 1)
       /\ inode[i].nlinks \in {0, 1}
       /\ inode[i].blocks \in [0..NDirect -> Blocks \cup {0}]
  /\ dents \in [Blocks -> [0 .. DPB - 1 ->
                 [num : Inums, name : Names \cup {NoName}]]]
  /\ ptrs \in [Blocks -> [0 .. PPB - 1 -> Blocks \cup {0}]]
  /\ op.dir \in Inums /\ op.ino \in Inums /\ op.blk \in Blocks \cup {0}
  /\ op.todo \in Seq(Blocks \cup {0})
  /\ crashes \in 0..MaxCrashes

(* In every state, so also in what a killed daemon leaves: an entry that   *)
(* can be reached names an inode that is allocated, in use, and named by   *)
(* no other; the root by none.                                             *)
InodesExclusive ==
  /\ \A e \in Entries : EntryAt(e).num \in ibit /\ inode[EntryAt(e).num].mode # "none"
  /\ \A e, f \in Entries : EntryAt(e).num = EntryAt(f).num => e = f

(* In every state: a block that a reachable inode holds is marked in the   *)
(* bitmap and held in one place only, so no write can touch another file.  *)
BlocksExclusive ==
  /\ \A p \in Held : HeldAt(p) \in dbit
  /\ \A p, q \in Held : HeldAt(p) = HeldAt(q) => p = q

(* 01_File_it_Up, note 3: "You should free all directory data blocks with  *)
(* rmdir", so that no block stays marked that nothing holds.               *)
RmdirFreesBlocks == op = Idle /\ crashes = 0 => dbit = {HeldAt(p) : p \in Held}

(* Between calls: a kill costs at most one inode that stays marked and     *)
(* cannot be reached, or leaves one entry without a name.  Nothing else     *)
(* does: a failed call gives back the inode it took, a removal the one it   *)
(* was for.                                                                *)
InodeDamage ==
  op = Idle =>
    Cardinality(ibit \ Reach)
      + Cardinality({e \in Entries : EntryAt(e).name = NoName}) <= crashes

(* Blocks the running handler is going to link or to free. *)
InHand == {op.blk} \cup {op.todo[j] : j \in ToFree}

(* Marked, but held by nothing and in no handler's hand: lost for good.    *)
Stranded == dbit \ ({HeldAt(p) : p \in Held} \cup InHand)

(* A call loses a block in two ways only: it is killed, and then what the  *)
(* handler had in hand is lost; or it is rmdir of a directory with an      *)
(* indirect block, and then what that block points to (RmdirFreesBlocks).  *)
(* No create or write that fails half way loses one, no unlink between     *)
(* taking the entry out and freeing, no entry put into an old place.       *)
OnlyKillsAndRmdirStrand ==
  [][LET lost == Stranded' \ Stranded IN
     \/ lost = {}
     \/ crashes' # crashes
     \/ op'.kind = "rmdir" /\ lost \subseteq ToSet(Pointed(op'.ino))]_vars

(* The entries one can look up, without the one add_dentry is writing.     *)
Named ==
  {[dir |-> e[1], name |-> EntryAt(e).name, ino |-> EntryAt(e).num,
    kind |-> inode[EntryAt(e).num].mode] :
     e \in {f \in Entries : /\ EntryAt(f).name # NoName
                            /\ op.pc = "name" => f # <<op.dir, op.at>>}}

(* Every call does its work at one step or not at all, crash or no crash.  *)
Tree == INSTANCE Namespace WITH
          Unique <- KernelChecks, entries <- Named, interrupted <- crashes
ImplementsNamespace == Tree!Spec
==============================================================================
