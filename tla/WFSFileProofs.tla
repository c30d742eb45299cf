--------------------------- MODULE WFSFileProofs ---------------------------
(***************************************************************************)
(* The files of WFS, for all sizes of an image, names, colors and data: no *)
(* block has two owners or none, a name finds its file however ls shows    *)
(* it, a read returns the file's bytes, and each handler is one step of    *)
(* FileStore.                                                              *)
(***************************************************************************)
EXTENDS WFSFile, NatLemmas, SequenceTheorems

-----------------------------------------------------------------------------
(* Numbers *)

\* The sizes are positive.
LEMMA Positive ==
  /\ NumInodes \in Nat \ {0} /\ AskedBlocks \in Nat \ {0} /\ Word \in Nat \ {0}
  /\ BS \in Nat \ {0} /\ NDirect \in Nat \ {0} /\ PPB \in Nat \ {0} /\ DPB \in Nat \ {0}
BY FileAssumption

\* What a quotient is.
LEMMA Quotient ==
  ASSUME NEW n \in Nat \ {0}, NEW q \in Nat, NEW x \in Nat, n * q <= x, x < n * q + n
  PROVE  x \div n = q /\ x % n = x - n * q
<1>1. PICK r \in Nat : r = x \div n
  BY Division
<1>2. /\ n * r <= x /\ x < n * r + n /\ x % n = x - n * r
  BY <1>1, Division
<1>3. ~ (r < q)
  <2>1. SUFFICES ASSUME r < q PROVE FALSE
    OBVIOUS
  <2>2. PICK m \in Nat : q = (r + 1) + m
    <3>1. q - (r + 1) \in Nat /\ q = (r + 1) + (q - (r + 1))
      BY <2>1
    <3> QED BY <3>1
  <2>3. n * q = n * r + n + n * m /\ n * m \in Nat /\ n * r \in Nat /\ n * q \in Nat
    BY <2>2
  <2> QED BY <1>2, <2>3
<1>4. ~ (q < r)
  <2>1. SUFFICES ASSUME q < r PROVE FALSE
    OBVIOUS
  <2>2. PICK m \in Nat : r = (q + 1) + m
    <3>1. r - (q + 1) \in Nat /\ r = (q + 1) + (r - (q + 1))
      BY <2>1
    <3> QED BY <3>1
  <2>3. n * ((q + 1) + m) = n * q + n + n * m /\ n * m \in Nat /\ n * r \in Nat /\ n * q \in Nat
    OBVIOUS
  <2> QED BY <1>2, <2>2, <2>3
<1>5. r = q
  BY <1>3, <1>4
<1> QED BY <1>1, <1>2, <1>5

\* A quotient is below a number exactly if what is divided is below its multiple.
LEMMA QuotientBelow ==
  ASSUME NEW n \in Nat \ {0}, NEW m \in Nat, NEW x \in Nat
  PROVE  x \div n < m <=> x < m * n
<1>1. PICK r \in Nat : r = x \div n
  BY Division
<1>2. n * r <= x /\ x < n * r + n
  BY <1>1, Division
<1>3. ASSUME r < m PROVE x < m * n
  <2>1. PICK k \in Nat : m = (r + 1) + k
    <3>1. m - (r + 1) \in Nat /\ m = (r + 1) + (m - (r + 1))
      BY <1>3
    <3> QED BY <3>1
  <2>2. m * n = n * r + n + n * k /\ n * k \in Nat /\ n * r \in Nat
    BY <2>1
  <2> QED BY <1>2, <2>2
<1>4. ASSUME ~ (r < m) PROVE ~ (x < m * n)
  <2>1. PICK k \in Nat : r = m + k
    <3>1. r - m \in Nat /\ r = m + (r - m)
      BY <1>4
    <3> QED BY <3>1
  <2>2. n * r = m * n + n * k /\ n * k \in Nat /\ m * n \in Nat
    BY <2>1
  <2> QED BY <1>2, <2>2
<1> QED BY <1>1, <1>3, <1>4

\* mkfs makes whole words of the bitmap.
LEMMA Rounded ==
  ASSUME NEW n \in Nat \ {0}, NEW x \in Nat \ {0}
  PROVE  roundup(x, n) \in Nat \ {0} /\ (roundup(x, n) \div n) * n = roundup(x, n)
<1>1. PICK q \in Nat : q = x \div n
  BY Division
<1>2. PICK r \in Nat : r = x % n
  BY Division
<1>3. x = n * q + r /\ r < n /\ n * q \in Nat
  BY <1>1, <1>2, Division
<1>4. CASE r = 0
  <2>1. (x \div n) * n = x
    BY <1>1, <1>3, <1>4
  <2> QED BY <1>2, <1>4, <2>1 DEF roundup
<1>5. CASE r # 0
  <2>1. PICK y : y = roundup(x, n)
    OBVIOUS
  <2>2. y = n * (q + 1) /\ n * (q + 1) = n * q + n
    BY <1>2, <1>3, <1>5, <2>1 DEF roundup
  <2>3. y \in Nat \ {0}
    BY <1>3, <2>2
  <2>4. y \div n = q + 1
    BY <2>2, <2>3, Quotient
  <2>5. (q + 1) * n = n * (q + 1)
    OBVIOUS
  <2> QED BY <2>1, <2>2, <2>3, <2>4, <2>5
<1> QED BY <1>4, <1>5

\* The bitmap has a bit for every block.
LEMMA BlocksCovered == NumBlocks \in Nat \ {0} /\ Words * Word = NumBlocks
BY Positive, Rounded DEF NumBlocks, Words

-----------------------------------------------------------------------------
(* Disks *)

InodeRecords == [live : BOOLEAN, size : Nat, color : Colors, blocks : [0..NDirect -> 0..NumBlocks]]
DentRecords == [num : Inums, name : Names \cup {<<>>}]
Disks == [inode : [Inums -> InodeRecords], bits : SUBSET Blocks, dents : Seq(DentRecords),
          bytes : [Blocks -> [0 .. BS - 1 -> Bytes]],
          ptrs : [Blocks -> [0 .. PPB - 1 -> 0..NumBlocks]]]

\* The cells of an inode: direct pointers, the indirect one, its entries.
Cells == 0 .. NDirect + PPB
Ptr(d, i, j) ==
  IF j <= NDirect THEN d.inode[i].blocks[j]
  ELSE IF d.inode[i].blocks[NDirect] = 0 THEN 0
  ELSE d.ptrs[d.inode[i].blocks[NDirect]][j - NDirect - 1]

\* A block is in one cell, and marked, or in none.
Owned(d) ==
  /\ \A i, k \in Inums : \A j, l \in Cells :
       Ptr(d, i, j) # 0 /\ Ptr(d, i, j) = Ptr(d, k, l) => i = k /\ j = l
  /\ \A b \in Blocks : b \in d.bits <=> \E i \in Inums : \E j \in Cells : Ptr(d, i, j) = b

SameAttributes(d, e) ==
  \A i \in Inums : /\ e.inode[i].live = d.inode[i].live /\ e.inode[i].size = d.inode[i].size
                   /\ e.inode[i].color = d.inode[i].color

\* e is d when inode i was given some blocks it had not.
Grown(d, e, i) ==
  /\ e \in Disks /\ Owned(e) /\ d.bits \subseteq e.bits /\ e.dents = d.dents
  /\ SameAttributes(d, e)
  /\ \A k \in Inums : \A j \in Cells :
       k # i \/ Ptr(d, k, j) # 0 => Ptr(e, k, j) = Ptr(d, k, j)
  /\ \A b \in d.bits : e.bytes[b] = d.bytes[b]
  /\ \A j \in Cells : Ptr(d, i, j) = 0 /\ Ptr(e, i, j) # 0 => e.bytes[Ptr(e, i, j)] = ZeroBytes

\* The free blocks are those without a bit.
LEMMA FreeIs ==
  ASSUME NEW d
  PROVE  Free(d) = Blocks \ d.bits
BY BlocksCovered DEF Free, Blocks

\* The cell of block bi of a file.
Cell(bi) == IF bi < NDirect THEN bi ELSE bi + 1

\* The block with an index is what its cell points at, and there is none past the last cell.
LEMMA BlockAtIs ==
  ASSUME NEW d, NEW i, NEW bi \in Nat
  PROVE  /\ bi < MaxFile => BlockAt(d, i, bi) = Ptr(d, i, Cell(bi)) /\ Cell(bi) \in Cells
         /\ ~ (bi < MaxFile) => BlockAt(d, i, bi) = 0
<1>1. CASE bi < NDirect
  BY <1>1, Positive DEF BlockAt, Ptr, Cell, Cells, MaxFile
<1>2. CASE ~ (bi < NDirect)
  <2>1. (bi + 1) - NDirect - 1 = bi - NDirect /\ ~ (bi + 1 <= NDirect)
    BY <1>2, Positive
  <2>2. bi < MaxFile <=> ~ (bi - NDirect >= PPB)
    BY <1>2, Positive DEF MaxFile
  <2>3. bi < MaxFile => bi + 1 \in Cells
    BY <1>2, Positive DEF MaxFile, Cells
  <2> QED BY <1>2, <2>1, <2>2, <2>3 DEF BlockAt, Ptr, Cell
<1> QED BY <1>1, <1>2

\* Two indices have different cells.
LEMMA CellInjective ==
  ASSUME NEW a \in Nat, NEW b \in Nat, Cell(a) = Cell(b)
  PROVE  a = b
BY Positive DEF Cell

\* A cell has no block or one of the image.
LEMMA PtrType ==
  ASSUME NEW d \in Disks, NEW i \in Inums, NEW j \in Cells
  PROVE  Ptr(d, i, j) \in 0..NumBlocks /\ (Ptr(d, i, j) # 0 => Ptr(d, i, j) \in Blocks)
<1>1. d.inode[i] \in InodeRecords /\ d.ptrs \in [Blocks -> [0 .. PPB - 1 -> 0..NumBlocks]]
  BY DEF Disks
<1>2. d.inode[i].blocks \in [0..NDirect -> 0..NumBlocks]
  BY <1>1 DEF InodeRecords
<1>3. Ptr(d, i, j) \in 0..NumBlocks
  <2>1. CASE j <= NDirect
    <3>1. j \in 0..NDirect
      BY <2>1, Positive DEF Cells
    <3> QED BY <1>2, <2>1, <3>1 DEF Ptr
  <2>2. CASE ~ (j <= NDirect)
    <3>1. j - NDirect - 1 \in 0 .. PPB - 1 /\ NDirect \in 0..NDirect
      BY <2>2, Positive DEF Cells
    <3>2. PICK b \in 0..NumBlocks : b = d.inode[i].blocks[NDirect]
      BY <1>2, <3>1
    <3>3. CASE b = 0
      BY <2>2, <3>2, <3>3, BlocksCovered DEF Ptr
    <3>4. CASE b # 0
      <4>1. b \in Blocks
        BY <3>4, BlocksCovered DEF Blocks
      <4> QED BY <1>1, <2>2, <3>1, <3>2, <3>4, <4>1 DEF Ptr
    <3> QED BY <3>3, <3>4
  <2> QED BY <2>1, <2>2
<1> QED BY <1>3, BlocksCovered DEF Blocks

-----------------------------------------------------------------------------
(* Allocation *)

\* The zeroed block of an allocation is a free one.
LEMMA AllocatedIs ==
  ASSUME NEW d \in Disks, Free(d) # {}, NEW b, b = Min(Free(d))
  PROVE  LET a == Allocated(d)
         IN  /\ b \in Blocks \ d.bits /\ a \in Disks
             /\ a.inode = d.inode /\ a.dents = d.dents /\ a.bits = d.bits \cup {b}
             /\ a.bytes = [d.bytes EXCEPT ![b] = ZeroBytes]
             /\ a.ptrs = [d.ptrs EXCEPT ![b] = ZeroPtrs]
<1>1. b \in Blocks \ d.bits
  <2>1. Free(d) \in SUBSET Nat
    BY FreeIs DEF Blocks
  <2> QED BY <2>1, MinNat, FreeIs
<1>2. PICK bytes \in [Blocks -> [0 .. BS - 1 -> Bytes]] : bytes = [d.bytes EXCEPT ![b] = ZeroBytes]
  <2>1. ZeroBytes \in [0 .. BS - 1 -> Bytes]
    BY DEF ZeroBytes, Bytes
  <2>2. d.bytes \in [Blocks -> [0 .. BS - 1 -> Bytes]]
    BY DEF Disks
  <2> QED BY <1>1, <2>1, <2>2
<1>3. PICK ptrs \in [Blocks -> [0 .. PPB - 1 -> 0..NumBlocks]] : ptrs = [d.ptrs EXCEPT ![b] = ZeroPtrs]
  <2>1. ZeroPtrs \in [0 .. PPB - 1 -> 0..NumBlocks]
    BY BlocksCovered DEF ZeroPtrs
  <2>2. d.ptrs \in [Blocks -> [0 .. PPB - 1 -> 0..NumBlocks]]
    BY DEF Disks
  <2> QED BY <1>1, <2>1, <2>2
<1>4. PICK bits \in SUBSET Blocks : bits = d.bits \cup {b}
  BY <1>1 DEF Disks
<1>5. Allocated(d) = [d EXCEPT !.bits = bits, !.bytes = bytes, !.ptrs = ptrs]
  BY <1>2, <1>3, <1>4 DEF Allocated, Disks
<1>6. Allocated(d) \in Disks /\ Allocated(d).inode = d.inode /\ Allocated(d).dents = d.dents
  BY <1>5 DEF Disks
<1>7. Allocated(d).bits = bits /\ Allocated(d).bytes = bytes /\ Allocated(d).ptrs = ptrs
  BY <1>5 DEF Disks
<1> QED BY <1>1, <1>2, <1>3, <1>4, <1>6, <1>7

\* e is d when the free block b was put in the empty cell j of inode i.
Linked(d, e, i, j, b) ==
  /\ e \in Disks /\ b \in Blocks \ d.bits /\ e.bits = d.bits \cup {b} /\ e.dents = d.dents
  /\ SameAttributes(d, e)
  /\ Ptr(d, i, j) = 0
  /\ \A k \in Inums : \A l \in Cells :
       Ptr(e, k, l) = IF k = i /\ l = j THEN b ELSE Ptr(d, k, l)
  /\ \A c \in d.bits : e.bytes[c] = d.bytes[c]
  /\ e.bytes[b] = ZeroBytes

\* The indirect block of an inode is in use, and no other inode's.
LEMMA IndirectOwned ==
  ASSUME NEW d \in Disks, Owned(d), NEW i \in Inums, NEW ind, ind = d.inode[i].blocks[NDirect],
         ind # 0
  PROVE  /\ ind \in d.bits /\ ind \in Blocks
         /\ \A k \in Inums : d.inode[k].blocks[NDirect] = ind => k = i
<1>1. NDirect \in Cells /\ \A k \in Inums : Ptr(d, k, NDirect) = d.inode[k].blocks[NDirect]
  BY Positive DEF Cells, Ptr
<1>2. ind \in Blocks
  BY <1>1, PtrType
<1> QED BY <1>1, <1>2 DEF Owned

\* A pointer of an inode that is given a block becomes the only owner of a zeroed one.
LEMMA LinkPointer ==
  ASSUME NEW d \in Disks, Owned(d), NEW i \in Inums, NEW j \in 0..NDirect,
         d.inode[i].blocks[j] = 0, Free(d) # {}
  PROVE  \E b : Linked(d, WithPointer(d, i, j), i, j, b)
<1>1. PICK b : b = Min(Free(d))
  OBVIOUS
<1>2. PICK a : a = Allocated(d)
  OBVIOUS
<1>3. /\ b \in Blocks \ d.bits /\ a \in Disks
      /\ a.inode = d.inode /\ a.dents = d.dents /\ a.bits = d.bits \cup {b}
      /\ a.bytes = [d.bytes EXCEPT ![b] = ZeroBytes]
      /\ a.ptrs = [d.ptrs EXCEPT ![b] = ZeroPtrs]
  BY <1>1, <1>2, AllocatedIs
<1>4. d.inode \in [Inums -> InodeRecords] /\ d.inode[i] \in InodeRecords
  BY DEF Disks
<1>5. PICK r \in InodeRecords : r = [d.inode[i] EXCEPT !.blocks[j] = b]
  <2>1. b \in 0..NumBlocks
    BY <1>3, BlocksCovered DEF Blocks
  <2> QED BY <1>4, <2>1 DEF InodeRecords
<1>6. /\ r.live = d.inode[i].live /\ r.size = d.inode[i].size /\ r.color = d.inode[i].color
      /\ r.blocks = [d.inode[i].blocks EXCEPT ![j] = b]
      /\ d.inode[i].blocks \in [0..NDirect -> 0..NumBlocks]
  BY <1>4, <1>5 DEF InodeRecords
<1>7. PICK t \in [Inums -> InodeRecords] : t = [d.inode EXCEPT ![i] = r]
  BY <1>4
<1>8. PICK e : e = [a EXCEPT !.inode = t]
  OBVIOUS
<1>9. e = WithPointer(d, i, j)
  BY <1>1, <1>2, <1>3, <1>5, <1>7, <1>8 DEF WithPointer
<1>10. /\ e \in Disks /\ e.inode = t /\ e.bits = a.bits /\ e.dents = a.dents
       /\ e.bytes = a.bytes /\ e.ptrs = a.ptrs
  BY <1>3, <1>8 DEF Disks
<1>11. SameAttributes(d, e)
  BY <1>4, <1>6, <1>7, <1>10 DEF SameAttributes
<1>12. /\ \A c \in d.bits : e.bytes[c] = d.bytes[c]
       /\ e.bytes[b] = ZeroBytes
  BY <1>3, <1>10 DEF Disks
<1>13. Ptr(d, i, j) = 0 /\ j \in Cells /\ j <= NDirect /\ NDirect \in 0..NDirect
  BY Positive DEF Ptr, Cells
<1>14. \A c \in Blocks : e.ptrs[c] = IF c = b THEN ZeroPtrs ELSE d.ptrs[c]
  BY <1>3, <1>10 DEF Disks
<1>15. ASSUME NEW k \in Inums, NEW l \in Cells
       PROVE  Ptr(e, k, l) = IF k = i /\ l = j THEN b ELSE Ptr(d, k, l)
  <2>1. CASE k # i
    <3>1. e.inode[k] = d.inode[k]
      BY <1>4, <1>7, <1>10, <2>1
    <3>2. PICK ind : ind = d.inode[k].blocks[NDirect]
      OBVIOUS
    <3>3. ind # 0 => ind \in Blocks /\ ind # b
      BY <1>3, <3>2, IndirectOwned
    <3> QED BY <1>14, <2>1, <3>1, <3>2, <3>3 DEF Ptr
  <2>2. CASE k = i /\ l <= NDirect
    <3>1. l \in 0..NDirect /\ e.inode[i].blocks = r.blocks
      BY <1>4, <1>7, <1>10, <2>2, Positive DEF Cells
    <3> QED BY <1>6, <2>2, <3>1 DEF Ptr
  <2>3. CASE k = i /\ ~ (l <= NDirect)
    <3>1. e.inode[i].blocks = r.blocks
      BY <1>4, <1>7, <1>10
    <3>2. l # j
      BY <1>13, <2>3
    <3>3. l - NDirect - 1 \in 0 .. PPB - 1
      BY <2>3, Positive DEF Cells
    <3>4. PICK ind : ind = d.inode[i].blocks[NDirect]
      OBVIOUS
    <3>5. CASE j = NDirect
      <4>1. e.inode[i].blocks[NDirect] = b /\ b # 0
        BY <1>3, <1>6, <1>13, <3>1, <3>5, BlocksCovered DEF Blocks
      <4>2. e.ptrs[b] = ZeroPtrs /\ ZeroPtrs[l - NDirect - 1] = 0
        BY <1>3, <1>14, <3>3 DEF ZeroPtrs
      <4> QED BY <2>3, <3>2, <3>5, <4>1, <4>2 DEF Ptr
    <3>6. CASE j # NDirect
      <4>1. e.inode[i].blocks[NDirect] = ind
        BY <1>6, <1>13, <3>1, <3>4, <3>6
      <4>2. ind # 0 => ind \in Blocks /\ ind # b
        BY <1>3, <3>4, IndirectOwned
      <4> QED BY <1>14, <2>3, <3>2, <3>4, <4>1, <4>2 DEF Ptr
    <3> QED BY <3>5, <3>6
  <2> QED BY <2>1, <2>2, <2>3
<1>16. Linked(d, e, i, j, b)
  BY <1>3, <1>10, <1>11, <1>12, <1>13, <1>15 DEF Linked
<1> QED BY <1>9, <1>16

\* The cells after the pointers are numbered by the entries of the indirect block.
LEMMA PlaceInBlock ==
  ASSUME NEW l \in Nat, NEW k \in Nat, NEW n \in Nat, NEW m \in Nat, l <= n + m, ~ (l <= n)
  PROVE  l - n - 1 \in 0 .. m - 1 /\ (l - n - 1 = k <=> l = n + 1 + k)
OBVIOUS

\* So does an entry of an indirect block.
LEMMA LinkEntry ==
  ASSUME NEW d \in Disks, Owned(d), NEW i \in Inums, NEW k \in 0 .. PPB - 1, NEW ind,
         ind = d.inode[i].blocks[NDirect], ind # 0, d.ptrs[ind][k] = 0, Free(d) # {}
  PROVE  \E b : Linked(d, WithEntry(d, i, k), i, NDirect + 1 + k, b)
<1>1. PICK b : b = Min(Free(d))
  OBVIOUS
<1>2. PICK a : a = Allocated(d)
  OBVIOUS
<1>3. /\ b \in Blocks \ d.bits /\ a \in Disks
      /\ a.inode = d.inode /\ a.dents = d.dents /\ a.bits = d.bits \cup {b}
      /\ a.bytes = [d.bytes EXCEPT ![b] = ZeroBytes]
      /\ a.ptrs = [d.ptrs EXCEPT ![b] = ZeroPtrs]
  BY <1>1, <1>2, AllocatedIs
<1>4. ind \in Blocks /\ ind \in d.bits /\ \A h \in Inums : d.inode[h].blocks[NDirect] = ind => h = i
  BY IndirectOwned
<1>5. d.ptrs \in [Blocks -> [0 .. PPB - 1 -> 0..NumBlocks]]
  BY DEF Disks
<1>6. PICK row \in [0 .. PPB - 1 -> 0..NumBlocks] : row = [d.ptrs[ind] EXCEPT ![k] = b]
  <2>1. b \in 0..NumBlocks /\ d.ptrs[ind] \in [0 .. PPB - 1 -> 0..NumBlocks]
    BY <1>3, <1>4, <1>5, BlocksCovered DEF Blocks
  <2> QED BY <2>1
<1>7. a.ptrs[ind] = d.ptrs[ind] /\ a.ptrs \in [Blocks -> [0 .. PPB - 1 -> 0..NumBlocks]]
  BY <1>3, <1>4, <1>5 DEF Disks
<1>8. PICK p \in [Blocks -> [0 .. PPB - 1 -> 0..NumBlocks]] : p = [a.ptrs EXCEPT ![ind] = row]
  BY <1>4, <1>7
<1>9. PICK e : e = [a EXCEPT !.ptrs = p]
  OBVIOUS
<1>10. ~ (k >= PPB)
  BY Positive
<1>11. e = WithEntry(d, i, k)
  <2>1. WithEntry(d, i, k) = [a EXCEPT !.ptrs[ind][k] = b]
    BY <1>1, <1>2, <1>10 DEF WithEntry
  <2> QED BY <1>3, <1>6, <1>7, <1>8, <1>9, <2>1 DEF Disks
<1>12. /\ e \in Disks /\ e.inode = d.inode /\ e.bits = a.bits /\ e.dents = a.dents
       /\ e.bytes = a.bytes /\ e.ptrs = p
  BY <1>3, <1>8, <1>9 DEF Disks
<1>13. SameAttributes(d, e)
  BY <1>12 DEF SameAttributes
<1>14. /\ \A c \in d.bits : e.bytes[c] = d.bytes[c]
       /\ e.bytes[b] = ZeroBytes
  BY <1>3, <1>12 DEF Disks
<1>15. \A c \in Blocks : c # b /\ c # ind => e.ptrs[c] = d.ptrs[c]
  BY <1>3, <1>4, <1>5, <1>7, <1>8, <1>12, SMTT(30)
<1>16. e.ptrs[ind] = row /\ row[k] = b /\ \A h \in 0 .. PPB - 1 : h # k => row[h] = d.ptrs[ind][h]
  <2>1. PICK old \in [0 .. PPB - 1 -> 0..NumBlocks] : old = d.ptrs[ind]
    BY <1>4, <1>5
  <2>2. row = [old EXCEPT ![k] = b]
    BY <1>6, <2>1
  <2>3. row[k] = b /\ \A h \in 0 .. PPB - 1 : h # k => row[h] = old[h]
    BY <2>2
  <2>4. row[k] = b /\ \A h \in 0 .. PPB - 1 : h # k => row[h] = d.ptrs[ind][h]
    BY <2>1, <2>3
  <2>5. e.ptrs[ind] = row
    BY <1>4, <1>7, <1>8, <1>12, SMTT(30)
  <2> QED BY <2>3, <2>4, <2>5
<1>17. PICK j : j = NDirect + 1 + k
  OBVIOUS
<1>18. j \in Cells /\ ~ (j <= NDirect) /\ j - NDirect - 1 = k
  BY <1>17, Positive DEF Cells
<1>19. Ptr(d, i, j) = 0
  BY <1>18 DEF Ptr
<1>20. ASSUME NEW h \in Inums, NEW l \in Cells
       PROVE  Ptr(e, h, l) = IF h = i /\ l = j THEN b ELSE Ptr(d, h, l)
  <2>1. CASE l <= NDirect
    BY <1>12, <1>18, <2>1 DEF Ptr
  <2>2. CASE ~ (l <= NDirect) /\ h # i
    <3>1. PICK c : c = d.inode[h].blocks[NDirect]
      OBVIOUS
    <3>2. c # 0 => c \in Blocks /\ c # b /\ c # ind
      BY <1>3, <1>4, <2>2, <3>1, IndirectOwned
    <3> QED BY <1>12, <1>15, <2>2, <3>1, <3>2 DEF Ptr
  <2>3. CASE ~ (l <= NDirect) /\ h = i
    <3>1. l - NDirect - 1 \in 0 .. PPB - 1 /\ (l - NDirect - 1 = k <=> l = j)
      <4>1. l \in Nat /\ k \in Nat /\ NDirect \in Nat /\ PPB \in Nat /\ l <= NDirect + PPB
        BY Positive DEF Cells
      <4>2. ~ (l <= NDirect)
        BY <2>3
      <4>3. l - NDirect - 1 \in 0 .. PPB - 1 /\ (l - NDirect - 1 = k <=> l = NDirect + 1 + k)
        BY <4>1, <4>2, PlaceInBlock
      <4> QED BY <1>17, <4>3, Zenon
    <3>2. Ptr(e, i, l) = row[l - NDirect - 1] /\ Ptr(d, i, l) = d.ptrs[ind][l - NDirect - 1]
      BY <1>12, <1>16, <2>3 DEF Ptr
    <3> QED BY <1>16, <2>3, <3>1, <3>2
  <2> QED BY <2>1, <2>2, <2>3
<1>21. Linked(d, e, i, j, b)
  BY <1>3, <1>12, <1>13, <1>14, <1>19, <1>20 DEF Linked
<1> QED BY <1>11, <1>17, <1>21

\* The free blocks are finitely many.
LEMMA FreeFinite ==
  ASSUME NEW d
  PROVE  IsFiniteSet(Free(d)) /\ Cardinality(Free(d)) \in Nat
<1>1. IsFiniteSet(Blocks)
  BY BlocksCovered, FS_Interval DEF Blocks
<1>2. Free(d) \subseteq Blocks
  BY FreeIs
<1> QED BY <1>1, <1>2, FS_Subset, FS_CardinalityType

\* An allocation that takes nothing has grown nothing.
LEMMA GrownRefl ==
  ASSUME NEW d \in Disks, Owned(d), NEW i \in Inums
  PROVE  Grown(d, d, i)
BY DEF Grown, SameAttributes

\* Two allocations one after the other are one.
LEMMA GrownTrans ==
  ASSUME NEW d, NEW e, NEW f, NEW i \in Inums, Grown(d, e, i), Grown(e, f, i)
  PROVE  Grown(d, f, i)
<1>1. f \in Disks /\ Owned(f) /\ d.bits \subseteq f.bits /\ f.dents = d.dents /\ e \in Disks /\ Owned(e)
  BY DEF Grown
<1>2. SameAttributes(d, f)
  BY DEF Grown, SameAttributes
<1>3. \A k \in Inums : \A j \in Cells :
        k # i \/ Ptr(d, k, j) # 0 => Ptr(f, k, j) = Ptr(d, k, j)
  BY DEF Grown
<1>4. \A b \in d.bits : f.bytes[b] = d.bytes[b]
  BY DEF Grown
<1>5. ASSUME NEW j \in Cells, Ptr(d, i, j) = 0, Ptr(f, i, j) # 0
      PROVE  f.bytes[Ptr(f, i, j)] = ZeroBytes
  <2>1. CASE Ptr(e, i, j) = 0
    BY <1>5, <2>1 DEF Grown
  <2>2. CASE Ptr(e, i, j) # 0
    <3>1. Ptr(f, i, j) = Ptr(e, i, j) /\ e.bytes[Ptr(e, i, j)] = ZeroBytes
      BY <1>5, <2>2 DEF Grown
    <3>2. Ptr(e, i, j) \in e.bits
      BY <1>1, <2>2, PtrType DEF Owned
    <3> QED BY <3>1, <3>2 DEF Grown
  <2> QED BY <2>1, <2>2
<1> QED BY <1>1, <1>2, <1>3, <1>4, <1>5 DEF Grown

\* A cell that is linked to a free block is an allocation of one block.
LEMMA LinkedGrows ==
  ASSUME NEW d \in Disks, Owned(d), NEW e, NEW i \in Inums, NEW j \in Cells, NEW b,
         Linked(d, e, i, j, b)
  PROVE  /\ Grown(d, e, i) /\ Cardinality(Free(e)) = Cardinality(Free(d)) - 1
         /\ Ptr(e, i, j) # 0
<1>1. /\ e \in Disks /\ b \in Blocks \ d.bits /\ e.bits = d.bits \cup {b} /\ e.dents = d.dents
      /\ SameAttributes(d, e) /\ Ptr(d, i, j) = 0
      /\ \A c \in d.bits : e.bytes[c] = d.bytes[c]
      /\ e.bytes[b] = ZeroBytes
  BY DEF Linked
<1>2. \A k \in Inums : \A l \in Cells : Ptr(e, k, l) = IF k = i /\ l = j THEN b ELSE Ptr(d, k, l)
  BY DEF Linked
<1>3. b # 0
  BY <1>1 DEF Blocks
<1>4. \A k \in Inums : \A l \in Cells : Ptr(d, k, l) # b
  BY <1>1 DEF Owned
<1>5. Owned(e)
  <2>1. ASSUME NEW k \in Inums, NEW h \in Inums, NEW l \in Cells, NEW m \in Cells,
               Ptr(e, k, l) # 0, Ptr(e, k, l) = Ptr(e, h, m)
        PROVE  k = h /\ l = m
    <3>1. CASE k = i /\ l = j
      BY <1>2, <1>4, <2>1, <3>1
    <3>2. CASE ~ (k = i /\ l = j) /\ h = i /\ m = j
      BY <1>2, <1>4, <2>1, <3>2
    <3>3. CASE ~ (k = i /\ l = j) /\ ~ (h = i /\ m = j)
      <4>1. Ptr(d, k, l) # 0 /\ Ptr(d, k, l) = Ptr(d, h, m)
        BY <1>2, <2>1, <3>3
      <4> QED BY <4>1 DEF Owned
    <3> QED BY <3>1, <3>2, <3>3
  <2>2. ASSUME NEW c \in Blocks
        PROVE  c \in e.bits <=> \E k \in Inums : \E l \in Cells : Ptr(e, k, l) = c
    <3>1. CASE c = b
      BY <1>1, <1>2, <3>1
    <3>2. CASE c # b
      <4>1. c \in e.bits <=> c \in d.bits
        BY <1>1, <3>2
      <4>2. \A k \in Inums : \A l \in Cells : Ptr(e, k, l) = c <=> Ptr(d, k, l) = c
        <5>1. c # 0
          BY DEF Blocks
        <5> QED BY <1>1, <1>2, <3>2, <5>1
      <4> QED BY <4>1, <4>2 DEF Owned
    <3> QED BY <3>1, <3>2
  <2> QED BY <2>1, <2>2 DEF Owned
<1>6. Grown(d, e, i)
  <2>1. \A k \in Inums : \A l \in Cells :
          k # i \/ Ptr(d, k, l) # 0 => Ptr(e, k, l) = Ptr(d, k, l)
    BY <1>1, <1>2
  <2>2. \A l \in Cells : Ptr(d, i, l) = 0 /\ Ptr(e, i, l) # 0 => e.bytes[Ptr(e, i, l)] = ZeroBytes
    BY <1>1, <1>2
  <2> QED BY <1>1, <1>5, <2>1, <2>2 DEF Grown
<1>7. Cardinality(Free(e)) = Cardinality(Free(d)) - 1
  <2>1. Free(e) = Free(d) \ {b} /\ b \in Free(d)
    BY <1>1, FreeIs
  <2> QED BY <2>1, FreeFinite, FS_RemoveElement
<1> QED BY <1>2, <1>3, <1>6, <1>7

\* A direct pointer, or the pointer to the indirect block, is there or no block is free.
LEMMA PointerProvided ==
  ASSUME NEW d \in Disks, Owned(d), NEW i \in Inums, NEW j \in 0..NDirect,
         NEW e, e = WithPointer(d, i, j)
  PROVE  /\ Grown(d, e, i)
         /\ Cardinality(Free(e)) \in Cardinality(Free(d)) - 1 .. Cardinality(Free(d))
         /\ Ptr(e, i, j) = 0 => Free(e) = {}
         /\ Ptr(d, i, j) # 0 => e = d
<1>1. j \in Cells /\ Ptr(d, i, j) = d.inode[i].blocks[j]
  BY Positive DEF Ptr, Cells
<1>2. CASE d.inode[i].blocks[j] # 0 \/ Free(d) = {}
  <2>1. e = d
    BY <1>2 DEF WithPointer
  <2> QED BY <1>1, <1>2, <2>1, GrownRefl, FreeFinite
<1>3. CASE ~ (d.inode[i].blocks[j] # 0 \/ Free(d) = {})
  <2>1. PICK b : Linked(d, e, i, j, b)
    BY <1>3, LinkPointer
  <2>2. /\ Grown(d, e, i) /\ Cardinality(Free(e)) = Cardinality(Free(d)) - 1
        /\ Ptr(e, i, j) # 0
    BY <1>1, <2>1, LinkedGrows
  <2> QED BY <1>1, <1>3, <2>2, FreeFinite
<1> QED BY <1>2, <1>3

\* An entry of the indirect block is there, or it has no such entry, or no block is free.
LEMMA EntryProvided ==
  ASSUME NEW d \in Disks, Owned(d), NEW i \in Inums, NEW k \in Nat,
         Ptr(d, i, NDirect) = 0 => Free(d) = {}, NEW e, e = WithEntry(d, i, k)
  PROVE  /\ Grown(d, e, i)
         /\ Cardinality(Free(e)) \in Cardinality(Free(d)) - 1 .. Cardinality(Free(d))
         /\ k >= PPB => e = d
         /\ k < PPB /\ Ptr(e, i, NDirect + 1 + k) = 0 => Free(e) = {}
<1>1. PICK ind : ind = d.inode[i].blocks[NDirect]
  OBVIOUS
<1>2. Ptr(d, i, NDirect) = ind
  BY <1>1, Positive DEF Ptr
<1>3. PICK j : j = NDirect + 1 + k
  OBVIOUS
<1>4. ~ (j <= NDirect) /\ j - NDirect - 1 = k
  BY <1>3, Positive
<1>5. CASE ind = 0 \/ k >= PPB \/ Free(d) = {}
  <2>1. e = d
    BY <1>1, <1>5 DEF WithEntry
  <2> QED BY <1>2, <1>5, <2>1, GrownRefl, FreeFinite, Positive
<1>6. CASE ~ (ind = 0 \/ k >= PPB \/ Free(d) = {}) /\ d.ptrs[ind][k] # 0
  <2>1. e = d
    BY <1>1, <1>6 DEF WithEntry
  <2>2. Ptr(e, i, j) # 0
    BY <1>1, <1>4, <1>6, <2>1 DEF Ptr
  <2> QED BY <1>3, <2>1, <2>2, GrownRefl, FreeFinite
<1>7. CASE ~ (ind = 0 \/ k >= PPB \/ Free(d) = {}) /\ d.ptrs[ind][k] = 0
  <2>1. k \in 0 .. PPB - 1
    BY <1>7, Positive
  <2>2. PICK b : Linked(d, e, i, j, b)
    BY <1>1, <1>3, <1>7, <2>1, LinkEntry
  <2>3. j \in Cells
    BY <1>3, <2>1, Positive DEF Cells
  <2>4. /\ Grown(d, e, i) /\ Cardinality(Free(e)) = Cardinality(Free(d)) - 1
        /\ Ptr(e, i, j) # 0
    BY <2>2, <2>3, LinkedGrows
  <2> QED BY <1>3, <1>7, <2>4, FreeFinite
<1> QED BY <1>5, <1>6, <1>7

\* data_offset with alloc only adds to its inode, and fails for want of space.
LEMMA ProvideGrows ==
  ASSUME NEW d \in Disks, Owned(d), NEW i \in Inums, NEW bi \in Nat,
         NEW e, e = Provide(d, i, bi)
  PROVE  /\ Grown(d, e, i)
         /\ Cardinality(Free(e)) \in Cardinality(Free(d)) - 2 .. Cardinality(Free(d))
         /\ BlockAt(e, i, bi) = 0 /\ bi < MaxFile => Free(e) = {}
         /\ ~ (bi < MaxFile) /\ Ptr(d, i, NDirect) # 0 => e = d
<1>1. CASE bi < NDirect
  <2>1. bi \in 0..NDirect /\ bi < MaxFile /\ e = WithPointer(d, i, bi)
    BY <1>1, Positive DEF Provide, MaxFile
  <2>2. BlockAt(e, i, bi) = Ptr(e, i, bi)
    BY <1>1, <2>1, BlockAtIs DEF Cell
  <2>3. /\ Grown(d, e, i)
        /\ Cardinality(Free(e)) \in Cardinality(Free(d)) - 1 .. Cardinality(Free(d))
        /\ Ptr(e, i, bi) = 0 => Free(e) = {}
    BY <2>1, PointerProvided
  <2> QED BY <2>1, <2>2, <2>3, FreeFinite
<1>2. CASE ~ (bi < NDirect)
  <2>1. PICK c : c = WithPointer(d, i, NDirect)
    OBVIOUS
  <2>2. PICK k \in Nat : k = bi - NDirect
    BY <1>2, Positive
  <2>3. e = WithEntry(c, i, k)
    BY <1>2, <2>1, <2>2 DEF Provide
  <2>4. NDirect \in 0..NDirect /\ (k < PPB <=> bi < MaxFile) /\ ~ (k < PPB) = (k >= PPB)
    BY <2>2, Positive DEF MaxFile
  <2>5. /\ Grown(d, c, i)
        /\ Cardinality(Free(c)) \in Cardinality(Free(d)) - 1 .. Cardinality(Free(d))
        /\ Ptr(c, i, NDirect) = 0 => Free(c) = {}
        /\ Ptr(d, i, NDirect) # 0 => c = d
    BY <2>1, <2>4, PointerProvided
  <2>6. c \in Disks /\ Owned(c)
    BY <2>5 DEF Grown
  <2>7. /\ Grown(c, e, i)
        /\ Cardinality(Free(e)) \in Cardinality(Free(c)) - 1 .. Cardinality(Free(c))
        /\ k >= PPB => e = c
        /\ k < PPB /\ Ptr(e, i, NDirect + 1 + k) = 0 => Free(e) = {}
    BY <2>3, <2>5, <2>6, EntryProvided
  <2>8. Grown(d, e, i)
    BY <2>5, <2>7, GrownTrans
  <2>9. bi < MaxFile => BlockAt(e, i, bi) = Ptr(e, i, NDirect + 1 + k)
    <3>1. NDirect + 1 + k = bi + 1
      BY <2>2, Positive
    <3> QED BY <1>2, <3>1, BlockAtIs DEF Cell
  <2>10. Cardinality(Free(e)) \in Cardinality(Free(d)) - 2 .. Cardinality(Free(d))
    <3>1. Cardinality(Free(c)) \in Nat /\ Cardinality(Free(d)) \in Nat /\ Cardinality(Free(e)) \in Nat
      BY FreeFinite
    <3> QED BY <2>5, <2>7, <3>1
  <2> QED BY <2>4, <2>5, <2>7, <2>8, <2>9, <2>10
<1> QED BY <1>1, <1>2

-----------------------------------------------------------------------------
(* Names *)

\* The cleaner goes through the states e[0], e[1], ...
LEMMA StripRun ==
  ASSUME NEW p \in Seq(Chars), NEW e, e = [k \in 0 .. Len(p) |-> e[k]],
         e[0] = [out |-> <<>>, escape |-> FALSE],
         \A k \in 1 .. Len(p) : StripChar(e[k - 1], p[k]) = e[k]
  PROVE  Strip(p) = e[Len(p)].out
<1> DEFINE st == [out |-> <<>>, escape |-> FALSE]
           Is(g) == g = [k \in 0 .. Len(p) |-> IF k = 0 THEN st ELSE StripChar(g[k - 1], p[k])]
           after == CHOOSE g : Is(g)
           W == [k \in 0 .. Len(p) |-> {e[k]}]
<1>1. Len(p) \in Nat
  OBVIOUS
<1>2. Is(e)
  <2>1. \A k \in 0 .. Len(p) : e[k] = IF k = 0 THEN st ELSE StripChar(e[k - 1], p[k])
    <3>1. \A k \in 0 .. Len(p) : k # 0 => k \in 1 .. Len(p)
      BY <1>1
    <3> QED BY <3>1
  <2> HIDE DEF st
  <2> QED BY <2>1
<1>3. Is(after)
  <2> HIDE DEF Is
  <2> QED BY <1>2
<1>4. after[0] = st /\ \A k \in 1 .. Len(p) : after[k] = StripChar(after[k - 1], p[k])
  <2>1. PICK m \in Nat : m = Len(p)
    BY <1>1
  <2>2. after = [k \in 0 .. m |-> IF k = 0 THEN st ELSE StripChar(after[k - 1], p[k])]
    <3> HIDE DEF after
    <3> QED BY <1>3, <2>1
  <2>3. 0 \in 0 .. m /\ \A k \in 1 .. m : k \in 0 .. m /\ k # 0
    OBVIOUS
  <2> HIDE DEF after, st
  <2> QED BY <2>1, <2>2, <2>3
<1> HIDE DEF after
<1>5. \A k \in 0 .. Len(p) : after[k] \in W[k]
  <2>1. after[0] \in W[0]
    BY <1>1, <1>4
  <2>2. ASSUME NEW k \in 1 .. Len(p), after[k - 1] \in W[k - 1]
        PROVE  after[k] \in W[k]
    <3>1. k - 1 \in 0 .. Len(p) /\ k \in 0 .. Len(p)
      BY <1>1
    <3>2. after[k - 1] = e[k - 1]
      BY <2>2, <3>1
    <3>3. after[k] = e[k]
      BY <1>4, <3>2
    <3> QED BY <3>1, <3>3
  <2> HIDE DEF W
  <2> QED BY <1>1, <2>1, <2>2, Upward
<1>6. after[Len(p)] = e[Len(p)]
  BY <1>1, <1>5
<1> QED BY <1>6 DEF Strip, after

Strips == [out : Seq(Chars), escape : BOOLEAN]

\* The cleaner's state is its output and whether it is in an escape sequence.
LEMMA SameStrip ==
  ASSUME NEW s \in Strips, NEW t \in Strips, s.out = t.out, s.escape <=> t.escape
  PROVE  s = t
BY DEF Strips

\* One round of strip_ansi_codes, case by case.
LEMMA StripCharIs ==
  ASSUME NEW s \in Strips, NEW ch \in Chars, NEW t, t = StripChar(s, ch)
  PROVE  /\ t \in Strips
         /\ ch = Esc => t.out = s.out /\ t.escape
         /\ ch # Esc /\ s.escape => t.out = s.out /\ (t.escape <=> ch # "m")
         /\ ch # Esc /\ ~s.escape => t.out = Append(s.out, ch) /\ ~t.escape
<1>1. CASE ch = Esc
  <2>1. t = [s EXCEPT !.escape = TRUE]
    BY <1>1 DEF StripChar
  <2> QED BY <1>1, <2>1 DEF Strips
<1>2. CASE ch # Esc /\ s.escape
  <2>1. t = [s EXCEPT !.escape = (ch # "m")]
    BY <1>2 DEF StripChar
  <2> QED BY <1>2, <2>1 DEF Strips
<1>3. CASE ch # Esc /\ ~s.escape
  <2>1. PICK o \in Seq(Chars) : o = Append(s.out, ch)
    <3>1. s.out \in Seq(Chars)
      BY DEF Strips
    <3> QED BY <3>1, AppendProperties
  <2>2. t = [s EXCEPT !.out = o]
    BY <1>3, <2>1 DEF StripChar
  <2> QED BY <1>3, <2>1, <2>2 DEF Strips
<1> QED BY <1>1, <1>2, <1>3

\* What is left of a name between two escape sequences, or of a name alone.
LEMMA StripBetween ==
  ASSUME NEW a \in Seq(Chars), NEW n \in Seq(Chars), NEW r \in Seq(Chars),
         a = <<>> \/ IsEscape(a), r = <<>> \/ IsEscape(r), Esc \notin ToSet(n)
  PROVE  Strip(a \o n \o r) = n
<1>1. PICK p \in Seq(Chars) : p = a \o n \o r
  BY ConcatProperties
<1>2. PICK A \in Nat : A = Len(a)
  OBVIOUS
<1>3. PICK N \in Nat : N = Len(n)
  OBVIOUS
<1>4. PICK R \in Nat : R = Len(r)
  OBVIOUS
<1>5. /\ Len(p) = A + N + R
      /\ \A k \in 1 .. A : p[k] = a[k]
      /\ \A k \in 1 .. N : p[A + k] = n[k]
      /\ \A k \in 1 .. R : p[A + N + k] = r[k]
  <2>1. PICK q \in Seq(Chars) : q = a \o n
    BY ConcatProperties
  <2>2. /\ Len(q) = A + N
        /\ \A k \in 1 .. A + N : q[k] = IF k <= A THEN a[k] ELSE n[k - A]
    BY <1>2, <1>3, <2>1, ConcatProperties
  <2>3. /\ Len(p) = A + N + R
        /\ \A k \in 1 .. A + N + R : p[k] = IF k <= A + N THEN q[k] ELSE r[k - (A + N)]
    <3>1. p = q \o r
      BY <1>1, <2>1
    <3>2. /\ Len(q \o r) = Len(q) + Len(r)
          /\ \A k \in 1 .. Len(q) + Len(r) :
               (q \o r)[k] = IF k <= Len(q) THEN q[k] ELSE r[k - Len(q)]
      BY ConcatProperties
    <3>3. Len(q) = A + N /\ Len(r) = R
      BY <1>4, <2>2
    <3> QED BY <3>1, <3>2, <3>3, Zenon
  <2>4. ASSUME NEW k \in 1 .. N PROVE A + k \in 1 .. A + N /\ (A + k) - A = k /\ ~ (A + k <= A)
    OBVIOUS
  <2>5. ASSUME NEW k \in 1 .. R
        PROVE  A + N + k \in 1 .. A + N + R /\ (A + N + k) - (A + N) = k /\ ~ (A + N + k <= A + N)
    OBVIOUS
  <2>6. \A k \in 1 .. A + N : k \in 1 .. A + N + R /\ k <= A + N
    OBVIOUS
  <2>7. \A k \in 1 .. A : k \in 1 .. A + N /\ k <= A
    OBVIOUS
  <2>8. \A k \in 1 .. A + N : p[k] = q[k]
    BY <2>3, <2>6
  <2>9. \A k \in 1 .. A : p[k] = a[k]
    BY <2>2, <2>7, <2>8
  <2>10. \A k \in 1 .. N : p[A + k] = n[k]
    BY <2>2, <2>4, <2>8
  <2>11. \A k \in 1 .. R : p[A + N + k] = r[k]
    BY <2>3, <2>5
  <2> QED BY <2>3, <2>9, <2>10, <2>11
<1>6. \A k \in 1 .. N : n[k] # Esc
  BY <1>3 DEF ToSet
<1>7. A = 0 \/ (A > 1 /\ a[1] = Esc /\ a[A] = "m" /\ \A k \in 2 .. A - 1 : a[k] # "m")
  BY <1>2 DEF IsEscape
<1>8. R = 0 \/ (R > 1 /\ r[1] = Esc /\ r[R] = "m" /\ \A k \in 2 .. R - 1 : r[k] # "m")
  BY <1>4 DEF IsEscape
<1>9. Esc # "m"
  BY FileAssumption
<1> DEFINE Copied(k) == IF k <= A THEN 0 ELSE IF k >= A + N THEN N ELSE k - A
           Inside(k) == (0 < k /\ k < A) \/ (A + N < k /\ k < A + N + R)
           Upto(m) == [j \in 1..m |-> n[j]]
           e == [k \in 0 .. A + N + R |-> [out |-> Upto(Copied(k)), escape |-> Inside(k)]]
<1>10. \A k \in 0 .. A + N + R : Copied(k) \in 0..N /\ Inside(k) \in BOOLEAN
  OBVIOUS
<1>11. ASSUME NEW k \in 0 .. A + N + R
       PROVE  e[k] \in Strips /\ e[k].out = Upto(Copied(k)) /\ (e[k].escape <=> Inside(k))
  <2>1. PICK m \in 0..N : m = Copied(k)
    BY <1>10
  <2>2. PICK o \in Seq(Chars) : o = Upto(m)
    <3>1. m \in Nat /\ \A j \in 1..m : n[j] \in Chars
      BY <1>3
    <3>2. Upto(m) \in Seq(Chars)
      BY <3>1
    <3> QED BY <3>2
  <2>3. PICK v \in BOOLEAN : v = Inside(k)
    BY <1>10
  <2>4. e[k] = [out |-> o, escape |-> v]
    BY <2>1, <2>2, <2>3
  <2> HIDE DEF Upto, Inside, Copied, e
  <2> QED BY <2>1, <2>2, <2>3, <2>4 DEF Strips
<1>12. ASSUME NEW k \in 1 .. A + N + R
       PROVE  StripChar(e[k - 1], p[k]) = e[k]
  <2>1. k - 1 \in 0 .. A + N + R /\ k \in 0 .. A + N + R
    OBVIOUS
  <2>2. PICK s \in Strips : s = e[k - 1] /\ s.out = Upto(Copied(k - 1)) /\ (s.escape <=> Inside(k - 1))
    <3> HIDE DEF Upto, Copied, Inside, e
    <3> QED BY <1>11, <2>1
  <2>3. PICK t \in Strips : t = e[k] /\ t.out = Upto(Copied(k)) /\ (t.escape <=> Inside(k))
    <3> HIDE DEF Upto, Copied, Inside, e
    <3> QED BY <1>11, <2>1
  <2>4. p[k] \in Chars
    BY <1>5
  <2>5. PICK u \in Strips : /\ u = StripChar(s, p[k])
                            /\ p[k] = Esc => u.out = s.out /\ u.escape
                            /\ p[k] # Esc /\ s.escape => u.out = s.out /\ (u.escape <=> p[k] # "m")
                            /\ p[k] # Esc /\ ~s.escape => u.out = Append(s.out, p[k]) /\ ~u.escape
    BY <2>4, StripCharIs
  <2>6. CASE k <= A \/ A + N < k
    <3>1. Copied(k - 1) = Copied(k)
      BY <2>6
    <3>2. p[k] = Esc => Inside(k)
      <4>1. CASE k <= A
        BY <1>5, <1>7, <1>9, <4>1
      <4>2. CASE A + N < k
        <5>1. PICK j \in 1 .. R : k = A + N + j
          <6>1. k - (A + N) \in 1 .. R /\ k = A + N + (k - (A + N))
            BY <4>2
          <6> QED BY <6>1
        <5>2. p[k] = r[j]
          BY <1>5, <5>1
        <5>3. p[k] = Esc => j # R
          <6>1. R # 0 /\ r[R] = "m"
            BY <1>8
          <6> QED BY <1>9, <5>2, <6>1
        <5> QED BY <5>1, <5>3
      <4> QED BY <2>6, <4>1, <4>2
    <3>3. p[k] # Esc => Inside(k - 1) /\ (Inside(k) <=> p[k] # "m")
      <4>1. CASE k <= A
        <5>1. p[k] = a[k]
          BY <1>5, <4>1
        <5>2. CASE k = 1
          BY <1>7, <4>1, <5>1, <5>2
        <5>3. CASE k # 1
          <6>1. A > 1 /\ Inside(k - 1) /\ (k = A \/ k \in 2 .. A - 1)
            BY <1>7, <4>1, <5>3
          <6>2. Inside(k) <=> k # A
            BY <4>1
          <6> QED BY <1>7, <5>1, <6>1, <6>2
        <5> QED BY <5>2, <5>3
      <4>2. CASE A + N < k
        <5>1. PICK j \in 1 .. R : k = A + N + j
          <6>1. k - (A + N) \in 1 .. R /\ k = A + N + (k - (A + N))
            BY <4>2
          <6> QED BY <6>1
        <5>2. p[k] = r[j]
          BY <1>5, <5>1
        <5>3. CASE j = 1
          BY <1>8, <5>1, <5>2, <5>3
        <5>4. CASE j # 1
          <6>1. R > 1 /\ Inside(k - 1) /\ (j = R \/ j \in 2 .. R - 1)
            BY <1>8, <5>1, <5>4
          <6>2. Inside(k) <=> j # R
            BY <5>1
          <6> QED BY <1>8, <5>2, <6>1, <6>2
        <5> QED BY <5>3, <5>4
      <4> QED BY <2>6, <4>1, <4>2
    <3> HIDE DEF Upto, Copied, Inside, e
    <3>4. u.out = t.out /\ (u.escape <=> t.escape)
      BY <2>2, <2>3, <2>5, <3>1, <3>2, <3>3
    <3> QED BY <2>2, <2>3, <2>5, <3>4, SameStrip
  <2>7. CASE ~ (k <= A) /\ ~ (A + N < k)
    <3>1. PICK m \in 1 .. N : k = A + m
      <4>1. k - A \in 1 .. N /\ k = A + (k - A)
        BY <2>7
      <4> QED BY <4>1
    <3>2. Copied(k - 1) = m - 1 /\ Copied(k) = m /\ Inside(k - 1) = FALSE /\ Inside(k) = FALSE
      BY <3>1
    <3>3. p[k] = n[m] /\ p[k] # Esc
      BY <1>5, <1>6, <3>1
    <3>4. Append(Upto(m - 1), n[m]) = Upto(m)
      <4>1. m - 1 \in Nat /\ Upto(m - 1) \in Seq(Chars) /\ Len(Upto(m - 1)) = m - 1
        BY <1>3
      <4>2. m \in Nat /\ Upto(m) \in Seq(Chars) /\ Len(Upto(m)) = m /\ n[m] \in Chars
        BY <1>3
      <4>3. \A j \in 1 .. m - 1 : Upto(m - 1)[j] = n[j]
        OBVIOUS
      <4>4. \A j \in 1 .. m : Upto(m)[j] = n[j]
        OBVIOUS
      <4> HIDE DEF Upto
      <4> QED BY <4>1, <4>2, <4>3, <4>4, SMTT(30)
    <3> HIDE DEF Upto, Copied, Inside, e
    <3>5. u.out = t.out /\ (u.escape <=> t.escape)
      BY <2>2, <2>3, <2>5, <3>2, <3>3, <3>4
    <3> QED BY <2>2, <2>3, <2>5, <3>5, SameStrip
  <2> QED BY <2>6, <2>7
<1>13. e[0] = [out |-> <<>>, escape |-> FALSE] /\ e[A + N + R].out = n
  <2>1. Copied(0) = 0 /\ Inside(0) = FALSE /\ Copied(A + N + R) = N
    BY <1>2, <1>3, <1>4
  <2>2. Upto(0) = <<>> /\ Upto(N) = n
    BY <1>3
  <2>3. 0 \in 0 .. A + N + R /\ A + N + R \in 0 .. A + N + R
    OBVIOUS
  <2> HIDE DEF Upto, Copied, Inside
  <2> QED BY <2>1, <2>2, <2>3
<1>14. e = [k \in 0 .. Len(p) |-> e[k]]
  <2> HIDE DEF Upto, Copied, Inside
  <2> QED BY <1>5
<1> HIDE DEF e
<1>15. Strip(p) = e[Len(p)].out
  BY <1>5, <1>12, <1>13, <1>14, StripRun
<1> QED BY <1>1, <1>5, <1>13, <1>15

\* However ls shows a name, it is found again.
LEMMA StripDecorated ==
  ASSUME NEW n \in Names, NEW c \in Colors
  PROVE  Strip(n) = n /\ Strip(Decorated(n, c)) = n
<1>1. n \in Seq(Chars) /\ Esc \notin ToSet(n)
  BY FileAssumption
<1>2. Strip(n) = n
  <2>1. <<>> \in Seq(Chars) /\ n = <<>> \o n \o <<>>
    BY <1>1
  <2> QED BY <1>1, <2>1, StripBetween
<1>3. CASE c = "none"
  BY <1>2, <1>3 DEF Decorated
<1>4. CASE c # "none"
  <2>1. IsEscape(Ansi[c]) /\ IsEscape(Reset)
    BY <1>4, FileAssumption
  <2>2. Ansi[c] \in Seq(Chars) /\ Reset \in Seq(Chars)
    BY <2>1 DEF IsEscape
  <2> QED BY <1>1, <1>2, <1>4, <2>1, <2>2, StripBetween DEF Decorated
<1> QED BY <1>2, <1>3, <1>4

-----------------------------------------------------------------------------
(* The invariant *)

\* Entries have different names and name different inodes, which are in use; an inode
\* that is not has no block.
Entries(d) ==
  /\ d.inode[0].live
  /\ \A i \in Inums : ~d.inode[i].live => \A j \in Cells : Ptr(d, i, j) = 0
  /\ \A k \in Live(d) : d.inode[d.dents[k].num].live /\ d.dents[k].name \in Names
  /\ \A j, k \in Live(d) :
       d.dents[j].num = d.dents[k].num \/ d.dents[j].name = d.dents[k].name => j = k

\* A file ends within what an inode can address; the root has the blocks of its entries.
Sizes(d) ==
  /\ \A i \in Inums \ {0} : d.inode[i].size <= Limit
  /\ d.inode[0].size = Len(d.dents) /\ Len(d.dents) <= MaxFile * DPB
  /\ \A k \in 1 .. Len(d.dents) : BlockAt(d, 0, (k - 1) \div DPB) # 0

DiskOK(d) == d \in Disks /\ Owned(d) /\ Entries(d) /\ Sizes(d)

IInv == DiskOK(disk) /\ touched \subseteq Inums \X {"atim", "mtim", "ctim"}

\* The root is an inode.
LEMMA InumsAre == 0 \in Inums /\ Inums \subseteq Nat
BY Positive DEF Inums

\* The largest file has the bytes of all blocks an inode can address.
LEMMA LimitIs == MaxFile \in Nat \ {0} /\ Limit \in Nat /\ Limit = MaxFile * BS
BY Positive DEF MaxFile, Limit

\* The live entries are those with a number; numbers and names have their types.
LEMMA LiveIs ==
  ASSUME NEW d \in Disks
  PROVE  /\ d.dents \in Seq(DentRecords) /\ Len(d.dents) \in Nat /\ DOMAIN d.dents = 1 .. Len(d.dents)
         /\ Live(d) \subseteq 1 .. Len(d.dents)
         /\ \A k \in 1 .. Len(d.dents) :
              /\ d.dents[k].num \in Inums /\ d.dents[k].name \in Names \cup {<<>>}
              /\ k \in Live(d) <=> d.dents[k].num # 0
<1>1. d.dents \in Seq(DentRecords)
  BY DEF Disks
<1>2. Len(d.dents) \in Nat /\ DOMAIN d.dents = 1 .. Len(d.dents)
  BY <1>1
<1>3. \A k \in 1 .. Len(d.dents) : d.dents[k] \in DentRecords
  BY <1>1
<1> QED BY <1>1, <1>2, <1>3 DEF Live, DentRecords

\* A name is looked up to the inode of the entry with that name, if there is one.
LEMMA FindIs ==
  ASSUME NEW d \in Disks, Entries(d), NEW n
  PROVE  /\ Find(d, n) # 0 =>
              \E k \in Live(d) : d.dents[k].name = n /\ d.dents[k].num = Find(d, n)
         /\ \A k \in Live(d) : d.dents[k].name = n => Find(d, n) = d.dents[k].num
         /\ Find(d, n) \in Inums
<1> DEFINE ks == {k \in Live(d) : d.dents[k].name = n}
<1>1. Find(d, n) = IF ks = {} THEN 0 ELSE d.dents[Min(ks)].num
  BY DEF Find
<1>2. CASE ks = {}
  BY <1>1, <1>2, InumsAre
<1>3. CASE ks # {}
  <2>1. ks \in SUBSET Nat
    BY LiveIs
  <2>2. Min(ks) \in ks
    BY <1>3, <2>1, MinNat
  <2>3. PICK k \in Live(d) : k = Min(ks) /\ d.dents[k].name = n
    BY <2>2
  <2>4. Find(d, n) = d.dents[k].num
    BY <1>1, <1>3, <2>3
  <2>5. \A j \in Live(d) : d.dents[j].name = n => j = k
    BY <2>3 DEF Entries
  <2>6. d.dents[k].num \in Inums
    BY LiveIs
  <2> HIDE DEF ks
  <2> QED BY <2>3, <2>4, <2>5, <2>6
<1> QED BY <1>2, <1>3

\* The name of an inode is that of its entry.
LEMMA NameOfIs ==
  ASSUME NEW d \in Disks, Entries(d), NEW k \in Live(d)
  PROVE  NameOf(d, d.dents[k].num) = d.dents[k].name
<1> DEFINE ks == {j \in Live(d) : d.dents[j].num = d.dents[k].num}
<1>1. ks = {k}
  BY DEF Entries
<1>2. k \in Nat /\ d.dents[k].num # 0
  BY LiveIs
<1>3. Min({k}) = k
  BY <1>2, MinNat
<1> QED BY <1>1, <1>2, <1>3 DEF NameOf

-----------------------------------------------------------------------------
(* Tapes *)

\* Byte p of a file is in a block of its cells, if it is there.
LEMMA TapeAt ==
  ASSUME NEW d, NEW i, NEW p \in 0 .. Limit - 1
  PROVE  LET c == Cell(p \div BS)
         IN  /\ p \div BS \in Nat /\ p \div BS < MaxFile /\ p % BS \in 0 .. BS - 1
             /\ c \in Cells /\ BlockAt(d, i, p \div BS) = Ptr(d, i, c)
             /\ Tape(d, i)[p] = IF Ptr(d, i, c) = 0 THEN Hole ELSE d.bytes[Ptr(d, i, c)][p % BS]
<1>1. p \in Nat /\ p < MaxFile * BS
  BY LimitIs
<1>2. p \div BS \in Nat /\ p % BS \in 0 .. BS - 1
  BY <1>1, Positive, Division
<1>3. p \div BS < MaxFile
  BY <1>1, Positive, LimitIs, QuotientBelow
<1>4. /\ Cell(p \div BS) \in Cells
      /\ BlockAt(d, i, p \div BS) = Ptr(d, i, Cell(p \div BS))
  BY <1>2, <1>3, BlockAtIs
<1> QED BY <1>2, <1>3, <1>4 DEF Tape

\* A file whose blocks and their bytes are the same has the same tape.
LEMMA TapeSame ==
  ASSUME NEW d, NEW e, NEW i,
         \A j \in Cells : /\ Ptr(e, i, j) = Ptr(d, i, j)
                          /\ Ptr(d, i, j) # 0 => e.bytes[Ptr(d, i, j)] = d.bytes[Ptr(d, i, j)]
  PROVE  Tape(e, i) = Tape(d, i)
<1>1. ASSUME NEW p \in 0 .. Limit - 1 PROVE Tape(e, i)[p] = Tape(d, i)[p]
  <2>1. PICK c \in Cells : c = Cell(p \div BS)
    BY TapeAt
  <2>2. Tape(d, i)[p] = IF Ptr(d, i, c) = 0 THEN Hole ELSE d.bytes[Ptr(d, i, c)][p % BS]
    BY <2>1, TapeAt
  <2>3. Tape(e, i)[p] = IF Ptr(e, i, c) = 0 THEN Hole ELSE e.bytes[Ptr(e, i, c)][p % BS]
    BY <2>1, TapeAt
  <2> QED BY <2>2, <2>3
<1>2. Tape(e, i) = [p \in 0 .. Limit - 1 |-> Tape(e, i)[p]]
  BY DEF Tape
<1>3. Tape(d, i) = [p \in 0 .. Limit - 1 |-> Tape(d, i)[p]]
  BY DEF Tape
<1> QED BY <1>1, <1>2, <1>3

\* The blocks of an inode are in use.
LEMMA PtrUsed ==
  ASSUME NEW d \in Disks, Owned(d), NEW i \in Inums, NEW j \in Cells, Ptr(d, i, j) # 0
  PROVE  Ptr(d, i, j) \in d.bits /\ Ptr(d, i, j) \in Blocks
BY PtrType DEF Owned

\* An allocation turns holes of one file into zeros and changes no other tape.
LEMMA GrownTapes ==
  ASSUME NEW d \in Disks, Owned(d), NEW e, NEW i \in Inums, Grown(d, e, i)
  PROVE  /\ \A k \in Inums : k # i => Tape(e, k) = Tape(d, k)
         /\ \A p \in 0 .. Limit - 1 :
              \/ Tape(e, i)[p] = Tape(d, i)[p]
              \/ Tape(d, i)[p] = Hole /\ Tape(e, i)[p] = 0
<1>1. ASSUME NEW k \in Inums, k # i PROVE Tape(e, k) = Tape(d, k)
  <2>1. ASSUME NEW j \in Cells
        PROVE  /\ Ptr(e, k, j) = Ptr(d, k, j)
               /\ Ptr(d, k, j) # 0 => e.bytes[Ptr(d, k, j)] = d.bytes[Ptr(d, k, j)]
    BY <1>1, PtrUsed DEF Grown
  <2> QED BY <2>1, TapeSame
<1>2. ASSUME NEW p \in 0 .. Limit - 1
      PROVE  \/ Tape(e, i)[p] = Tape(d, i)[p]
             \/ Tape(d, i)[p] = Hole /\ Tape(e, i)[p] = 0
  <2>1. PICK c \in Cells : c = Cell(p \div BS)
    BY TapeAt
  <2>2. Tape(d, i)[p] = IF Ptr(d, i, c) = 0 THEN Hole ELSE d.bytes[Ptr(d, i, c)][p % BS]
    BY <2>1, TapeAt
  <2>3. Tape(e, i)[p] = IF Ptr(e, i, c) = 0 THEN Hole ELSE e.bytes[Ptr(e, i, c)][p % BS]
    BY <2>1, TapeAt
  <2>4. p % BS \in 0 .. BS - 1
    BY TapeAt
  <2>5. CASE Ptr(d, i, c) # 0
    <3>1. Ptr(e, i, c) = Ptr(d, i, c) /\ e.bytes[Ptr(d, i, c)] = d.bytes[Ptr(d, i, c)]
      BY <2>5, PtrUsed DEF Grown
    <3> QED BY <2>2, <2>3, <2>5, <3>1
  <2>6. CASE Ptr(d, i, c) = 0 /\ Ptr(e, i, c) = 0
    BY <2>2, <2>3, <2>6
  <2>7. CASE Ptr(d, i, c) = 0 /\ Ptr(e, i, c) # 0
    <3>1. e.bytes[Ptr(e, i, c)] = ZeroBytes
      BY <2>7 DEF Grown
    <3>2. ZeroBytes[p % BS] = 0
      BY <2>4 DEF ZeroBytes
    <3> QED BY <2>2, <2>3, <2>7, <3>1, <3>2
  <2> QED BY <2>5, <2>6, <2>7
<1> QED BY <1>1, <1>2

\* A store to one block changes one file, at the positions of that block.
LEMMA PutTapes ==
  ASSUME NEW d \in Disks, Owned(d), NEW f, NEW i \in Inums, NEW bi \in Nat, BlockAt(d, i, bi) # 0,
         \A k \in Inums : \A j \in Cells : Ptr(f, k, j) = Ptr(d, k, j),
         \A c \in Blocks : c # BlockAt(d, i, bi) => f.bytes[c] = d.bytes[c]
  PROVE  /\ \A k \in Inums : k # i => Tape(f, k) = Tape(d, k)
         /\ \A p \in 0 .. Limit - 1 :
              Tape(f, i)[p] = IF p \div BS = bi THEN f.bytes[BlockAt(d, i, bi)][p % BS]
                              ELSE Tape(d, i)[p]
<1>1. PICK b : b = BlockAt(d, i, bi)
  OBVIOUS
<1>2. bi < MaxFile /\ b = Ptr(d, i, Cell(bi)) /\ Cell(bi) \in Cells /\ b # 0
  BY <1>1, LimitIs, BlockAtIs
<1>3. ASSUME NEW k \in Inums, k # i PROVE Tape(f, k) = Tape(d, k)
  <2>1. ASSUME NEW j \in Cells, Ptr(d, k, j) # 0
        PROVE  f.bytes[Ptr(d, k, j)] = d.bytes[Ptr(d, k, j)]
    <3>1. Ptr(d, k, j) # b
      BY <1>2, <1>3, <2>1 DEF Owned
    <3> QED BY <1>1, <2>1, <3>1, PtrUsed
  <2> QED BY <2>1, TapeSame
<1>4. ASSUME NEW p \in 0 .. Limit - 1
       PROVE  Tape(f, i)[p] = IF p \div BS = bi THEN f.bytes[BlockAt(d, i, bi)][p % BS]
                             ELSE Tape(d, i)[p]
  <2>1. PICK c \in Cells : c = Cell(p \div BS)
    BY TapeAt
  <2>2. Tape(d, i)[p] = IF Ptr(d, i, c) = 0 THEN Hole ELSE d.bytes[Ptr(d, i, c)][p % BS]
    BY <2>1, TapeAt
  <2>3. Tape(f, i)[p] = IF Ptr(f, i, c) = 0 THEN Hole ELSE f.bytes[Ptr(f, i, c)][p % BS]
    BY <2>1, TapeAt
  <2>4. p \div BS \in Nat
    BY TapeAt
  <2>5. CASE p \div BS = bi
    BY <1>2, <1>1, <2>1, <2>3, <2>5
  <2>6. CASE p \div BS # bi
    <3>1. c # Cell(bi)
      BY <2>1, <2>4, <2>6, CellInjective
    <3>2. Ptr(d, i, c) # 0 => Ptr(d, i, c) # b /\ Ptr(d, i, c) \in Blocks
      BY <1>2, <3>1, PtrUsed DEF Owned
    <3> QED BY <1>1, <2>2, <2>3, <2>6, <3>2
  <2> QED BY <2>5, <2>6
<1> QED BY <1>3, <1>4

\* New bytes in a block of inode i are on its tape and on no other.
LEMMA PutBytes ==
  ASSUME NEW d \in Disks, Owned(d), NEW i \in Inums, NEW bi \in Nat, BlockAt(d, i, bi) # 0,
         NEW f, f.inode = d.inode, f.bits = d.bits, f.ptrs = d.ptrs,
         \A c \in Blocks : c # BlockAt(d, i, bi) => f.bytes[c] = d.bytes[c]
  PROVE  /\ Owned(f)
         /\ \A k \in Inums : \A j \in Cells : Ptr(f, k, j) = Ptr(d, k, j)
         /\ \A k \in Inums : k # i => Tape(f, k) = Tape(d, k)
         /\ \A p \in 0 .. Limit - 1 :
              Tape(f, i)[p] = IF p \div BS = bi THEN f.bytes[BlockAt(d, i, bi)][p % BS]
                              ELSE Tape(d, i)[p]
<1>1. \A k \in Inums : \A j \in Cells : Ptr(f, k, j) = Ptr(d, k, j)
  BY DEF Ptr
<1>2. Owned(f)
  BY <1>1 DEF Owned
<1>3. \A k \in Inums : k # i => Tape(f, k) = Tape(d, k)
  BY <1>1, PutTapes
<1>4. \A p \in 0 .. Limit - 1 :
        Tape(f, i)[p] = IF p \div BS = bi THEN f.bytes[BlockAt(d, i, bi)][p % BS]
                        ELSE Tape(d, i)[p]
  BY <1>1, PutTapes
<1> QED BY <1>1, <1>2, <1>3, <1>4

-----------------------------------------------------------------------------
(* Reading *)

\* A piece is not empty, and ends with what is asked for and within its block.
LEMMA PieceIs ==
  ASSUME NEW off \in Nat, NEW n \in Nat, NEW len \in Nat, n < len
  PROVE  Piece(off, n, len) \in 1 .. len - n /\ Piece(off, n, len) <= BS - ((off + n) % BS)
<1>1. PICK a \in Nat : a = (off + n) % BS /\ a < BS
  BY Positive, Division
<1>2. {BS - a, len - n} \in SUBSET (Nat \ {0})
  BY <1>1, Positive
<1>3. PICK S \in SUBSET (Nat \ {0}) : S = {BS - a, len - n}
  BY <1>2
<1>4. Min(S) \in S /\ \A k \in S : Min(S) <= k
  BY <1>3, MinNat
<1>5. BS - a \in S /\ len - n \in S /\ Min(S) \in Nat \ {0}
  BY <1>3, <1>4
<1> QED BY <1>1, <1>3, <1>4, <1>5 DEF Piece

\* The bytes of a piece lie in one block.
LEMMA PieceInBlock ==
  ASSUME NEW x \in Nat, NEW c \in Nat, NEW p \in Nat, NEW q, q = x \div BS, NEW a, a = x % BS,
         NEW bi, bi = p \div BS, NEW at, at = p % BS, c <= BS - a
  PROVE  /\ q \in Nat /\ a \in 0 .. BS - 1 /\ bi \in Nat /\ at \in 0 .. BS - 1
         /\ p \in x .. x + c - 1 => bi = q
         /\ bi = q => at = a + (p - x)
         /\ bi = q => (at \in a .. a + c - 1 <=> p \in x .. x + c - 1)
<1>1. q \in Nat /\ a \in 0 .. BS - 1 /\ bi \in Nat /\ at \in 0 .. BS - 1
  BY Positive, Division
<1>2. PICK y \in Nat : y = BS * q
  BY <1>1, Positive
<1>3. y <= x /\ a = x - y /\ BS \in Nat \ {0} /\ x - y < BS
  BY <1>2, Positive, Division
<1>4. p \in x .. x + c - 1 => bi = q
  <2>1. SUFFICES ASSUME p \in x .. x + c - 1 PROVE bi = q
    OBVIOUS
  <2>2. y <= p /\ p < y + BS
    BY <1>3, <2>1
  <2> QED BY <1>1, <1>2, <2>2, Positive, Quotient
<1>5. bi = q => at = p - y
  BY <1>1, <1>2, Positive, Division
<1>6. bi = q => at = a + (p - x)
  BY <1>1, <1>3, <1>5
<1>7. bi = q => (at \in a .. a + c - 1 <=> p \in x .. x + c - 1)
  BY <1>1, <1>3, <1>5
<1> QED BY <1>1, <1>4, <1>6, <1>7

\* What wfs_read has done after r rounds: it has copied the bytes of the file, and if
\* not one a round then all of them or up to a hole.
Reading(i, off, len, r) ==
  {s \in [n : 0..len, out : Seq(Bytes)] :
     /\ Len(s.out) = s.n
     /\ \A k \in 1 .. s.n : s.out[k] = Tape(disk, i)[off + k - 1]
     /\ s.n = len \/ s.n >= r \/ BlockAt(disk, i, (off + s.n) \div BS) = 0}

\* A round of the loop of wfs_read copies one more piece of the file, or stops at a hole.
LEMMA ReadRound ==
  ASSUME disk \in Disks, Owned(disk), NEW i \in Inums, NEW off \in Nat, NEW len \in Nat,
         off + len <= Limit, NEW r \in 1..len, NEW s \in Reading(i, off, len, r - 1)
  PROVE  ReadPiece(s, i, off, len) \in Reading(i, off, len, r)
<1>1. /\ s \in [n : 0..len, out : Seq(Bytes)] /\ Len(s.out) = s.n
      /\ \A k \in 1 .. s.n : s.out[k] = Tape(disk, i)[off + k - 1]
      /\ s.n = len \/ s.n >= r - 1 \/ BlockAt(disk, i, (off + s.n) \div BS) = 0
  BY DEF Reading
<1>2. PICK n \in 0..len : n = s.n
  BY <1>1
<1>3. PICK o \in Seq(Bytes) : o = s.out /\ Len(o) = n
  BY <1>1, <1>2
<1>4. PICK b : b = BlockAt(disk, i, (off + n) \div BS)
  OBVIOUS
<1>5. CASE n = len \/ b = 0
  <2>1. ReadPiece(s, i, off, len) = s
    BY <1>2, <1>4, <1>5 DEF ReadPiece
  <2> QED BY <1>1, <1>2, <1>4, <1>5, <2>1 DEF Reading
<1>6. CASE n # len /\ b # 0
  <2>1. n \in Nat /\ n < len
    BY <1>2, <1>6
  <2>2. PICK c \in 1 .. len - n : c = Piece(off, n, len) /\ c <= BS - ((off + n) % BS)
    BY <2>1, PieceIs
  <2>3. PICK x \in Nat : x = off + n
    BY <2>1
  <2>4. PICK a \in Nat : a = x % BS /\ a < BS
    <3>1. x % BS \in 0 .. BS - 1
      BY Positive, Division
    <3>2. x % BS \in Nat /\ x % BS < BS
      BY <3>1, Positive
    <3> QED BY <3>2
  <2>5. PICK row : row = disk.bytes[b]
    OBVIOUS
  <2>6. row \in [0 .. BS - 1 -> Bytes]
    <3>1. x \div BS \in Nat
      BY Positive, Division
    <3>2. b \in Blocks
      BY <1>4, <1>6, <2>3, <3>1, BlockAtIs, PtrUsed
    <3> QED BY <2>5, <3>2 DEF Disks
  <2>7. PICK piece : piece = [j \in 1..c |-> row[a + j - 1]]
    OBVIOUS
  <2>8. piece \in Seq(Bytes) /\ Len(piece) = c
    <3>1. \A j \in 1..c : a + j - 1 \in 0 .. BS - 1
      BY <2>2, <2>3, <2>4, Positive, SMTT(30)
    <3>2. \A j \in 1..c : row[a + j - 1] \in Bytes
      BY <2>6, <3>1
    <3>3. c \in Nat
      BY <2>1, <2>2
    <3> QED BY <2>7, <3>2, <3>3
  <2>9. PICK t : t = [n |-> n + c, out |-> o \o piece]
    OBVIOUS
  <2>10. ReadPiece(s, i, off, len) = t
    BY <1>2, <1>3, <1>4, <1>6, <2>2, <2>3, <2>4, <2>5, <2>7, <2>9 DEF ReadPiece
  <2>11. /\ o \o piece \in Seq(Bytes) /\ Len(o \o piece) = n + c
         /\ \A k \in 1 .. n + c : (o \o piece)[k] = IF k <= n THEN o[k] ELSE piece[k - n]
    BY <1>3, <2>8, ConcatProperties, ZenonT(40)
  <2>12. n + c \in 0..len /\ (n + c >= r)
    <3>1. n >= r - 1
      BY <1>1, <1>2, <1>4, <1>6
    <3> QED BY <2>1, <2>2, <3>1
  <2>13. ASSUME NEW k \in 1 .. n + c
         PROVE  (o \o piece)[k] = Tape(disk, i)[off + k - 1]
    <3>1. CASE k <= n
      <4>1. k \in 1 .. n
        BY <2>1, <3>1
      <4>2. o[k] = Tape(disk, i)[off + k - 1]
        BY <1>1, <1>2, <1>3, <4>1
      <4> QED BY <2>11, <3>1, <4>2
    <3>2. CASE ~ (k <= n)
      <4>1. PICK j \in 1..c : k = n + j
        <5>1. k - n \in 1..c /\ k = n + (k - n)
          BY <2>1, <2>2, <3>2
        <5> QED BY <5>1
      <4>2. PICK p \in Nat : p = x + j - 1
        BY <2>1, <2>2, <2>3
      <4>3. p = off + k - 1 /\ p \in x .. x + c - 1
        BY <2>1, <2>2, <2>3, <4>1, <4>2
      <4>4. p \div BS = x \div BS /\ p % BS = a + j - 1
        <5>1. c \in Nat /\ c <= BS - a
          BY <2>1, <2>2, <2>3, <2>4
        <5>2. PICK q, bi, at : q = x \div BS /\ bi = p \div BS /\ at = p % BS
          OBVIOUS
        <5>3. bi = q
          BY <2>4, <4>3, <5>1, <5>2, PieceInBlock
        <5>4. at = a + (p - x)
          BY <2>4, <5>1, <5>2, <5>3, PieceInBlock, SMTT(30)
        <5>5. a + (p - x) = a + j - 1
          BY <2>3, <2>4, <4>1, <4>2, <2>1, <2>2
        <5> QED BY <5>2, <5>3, <5>4, <5>5
      <4>5. p \in 0 .. Limit - 1
        <5>1. p <= off + n + c - 1 /\ n + c <= len
          BY <2>1, <2>2, <2>3, <4>1, <4>2, SMTT(30)
        <5>2. p < Limit
          <6>1. off + n + c - 1 < off + len
            BY <2>1, <2>2, <5>1
          <6>2. Limit \in Nat /\ c \in Nat
            BY <2>1, <2>2, LimitIs
          <6> QED BY <2>1, <5>1, <6>1, <6>2
        <5> QED BY <5>2, LimitIs
      <4>6. BlockAt(disk, i, p \div BS) = b
        BY <1>4, <2>3, <4>4
      <4>7. Tape(disk, i)[p] = row[p % BS]
        BY <1>6, <2>5, <4>5, <4>6 DEF Tape
      <4>8. k - n = j /\ piece[j] = row[a + j - 1]
        BY <2>1, <2>7, <4>1
      <4> QED BY <2>11, <3>2, <4>3, <4>4, <4>7, <4>8
    <3> QED BY <3>1, <3>2
  <2>14. t.n = n + c /\ t.out = o \o piece /\ t \in [n : 0..len, out : Seq(Bytes)]
    BY <2>9, <2>11, <2>12
  <2> QED BY <2>10, <2>11, <2>12, <2>13, <2>14 DEF Reading
<1> QED BY <1>5, <1>6


\* A read is cut at the end of the file.
LEMMA ClippedIs ==
  ASSUME disk \in Disks, NEW i \in Inums, NEW off \in Nat, NEW len \in Nat,
         off < disk.inode[i].size, NEW n, n = Clipped(i, off, len)
  PROVE  n \in Nat /\ n <= len /\ off + n <= disk.inode[i].size
         /\ (n = len \/ off + n = disk.inode[i].size)
<1>1. PICK size \in Nat : size = disk.inode[i].size
  BY DEF Disks, InodeRecords
<1>2. PICK S \in SUBSET Nat : S = {len, size - off}
  <2>1. size - off \in Nat
    BY <1>1
  <2>2. {len, size - off} \in SUBSET Nat
    BY <2>1
  <2> QED BY <2>2
<1>3. Min(S) \in S /\ \A k \in S : Min(S) <= k
  BY <1>2, MinNat
<1>4. n = Min(S)
  BY <1>1, <1>2 DEF Clipped
<1> QED BY <1>1, <1>2, <1>3, <1>4

\* wfs_read runs its rounds to the end.
LEMMA ReadLoop ==
  ASSUME disk \in Disks, Owned(disk), NEW i \in Inums, NEW off \in Nat, NEW len \in Nat,
         off < disk.inode[i].size, disk.inode[i].size <= Limit,
         NEW n, n = Clipped(i, off, len)
  PROVE  \E s \in Reading(i, off, n, n) : ReadBytes(i, off, len) = s.out
<1> DEFINE st == [n |-> 0, out |-> <<>>]
           Round(t) == ReadPiece(t, i, off, n)
           W == [r \in 0..n |-> Reading(i, off, n, r)]
           step == [r \in 1..n |-> [t \in W[r - 1] |-> Round(t)]]
           Is(g) == g = [r \in 0..n |-> IF r = 0 THEN st ELSE Round(g[r - 1])]
           after == CHOOSE g : Is(g)
<1>1. n \in Nat /\ off + n <= Limit
  <2>1. disk.inode[i].size \in Nat
    BY DEF Disks, InodeRecords
  <2> QED BY <2>1, ClippedIs, LimitIs
<1>2. st \in W[0]
  BY <1>1 DEF Reading
<1>3. \A r \in 1..n : \A t \in W[r - 1] : Round(t) \in W[r]
  <2>1. SUFFICES ASSUME NEW r \in 1..n, NEW t \in Reading(i, off, n, r - 1)
                 PROVE  Round(t) \in Reading(i, off, n, r)
    <3>1. \A r \in 1..n : r - 1 \in 0..n /\ r \in 0..n
      BY <1>1
    <3> HIDE DEF Round
    <3> QED BY <3>1
  <2> QED BY <1>1, <2>1, ReadRound
<1> HIDE DEF W, st, Round
<1>4. \A r \in 1..n : \A t \in W[r - 1] : step[r][t] = Round(t) /\ step[r][t] \in W[r]
  BY <1>3
<1> HIDE DEF step
<1>5. PICK f : Rounds(f, n, st, step) /\ \A r \in 0..n : f[r] \in W[r]
  BY <1>1, <1>2, <1>4, LoopRuns
<1>6. Is(f)
  <2>1. \A r \in 0..n : r # 0 => r \in 1..n /\ r - 1 \in 0..n
    BY <1>1
  <2>2. \A r \in 0..n : (IF r = 0 THEN st ELSE step[r][f[r - 1]])
                      = (IF r = 0 THEN st ELSE Round(f[r - 1]))
    BY <1>4, <1>5, <2>1
  <2> QED BY <1>5, <2>2 DEF Rounds
<1>7. Is(after)
  BY <1>6
<1>8. after[0] = st /\ \A r \in 1..n : after[r] = Round(after[r - 1])
  <2>1. 0 \in 0..n /\ \A r \in 1..n : r \in 0..n /\ r # 0
    BY <1>1
  <2> HIDE DEF after
  <2> QED BY <1>7, <2>1
<1> HIDE DEF after
<1>9. \A r \in 0..n : after[r] \in W[r]
  <2>1. after[0] \in W[0]
    BY <1>2, <1>8
  <2>2. \A r \in 1..n : after[r - 1] \in W[r - 1] => after[r] \in W[r]
    BY <1>3, <1>8, Zenon
  <2>3. n \in Nat
    BY <1>1
  <2> QED BY <2>1, <2>2, <2>3, Upward, Zenon
<1>10. after[n] \in Reading(i, off, n, n)
  BY <1>1, <1>9 DEF W
<1>11. ReadBytes(i, off, len) = after[n].out
  <2>1. ~ (off >= disk.inode[i].size)
    BY DEF Disks, InodeRecords
  <2> QED BY <2>1 DEF ReadBytes, after, Round, st
<1> QED BY <1>10, <1>11

\* What was got is the file's from off on, all of the wanted positions or up to a hole.
Tells(i, off, got, want) ==
  /\ \A k \in DOMAIN got : off + k - 1 \in want /\ got[k] = Tape(disk, i)[off + k - 1]
  /\ Len(got) < Cardinality(want) => Tape(disk, i)[off + Len(got)] = Hole

\* What a read returns are the file's bytes, up to its end or to a hole.
LEMMA ReadIs ==
  ASSUME IInv, NEW i \in Files(disk), NEW off \in Nat, NEW len \in Nat,
         NEW got, got = ReadBytes(i, off, len),
         NEW want, want = {p \in 0 .. Limit - 1 : p >= off /\ p < off + len /\ p < disk.inode[i].size}
  PROVE  Tells(i, off, got, want)
<1>1. disk \in Disks /\ Owned(disk) /\ i \in Inums /\ i # 0
  BY DEF IInv, DiskOK, Files
<1>2. PICK size \in Nat : size = disk.inode[i].size /\ size <= Limit
  BY <1>1 DEF IInv, DiskOK, Sizes, Disks, InodeRecords
<1>3. CASE off >= size
  <2>1. got = <<>>
    BY <1>2, <1>3 DEF ReadBytes
  <2>2. want = {}
    BY <1>2, <1>3, LimitIs
  <2>3. Cardinality(want) = 0
    BY <2>2, FS_EmptySet
  <2> QED BY <2>1, <2>3 DEF Tells
<1>4. CASE ~ (off >= size)
  <2>1. PICK n : n = Clipped(i, off, len)
    OBVIOUS
  <2>2. n \in Nat /\ n <= len /\ off + n <= size /\ (n = len \/ off + n = size)
    BY <1>1, <1>2, <1>4, <2>1, ClippedIs
  <2>3. PICK s \in Reading(i, off, n, n) : got = s.out
    BY <1>1, <1>2, <1>4, <2>1, ReadLoop
  <2>4. /\ s.n \in 0..n /\ got \in Seq(Bytes) /\ Len(got) = s.n
        /\ \A k \in 1 .. s.n : got[k] = Tape(disk, i)[off + k - 1]
        /\ s.n = n \/ s.n >= n \/ BlockAt(disk, i, (off + s.n) \div BS) = 0
    BY <2>3 DEF Reading
  <2>5. PICK m \in 0..n : m = s.n
    BY <2>4
  <2>6. want = off .. off + n - 1
    <3>1. \A p \in off .. off + n - 1 : p \in 0 .. Limit - 1 /\ p >= off /\ p < off + len /\ p < size
      BY <1>2, <2>2, LimitIs
    <3>2. \A p \in 0 .. Limit - 1 : p >= off /\ p < off + len /\ p < size => p \in off .. off + n - 1
      BY <1>2, <2>2, LimitIs
    <3> QED BY <1>2, <3>1, <3>2, LimitIs
  <2>7. Cardinality(want) = n
    <3>1. off \in Int /\ off + n - 1 \in Int /\ (off + n - 1) - off + 1 = n
      BY <2>2
    <3>2. CASE n = 0
      <4>1. want = {}
        BY <2>6, <3>2
      <4> QED BY <3>2, <4>1, FS_EmptySet
    <3>3. CASE n # 0
      <4>1. ~ (off > off + n - 1)
        BY <2>2, <3>3
      <4> QED BY <2>6, <3>1, <4>1, FS_Interval
    <3> QED BY <3>2, <3>3
  <2>8. \A k \in DOMAIN got : off + k - 1 \in want /\ got[k] = Tape(disk, i)[off + k - 1]
    <3>1. DOMAIN got = 1 .. m
      BY <2>4, <2>5
    <3>2. \A k \in 1 .. m : off + k - 1 \in off .. off + n - 1
      BY <2>2
    <3> QED BY <2>4, <2>5, <2>6, <3>1, <3>2
  <2>9. Len(got) < Cardinality(want) => Tape(disk, i)[off + Len(got)] = Hole
    <3>1. SUFFICES ASSUME m < n PROVE Tape(disk, i)[off + m] = Hole
      BY <2>4, <2>5, <2>7
    <3>2. BlockAt(disk, i, (off + m) \div BS) = 0
      BY <2>2, <2>4, <2>5, <3>1
    <3>3. off + m \in 0 .. Limit - 1
      BY <1>2, <2>2, <3>1, LimitIs
    <3> QED BY <3>2, <3>3 DEF Tape
  <2> QED BY <2>8, <2>9 DEF Tells
<1> QED BY <1>3, <1>4

-----------------------------------------------------------------------------
(* Writing *)

\* A hole is not a byte.
LEMMA BytesAre == 0 \in Bytes /\ Bytes \subseteq Nat /\ Hole \notin Bytes
<1>1. \A d \in Data : ToSet(d) \subseteq Nat
  <2>1. SUFFICES ASSUME NEW d \in Data PROVE ToSet(d) \subseteq Nat
    OBVIOUS
  <2>2. d \in Seq(Nat)
    BY FileAssumption
  <2> QED BY <2>2 DEF ToSet
<1>2. Bytes \subseteq Nat
  BY <1>1 DEF Bytes
<1> QED BY <1>2 DEF Bytes, Hole

\* What a write stores is a non-empty sequence of bytes.
LEMMA DataAre ==
  ASSUME NEW data \in Data
  PROVE  data \in Seq(Bytes) /\ Len(data) \in Nat \ {0}
<1>1. data \in Seq(Nat) /\ data # <<>>
  BY FileAssumption
<1>2. \A k \in 1 .. Len(data) : data[k] \in Bytes
  BY <1>1 DEF Bytes, ToSet
<1> QED BY <1>1, <1>2

\* e is d when n bytes of data were put in file i: in other files nothing has moved.
Run(d, e, i, off, data, n) ==
  /\ e \in Disks /\ Owned(e) /\ d.bits \subseteq e.bits /\ e.dents = d.dents
  /\ SameAttributes(d, e)
  /\ \A k \in Inums : k # i => /\ Tape(e, k) = Tape(d, k)
                               /\ \A j \in Cells : Ptr(e, k, j) = Ptr(d, k, j)
  /\ Store!Stored(Tape(d, i), Tape(e, i), off, data, n)

\* Nothing has been written before the first round.
LEMMA RunRefl ==
  ASSUME NEW d \in Disks, Owned(d), NEW i, NEW off \in Nat, NEW data
  PROVE  Run(d, d, i, off, data, 0)
<1>1. Store!Stored(Tape(d, i), Tape(d, i), off, data, 0)
  BY DEF Store!Stored, Store!Positions
<1> QED BY <1>1 DEF Run, SameAttributes

\* A block that is provided moves nothing, and fills a hole with zeros.
LEMMA RunGrown ==
  ASSUME NEW d \in Disks, Owned(d), NEW e, NEW f, NEW i \in Inums, NEW off \in Nat,
         NEW data \in Seq(Bytes), NEW n \in 0 .. Len(data),
         Run(d, e, i, off, data, n), Grown(e, f, i)
  PROVE  Run(d, f, i, off, data, n)
<1>1. /\ e \in Disks /\ Owned(e) /\ d.bits \subseteq e.bits /\ e.dents = d.dents
      /\ SameAttributes(d, e)
      /\ \A k \in Inums : k # i => /\ Tape(e, k) = Tape(d, k)
                                   /\ \A j \in Cells : Ptr(e, k, j) = Ptr(d, k, j)
      /\ Store!Stored(Tape(d, i), Tape(e, i), off, data, n)
  BY DEF Run
<1>2. /\ f \in Disks /\ Owned(f) /\ e.bits \subseteq f.bits /\ f.dents = e.dents
      /\ SameAttributes(e, f)
      /\ \A k \in Inums : \A j \in Cells : k # i => Ptr(f, k, j) = Ptr(e, k, j)
  BY DEF Grown
<1>3. /\ \A k \in Inums : k # i => Tape(f, k) = Tape(e, k)
      /\ \A p \in 0 .. Limit - 1 :
           \/ Tape(f, i)[p] = Tape(e, i)[p]
           \/ Tape(e, i)[p] = Hole /\ Tape(f, i)[p] = 0
  BY <1>1, GrownTapes
<1>4. SameAttributes(d, f)
  BY <1>1, <1>2 DEF SameAttributes
<1>5. Store!Stored(Tape(d, i), Tape(f, i), off, data, n)
  <2>1. ASSUME NEW p \in 0 .. Limit - 1
        PROVE  IF p \in off .. off + n - 1 THEN Tape(f, i)[p] = data[p - off + 1]
               ELSE \/ Tape(f, i)[p] = Tape(d, i)[p]
                    \/ Tape(d, i)[p] = Hole /\ Tape(f, i)[p] = 0
    <3>1. IF p \in off .. off + n - 1 THEN Tape(e, i)[p] = data[p - off + 1]
          ELSE \/ Tape(e, i)[p] = Tape(d, i)[p]
               \/ Tape(d, i)[p] = Hole /\ Tape(e, i)[p] = 0
      BY <1>1 DEF Store!Stored, Store!Positions
    <3>2. \/ Tape(f, i)[p] = Tape(e, i)[p]
          \/ Tape(e, i)[p] = Hole /\ Tape(f, i)[p] = 0
      BY <1>3
    <3>3. p \in off .. off + n - 1 => data[p - off + 1] # Hole
      <4>1. SUFFICES ASSUME p \in off .. off + n - 1 PROVE data[p - off + 1] # Hole
        OBVIOUS
      <4>2. p - off + 1 \in 1 .. Len(data)
        BY <4>1
      <4> QED BY <4>2, BytesAre
    <3>4. Hole # 0
      BY DEF Hole
    <3> QED BY <3>1, <3>2, <3>3, <3>4
  <2> QED BY <2>1 DEF Store!Stored, Store!Positions
<1> QED BY <1>1, <1>2, <1>3, <1>4, <1>5 DEF Run

\* f is e with c more bytes of data in file i, after the first n.
Put(e, f, i, off, data, n, c) ==
  /\ Owned(f)
  /\ \A k \in Inums : \A j \in Cells : Ptr(f, k, j) = Ptr(e, k, j)
  /\ \A k \in Inums : k # i => Tape(f, k) = Tape(e, k)
  /\ \A p \in 0 .. Limit - 1 :
       Tape(f, i)[p] = IF p \in off + n .. off + n + c - 1 THEN data[p - off + 1]
                       ELSE Tape(e, i)[p]

\* A piece that is put where the run has come to.
LEMMA RunPut ==
  ASSUME NEW d, NEW e, NEW f, NEW i \in Inums, NEW off \in Nat,
         NEW data \in Seq(Bytes), NEW n \in Nat, NEW c \in Nat, n + c <= Len(data),
         Run(d, e, i, off, data, n), f \in Disks, f.bits = e.bits, f.dents = e.dents,
         SameAttributes(e, f),
         Put(e, f, i, off, data, n, c)
  PROVE  Run(d, f, i, off, data, n + c)
<1>1. /\ e \in Disks /\ Owned(e) /\ d.bits \subseteq e.bits /\ e.dents = d.dents
      /\ SameAttributes(d, e)
      /\ \A k \in Inums : k # i => /\ Tape(e, k) = Tape(d, k)
                                   /\ \A j \in Cells : Ptr(e, k, j) = Ptr(d, k, j)
      /\ Store!Stored(Tape(d, i), Tape(e, i), off, data, n)
  BY DEF Run
<1>2. SameAttributes(d, f)
  BY <1>1 DEF SameAttributes
<1>3. /\ Owned(f)
      /\ \A k \in Inums : \A j \in Cells : Ptr(f, k, j) = Ptr(e, k, j)
      /\ \A k \in Inums : k # i => Tape(f, k) = Tape(e, k)
      /\ \A p \in 0 .. Limit - 1 :
           Tape(f, i)[p] = IF p \in off + n .. off + n + c - 1 THEN data[p - off + 1]
                           ELSE Tape(e, i)[p]
  BY DEF Put
<1>4. Store!Stored(Tape(d, i), Tape(f, i), off, data, n + c)
  <2>1. ASSUME NEW p \in 0 .. Limit - 1
        PROVE  IF p \in off .. off + (n + c) - 1 THEN Tape(f, i)[p] = data[p - off + 1]
               ELSE \/ Tape(f, i)[p] = Tape(d, i)[p]
                    \/ Tape(d, i)[p] = Hole /\ Tape(f, i)[p] = 0
    <3>1. IF p \in off .. off + n - 1 THEN Tape(e, i)[p] = data[p - off + 1]
          ELSE \/ Tape(e, i)[p] = Tape(d, i)[p]
               \/ Tape(d, i)[p] = Hole /\ Tape(e, i)[p] = 0
      BY <1>1 DEF Store!Stored, Store!Positions
    <3>2. p \in off .. off + (n + c) - 1 <=> p \in off .. off + n - 1 \/ p \in off + n .. off + n + c - 1
      BY LimitIs
    <3>3. ~ (p \in off .. off + n - 1 /\ p \in off + n .. off + n + c - 1)
      BY LimitIs
    <3> QED BY <1>3, <3>1, <3>2, <3>3
  <2> QED BY <2>1 DEF Store!Stored, Store!Positions
<1> QED BY <1>1, <1>2, <1>3, <1>4 DEF Run

\* What wfs_write has done after r rounds: it has failed, for want of a block or because
\* the file can have no more, or has stored as much as it was given or a byte a round.
Writing(i, off, data, r) ==
  {s \in [disk : Disks, n : 0 .. Len(data), failed : BOOLEAN] :
     /\ Run(disk, s.disk, i, off, data, s.n)
     /\ s.n = 0 \/ off + s.n <= Limit
     /\ s.failed => s.n < Len(data) /\ (Free(s.disk) = {} \/ Limit <= off + s.n)
     /\ ~s.failed => s.n = Len(data) \/ s.n >= r}

\* What makes a state of the loop of wfs_write.
LEMMA WritingIs ==
  ASSUME NEW i, NEW off, NEW data, NEW r, NEW d \in Disks, NEW n \in 0 .. Len(data), NEW v \in BOOLEAN,
         NEW s, s = [disk |-> d, n |-> n, failed |-> v],
         Run(disk, d, i, off, data, n), n = 0 \/ off + n <= Limit,
         v => n < Len(data) /\ (Free(d) = {} \/ Limit <= off + n),
         ~v => n = Len(data) \/ n >= r
  PROVE  s \in Writing(i, off, data, r)
BY DEF Writing

\* What a state of the loop of wfs_write consists of.
LEMMA WritingParts ==
  ASSUME NEW i, NEW off, NEW data, NEW r, NEW s \in Writing(i, off, data, r)
  PROVE  /\ s.disk \in Disks /\ s.n \in 0 .. Len(data) /\ s.failed \in BOOLEAN
         /\ Run(disk, s.disk, i, off, data, s.n)
         /\ s.n = 0 \/ off + s.n <= Limit
         /\ s.failed => s.n < Len(data) /\ (Free(s.disk) = {} \/ Limit <= off + s.n)
         /\ ~s.failed => s.n = Len(data) \/ s.n >= r
BY DEF Writing

\* A piece ends within what an inode can address.
LEMMA PieceEnds ==
  ASSUME NEW x \in Nat, NEW c \in Nat, NEW bi \in Nat, bi = x \div BS, bi < MaxFile,
         NEW a \in Nat, a = x % BS, a + c <= BS
  PROVE  x + c <= Limit
<1>1. PICK m \in Nat : MaxFile = (bi + 1) + m
  <2>1. MaxFile - (bi + 1) \in Nat /\ MaxFile = (bi + 1) + (MaxFile - (bi + 1))
    BY LimitIs
  <2> QED BY <2>1
<1>2. PICK u, w \in Nat : u = BS * bi /\ w = BS * m
  BY Positive
<1>3. ((bi + 1) + m) * BS = BS * bi + BS + BS * m
  BY Positive
<1>4. Limit = u + BS + w
  BY <1>1, <1>2, <1>3, LimitIs
<1>5. a = x - u
  BY <1>2, Positive, Division
<1> QED BY <1>2, <1>4, <1>5, Positive

\* The c bytes of data after the first n are in a block from a on.
PieceRow(row, old, a, data, n, c) ==
  \A k \in 0 .. BS - 1 : row[k] = IF k \in a .. a + c - 1 THEN data[n + (k - a) + 1] ELSE old[k]

\* What a piece does to the tapes.
LEMMA PutPiece ==
  ASSUME NEW d \in Disks, Owned(d), NEW i \in Inums, NEW off \in Nat, NEW data,
         NEW n \in Nat, NEW c \in Nat, NEW x \in Nat, x = off + n,
         NEW bi \in Nat, bi = x \div BS, NEW a \in Nat, a = x % BS, a + c <= BS,
         NEW b, b = BlockAt(d, i, bi), b # 0,
         NEW f, f.inode = d.inode, f.bits = d.bits, f.ptrs = d.ptrs,
         \A h \in Blocks : h # b => f.bytes[h] = d.bytes[h],
         NEW row, f.bytes[b] = row,
         PieceRow(row, d.bytes[b], a, data, n, c)
  PROVE  Put(d, f, i, off, data, n, c)
<1>1. /\ Owned(f)
      /\ \A k \in Inums : \A j \in Cells : Ptr(f, k, j) = Ptr(d, k, j)
      /\ \A k \in Inums : k # i => Tape(f, k) = Tape(d, k)
      /\ \A p \in 0 .. Limit - 1 :
           Tape(f, i)[p] = IF p \div BS = bi THEN f.bytes[BlockAt(d, i, bi)][p % BS]
                           ELSE Tape(d, i)[p]
  BY PutBytes
<1>2. ASSUME NEW p \in 0 .. Limit - 1
      PROVE  Tape(f, i)[p] = IF p \in off + n .. off + n + c - 1 THEN data[p - off + 1] ELSE Tape(d, i)[p]
  <2>1. PICK q, at : q = p \div BS /\ at = p % BS
    OBVIOUS
  <2>2. p \in Nat /\ c <= BS - a
    BY LimitIs, Positive
  <2>3. /\ at \in 0 .. BS - 1
        /\ p \in x .. x + c - 1 => q = bi
        /\ q = bi => at = a + (p - x)
        /\ q = bi => (at \in a .. a + c - 1 <=> p \in x .. x + c - 1)
    <3>1. /\ at \in 0 .. BS - 1
          /\ p \in x .. x + c - 1 => q = bi
      BY <2>1, <2>2, PieceInBlock
    <3>2. q = bi => at = a + (p - x)
      BY <2>1, <2>2, PieceInBlock
    <3>3. q = bi => (at \in a .. a + c - 1 <=> p \in x .. x + c - 1)
      BY <2>2, <3>1, <3>2
    <3> QED BY <3>1, <3>2, <3>3
  <2>4. Tape(f, i)[p] = IF q = bi THEN row[at] ELSE Tape(d, i)[p]
    BY <1>1, <2>1
  <2>5. CASE p \in x .. x + c - 1
    <3>1. row[at] = data[n + (at - a) + 1]
      BY <2>3, <2>5 DEF PieceRow
    <3>2. n + (at - a) + 1 = p - off + 1
      BY <2>2, <2>3, <2>5
    <3> QED BY <2>3, <2>4, <2>5, <3>1, <3>2
  <2>6. CASE ~ (p \in x .. x + c - 1) /\ q = bi
    <3>1. row[at] = d.bytes[b][at]
      BY <2>3, <2>6 DEF PieceRow
    <3>2. Tape(d, i)[p] = d.bytes[b][at]
      BY <2>1, <2>6 DEF Tape
    <3> QED BY <2>4, <2>6, <3>1, <3>2
  <2>7. CASE ~ (p \in x .. x + c - 1) /\ q # bi
    BY <2>4, <2>7
  <2> QED BY <2>5, <2>6, <2>7
<1> QED BY <1>1, <1>2 DEF Put

\* A round of the loop of wfs_write stores one more piece, or fails for want of a block.
LEMMA WriteRound ==
  ASSUME disk \in Disks, Owned(disk), NEW i \in Inums, NEW off \in Nat, NEW data \in Seq(Bytes),
         NEW r \in 1 .. Len(data), NEW s \in Writing(i, off, data, r - 1)
  PROVE  WritePiece(s, i, off, data) \in Writing(i, off, data, r)
<1>1. /\ s.disk \in Disks /\ s.n \in 0 .. Len(data) /\ s.failed \in BOOLEAN
      /\ Run(disk, s.disk, i, off, data, s.n)
      /\ s.n = 0 \/ off + s.n <= Limit
      /\ s.failed => s.n < Len(data) /\ (Free(s.disk) = {} \/ Limit <= off + s.n)
      /\ ~s.failed => s.n = Len(data) \/ s.n >= r - 1
  <2>1. PICK q : q = r - 1
    OBVIOUS
  <2>2. s \in Writing(i, off, data, q)
    BY <2>1
  <2> QED BY <2>1, <2>2, WritingParts
<1>2. PICK n \in 0 .. Len(data) : n = s.n
  BY <1>1
<1>3. PICK e \in Disks : e = s.disk
  BY <1>1
<1>4. PICK v \in BOOLEAN : v = s.failed
  BY <1>1
<1>5. CASE v \/ n = Len(data)
  <2>1. WritePiece(s, i, off, data) = s
    BY <1>2, <1>4, <1>5 DEF WritePiece
  <2>2. ~v => n = Len(data) \/ n >= r
    BY <1>5
  <2>3. s \in Writing(i, off, data, r)
    BY <1>1, <1>2, <1>4, <2>2 DEF Writing
  <2> QED BY <2>1, <2>3
<1>6. CASE ~v /\ n # Len(data)
  <2>1. PICK len \in Nat : len = Len(data) /\ n < len /\ n \in Nat
    BY <1>6
  <2>2. PICK x \in Nat : x = off + n
    BY <2>1
  <2>3. PICK bi \in Nat, a \in 0 .. BS - 1 : bi = x \div BS /\ a = x % BS
    BY Positive, Division
  <2>4. PICK c \in 1 .. len - n : c = Piece(off, n, len) /\ c <= BS - a
    BY <2>1, <2>2, <2>3, PieceIs
  <2>5. /\ c \in Nat \ {0} /\ n + c <= len /\ a \in Nat /\ a + c <= BS /\ BS \in Nat
         /\ x + c = off + n + c
    BY <2>1, <2>2, <2>3, <2>4, Positive
  <2>6. PICK d : d = Provide(e, i, bi)
    OBVIOUS
  <2>7. Run(disk, e, i, off, data, n) /\ Owned(e)
    BY <1>1, <1>2, <1>3 DEF Run
  <2>8. Grown(e, d, i) /\ (BlockAt(d, i, bi) = 0 /\ bi < MaxFile => Free(d) = {})
    BY <2>6, <2>7, ProvideGrows
  <2>9. Run(disk, d, i, off, data, n) /\ d \in Disks /\ Owned(d)
    <3>1. Run(disk, d, i, off, data, n)
      BY <2>7, <2>8, RunGrown
    <3> QED BY <3>1 DEF Run
  <2>10. bi < MaxFile <=> x < Limit
    BY <2>3, LimitIs, Positive, QuotientBelow
  <2>11. PICK b : b = BlockAt(d, i, bi)
    OBVIOUS
  <2>12. CASE b = 0
    <3>1. WritePiece(s, i, off, data) = [disk |-> d, n |-> n, failed |-> TRUE]
      BY <1>2, <1>3, <1>4, <1>6, <2>1, <2>2, <2>3, <2>6, <2>11, <2>12 DEF WritePiece
    <3>2. PICK y \in BOOLEAN : y /\ [disk |-> d, n |-> n, failed |-> TRUE] = [disk |-> d, n |-> n, failed |-> y]
      OBVIOUS
    <3>3. Free(d) = {} \/ Limit <= off + n
      BY <2>2, <2>8, <2>10, <2>11, <2>12, LimitIs
    <3>4. n = 0 \/ off + n <= Limit
      BY <1>1, <1>2
    <3>5. WritePiece(s, i, off, data) = [disk |-> d, n |-> n, failed |-> y]
      BY <3>1, <3>2
    <3> QED BY <2>1, <2>9, <3>2, <3>3, <3>4, <3>5, WritingIs
  <2>13. CASE b # 0
    <3>1. b \in Blocks /\ bi < MaxFile
      BY <2>9, <2>11, <2>13, BlockAtIs, PtrUsed
    <3>2. PICK old \in [0 .. BS - 1 -> Bytes] : old = d.bytes[b]
      BY <2>9, <3>1 DEF Disks
    <3>3. \A k \in a .. a + c - 1 : data[n + (k - a) + 1] \in Bytes
      <4>1. SUFFICES ASSUME NEW k \in a .. a + c - 1 PROVE data[n + (k - a) + 1] \in Bytes
        OBVIOUS
      <4>2. n + (k - a) + 1 \in 1 .. Len(data)
        BY <2>1, <2>5
      <4> QED BY <4>2
    <3>4. PICK row \in [0 .. BS - 1 -> Bytes] :
            row = [k \in 0 .. BS - 1 |-> IF k \in a .. a + c - 1 THEN data[n + (k - a) + 1] ELSE old[k]]
      BY <3>3
    <3>5. PICK bytes \in [Blocks -> [0 .. BS - 1 -> Bytes]] : bytes = [d.bytes EXCEPT ![b] = row]
      BY <2>9, <3>1 DEF Disks
    <3>6. PICK f : f = [d EXCEPT !.bytes = bytes]
      OBVIOUS
    <3>7. /\ f \in Disks /\ f.inode = d.inode /\ f.bits = d.bits /\ f.ptrs = d.ptrs
          /\ f.dents = d.dents /\ f.bytes = bytes
      BY <2>9, <3>6 DEF Disks
    <3>8. f.bytes[b] = row /\ \A h \in Blocks : h # b => f.bytes[h] = d.bytes[h]
      BY <2>9, <3>1, <3>5, <3>7 DEF Disks
    <3>9. WritePiece(s, i, off, data) = [disk |-> f, n |-> n + c, failed |-> FALSE]
      <4>1. WritePiece(s, i, off, data) =
              [disk |-> [d EXCEPT !.bytes[b] =
                          [k \in 0 .. BS - 1 |-> IF k \in a .. a + c - 1 THEN data[n + (k - a) + 1] ELSE @[k]]],
               n |-> n + c, failed |-> FALSE]
        BY <1>2, <1>3, <1>4, <1>6, <2>1, <2>2, <2>3, <2>4, <2>6, <2>11, <2>13 DEF WritePiece
      <4>2. f = [d EXCEPT !.bytes[b] =
                  [k \in 0 .. BS - 1 |-> IF k \in a .. a + c - 1 THEN data[n + (k - a) + 1] ELSE @[k]]]
        BY <2>9, <3>1, <3>2, <3>4, <3>5, <3>6 DEF Disks
      <4> QED BY <4>1, <4>2
    <3>10. Put(d, f, i, off, data, n, c)
      <4>1. PieceRow(row, d.bytes[b], a, data, n, c)
        BY <3>2, <3>4 DEF PieceRow
      <4>2. /\ n \in Nat /\ c \in Nat /\ a \in Nat /\ x = off + n /\ a + c <= BS
            /\ bi = x \div BS /\ a = x % BS /\ d \in Disks /\ Owned(d)
            /\ b = BlockAt(d, i, bi) /\ b # 0
        BY <2>1, <2>2, <2>3, <2>9, <2>11, <2>13, <2>5
      <4>3. /\ f.inode = d.inode /\ f.bits = d.bits /\ f.ptrs = d.ptrs /\ f.bytes[b] = row
            /\ \A h \in Blocks : h # b => f.bytes[h] = d.bytes[h]
        BY <3>7, <3>8
      <4> QED BY <4>1, <4>2, <4>3, PutPiece
    <3>11. n \in Nat /\ c \in Nat /\ n + c <= Len(data)
      BY <2>1, <2>5
    <3>12. SameAttributes(d, f)
      BY <3>7 DEF SameAttributes
    <3>13. Run(disk, f, i, off, data, n + c)
      <4>1. f.bits = d.bits /\ f.dents = d.dents /\ f \in Disks
        BY <3>7
      <4> QED BY <2>9, <3>10, <3>11, <3>12, <4>1, RunPut
    <3>14. off + (n + c) <= Limit
      <4>1. x + c <= Limit
        BY <2>3, <2>4, <2>5, <3>1, PieceEnds
      <4> QED BY <2>1, <2>5, <4>1, LimitIs
    <3>15. PICK y \in BOOLEAN : ~y /\ [disk |-> f, n |-> n + c, failed |-> FALSE] = [disk |-> f, n |-> n + c, failed |-> y]
      OBVIOUS
    <3>16. n + c >= r /\ n + c \in 0 .. Len(data)
      <4>1. n >= r - 1
        BY <1>1, <1>2, <1>4, <1>6
      <4> QED BY <2>1, <2>5, <4>1
    <3>17. WritePiece(s, i, off, data) = [disk |-> f, n |-> n + c, failed |-> y]
      BY <3>9, <3>15
    <3> QED BY <3>7, <3>13, <3>14, <3>15, <3>16, <3>17, WritingIs
  <2> QED BY <2>12, <2>13
<1> QED BY <1>5, <1>6

\* wfs_write runs its rounds to the end.
LEMMA WriteLoop ==
  ASSUME disk \in Disks, Owned(disk), NEW i \in Inums, NEW off \in Nat, NEW data \in Seq(Bytes),
         NEW n \in Nat, n = Len(data)
  PROVE  Written(i, off, data) \in Writing(i, off, data, n)
<1> DEFINE st == [disk |-> disk, n |-> 0, failed |-> FALSE]
           Round(t) == WritePiece(t, i, off, data)
           W == [r \in 0..n |-> Writing(i, off, data, r)]
           step == [r \in 1..n |-> [t \in W[r - 1] |-> Round(t)]]
           Is(g) == g = [r \in 0..n |-> IF r = 0 THEN st ELSE Round(g[r - 1])]
           after == CHOOSE g : Is(g)
<1>1. st \in W[0]
  <2>1. Run(disk, disk, i, off, data, 0)
    BY RunRefl
  <2>2. PICK y \in BOOLEAN : ~y /\ st = [disk |-> disk, n |-> 0, failed |-> y]
    OBVIOUS
  <2>3. st \in Writing(i, off, data, 0)
    <3>1. PICK z \in 0 .. Len(data) : z = 0
      OBVIOUS
    <3>2. st = [disk |-> disk, n |-> z, failed |-> y] /\ Run(disk, disk, i, off, data, z) /\ z >= 0
      BY <2>1, <2>2, <3>1
    <3> HIDE DEF st
    <3> QED BY <2>2, <3>1, <3>2, WritingIs
  <2> QED BY <2>3
<1>2. \A r \in 1..n : \A t \in W[r - 1] : Round(t) \in W[r]
  <2>1. SUFFICES ASSUME NEW r \in 1..n, NEW t \in Writing(i, off, data, r - 1)
                 PROVE  Round(t) \in Writing(i, off, data, r)
    <3>1. \A r \in 1..n : r - 1 \in 0..n /\ r \in 0..n
      OBVIOUS
    <3> HIDE DEF Round
    <3> QED BY <3>1
  <2> QED BY <2>1, WriteRound
<1> HIDE DEF W, st, Round
<1>3. \A r \in 1..n : \A t \in W[r - 1] : step[r][t] = Round(t) /\ step[r][t] \in W[r]
  BY <1>2
<1> HIDE DEF step
<1>4. PICK f : Rounds(f, n, st, step) /\ \A r \in 0..n : f[r] \in W[r]
  BY <1>1, <1>3, LoopRuns
<1>5. Is(f)
  <2>1. \A r \in 0..n : r # 0 => r \in 1..n /\ r - 1 \in 0..n
    OBVIOUS
  <2>2. \A r \in 0..n : (IF r = 0 THEN st ELSE step[r][f[r - 1]])
                      = (IF r = 0 THEN st ELSE Round(f[r - 1]))
    BY <1>3, <1>4, <2>1
  <2> QED BY <1>4, <2>2 DEF Rounds
<1>6. Is(after)
  BY <1>5
<1>7. after[0] = st /\ \A r \in 1..n : after[r] = Round(after[r - 1])
  <2>1. 0 \in 0..n /\ \A r \in 1..n : r \in 0..n /\ r # 0
    OBVIOUS
  <2> HIDE DEF after
  <2> QED BY <1>6, <2>1
<1> HIDE DEF after
<1>8. \A r \in 0..n : after[r] \in W[r]
  <2>1. after[0] \in W[0]
    BY <1>1, <1>7
  <2>2. \A r \in 1..n : after[r - 1] \in W[r - 1] => after[r] \in W[r]
    BY <1>2, <1>7, Zenon
  <2>3. n \in Nat
    OBVIOUS
  <2> QED BY <2>1, <2>2, <2>3, Upward, Zenon
<1>9. after[n] \in Writing(i, off, data, n)
  BY <1>8 DEF W
<1>10. Written(i, off, data) = after[n]
  BY DEF Written, after, Round, st
<1> QED BY <1>9, <1>10

-----------------------------------------------------------------------------
(* Steps that keep the disk in order *)

\* The parts of the invariant of the image.
LEMMA DiskParts ==
  ASSUME NEW d, DiskOK(d)
  PROVE  /\ d \in Disks /\ Owned(d) /\ Entries(d) /\ Sizes(d)
         /\ d.inode \in [Inums -> InodeRecords] /\ d.inode[0].live
         /\ \A i \in Inums : /\ d.inode[i].live \in BOOLEAN /\ d.inode[i].size \in Nat
                             /\ d.inode[i].color \in Colors
                             /\ d.inode[i].blocks \in [0..NDirect -> 0..NumBlocks]
BY DEF DiskOK, Disks, InodeRecords, Entries

\* Inode i was given or deprived of blocks, none of the root's.
LEMMA BlocksOK ==
  ASSUME NEW d, DiskOK(d), NEW e \in Disks, Owned(e), e.dents = d.dents, SameAttributes(d, e),
         NEW i \in Inums, d.inode[i].live,
         \A k \in Inums : \A j \in Cells : k # i => Ptr(e, k, j) = Ptr(d, k, j),
         \A j \in Cells : Ptr(d, 0, j) # 0 => Ptr(e, 0, j) # 0
  PROVE  DiskOK(e)
<1>1. Live(e) = Live(d)
  BY DEF Live
<1>2. Entries(e)
  <2>1. e.inode[0].live
    BY DiskParts, InumsAre DEF SameAttributes
  <2>2. ASSUME NEW k \in Inums, ~e.inode[k].live PROVE \A j \in Cells : Ptr(e, k, j) = 0
    <3>1. ~d.inode[k].live /\ k # i
      BY <2>2 DEF SameAttributes
    <3> QED BY <3>1, DiskParts DEF Entries
  <2>3. \A k \in Live(d) : d.inode[d.dents[k].num].live /\ d.dents[k].name \in Names
    BY DiskParts DEF Entries
  <2>4. \A k \in Live(d) : d.dents[k].num \in Inums
    BY DiskParts, LiveIs
  <2>5. \A k \in Live(e) : e.inode[e.dents[k].num].live /\ e.dents[k].name \in Names
    BY <1>1, <2>3, <2>4 DEF SameAttributes
  <2>6. \A j, k \in Live(e) :
          e.dents[j].num = e.dents[k].num \/ e.dents[j].name = e.dents[k].name => j = k
    BY <1>1, DiskParts DEF Entries
  <2> QED BY <2>1, <2>2, <2>5, <2>6 DEF Entries
<1>3. Sizes(e)
  <2>1. \A k \in Inums : e.inode[k].size = d.inode[k].size
    BY DEF SameAttributes
  <2>2. /\ \A k \in Inums \ {0} : e.inode[k].size <= Limit
        /\ e.inode[0].size = Len(e.dents) /\ Len(e.dents) <= MaxFile * DPB
    BY <2>1, DiskParts, InumsAre DEF Sizes
  <2>3. ASSUME NEW k \in 1 .. Len(e.dents) PROVE BlockAt(e, 0, (k - 1) \div DPB) # 0
    <3>1. k - 1 \in Nat
      <4>1. Len(e.dents) \in Nat
        BY DiskParts, LiveIs
      <4> QED BY <4>1
    <3>2. PICK bi \in Nat : bi = (k - 1) \div DPB
      BY <3>1, Positive, Division
    <3>3. BlockAt(d, 0, bi) # 0
      BY <3>2, DiskParts DEF Sizes
    <3>4. bi < MaxFile /\ Cell(bi) \in Cells /\ Ptr(d, 0, Cell(bi)) # 0
      BY <3>3, BlockAtIs
    <3>5. BlockAt(e, 0, bi) = Ptr(e, 0, Cell(bi))
      BY <3>4, BlockAtIs
    <3> QED BY <3>2, <3>4, <3>5
  <2> QED BY <2>2, <2>3 DEF Sizes
<1> QED BY <1>2, <1>3 DEF DiskOK

\* An allocation for a file or directory in use keeps the image in order.
LEMMA GrownOK ==
  ASSUME NEW d, DiskOK(d), NEW e, NEW i \in Inums, d.inode[i].live, Grown(d, e, i)
  PROVE  DiskOK(e)
<1>1. /\ e \in Disks /\ Owned(e) /\ e.dents = d.dents /\ SameAttributes(d, e)
      /\ \A k \in Inums : \A j \in Cells : k # i => Ptr(e, k, j) = Ptr(d, k, j)
      /\ \A k \in Inums : \A j \in Cells : Ptr(d, k, j) # 0 => Ptr(e, k, j) = Ptr(d, k, j)
  BY DEF Grown
<1>2. \A j \in Cells : Ptr(d, 0, j) # 0 => Ptr(e, 0, j) # 0
  BY <1>1, InumsAre
<1> QED BY <1>1, <1>2, BlocksOK

\* So does a write, however far it got.
LEMMA RunOK ==
  ASSUME NEW d, DiskOK(d), NEW e, NEW i \in Inums \ {0}, d.inode[i].live, NEW off, NEW data, NEW n,
         Run(d, e, i, off, data, n)
  PROVE  DiskOK(e)
<1>1. /\ e \in Disks /\ Owned(e) /\ e.dents = d.dents /\ SameAttributes(d, e)
      /\ \A k \in Inums : \A j \in Cells : k # i => Ptr(e, k, j) = Ptr(d, k, j)
  BY DEF Run
<1>2. \A j \in Cells : Ptr(d, 0, j) # 0 => Ptr(e, 0, j) # 0
  BY <1>1, InumsAre
<1> QED BY <1>1, <1>2, BlocksOK

\* Only the inode of file i has changed, and not its blocks.
Retouched(d, e, i, r) ==
  /\ r \in InodeRecords /\ r.live = d.inode[i].live /\ r.blocks = d.inode[i].blocks
  /\ e = [d EXCEPT !.inode = [@ EXCEPT ![i] = r]]

\* A new size or color of one inode leaves blocks, bytes and entries alone.
LEMMA RetouchedIs ==
  ASSUME NEW d, d \in Disks, NEW e, NEW i \in Inums, NEW r, Retouched(d, e, i, r)
  PROVE  /\ e \in Disks /\ e.bits = d.bits /\ e.dents = d.dents /\ e.bytes = d.bytes /\ e.ptrs = d.ptrs
         /\ e.inode[i] = r /\ \A k \in Inums : k # i => e.inode[k] = d.inode[k]
         /\ \A k \in Inums : e.inode[k].live = d.inode[k].live
         /\ \A k \in Inums : \A j \in Cells : Ptr(e, k, j) = Ptr(d, k, j)
         /\ \A k \in Inums : Tape(e, k) = Tape(d, k)
         /\ Free(e) = Free(d)
<1>1. r \in InodeRecords /\ r.live = d.inode[i].live /\ r.blocks = d.inode[i].blocks
  BY DEF Retouched
<1>2. PICK t \in [Inums -> InodeRecords] : t = [d.inode EXCEPT ![i] = r]
  BY <1>1 DEF Disks
<1>3. e = [d EXCEPT !.inode = t]
  BY <1>2 DEF Retouched
<1>4. /\ e \in Disks /\ e.bits = d.bits /\ e.dents = d.dents /\ e.bytes = d.bytes /\ e.ptrs = d.ptrs
      /\ e.inode = t
  BY <1>3 DEF Disks
<1>5. e.inode[i] = r /\ \A k \in Inums : k # i => e.inode[k] = d.inode[k]
  BY <1>2, <1>4 DEF Disks
<1>6. \A k \in Inums : e.inode[k].live = d.inode[k].live /\ e.inode[k].blocks = d.inode[k].blocks
  BY <1>1, <1>5
<1>7. \A k \in Inums : \A j \in Cells : Ptr(e, k, j) = Ptr(d, k, j)
  BY <1>4, <1>6 DEF Ptr
<1>8. \A k \in Inums : Tape(e, k) = Tape(d, k)
  BY <1>4, <1>7, TapeSame
<1>9. Free(e) = Free(d)
  BY <1>4, FreeIs
<1> QED BY <1>2, <1>4, <1>5, <1>6, <1>7, <1>8, <1>9

\* It keeps the image in order.
LEMMA RetouchedOK ==
  ASSUME NEW d, DiskOK(d), NEW e, NEW i \in Inums \ {0}, NEW r, Retouched(d, e, i, r), r.size <= Limit
  PROVE  DiskOK(e)
<1>1. d \in Disks /\ Owned(d) /\ Entries(d) /\ Sizes(d)
  BY DiskParts
<1>2. /\ e \in Disks /\ e.bits = d.bits /\ e.dents = d.dents /\ e.bytes = d.bytes /\ e.ptrs = d.ptrs
      /\ e.inode[i] = r /\ \A k \in Inums : k # i => e.inode[k] = d.inode[k]
      /\ \A k \in Inums : e.inode[k].live = d.inode[k].live
      /\ \A k \in Inums : \A j \in Cells : Ptr(e, k, j) = Ptr(d, k, j)
  <2>1. i \in Inums
    OBVIOUS
  <2>2. d \in Disks /\ Retouched(d, e, i, r)
    BY <1>1
  <2>3. e \in Disks /\ e.bits = d.bits /\ e.dents = d.dents /\ e.bytes = d.bytes /\ e.ptrs = d.ptrs
    BY <2>1, <2>2, RetouchedIs
  <2>4. e.inode[i] = r /\ \A k \in Inums : k # i => e.inode[k] = d.inode[k]
    BY <2>1, <2>2, RetouchedIs
  <2>5. \A k \in Inums : e.inode[k].live = d.inode[k].live
    BY <2>1, <2>2, RetouchedIs
  <2>6. \A k \in Inums : \A j \in Cells : Ptr(e, k, j) = Ptr(d, k, j)
    BY <2>1, <2>2, RetouchedIs, SMTT(30)
  <2> QED BY <2>3, <2>4, <2>5, <2>6
<1>3. Owned(e)
  BY <1>1, <1>2 DEF Owned
<1>4. Live(e) = Live(d)
  BY <1>2 DEF Live
<1>5. \A k \in Live(d) : d.dents[k].num \in Inums
  BY <1>1, LiveIs
<1>6. Entries(e)
  <2>1. e.inode[0].live /\ \A k \in Inums : ~e.inode[k].live => \A j \in Cells : Ptr(e, k, j) = 0
    BY <1>1, <1>2, InumsAre DEF Entries
  <2>2. \A k \in Live(e) : e.inode[e.dents[k].num].live /\ e.dents[k].name \in Names
    BY <1>1, <1>2, <1>4, <1>5 DEF Entries
  <2>3. \A j, k \in Live(e) :
          e.dents[j].num = e.dents[k].num \/ e.dents[j].name = e.dents[k].name => j = k
    BY <1>1, <1>2, <1>4 DEF Entries
  <2> QED BY <2>1, <2>2, <2>3 DEF Entries
<1>7. Sizes(e)
  <2>1. e.inode[0] = d.inode[0]
    BY <1>2, InumsAre
  <2>2. ASSUME NEW k \in 1 .. Len(e.dents) PROVE BlockAt(e, 0, (k - 1) \div DPB) # 0
    <3>1. BlockAt(e, 0, (k - 1) \div DPB) = BlockAt(d, 0, (k - 1) \div DPB)
      BY <1>2, <2>1 DEF BlockAt
    <3> QED BY <1>1, <1>2, <3>1 DEF Sizes
  <2>3. \A k \in Inums \ {0} : e.inode[k].size <= Limit
    BY <1>1, <1>2 DEF Sizes
  <2> QED BY <1>1, <1>2, <2>1, <2>2, <2>3 DEF Sizes
<1> QED BY <1>2, <1>3, <1>6, <1>7 DEF DiskOK

-----------------------------------------------------------------------------
(* A new file *)

\* e is d when inode i, named n, was entered at place p of the directory.
Added(d, e, i, n, p) ==
  /\ e \in Disks /\ e.bits = d.bits /\ e.bytes = d.bytes /\ e.ptrs = d.ptrs
  /\ e.inode[i] = NewInode
  /\ \A k \in Inums : k # i /\ k # 0 => e.inode[k] = d.inode[k]
  /\ e.inode[0].live /\ e.inode[0].color = d.inode[0].color
  /\ e.inode[0].blocks = d.inode[0].blocks /\ e.inode[0].size = Len(e.dents)
  /\ p \in 1 .. Len(e.dents) /\ p \notin Live(d) /\ e.dents[p].num = i /\ e.dents[p].name = n
  /\ \A k \in 1 .. Len(d.dents) : k \in 1 .. Len(e.dents)
  /\ \A k \in 1 .. Len(e.dents) : k # p => k \in 1 .. Len(d.dents) /\ e.dents[k] = d.dents[k]
  /\ \A k \in 1 .. Len(e.dents) : BlockAt(d, 0, (k - 1) \div DPB) # 0
  /\ Len(e.dents) <= MaxFile * DPB

\* What fillin_inode makes is an empty file without blocks.
LEMMA NewInodeIs ==
  /\ NewInode \in InodeRecords /\ NewInode.live /\ NewInode.size = 0 /\ NewInode.color = "none"
  /\ \A j \in 0..NDirect : NewInode.blocks[j] = 0
<1>1. PICK blocks \in [0..NDirect -> 0..NumBlocks] : blocks = [j \in 0..NDirect |-> 0]
  <2>1. 0 \in 0..NumBlocks
    BY BlocksCovered
  <2>2. [j \in 0..NDirect |-> 0] \in [0..NDirect -> 0..NumBlocks]
    BY <2>1
  <2> QED BY <2>2
<1>2. "none" \in Colors
  BY FileAssumption
<1>3. PICK y \in BOOLEAN : y /\ NewInode = [live |-> y, size |-> 0, color |-> "none", blocks |-> blocks]
  BY <1>1 DEF NewInode
<1> QED BY <1>1, <1>2, <1>3 DEF InodeRecords

\* An inode that is not in use has no cell of a disk in use, and a new one neither.
LEMMA AddedPtrs ==
  ASSUME NEW d, DiskOK(d), NEW e, NEW i \in Inums \ {0}, ~d.inode[i].live, NEW n, NEW p,
         Added(d, e, i, n, p), NEW k \in Inums, NEW j \in Cells
  PROVE  Ptr(e, k, j) = Ptr(d, k, j)
<1>1. /\ e.ptrs = d.ptrs /\ e.inode[i] = NewInode /\ e.inode[0].blocks = d.inode[0].blocks
      /\ \A h \in Inums : h # i /\ h # 0 => e.inode[h] = d.inode[h]
  BY DEF Added
<1>2. CASE k = i
  <2>1. Ptr(d, i, j) = 0
    BY DiskParts DEF Entries
  <2>2. e.inode[i].blocks[NDirect] = 0
    BY <1>1, NewInodeIs, Positive
  <2>3. j <= NDirect => e.inode[i].blocks[j] = 0
    <3>1. j <= NDirect => j \in 0..NDirect
      BY Positive DEF Cells
    <3> QED BY <1>1, <3>1, NewInodeIs
  <2> QED BY <1>2, <2>1, <2>2, <2>3 DEF Ptr
<1>3. CASE k # i
  <2>1. e.inode[k].blocks = d.inode[k].blocks
    BY <1>1, <1>3
  <2> QED BY <1>1, <2>1 DEF Ptr
<1> QED BY <1>2, <1>3

\* A new entry is the one live entry more.
LEMMA AddedLive ==
  ASSUME NEW d, DiskOK(d), NEW e, NEW i \in Inums \ {0}, NEW n, NEW p, Added(d, e, i, n, p)
  PROVE  Live(e) = Live(d) \cup {p}
<1>1. d \in Disks /\ e \in Disks
  BY DiskParts DEF Added
<1>2. /\ p \in 1 .. Len(e.dents) /\ p \notin Live(d) /\ e.dents[p].num = i
      /\ \A k \in 1 .. Len(d.dents) : k \in 1 .. Len(e.dents)
      /\ \A k \in 1 .. Len(e.dents) : k # p => k \in 1 .. Len(d.dents) /\ e.dents[k] = d.dents[k]
  BY DEF Added
<1>3. \A k \in Live(d) : k \in 1 .. Len(d.dents) /\ d.dents[k].num # 0
  BY <1>1, LiveIs
<1>4. \A k \in 1 .. Len(d.dents) : k \in Live(d) <=> d.dents[k].num # 0
  BY <1>1, LiveIs
<1>5. \A k \in 1 .. Len(e.dents) : k \in Live(e) <=> e.dents[k].num # 0
  BY <1>1, LiveIs
<1>6. Live(e) \subseteq 1 .. Len(e.dents)
  BY <1>1, LiveIs
<1> QED BY <1>2, <1>3, <1>4, <1>5, <1>6

\* A new inode with a new entry keeps the image in order, and all tapes.
LEMMA AddedOK ==
  ASSUME NEW d, DiskOK(d), NEW e, NEW i \in Inums \ {0}, ~d.inode[i].live,
         NEW n \in Names, Find(d, n) = 0, NEW p, Added(d, e, i, n, p)
  PROVE  DiskOK(e) /\ Free(e) = Free(d)
         /\ \A k \in Inums : Tape(e, k) = Tape(d, k)
<1>1. d \in Disks /\ Owned(d) /\ Entries(d) /\ Sizes(d)
  BY DiskParts
<1>2. /\ e \in Disks /\ e.bits = d.bits /\ e.bytes = d.bytes /\ e.ptrs = d.ptrs
      /\ e.inode[i] = NewInode
      /\ \A k \in Inums : k # i /\ k # 0 => e.inode[k] = d.inode[k]
      /\ e.inode[0].live /\ e.inode[0].size = Len(e.dents)
  BY DEF Added
<1>3. /\ p \in 1 .. Len(e.dents) /\ p \notin Live(d) /\ e.dents[p].num = i /\ e.dents[p].name = n
      /\ \A k \in 1 .. Len(d.dents) : k \in 1 .. Len(e.dents)
      /\ \A k \in 1 .. Len(e.dents) : k # p => k \in 1 .. Len(d.dents) /\ e.dents[k] = d.dents[k]
      /\ \A k \in 1 .. Len(e.dents) : BlockAt(d, 0, (k - 1) \div DPB) # 0
      /\ Len(e.dents) <= MaxFile * DPB
  BY DEF Added
<1>4. \A k \in Inums : \A j \in Cells : Ptr(e, k, j) = Ptr(d, k, j)
  BY AddedPtrs
<1>5. Owned(e)
  BY <1>1, <1>2, <1>4 DEF Owned
<1>6. \A k \in Live(d) : k \in 1 .. Len(d.dents) /\ d.dents[k].num \in Inums /\ d.dents[k].num # 0
  BY <1>1, LiveIs
<1>7. Live(e) = Live(d) \cup {p}
  BY AddedLive
<1>8. \A k \in Live(d) : k # p /\ e.dents[k] = d.dents[k]
  BY <1>3, <1>6
<1>9. \A k \in Live(d) : /\ d.inode[d.dents[k].num].live /\ d.dents[k].name \in Names
                         /\ d.dents[k].num # i /\ d.dents[k].name # n
  <2>1. SUFFICES ASSUME NEW k \in Live(d)
                 PROVE  /\ d.inode[d.dents[k].num].live /\ d.dents[k].name \in Names
                        /\ d.dents[k].num # i /\ d.dents[k].name # n
    OBVIOUS
  <2>2. d.inode[d.dents[k].num].live /\ d.dents[k].name \in Names
    BY <1>1 DEF Entries
  <2>3. d.dents[k].name = n => Find(d, n) = d.dents[k].num
    BY <1>1, FindIs
  <2> QED BY <1>6, <2>2, <2>3
<1>10. Entries(e)
  <2>1. \A k \in Inums : ~e.inode[k].live => \A j \in Cells : Ptr(e, k, j) = 0
    <3>1. ASSUME NEW k \in Inums, ~e.inode[k].live PROVE ~d.inode[k].live
      <4>1. k # i /\ k # 0
        BY <1>2, <3>1, NewInodeIs
      <4> QED BY <1>2, <3>1, <4>1
    <3> QED BY <1>1, <1>4, <3>1 DEF Entries
  <2>2. \A k \in Live(e) : e.inode[e.dents[k].num].live /\ e.dents[k].name \in Names
    <3>1. ASSUME NEW k \in Live(d) PROVE e.inode[e.dents[k].num].live /\ e.dents[k].name \in Names
      <4>1. PICK m \in Inums : m = d.dents[k].num /\ m # 0 /\ m # i /\ d.inode[m].live
        BY <1>6, <1>9
      <4>2. e.inode[m] = d.inode[m]
        BY <1>2, <4>1
      <4> QED BY <1>8, <1>9, <4>1, <4>2
    <3>2. e.inode[e.dents[p].num].live /\ e.dents[p].name \in Names
      BY <1>2, <1>3, NewInodeIs
    <3> QED BY <1>7, <3>1, <3>2
  <2>3. ASSUME NEW j \in Live(e), NEW k \in Live(e),
               e.dents[j].num = e.dents[k].num \/ e.dents[j].name = e.dents[k].name
        PROVE  j = k
    <3>1. CASE j # p /\ k # p
      <4>1. j \in Live(d) /\ k \in Live(d)
        BY <1>7, <3>1
      <4> QED BY <1>1, <1>8, <2>3, <4>1 DEF Entries
    <3>2. CASE j = p /\ k # p
      BY <1>3, <1>7, <1>8, <1>9, <2>3, <3>2
    <3>3. CASE j # p /\ k = p
      BY <1>3, <1>7, <1>8, <1>9, <2>3, <3>3
    <3> QED BY <3>1, <3>2, <3>3
  <2> QED BY <1>2, <2>1, <2>2, <2>3 DEF Entries
<1>11. Sizes(e)
  <2>1. \A k \in Inums \ {0} : e.inode[k].size <= Limit
    <3>1. e.inode[i].size <= Limit
      BY <1>2, NewInodeIs, LimitIs
    <3>2. \A k \in Inums \ {0} : k # i => e.inode[k].size <= Limit
      BY <1>1, <1>2 DEF Sizes
    <3> QED BY <3>1, <3>2
  <2>2. \A k \in 1 .. Len(e.dents) : BlockAt(e, 0, (k - 1) \div DPB) # 0
    <3>1. SUFFICES ASSUME NEW k \in 1 .. Len(e.dents) PROVE BlockAt(e, 0, (k - 1) \div DPB) # 0
      OBVIOUS
    <3>2. BlockAt(e, 0, (k - 1) \div DPB) = BlockAt(d, 0, (k - 1) \div DPB)
      <4>1. e.inode[0].blocks = d.inode[0].blocks /\ e.ptrs = d.ptrs
        BY DEF Added
      <4> QED BY <4>1 DEF BlockAt
    <3> QED BY <1>3, <3>2
  <2> QED BY <1>2, <1>3, <2>1, <2>2 DEF Sizes
<1>12. \A k \in Inums : Tape(e, k) = Tape(d, k)
  BY <1>2, <1>4, TapeSame
<1>13. Free(e) = Free(d)
  BY <1>2, FreeIs
<1> QED BY <1>2, <1>5, <1>7, <1>10, <1>11, <1>12, <1>13 DEF DiskOK

-----------------------------------------------------------------------------
(* A file removed *)

\* What unlink frees is what the inode holds: the blocks of its cells.
LEMMA HeldIs ==
  ASSUME NEW d, NEW i
  PROVE  /\ Held(d, i) = {Ptr(d, i, j) : j \in Cells} \ {0}
         /\ Released(d, i) = Held(d, i)
<1>1. PICK ind : ind = d.inode[i].blocks[NDirect]
  OBVIOUS
<1>2. Direct(d, i) = {Ptr(d, i, j) : j \in 0 .. NDirect - 1} \ {0}
  <2>1. \A j \in 0 .. NDirect - 1 : Ptr(d, i, j) = d.inode[i].blocks[j]
    BY Positive DEF Ptr
  <2> QED BY <2>1 DEF Direct
<1>3. Indirect(d, i) = {Ptr(d, i, NDirect)} \ {0}
  BY Positive DEF Indirect, Ptr
<1>4. Pointed(d, i) = {Ptr(d, i, j) : j \in NDirect + 1 .. NDirect + PPB} \ {0}
  <2>1. CASE ind = 0
    <3>1. Indirect(d, i) = {}
      BY <1>1, <2>1 DEF Indirect
    <3>2. \A j \in NDirect + 1 .. NDirect + PPB : Ptr(d, i, j) = 0
      BY <1>1, <2>1, Positive DEF Ptr
    <3> QED BY <3>1, <3>2 DEF Pointed
  <2>2. CASE ind # 0
    <3>1. Indirect(d, i) = {ind}
      BY <1>1, <2>2 DEF Indirect
    <3>2. \A j \in NDirect + 1 .. NDirect + PPB :
            Ptr(d, i, j) = d.ptrs[ind][j - NDirect - 1] /\ j - NDirect - 1 \in 0 .. PPB - 1
      BY <1>1, <2>2, Positive DEF Ptr
    <3>3. \A k \in 0 .. PPB - 1 : /\ NDirect + 1 + k \in NDirect + 1 .. NDirect + PPB
                                  /\ Ptr(d, i, NDirect + 1 + k) = d.ptrs[ind][k]
      <4>1. SUFFICES ASSUME NEW k \in 0 .. PPB - 1
                     PROVE  /\ NDirect + 1 + k \in NDirect + 1 .. NDirect + PPB
                            /\ Ptr(d, i, NDirect + 1 + k) = d.ptrs[ind][k]
        OBVIOUS
      <4>2. PICK j \in NDirect + 1 .. NDirect + PPB : j = NDirect + 1 + k
        BY Positive
      <4>3. j - NDirect - 1 = k
        BY <4>2, Positive
      <4> QED BY <3>2, <4>2, <4>3
    <3>4. Pointed(d, i) = {d.ptrs[ind][k] : k \in 0 .. PPB - 1} \ {0}
      <4>1. \A x : x \in Pointed(d, i) <=>
                    x # 0 /\ \E h \in Indirect(d, i) : \E k \in 0 .. PPB - 1 : x = d.ptrs[h][k]
        BY DEF Pointed
      <4>2. \A x : x \in Pointed(d, i) <=> x # 0 /\ \E k \in 0 .. PPB - 1 : x = d.ptrs[ind][k]
        BY <3>1, <4>1
      <4> QED BY <4>2
    <3>5. {d.ptrs[ind][k] : k \in 0 .. PPB - 1} = {Ptr(d, i, j) : j \in NDirect + 1 .. NDirect + PPB}
      BY <3>2, <3>3
    <3> QED BY <3>4, <3>5
  <2> QED BY <2>1, <2>2
<1>5. Cells = (0 .. NDirect - 1) \cup {NDirect} \cup (NDirect + 1 .. NDirect + PPB)
  BY Positive DEF Cells
<1>6. Held(d, i) = {Ptr(d, i, j) : j \in Cells} \ {0}
  BY <1>2, <1>3, <1>4, <1>5 DEF Held
<1> QED BY <1>6 DEF Held, Released

\* e is d without the entry at place p, its inode i and what that held.
Removed(d, e, i, p) ==
  /\ e \in Disks /\ e.bits = d.bits \ Held(d, i)
  /\ e.inode[i] = ZeroInode
  /\ \A k \in Inums : k # i => e.inode[k] = d.inode[k]
  /\ Len(e.dents) = Len(d.dents) /\ e.dents[p].num = 0
  /\ \A k \in 1 .. Len(d.dents) : k # p => e.dents[k] = d.dents[k]
  /\ \A b \in Blocks : b \notin Held(d, i) => e.bytes[b] = d.bytes[b] /\ e.ptrs[b] = d.ptrs[b]

\* What free_inode leaves is not in use and has no blocks.
LEMMA ZeroInodeIs ==
  /\ ZeroInode \in InodeRecords /\ ~ZeroInode.live /\ ZeroInode.size = 0
  /\ \A j \in 0..NDirect : ZeroInode.blocks[j] = 0
BY NewInodeIs DEF ZeroInode, InodeRecords

\* Nothing of another inode is freed.
LEMMA RemovedPtrs ==
  ASSUME NEW d, DiskOK(d), NEW e, NEW i \in Inums \ {0}, NEW p, Removed(d, e, i, p),
         NEW k \in Inums, NEW j \in Cells
  PROVE  /\ k = i => Ptr(e, k, j) = 0
         /\ k # i => Ptr(e, k, j) = Ptr(d, k, j)
         /\ k # i /\ Ptr(d, k, j) # 0 => Ptr(d, k, j) \in Blocks \ Held(d, i)
<1>1. /\ e.inode[i] = ZeroInode /\ \A h \in Inums : h # i => e.inode[h] = d.inode[h]
      /\ \A b \in Blocks : b \notin Held(d, i) => e.ptrs[b] = d.ptrs[b]
  BY DEF Removed
<1>2. k = i => Ptr(e, k, j) = 0
  <2>1. e.inode[i].blocks[NDirect] = 0
    BY <1>1, ZeroInodeIs, Positive
  <2>2. j <= NDirect => e.inode[i].blocks[j] = 0
    <3>1. j <= NDirect => j \in 0..NDirect
      BY Positive DEF Cells
    <3> QED BY <1>1, <3>1, ZeroInodeIs
  <2> QED BY <2>1, <2>2 DEF Ptr
<1>3. ASSUME NEW l \in Cells, k # i, Ptr(d, k, l) # 0 PROVE Ptr(d, k, l) \in Blocks \ Held(d, i)
  <2>1. Ptr(d, k, l) \in Blocks
    BY <1>3, DiskParts, PtrUsed
  <2>2. \A m \in Cells : Ptr(d, i, m) # Ptr(d, k, l)
    BY <1>3, DiskParts DEF Owned
  <2> QED BY <2>1, <2>2, HeldIs
<1>4. k # i => Ptr(e, k, j) = Ptr(d, k, j)
  <2>1. SUFFICES ASSUME k # i PROVE Ptr(e, k, j) = Ptr(d, k, j)
    OBVIOUS
  <2>2. e.inode[k].blocks = d.inode[k].blocks
    BY <1>1, <2>1
  <2>3. NDirect \in Cells /\ Ptr(d, k, NDirect) = d.inode[k].blocks[NDirect]
    BY Positive DEF Cells, Ptr
  <2>4. PICK ind : ind = d.inode[k].blocks[NDirect]
    OBVIOUS
  <2>5. ind # 0 => e.ptrs[ind] = d.ptrs[ind]
    BY <1>1, <1>3, <2>1, <2>3, <2>4
  <2> QED BY <2>2, <2>4, <2>5 DEF Ptr
<1> QED BY <1>2, <1>3, <1>4

\* An inode and its entry that are removed leave the image in order and give blocks back.
LEMMA RemovedOK ==
  ASSUME NEW d, DiskOK(d), NEW e, NEW i \in Inums \ {0}, NEW p \in Live(d), d.dents[p].num = i,
         Removed(d, e, i, p)
  PROVE  DiskOK(e) /\ Live(e) = Live(d) \ {p} /\ Free(d) \subseteq Free(e)
         /\ \A k \in Inums : k # i => Tape(e, k) = Tape(d, k)
<1>1. d \in Disks /\ Owned(d) /\ Entries(d) /\ Sizes(d)
  BY DiskParts
<1>2. /\ e \in Disks /\ e.bits = d.bits \ Held(d, i)
      /\ e.inode[i] = ZeroInode /\ \A k \in Inums : k # i => e.inode[k] = d.inode[k]
      /\ Len(e.dents) = Len(d.dents) /\ e.dents[p].num = 0
      /\ \A k \in 1 .. Len(d.dents) : k # p => e.dents[k] = d.dents[k]
      /\ \A b \in Blocks : b \notin Held(d, i) => e.bytes[b] = d.bytes[b]
  BY DEF Removed
<1>3. \A k \in Inums : \A j \in Cells :
        /\ k = i => Ptr(e, k, j) = 0
        /\ k # i => Ptr(e, k, j) = Ptr(d, k, j)
        /\ k # i /\ Ptr(d, k, j) # 0 => Ptr(d, k, j) \in Blocks \ Held(d, i)
  BY RemovedPtrs
<1>4. Owned(e)
  <2>1. ASSUME NEW k \in Inums, NEW h \in Inums, NEW j \in Cells, NEW l \in Cells,
               Ptr(e, k, j) # 0, Ptr(e, k, j) = Ptr(e, h, l)
        PROVE  k = h /\ j = l
    <3>1. k # i /\ h # i
      BY <1>3, <2>1
    <3>2. Ptr(d, k, j) # 0 /\ Ptr(d, k, j) = Ptr(d, h, l)
      BY <1>3, <2>1, <3>1
    <3> QED BY <1>1, <3>2 DEF Owned
  <2>2. ASSUME NEW b \in Blocks
        PROVE  b \in e.bits <=> \E k \in Inums : \E j \in Cells : Ptr(e, k, j) = b
    <3>1. b # 0
      BY DEF Blocks
    <3>2. ASSUME b \in e.bits PROVE \E k \in Inums : \E j \in Cells : Ptr(e, k, j) = b
      <4>1. b \in d.bits /\ b \notin Held(d, i)
        BY <1>2, <3>2
      <4>2. PICK k \in Inums, j \in Cells : Ptr(d, k, j) = b
        BY <1>1, <4>1 DEF Owned
      <4>3. k # i
        BY <3>1, <4>1, <4>2, HeldIs
      <4> QED BY <1>3, <4>2, <4>3
    <3>3. ASSUME NEW k \in Inums, NEW j \in Cells, Ptr(e, k, j) = b PROVE b \in e.bits
      <4>1. k # i /\ Ptr(d, k, j) = b
        BY <1>3, <3>1, <3>3
      <4>2. b \notin Held(d, i)
        BY <1>3, <3>1, <4>1
      <4>3. b \in d.bits
        BY <1>1, <4>1 DEF Owned
      <4> QED BY <1>2, <4>2, <4>3
    <3> QED BY <3>2, <3>3
  <2> QED BY <2>1, <2>2 DEF Owned
<1>5. /\ Live(d) \subseteq 1 .. Len(d.dents)
      /\ \A k \in 1 .. Len(d.dents) : k \in Live(d) <=> d.dents[k].num # 0
      /\ \A k \in Live(d) : d.dents[k].num \in Inums /\ d.dents[k].num # 0
  BY <1>1, LiveIs
<1>6. Live(e) = Live(d) \ {p}
  <2>1. /\ Live(e) \subseteq 1 .. Len(d.dents)
        /\ \A k \in 1 .. Len(d.dents) : k \in Live(e) <=> e.dents[k].num # 0
    BY <1>2, LiveIs
  <2> QED BY <1>2, <1>5, <2>1
<1>7. \A k \in Live(e) : k \in Live(d) /\ e.dents[k] = d.dents[k]
  BY <1>2, <1>5, <1>6
<1>8. \A k \in Live(e) : d.dents[k].num # i
  BY <1>1, <1>6 DEF Entries
<1>9. Entries(e)
  <2>1. e.inode[0].live
    BY <1>1, <1>2, InumsAre DEF Entries
  <2>2. ASSUME NEW k \in Inums, ~e.inode[k].live PROVE \A j \in Cells : Ptr(e, k, j) = 0
    <3>1. CASE k = i
      BY <1>3, <3>1
    <3>2. CASE k # i
      BY <1>1, <1>2, <1>3, <2>2, <3>2 DEF Entries
    <3> QED BY <3>1, <3>2
  <2>3. ASSUME NEW k \in Live(e) PROVE e.inode[e.dents[k].num].live /\ e.dents[k].name \in Names
    <3>1. k \in Live(d) /\ e.dents[k] = d.dents[k] /\ d.dents[k].num # i
      BY <1>7, <1>8
    <3>2. d.inode[d.dents[k].num].live /\ d.dents[k].name \in Names
      BY <1>1, <3>1 DEF Entries
    <3>3. e.inode[d.dents[k].num] = d.inode[d.dents[k].num]
      BY <1>2, <1>5, <3>1
    <3> QED BY <3>1, <3>2, <3>3
  <2>4. \A j, k \in Live(e) :
          e.dents[j].num = e.dents[k].num \/ e.dents[j].name = e.dents[k].name => j = k
    BY <1>1, <1>7 DEF Entries
  <2> QED BY <2>1, <2>2, <2>3, <2>4 DEF Entries
<1>10. Sizes(e)
  <2>1. \A k \in Inums \ {0} : e.inode[k].size <= Limit
    <3>1. e.inode[i].size <= Limit
      BY <1>2, ZeroInodeIs, LimitIs
    <3> QED BY <1>1, <1>2, <3>1 DEF Sizes
  <2>2. e.inode[0].size = Len(e.dents) /\ Len(e.dents) <= MaxFile * DPB
    BY <1>1, <1>2, InumsAre DEF Sizes
  <2>3. ASSUME NEW k \in 1 .. Len(e.dents) PROVE BlockAt(e, 0, (k - 1) \div DPB) # 0
    <3>1. k - 1 \in Nat
      <4>1. Len(e.dents) \in Nat
        BY <1>2, LiveIs
      <4> QED BY <4>1
    <3>2. PICK bi \in Nat : bi = (k - 1) \div DPB
      BY <3>1, Positive, Division
    <3>3. BlockAt(d, 0, bi) # 0
      BY <1>1, <1>2, <3>2 DEF Sizes
    <3>4. bi < MaxFile /\ Cell(bi) \in Cells /\ BlockAt(d, 0, bi) = Ptr(d, 0, Cell(bi))
      BY <3>3, BlockAtIs
    <3>5. BlockAt(e, 0, bi) = Ptr(e, 0, Cell(bi))
      BY <3>4, BlockAtIs
    <3>6. Ptr(e, 0, Cell(bi)) = Ptr(d, 0, Cell(bi))
      BY <1>3, <3>4, InumsAre
    <3> QED BY <3>2, <3>3, <3>4, <3>5, <3>6
  <2> QED BY <2>1, <2>2, <2>3 DEF Sizes
<1>11. \A k \in Inums : k # i => Tape(e, k) = Tape(d, k)
  <2>1. ASSUME NEW k \in Inums, k # i PROVE Tape(e, k) = Tape(d, k)
    <3>1. \A j \in Cells : /\ Ptr(e, k, j) = Ptr(d, k, j)
                           /\ Ptr(d, k, j) # 0 => e.bytes[Ptr(d, k, j)] = d.bytes[Ptr(d, k, j)]
      BY <1>2, <1>3, <2>1
    <3> QED BY <3>1, TapeSame
  <2> QED BY <2>1
<1>12. Free(d) \subseteq Free(e)
  BY <1>2, FreeIs
<1> QED BY <1>2, <1>4, <1>6, <1>9, <1>10, <1>11, <1>12 DEF DiskOK

-----------------------------------------------------------------------------
(* The handlers *)

\* An inode that is found is in use, and some entry's.
LEMMA FoundIs ==
  ASSUME NEW d, DiskOK(d), NEW n, NEW i, i = Find(d, n), i # 0
  PROVE  /\ i \in Inums \ {0} /\ i \in Files(d) /\ d.inode[i].live /\ n \in Names
         /\ \E k \in Live(d) : d.dents[k].name = n /\ d.dents[k].num = i
<1>1. PICK k \in Live(d) : d.dents[k].name = n /\ d.dents[k].num = i
  BY DiskParts, FindIs
<1>2. i \in Inums
  BY DiskParts, FindIs
<1>3. d.inode[i].live /\ n \in Names
  BY <1>1, DiskParts DEF Entries
<1> QED BY <1>1, <1>2, <1>3 DEF Files

\* A spare inode is not the root.
LEMMA SpareIs ==
  ASSUME NEW d, DiskOK(d), Spare(d) # {}, NEW i, i = Min(Spare(d))
  PROVE  i \in Inums \ {0} /\ ~d.inode[i].live
<1>1. Spare(d) \in SUBSET Nat
  BY InumsAre DEF Spare
<1>2. i \in Spare(d)
  BY <1>1, MinNat
<1> QED BY <1>2, DiskParts DEF Spare

\* An entry is made of a number and a name.
LEMMA DentryIs ==
  ASSUME NEW i \in Inums, NEW n \in Names
  PROVE  Dentry(i, n) \in DentRecords /\ Dentry(i, n).num = i /\ Dentry(i, n).name = n
BY DEF Dentry, DentRecords

\* mknod with a hole in the directory adds one inode and one entry.
LEMMA MknodInHoleAdds ==
  ASSUME IInv, NEW n \in Names, MknodInHole(n), NEW e, e = disk'
  PROVE  \E i \in Inums \ {0} : \E p :
           /\ ~disk.inode[i].live /\ Added(disk, e, i, n, p) /\ Find(disk, n) = 0
           /\ touched' = NewTimes(i)
<1>1. DiskOK(disk)
  BY DEF IInv
<1>2. PICK i \in Inums \ {0} : i = Min(Spare(disk)) /\ ~disk.inode[i].live
  BY <1>1, SpareIs DEF MknodInHole
<1>3. PICK h : h = Min(Holes(disk))
  OBVIOUS
<1>4. /\ disk.dents \in Seq(DentRecords) /\ Len(disk.dents) \in Nat
      /\ DOMAIN disk.dents = 1 .. Len(disk.dents)
  BY <1>1, DiskParts, LiveIs
<1>5. h \in 1 .. Len(disk.dents) /\ h \notin Live(disk)
  <2>1. Holes(disk) \in SUBSET Nat /\ Holes(disk) # {}
    BY <1>4 DEF Holes, MknodInHole
  <2>2. h \in Holes(disk)
    BY <1>3, <2>1, MinNat
  <2> QED BY <1>4, <2>2 DEF Holes
<1>6. PICK t \in [Inums -> InodeRecords] : t = [disk.inode EXCEPT ![i] = NewInode]
  BY <1>1, DiskParts, NewInodeIs
<1>7. PICK v \in DentRecords : v = Dentry(i, n) /\ v.num = i /\ v.name = n
  BY DentryIs
<1>8. PICK dents \in Seq(DentRecords) :
        /\ dents = [disk.dents EXCEPT ![h] = v] /\ Len(dents) = Len(disk.dents) /\ dents[h] = v
        /\ \A k \in 1 .. Len(disk.dents) : k # h => dents[k] = disk.dents[k]
  <2>1. PICK old \in Seq(DentRecords) : old = disk.dents
    BY <1>4
  <2>2. PICK new : new = [old EXCEPT ![h] = v]
    OBVIOUS
  <2>3. /\ new \in Seq(DentRecords) /\ Len(new) = Len(old) /\ new[h] = v
        /\ \A k \in 1 .. Len(old) : k # h => new[k] = old[k]
    BY <1>5, <2>1, <2>2
  <2> QED BY <2>1, <2>2, <2>3
<1>9. e = [disk EXCEPT !.inode = t, !.dents = dents]
  BY <1>2, <1>3, <1>6, <1>7, <1>8 DEF MknodInHole
<1>10. disk \in Disks
  BY <1>1, DiskParts
<1>11. /\ e \in Disks /\ e.inode = t /\ e.dents = dents /\ e.bits = disk.bits
       /\ e.bytes = disk.bytes /\ e.ptrs = disk.ptrs
  BY <1>9, <1>10 DEF Disks
<1>12. /\ e.inode[i] = NewInode
       /\ \A k \in Inums : k # i => e.inode[k] = disk.inode[k]
  BY <1>1, <1>6, <1>11, DiskParts
<1>13. e.inode[0] = disk.inode[0] /\ disk.inode[0].live /\ disk.inode[0].size = Len(e.dents)
       /\ Len(e.dents) <= MaxFile * DPB
       /\ \A k \in 1 .. Len(e.dents) : BlockAt(disk, 0, (k - 1) \div DPB) # 0
  BY <1>1, <1>8, <1>11, <1>12, DiskParts, InumsAre DEF Sizes
<1>14. Added(disk, e, i, n, h)
  BY <1>5, <1>7, <1>8, <1>11, <1>12, <1>13 DEF Added
<1> QED BY <1>2, <1>14 DEF MknodInHole

\* What is found depends on the entries.
LEMMA FindSame ==
  ASSUME NEW d, NEW e, e.dents = d.dents, NEW n
  PROVE  Find(e, n) = Find(d, n) /\ Live(e) = Live(d)
BY DEF Find, Live

\* data_offset for the next entry of the root takes at most two blocks, and fails only
\* when none is left or the directory is full.
LEMMA RootProvided ==
  ASSUME IInv, NEW bi, bi = Len(disk.dents) \div DPB, NEW d, d = Provide(disk, 0, bi)
  PROVE  /\ bi \in Nat /\ Grown(disk, d, 0) /\ DiskOK(d)
         /\ Cardinality(Free(d)) \in Cardinality(Free(disk)) - 2 .. Cardinality(Free(disk))
         /\ BlockAt(d, 0, bi) = 0 => Free(d) = {} \/ d = disk
<1>1. DiskOK(disk) /\ disk \in Disks /\ Owned(disk)
  BY DiskParts DEF IInv
<1>2. Len(disk.dents) \in Nat
  BY <1>1, LiveIs
<1>3. bi \in Nat
  BY <1>2, Positive, Division
<1>4. /\ Grown(disk, d, 0)
      /\ Cardinality(Free(d)) \in Cardinality(Free(disk)) - 2 .. Cardinality(Free(disk))
      /\ BlockAt(d, 0, bi) = 0 /\ bi < MaxFile => Free(d) = {}
      /\ ~ (bi < MaxFile) /\ Ptr(disk, 0, NDirect) # 0 => d = disk
  BY <1>1, <1>3, InumsAre, ProvideGrows
<1>5. DiskOK(d)
  BY <1>1, <1>4, InumsAre, DiskParts, GrownOK
<1>6. ASSUME ~ (bi < MaxFile) PROVE Ptr(disk, 0, NDirect) # 0
  <2>1. PICK len \in Nat : len = Len(disk.dents) /\ len <= MaxFile * DPB
    BY <1>1, <1>2, DiskParts DEF Sizes
  <2>2. ~ (len < MaxFile * DPB)
    BY <1>6, <2>1, LimitIs, Positive, QuotientBelow
  <2>3. PICK m \in Nat : MaxFile = m + 1 /\ NDirect <= m
    <3>1. MaxFile - 1 \in Nat /\ MaxFile = (MaxFile - 1) + 1 /\ NDirect <= MaxFile - 1
      BY Positive DEF MaxFile
    <3> QED BY <3>1
  <2>4. (m + 1) * DPB = m * DPB + DPB /\ m * DPB \in Nat
    BY Positive
  <2>5. PICK u \in Nat : u = m * DPB /\ MaxFile * DPB = u + DPB
    BY <2>3, <2>4
  <2>6. len - 1 \in Nat /\ ~ (len - 1 < m * DPB)
    BY <2>1, <2>2, <2>5, Positive
  <2>7. PICK q \in Nat : q = (len - 1) \div DPB
    BY <2>6, Positive, Division
  <2>8. ~ (q < m)
    BY <2>6, <2>7, Positive, QuotientBelow
  <2>9. ~ (q < NDirect)
    BY <2>3, <2>8, Positive
  <2>10. len \in 1 .. Len(disk.dents)
    BY <2>1, <2>6
  <2>11. BlockAt(disk, 0, q) # 0
    BY <1>1, <2>1, <2>7, <2>10, DiskParts DEF Sizes
  <2>12. disk.inode[0].blocks[NDirect] # 0
    BY <2>9, <2>11 DEF BlockAt
  <2> QED BY <2>12, Positive DEF Ptr
<1> QED BY <1>3, <1>4, <1>5, <1>6

\* What mknod without a hole stores, after data_offset.
LEMMA MknodAtEndIs ==
  ASSUME NEW n, MknodAtEnd(n), NEW d, d = Provide(disk, 0, Len(disk.dents) \div DPB),
         NEW i, i = Min(Spare(disk))
  PROVE  disk' = [d EXCEPT !.inode = [d.inode EXCEPT ![i] = NewInode, ![0] = Longer(@)],
                           !.dents = Append(@, Dentry(i, n))]
BY DEF MknodAtEnd

\* mknod without a hole adds one inode and one entry to the grown directory.
LEMMA MknodAtEndAdds ==
  ASSUME IInv, NEW n \in Names, MknodAtEnd(n), NEW e, e = disk',
         NEW d, d = Provide(disk, 0, Len(disk.dents) \div DPB)
  PROVE  \E i \in Inums \ {0} : \E p :
           /\ ~d.inode[i].live /\ Added(d, e, i, n, p) /\ Find(d, n) = 0
           /\ touched' = NewTimes(i) \cup {0} \X {"mtim", "ctim"}
<1>1. PICK bi \in Nat : bi = Len(disk.dents) \div DPB
  BY RootProvided
<1>2. Grown(disk, d, 0) /\ DiskOK(d) /\ DiskOK(disk)
  BY <1>1, RootProvided DEF IInv
<1>3. PICK i \in Inums \ {0} : i = Min(Spare(disk)) /\ ~disk.inode[i].live
  BY <1>2, SpareIs DEF MknodAtEnd
<1>4. ~d.inode[i].live /\ d.dents = disk.dents
  BY <1>2, <1>3 DEF Grown, SameAttributes
<1>5. Find(d, n) = 0
  BY <1>4, FindSame DEF MknodAtEnd
<1>6. /\ d \in Disks /\ d.dents \in Seq(DentRecords) /\ DOMAIN d.dents = 1 .. Len(d.dents)
      /\ Live(d) \subseteq 1 .. Len(d.dents)
      /\ d.inode \in [Inums -> InodeRecords] /\ d.inode[0].live
      /\ d.inode[0].size = Len(d.dents)
      /\ \A k \in 1 .. Len(d.dents) : BlockAt(d, 0, (k - 1) \div DPB) # 0
  BY <1>2, DiskParts, LiveIs DEF Sizes
<1>7. PICK len \in Nat : len = Len(d.dents)
  BY <1>6
<1>8. PICK root \in InodeRecords :
        /\ root = Longer(d.inode[0])
        /\ root.live /\ root.color = d.inode[0].color /\ root.blocks = d.inode[0].blocks
        /\ root.size = len + 1
  <2>1. PICK old \in InodeRecords : old = d.inode[0] /\ old.size = len /\ old.live
    BY <1>6, <1>7, InumsAre
  <2>2. PICK m \in Nat : m = len + 1
    OBVIOUS
  <2>3. PICK root : root = [old EXCEPT !.size = m]
    OBVIOUS
  <2>4. root \in InodeRecords /\ root.live /\ root.color = old.color /\ root.blocks = old.blocks /\ root.size = m
    BY <2>1, <2>3 DEF InodeRecords
  <2>5. root = Longer(d.inode[0])
    BY <2>1, <2>2, <2>3 DEF Longer
  <2> QED BY <2>1, <2>2, <2>4, <2>5
<1>9. PICK t \in [Inums -> InodeRecords] : t = [d.inode EXCEPT ![i] = NewInode, ![0] = root]
  BY <1>6, <1>8, NewInodeIs, InumsAre
<1>10. t[i] = NewInode /\ t[0] = root /\ \A k \in Inums : k # i /\ k # 0 => t[k] = d.inode[k]
  BY <1>6, <1>9, InumsAre
<1>11. PICK v \in DentRecords : v = Dentry(i, n) /\ v.num = i /\ v.name = n
  BY DentryIs
<1>12. PICK dents \in Seq(DentRecords) :
         /\ dents = Append(d.dents, v) /\ Len(dents) = len + 1 /\ dents[len + 1] = v
         /\ \A k \in 1 .. len : dents[k] = d.dents[k]
  <2>1. PICK old \in Seq(DentRecords) : old = d.dents /\ Len(old) = len
    BY <1>6, <1>7
  <2>2. PICK new : new = Append(old, v)
    OBVIOUS
  <2>3. /\ new \in Seq(DentRecords) /\ Len(new) = len + 1 /\ new[len + 1] = v
        /\ \A k \in 1 .. len : new[k] = old[k]
    BY <2>1, <2>2, AppendProperties
  <2> QED BY <2>1, <2>2, <2>3
<1>13. e = [d EXCEPT !.inode = t, !.dents = dents]
  <2>1. e = [d EXCEPT !.inode = [d.inode EXCEPT ![i] = NewInode, ![0] = Longer(@)],
                      !.dents = Append(@, Dentry(i, n))]
    BY <1>3, MknodAtEndIs
  <2>2. [d.inode EXCEPT ![i] = NewInode, ![0] = Longer(@)] = t
    BY <1>6, <1>8, <1>9, InumsAre
  <2>3. [d EXCEPT !.inode = [d.inode EXCEPT ![i] = NewInode, ![0] = Longer(@)],
                  !.dents = Append(@, Dentry(i, n))]
      = [d EXCEPT !.inode = t, !.dents = dents]
    BY <1>6, <1>11, <1>12, <2>2 DEF Disks
  <2> QED BY <2>1, <2>3
<1>14. /\ e \in Disks /\ e.inode = t /\ e.dents = dents /\ e.bits = d.bits
       /\ e.bytes = d.bytes /\ e.ptrs = d.ptrs
  BY <1>6, <1>13 DEF Disks
<1>15. BlockAt(d, 0, bi) # 0 /\ bi = len \div DPB
  BY <1>1, <1>4, <1>7 DEF MknodAtEnd
<1>16. len + 1 <= MaxFile * DPB
  <2>1. bi < MaxFile
    BY <1>15, BlockAtIs
  <2>2. len < MaxFile * DPB
    BY <1>15, <2>1, LimitIs, Positive, QuotientBelow
  <2>3. MaxFile * DPB \in Nat
    BY LimitIs, Positive
  <2> QED BY <2>2, <2>3
<1>17. \A k \in 1 .. len + 1 : BlockAt(d, 0, (k - 1) \div DPB) # 0
  <2>1. ASSUME NEW k \in 1 .. len + 1 PROVE BlockAt(d, 0, (k - 1) \div DPB) # 0
    <3>1. CASE k = len + 1
      <4>1. k - 1 = len
        BY <3>1
      <4> QED BY <1>15, <4>1
    <3>2. CASE k # len + 1
      <4>1. k \in 1 .. len
        BY <3>2
      <4> QED BY <1>6, <1>7, <4>1
    <3> QED BY <3>1, <3>2
  <2> QED BY <2>1
<1>18. Added(d, e, i, n, len + 1)
  <2>1. /\ len + 1 \in 1 .. Len(e.dents) /\ len + 1 \notin Live(d) /\ Len(e.dents) = len + 1
        /\ e.dents[len + 1].num = i /\ e.dents[len + 1].name = n
    <3>1. len + 1 \notin 1 .. len /\ len + 1 \in 1 .. len + 1
      OBVIOUS
    <3>2. len + 1 \notin Live(d)
      BY <1>6, <1>7, <3>1
    <3>3. Len(e.dents) = len + 1 /\ e.dents[len + 1] = v
      BY <1>12, <1>14
    <3> QED BY <1>11, <3>1, <3>2, <3>3, Zenon
  <2>2. /\ \A k \in 1 .. Len(d.dents) : k \in 1 .. Len(e.dents)
        /\ \A k \in 1 .. Len(e.dents) : k # len + 1 => k \in 1 .. Len(d.dents) /\ e.dents[k] = d.dents[k]
    BY <1>7, <1>12, <1>14
  <2>3. /\ e.inode[i] = NewInode /\ e.inode[0] = root
        /\ \A k \in Inums : k # i /\ k # 0 => e.inode[k] = d.inode[k]
    BY <1>10, <1>14
  <2> QED BY <1>8, <1>14, <1>16, <1>17, <2>1, <2>2, <2>3 DEF Added
<1> QED BY <1>3, <1>4, <1>5, <1>18 DEF MknodAtEnd

\* A refused mknod leaves a directory that may have grown by a block, the last one.
LEMMA MknodFailsIs ==
  ASSUME IInv, NEW n \in Names, MknodFails(n), NEW e, e = disk'
  PROVE  /\ DiskOK(e) /\ Grown(disk, e, 0) /\ Find(disk, n) = 0 /\ touched' = {}
         /\ Free(e) = {} \/ e = disk
<1>1. PICK bi \in Nat : bi = Len(disk.dents) \div DPB
  BY RootProvided
<1>2. e = Provide(disk, 0, bi) /\ BlockAt(e, 0, bi) = 0 /\ Find(disk, n) = 0 /\ touched' = {}
  BY <1>1 DEF MknodFails
<1>3. Grown(disk, e, 0)
  BY <1>1, <1>2, RootProvided
<1>4. DiskOK(e)
  BY <1>1, <1>2, RootProvided
<1>5. Free(e) = {} \/ e = disk
  BY <1>1, <1>2, RootProvided
<1> QED BY <1>2, <1>3, <1>4, <1>5

\* A run that went well leaves a longer file or one as long, and one that failed found
\* the image or the file full.
LEMMA WrittenIs ==
  ASSUME IInv, NEW i \in Files(disk), NEW off \in Nat, NEW data \in Data,
         NEW s, s = Written(i, off, data)
  PROVE  /\ s.disk \in Disks /\ DiskOK(s.disk)
         /\ ~s.failed => Run(disk, s.disk, i, off, data, Len(data)) /\ off + Len(data) <= Limit
         /\ s.failed => \E k \in 0 .. Len(data) - 1 :
                          /\ Run(disk, s.disk, i, off, data, k)
                          /\ Free(s.disk) = {} \/ Limit < off + Len(data)
<1>1. disk \in Disks /\ Owned(disk) /\ i \in Inums \ {0} /\ disk.inode[i].live /\ DiskOK(disk)
  BY DiskParts DEF IInv, Files
<1>2. PICK n \in Nat \ {0} : n = Len(data)
  BY DataAre
<1>3. data \in Seq(Bytes) /\ data \in Seq(Nat)
  BY DataAre, FileAssumption
<1>4. s \in Writing(i, off, data, n)
  BY <1>1, <1>2, <1>3, WriteLoop
<1>5. PICK m \in 0 .. n : m = s.n
  BY <1>2, <1>4, WritingParts
<1>6. s.disk \in Disks /\ Run(disk, s.disk, i, off, data, m)
  BY <1>4, <1>5, WritingParts
<1>7. DiskOK(s.disk)
  BY <1>1, <1>6, RunOK
<1>8. ~s.failed => m = n
  <2>1. ~s.failed => m = n \/ m >= n
    BY <1>2, <1>4, <1>5, WritingParts
  <2> QED BY <1>5, <2>1
<1>9. ~s.failed => off + n <= Limit
  BY <1>2, <1>4, <1>5, <1>8, WritingParts
<1>10. s.failed => m < n /\ (Free(s.disk) = {} \/ Limit < off + n)
  <2>1. s.failed => m < n /\ (Free(s.disk) = {} \/ Limit <= off + m)
    BY <1>2, <1>4, <1>5, WritingParts
  <2> QED BY <1>5, <2>1, LimitIs
<1>11. s.failed => m \in 0 .. n - 1
  BY <1>5, <1>10
<1> QED BY <1>2, <1>6, <1>7, <1>8, <1>9, <1>10, <1>11

\* A size that is replaced.
LEMMA SizedIs ==
  ASSUME NEW d \in Disks, NEW i \in Inums, NEW m \in Nat, NEW old, old = d.inode[i].size, NEW x,
         x = Max({old, m}), NEW e, e = [d EXCEPT !.inode[i].size = Max({@, m})]
  PROVE  \E r : /\ Retouched(d, e, i, r) /\ r.size = x /\ r.color = d.inode[i].color /\ x \in Nat
                /\ x = IF old >= m THEN old ELSE m
<1>1. PICK old1 \in InodeRecords : old1 = d.inode[i] /\ old1.size = old /\ old \in Nat
  BY DEF Disks, InodeRecords
<1>2. x = (IF old >= m THEN old ELSE m) /\ x \in Nat
  BY <1>1, MaxPair
<1>3. PICK r \in InodeRecords : r = [old1 EXCEPT !.size = x]
  BY <1>2 DEF InodeRecords
<1>4. r.size = x /\ r.color = old1.color /\ r.live = old1.live /\ r.blocks = old1.blocks
  BY <1>1, <1>3 DEF InodeRecords
<1>5. e = [d EXCEPT !.inode = [@ EXCEPT ![i] = r]]
  BY <1>1, <1>3 DEF Disks
<1>6. Retouched(d, e, i, r)
  BY <1>1, <1>4, <1>5 DEF Retouched
<1> QED BY <1>1, <1>2, <1>4, <1>6

\* A write stores all of its data in the file of its path and sets the size and two times.
LEMMA WriteDoes ==
  ASSUME IInv, NEW p \in Paths, NEW off \in Offs, NEW data \in Data, Write(p, off, data),
         NEW e, e = disk'
  PROVE  \E i \in Files(disk) : \E d : \E r :
           /\ i = Find(disk, Strip(p)) /\ Strip(p) \in Names
           /\ \E k \in Live(disk) : disk.dents[k].name = Strip(p) /\ disk.dents[k].num = i
           /\ DiskOK(d) /\ Run(disk, d, i, off, data, Len(data)) /\ Retouched(d, e, i, r)
           /\ r.size = Max({disk.inode[i].size, off + Len(data)}) /\ r.size <= Limit
           /\ r.color = disk.inode[i].color
           /\ touched' = {i} \X {"mtim", "ctim"}
<1>1. PICK i : i = Find(disk, Strip(p)) /\ i # 0
  BY DEF Write
<1>2. i \in Files(disk) /\ i \in Inums /\ i \in Inums \ {0} /\ Strip(p) \in Names
  BY <1>1, FoundIs DEF IInv
<1>3. \E k \in Live(disk) : disk.dents[k].name = Strip(p) /\ disk.dents[k].num = i
  BY <1>1, FoundIs DEF IInv
<1>4. off \in Nat /\ Len(data) \in Nat
  BY FileAssumption, DataAre
<1>5. PICK s : s = Written(i, off, data)
  OBVIOUS
<1>6. ~s.failed /\ e = [s.disk EXCEPT !.inode[i].size = Max({@, off + Len(data)})]
      /\ touched' = {i} \X {"mtim", "ctim"}
  BY <1>1, <1>5 DEF Write
<1>7. PICK d : d = s.disk
  OBVIOUS
<1>8. DiskOK(d) /\ d \in Disks
  BY <1>2, <1>4, <1>5, <1>7, WrittenIs
<1>9. Run(disk, d, i, off, data, Len(data)) /\ off + Len(data) <= Limit
  BY <1>2, <1>4, <1>5, <1>6, <1>7, WrittenIs
<1>10. /\ d.inode[i].size = disk.inode[i].size /\ d.inode[i].color = disk.inode[i].color
       /\ disk.inode[i].size \in Nat /\ disk.inode[i].size <= Limit
  <2>1. d.inode[i].size = disk.inode[i].size /\ d.inode[i].color = disk.inode[i].color
    BY <1>2, <1>9 DEF Run, SameAttributes
  <2>2. disk.inode[i].size \in Nat /\ disk.inode[i].size <= Limit
    BY <1>2, DiskParts DEF IInv, Sizes
  <2> QED BY <2>1, <2>2
<1>11. PICK old \in Nat : old = disk.inode[i].size /\ old <= Limit
  BY <1>10
<1>12. PICK m \in Nat : m = off + Len(data) /\ m <= Limit
  BY <1>4, <1>9
<1>13. PICK x : x = Max({old, m})
  OBVIOUS
<1>14. e = [d EXCEPT !.inode[i].size = Max({@, m})] /\ old = d.inode[i].size
  BY <1>6, <1>7, <1>10, <1>11, <1>12
<1>15. PICK r : /\ Retouched(d, e, i, r) /\ r.size = x /\ r.color = d.inode[i].color
                /\ x = IF old >= m THEN old ELSE m
  BY <1>2, <1>8, <1>13, <1>14, SizedIs
<1>16. r.size <= Limit
  BY <1>11, <1>12, <1>15
<1> QED BY <1>1, <1>2, <1>3, <1>6, <1>8, <1>9, <1>10, <1>11, <1>12, <1>13, <1>15, <1>16

\* A refused write has stored a beginning, and blocks or the file were at their limit.
LEMMA WriteFailsDoes ==
  ASSUME IInv, NEW p \in Paths, NEW off \in Offs, NEW data \in Data, WriteFails(p, off, data),
         NEW e, e = disk'
  PROVE  \E i \in Files(disk) : \E k \in 0 .. Len(data) - 1 :
           /\ i = Find(disk, Strip(p)) /\ Strip(p) \in Names
           /\ \E h \in Live(disk) : disk.dents[h].name = Strip(p) /\ disk.dents[h].num = i
           /\ DiskOK(e) /\ Run(disk, e, i, off, data, k)
           /\ Free(e) = {} \/ Limit < off + Len(data)
           /\ touched' = {}
<1>1. PICK i : i = Find(disk, Strip(p)) /\ i # 0
  BY DEF WriteFails
<1>2. i \in Files(disk) /\ Strip(p) \in Names
  BY <1>1, FoundIs DEF IInv
<1>3. \E h \in Live(disk) : disk.dents[h].name = Strip(p) /\ disk.dents[h].num = i
  BY <1>1, FoundIs DEF IInv
<1>4. off \in Nat
  BY FileAssumption
<1>5. PICK s : s = Written(i, off, data)
  OBVIOUS
<1>6. s.failed /\ e = s.disk /\ touched' = {}
  BY <1>1, <1>5 DEF WriteFails
<1>7. DiskOK(e)
  BY <1>2, <1>4, <1>5, <1>6, WrittenIs
<1>8. \E k \in 0 .. Len(data) - 1 :
        /\ Run(disk, e, i, off, data, k)
        /\ Free(e) = {} \/ Limit < off + Len(data)
  BY <1>2, <1>4, <1>5, <1>6, WrittenIs
<1> QED BY <1>1, <1>2, <1>3, <1>6, <1>7, <1>8

\* A cleared entry has the number zero.
LEMMA NoDentryIs ==
  NoDentry \in DentRecords /\ NoDentry.num = 0
BY InumsAre DEF NoDentry, DentRecords

\* A zeroed block is one, read either way.
LEMMA ZeroesAre ==
  ZeroBytes \in [0 .. BS - 1 -> Bytes] /\ ZeroPtrs \in [0 .. PPB - 1 -> 0..NumBlocks]
BY BytesAre, BlocksCovered DEF ZeroBytes, ZeroPtrs

\* unlink removes the file that the path names as it is.
LEMMA UnlinkDoes ==
  ASSUME IInv, NEW p \in Paths, Unlink(p), NEW e, e = disk'
  PROVE  \E i \in Files(disk) : \E k \in Live(disk) :
           /\ p \in Names /\ disk.dents[k].name = p /\ disk.dents[k].num = i
           /\ Removed(disk, e, i, k)
           /\ touched' = {0} \X {"mtim", "ctim"}
<1>1. PICK i : i = Find(disk, p) /\ i # 0
  BY DEF Unlink
<1>2. i \in Inums \ {0} /\ i \in Inums /\ i \in Files(disk) /\ p \in Names
  BY <1>1, FoundIs DEF IInv
<1>3. PICK k \in Live(disk) : disk.dents[k].name = p /\ disk.dents[k].num = i
  BY <1>1, FoundIs DEF IInv
<1>4. /\ disk \in Disks /\ disk.dents \in Seq(DentRecords) /\ Len(disk.dents) \in Nat
      /\ k \in 1 .. Len(disk.dents)
      /\ disk.inode \in [Inums -> InodeRecords] /\ disk.bytes \in [Blocks -> [0 .. BS - 1 -> Bytes]]
      /\ disk.ptrs \in [Blocks -> [0 .. PPB - 1 -> 0..NumBlocks]] /\ disk.bits \in SUBSET Blocks
  BY DiskParts, LiveIs DEF IInv, Disks
<1>5. k = Min({j \in Live(disk) : disk.dents[j].num = i})
  <2>1. {j \in Live(disk) : disk.dents[j].num = i} = {k}
    BY <1>3, DiskParts DEF IInv, Entries
  <2>2. k \in Nat
    BY <1>4
  <2>3. Min({k}) = k
    BY <2>2, MinNat
  <2> QED BY <2>1, <2>3
<1>6. PICK t \in [Inums -> InodeRecords] :
        /\ t = [disk.inode EXCEPT ![i] = ZeroInode] /\ t[i] = ZeroInode
        /\ \A h \in Inums : h # i => t[h] = disk.inode[h]
  <2>1. PICK z \in InodeRecords : z = ZeroInode
    BY ZeroInodeIs
  <2>2. PICK old \in [Inums -> InodeRecords] : old = disk.inode
    BY <1>4
  <2>3. PICK t : t = [old EXCEPT ![i] = z]
    OBVIOUS
  <2>4. /\ t \in [Inums -> InodeRecords] /\ t[i] = z
        /\ \A h \in Inums : h # i => t[h] = old[h]
    BY <1>2, <2>3
  <2> QED BY <2>1, <2>2, <2>3, <2>4
<1>7. PICK dents \in Seq(DentRecords) :
        /\ dents = [disk.dents EXCEPT ![k] = NoDentry]
        /\ Len(dents) = Len(disk.dents) /\ dents[k].num = 0
        /\ \A h \in 1 .. Len(disk.dents) : h # k => dents[h] = disk.dents[h]
  <2>1. PICK v \in DentRecords : v = NoDentry /\ v.num = 0
    BY NoDentryIs
  <2>2. PICK old \in Seq(DentRecords) : old = disk.dents
    BY <1>4
  <2>3. PICK dents : dents = [old EXCEPT ![k] = v]
    OBVIOUS
  <2>4. /\ dents \in Seq(DentRecords) /\ Len(dents) = Len(old) /\ dents[k] = v
        /\ \A h \in 1 .. Len(old) : h # k => dents[h] = old[h]
    BY <1>4, <2>1, <2>2, <2>3
  <2> QED BY <2>1, <2>2, <2>3, <2>4
<1>8. PICK bits \in SUBSET Blocks : bits = disk.bits \ Held(disk, i) /\ bits = disk.bits \ Released(disk, i)
  BY <1>4, HeldIs
<1>9. PICK bytes \in [Blocks -> [0 .. BS - 1 -> Bytes]] :
        /\ bytes = [b \in Blocks |-> IF b \in Released(disk, i) THEN ZeroBytes ELSE disk.bytes[b]]
        /\ \A b \in Blocks : b \notin Held(disk, i) => bytes[b] = disk.bytes[b]
  <2>1. PICK z \in [0 .. BS - 1 -> Bytes] : z = ZeroBytes
    BY ZeroesAre
  <2>2. PICK old \in [Blocks -> [0 .. BS - 1 -> Bytes]] : old = disk.bytes
    BY <1>4
  <2>3. PICK gone : gone = Released(disk, i) /\ gone = Held(disk, i)
    BY HeldIs
  <2>4. PICK bytes : bytes = [b \in Blocks |-> IF b \in gone THEN z ELSE old[b]]
    OBVIOUS
  <2>5. bytes \in [Blocks -> [0 .. BS - 1 -> Bytes]]
    BY <2>1, <2>2, <2>4
  <2> QED BY <2>1, <2>2, <2>3, <2>4, <2>5
<1>10. PICK ptrs \in [Blocks -> [0 .. PPB - 1 -> 0..NumBlocks]] :
        /\ ptrs = [b \in Blocks |-> IF b \in Released(disk, i) THEN ZeroPtrs ELSE disk.ptrs[b]]
        /\ \A b \in Blocks : b \notin Held(disk, i) => ptrs[b] = disk.ptrs[b]
  <2>1. PICK z \in [0 .. PPB - 1 -> 0..NumBlocks] : z = ZeroPtrs
    BY ZeroesAre
  <2>2. PICK old \in [Blocks -> [0 .. PPB - 1 -> 0..NumBlocks]] : old = disk.ptrs
    BY <1>4
  <2>3. PICK gone : gone = Released(disk, i) /\ gone = Held(disk, i)
    BY HeldIs
  <2>4. PICK ptrs : ptrs = [b \in Blocks |-> IF b \in gone THEN z ELSE old[b]]
    OBVIOUS
  <2>5. ptrs \in [Blocks -> [0 .. PPB - 1 -> 0..NumBlocks]]
    BY <2>1, <2>2, <2>4
  <2> QED BY <2>1, <2>2, <2>3, <2>4, <2>5
<1>11. e = [disk EXCEPT !.dents = dents, !.inode = t, !.bits = bits, !.bytes = bytes, !.ptrs = ptrs]
  <2>1. e = [disk EXCEPT
               !.dents[k] = NoDentry, !.inode[i] = ZeroInode, !.bits = @ \ Released(disk, i),
               !.bytes = [b \in Blocks |-> IF b \in Released(disk, i) THEN ZeroBytes ELSE @[b]],
               !.ptrs = [b \in Blocks |-> IF b \in Released(disk, i) THEN ZeroPtrs ELSE @[b]]]
    BY <1>1, <1>5 DEF Unlink
  <2>2. e = [disk EXCEPT
               !.dents = [disk.dents EXCEPT ![k] = NoDentry], !.inode = [disk.inode EXCEPT ![i] = ZeroInode],
               !.bits = disk.bits \ Released(disk, i),
               !.bytes = [b \in Blocks |-> IF b \in Released(disk, i) THEN ZeroBytes ELSE disk.bytes[b]],
               !.ptrs = [b \in Blocks |-> IF b \in Released(disk, i) THEN ZeroPtrs ELSE disk.ptrs[b]]]
    BY <1>4, <2>1 DEF Disks
  <2> QED BY <1>6, <1>7, <1>8, <1>9, <1>10, <2>2
<1>12. /\ e \in Disks /\ e.dents = dents /\ e.inode = t /\ e.bits = bits /\ e.bytes = bytes
       /\ e.ptrs = ptrs
  BY <1>4, <1>11 DEF Disks
<1>13. Removed(disk, e, i, k)
  BY <1>6, <1>7, <1>8, <1>9, <1>10, <1>12 DEF Removed
<1>14. touched' = {0} \X {"mtim", "ctim"}
  BY DEF Unlink
<1> QED BY <1>2, <1>3, <1>13, <1>14

\* A color that is replaced.
LEMMA ColoredIs ==
  ASSUME NEW d \in Disks, NEW i \in Inums, NEW c \in Colors, NEW e, e = [d EXCEPT !.inode[i].color = c]
  PROVE  \E r : Retouched(d, e, i, r) /\ r.size = d.inode[i].size /\ r.color = c
<1>1. PICK old \in InodeRecords : old = d.inode[i]
  BY DEF Disks
<1>2. PICK r \in InodeRecords : r = [old EXCEPT !.color = c]
  BY DEF InodeRecords
<1>3. r.size = old.size /\ r.color = c /\ r.live = old.live /\ r.blocks = old.blocks
  BY <1>1, <1>2 DEF InodeRecords
<1>4. e = [d EXCEPT !.inode = [@ EXCEPT ![i] = r]]
  BY <1>1, <1>2 DEF Disks
<1>5. Retouched(d, e, i, r)
  BY <1>1, <1>3, <1>4 DEF Retouched
<1> QED BY <1>1, <1>3, <1>5

\* A file found is given a color, or loses it.
LEMMA PaintDoes ==
  ASSUME IInv, NEW p \in Paths, NEW c \in Colors, NEW i, i = Find(disk, Strip(p)), i # 0,
         NEW e, e = [disk EXCEPT !.inode[i].color = c]
  PROVE  /\ i \in Files(disk) /\ Strip(p) \in Names
         /\ \E k \in Live(disk) : disk.dents[k].name = Strip(p) /\ disk.dents[k].num = i
         /\ DiskOK(e)
         /\ \E r : Retouched(disk, e, i, r) /\ r.size = disk.inode[i].size /\ r.color = c
<1>1. i \in Inums \ {0} /\ i \in Inums /\ i \in Files(disk) /\ Strip(p) \in Names
  BY FoundIs DEF IInv
<1>2. \E k \in Live(disk) : disk.dents[k].name = Strip(p) /\ disk.dents[k].num = i
  BY FoundIs DEF IInv
<1>3. DiskOK(disk) /\ disk \in Disks /\ disk.inode[i].size <= Limit
  BY <1>1, DiskParts DEF IInv, Sizes
<1>4. PICK r : Retouched(disk, e, i, r) /\ r.size = disk.inode[i].size /\ r.color = c
  BY <1>1, <1>3, ColoredIs
<1>5. DiskOK(e)
  BY <1>1, <1>3, <1>4, RetouchedOK
<1> QED BY <1>1, <1>2, <1>4, <1>5

\* setxattr gives the file of its path a color and a new ctim.
LEMMA SetxattrDoes ==
  ASSUME IInv, NEW p \in Paths, NEW c \in Colors, NEW flags, Setxattr(p, c, flags), NEW e, e = disk'
  PROVE  \E i \in Files(disk) :
           /\ \E k \in Live(disk) : disk.dents[k].name = Strip(p) /\ disk.dents[k].num = i
           /\ DiskOK(e) /\ Strip(p) \in Names
           /\ \E r : Retouched(disk, e, i, r) /\ r.size = disk.inode[i].size /\ r.color = c
           /\ touched' = {<<i, "ctim">>}
<1>1. PICK i : /\ i = Find(disk, Strip(p)) /\ i # 0 /\ e = [disk EXCEPT !.inode[i].color = c]
               /\ touched' = {<<i, "ctim">>}
  BY DEF Setxattr
<1>2. i \in Files(disk) /\ Strip(p) \in Names
  BY <1>1, PaintDoes
<1>3. \E k \in Live(disk) : disk.dents[k].name = Strip(p) /\ disk.dents[k].num = i
  BY <1>1, PaintDoes
<1>4. DiskOK(e)
  BY <1>1, PaintDoes
<1>5. \E r : Retouched(disk, e, i, r) /\ r.size = disk.inode[i].size /\ r.color = c
  BY <1>1, PaintDoes
<1> QED BY <1>1, <1>2, <1>3, <1>4, <1>5

\* removexattr takes the color away and sets ctim.
LEMMA RemovexattrDoes ==
  ASSUME IInv, NEW p \in Paths, Removexattr(p), NEW e, e = disk'
  PROVE  \E i \in Files(disk) :
           /\ \E k \in Live(disk) : disk.dents[k].name = Strip(p) /\ disk.dents[k].num = i
           /\ DiskOK(e) /\ Strip(p) \in Names
           /\ \E r : Retouched(disk, e, i, r) /\ r.size = disk.inode[i].size /\ r.color = "none"
           /\ touched' = {<<i, "ctim">>}
<1>1. PICK i : /\ i = Find(disk, Strip(p)) /\ i # 0 /\ e = [disk EXCEPT !.inode[i].color = "none"]
               /\ touched' = {<<i, "ctim">>}
  BY DEF Removexattr
<1>2. "none" \in Colors
  BY FileAssumption
<1>3. i \in Files(disk) /\ Strip(p) \in Names
  BY <1>1, <1>2, PaintDoes
<1>4. \E k \in Live(disk) : disk.dents[k].name = Strip(p) /\ disk.dents[k].num = i
  BY <1>1, <1>2, PaintDoes
<1>5. DiskOK(e)
  BY <1>1, <1>2, PaintDoes
<1>6. \E r : Retouched(disk, e, i, r) /\ r.size = disk.inode[i].size /\ r.color = "none"
  BY <1>1, <1>2, PaintDoes
<1> QED BY <1>1, <1>3, <1>4, <1>5, <1>6

\* read changes nothing but an access time.
LEMMA ReadDoes ==
  ASSUME IInv, NEW p \in Paths, NEW off \in Offs, NEW len \in Lens, Read(p, off, len)
  PROVE  /\ disk' = disk
         /\ \/ touched' = {}
            \/ \E i \in Files(disk) :
                 /\ \E k \in Live(disk) : disk.dents[k].name = Strip(p) /\ disk.dents[k].num = i
                 /\ Strip(p) \in Names
                 /\ touched' = {<<i, "atim">>}
<1>1. PICK i : i = Find(disk, Strip(p)) /\ i # 0
  BY DEF Read
<1>2. i \in Files(disk) /\ Strip(p) \in Names
  BY <1>1, FoundIs DEF IInv
<1>3. \E k \in Live(disk) : disk.dents[k].name = Strip(p) /\ disk.dents[k].num = i
  BY <1>1, FoundIs DEF IInv
<1>4. disk' = disk /\ (touched' = {} \/ touched' = {<<i, "atim">>})
  BY <1>1 DEF Read
<1> QED BY <1>2, <1>3, <1>4

-----------------------------------------------------------------------------
(* The invariant holds *)

\* The image that mkfs writes is in order.
LEMMA InitOK == Init => IInv
<1>1. SUFFICES ASSUME Init PROVE IInv
  OBVIOUS
<1>2. PICK t \in [Inums -> InodeRecords] :
        /\ t = [i \in Inums |-> IF i = 0 THEN NewInode ELSE ZeroInode]
        /\ t[0] = NewInode /\ \A i \in Inums : i # 0 => t[i] = ZeroInode
  <2>1. NewInode \in InodeRecords /\ ZeroInode \in InodeRecords
    BY NewInodeIs, ZeroInodeIs
  <2>2. PICK t : t = [i \in Inums |-> IF i = 0 THEN NewInode ELSE ZeroInode]
    OBVIOUS
  <2>3. t \in [Inums -> InodeRecords]
    BY <2>1, <2>2
  <2> QED BY <2>2, <2>3, InumsAre
<1>3. PICK bytes \in [Blocks -> [0 .. BS - 1 -> Bytes]] : bytes = [b \in Blocks |-> ZeroBytes]
  BY ZeroesAre
<1>4. PICK ptrs \in [Blocks -> [0 .. PPB - 1 -> 0..NumBlocks]] : ptrs = [b \in Blocks |-> ZeroPtrs]
  BY ZeroesAre
<1>5. PICK dents \in Seq(DentRecords) : dents = <<>>
  BY EmptySeq
<1>6. disk = [inode |-> t, bits |-> {}, dents |-> dents, bytes |-> bytes, ptrs |-> ptrs]
  BY <1>1, <1>2, <1>3, <1>4, <1>5 DEF Init
<1>7. /\ disk \in Disks /\ disk.inode = t /\ disk.bits = {} /\ disk.dents = <<>>
  BY <1>5, <1>6 DEF Disks
<1>8. Len(disk.dents) = 0 /\ Live(disk) = {}
  BY <1>7 DEF Live
<1>9. \A i \in Inums : \A j \in Cells : Ptr(disk, i, j) = 0
  <2>1. SUFFICES ASSUME NEW i \in Inums, NEW j \in Cells PROVE Ptr(disk, i, j) = 0
    OBVIOUS
  <2>2. \A l \in 0..NDirect : disk.inode[i].blocks[l] = 0
    BY <1>2, <1>7, NewInodeIs, ZeroInodeIs
  <2>3. NDirect \in 0..NDirect /\ (j <= NDirect => j \in 0..NDirect)
    BY Positive DEF Cells
  <2> QED BY <2>2, <2>3 DEF Ptr
<1>10. Owned(disk)
  <2>1. \A b \in Blocks : b # 0
    BY DEF Blocks
  <2> QED BY <1>7, <1>9, <2>1 DEF Owned
<1>11. Entries(disk)
  BY <1>2, <1>7, <1>8, <1>9, NewInodeIs DEF Entries
<1>12. Sizes(disk)
  <2>1. \A i \in Inums \ {0} : disk.inode[i].size = 0
    BY <1>2, <1>7, ZeroInodeIs
  <2>2. disk.inode[0].size = 0
    BY <1>2, <1>7, NewInodeIs
  <2>3. MaxFile * DPB \in Nat
    BY LimitIs, Positive
  <2> QED BY <1>8, <2>1, <2>2, <2>3, LimitIs DEF Sizes
<1>13. touched = {}
  BY <1>1 DEF Init
<1> QED BY <1>7, <1>10, <1>11, <1>12, <1>13 DEF IInv, DiskOK

\* The times a handler sets are times of inodes.
LEMMA TouchedOK ==
  ASSUME NEW i \in Inums
  PROVE  /\ NewTimes(i) \subseteq Inums \X {"atim", "mtim", "ctim"}
         /\ NewTimes(i) \cup {0} \X {"mtim", "ctim"} \subseteq Inums \X {"atim", "mtim", "ctim"}
         /\ {i} \X {"mtim", "ctim"} \subseteq Inums \X {"atim", "mtim", "ctim"}
         /\ {<<i, "ctim">>} \subseteq Inums \X {"atim", "mtim", "ctim"}
         /\ {<<i, "atim">>} \subseteq Inums \X {"atim", "mtim", "ctim"}
         /\ {} \subseteq Inums \X {"atim", "mtim", "ctim"}
BY InumsAre DEF NewTimes

\* Every handler keeps the image in order.
LEMMA NextOK == IInv /\ [Next]_vars => IInv'
<1>1. SUFFICES ASSUME IInv, [Next]_vars PROVE IInv'
  OBVIOUS
<1>2. PICK e : e = disk'
  OBVIOUS
<1>3. SUFFICES DiskOK(e) /\ touched' \subseteq Inums \X {"atim", "mtim", "ctim"}
  <2>1. DiskOK(disk)' <=> DiskOK(disk')
    BY DEF DiskOK, Disks, Owned, Entries, Sizes, Live, BlockAt, Ptr
  <2> QED BY <1>2, <2>1 DEF IInv
<1>4. DiskOK(disk) /\ disk \in Disks
  BY <1>1, DiskParts DEF IInv
<1>5. ASSUME NEW n \in Names, MknodInHole(n)
      PROVE  DiskOK(e) /\ touched' \subseteq Inums \X {"atim", "mtim", "ctim"}
  <2>1. PICK i, p :
          /\ i \in Inums \ {0} /\ i \in Inums
          /\ ~disk.inode[i].live /\ Added(disk, e, i, n, p) /\ Find(disk, n) = 0
          /\ touched' = NewTimes(i)
    BY <1>1, <1>2, <1>5, MknodInHoleAdds
  <2>2. DiskOK(e)
    BY <1>4, <2>1, AddedOK
  <2> QED BY <2>1, <2>2, TouchedOK
<1>6. ASSUME NEW n \in Names, MknodAtEnd(n)
      PROVE  DiskOK(e) /\ touched' \subseteq Inums \X {"atim", "mtim", "ctim"}
  <2>1. PICK d : d = Provide(disk, 0, Len(disk.dents) \div DPB)
    OBVIOUS
  <2>2. PICK i, p :
          /\ i \in Inums \ {0} /\ i \in Inums
          /\ ~d.inode[i].live /\ Added(d, e, i, n, p) /\ Find(d, n) = 0
          /\ touched' = NewTimes(i) \cup {0} \X {"mtim", "ctim"}
    BY <1>1, <1>2, <1>6, <2>1, MknodAtEndAdds
  <2>3. DiskOK(d)
    BY <1>1, <2>1, RootProvided
  <2>4. DiskOK(e)
    BY <2>2, <2>3, AddedOK
  <2> QED BY <2>2, <2>4, TouchedOK
<1>7. ASSUME NEW n \in Names, MknodFails(n)
      PROVE  DiskOK(e) /\ touched' \subseteq Inums \X {"atim", "mtim", "ctim"}
  BY <1>1, <1>2, <1>7, MknodFailsIs
<1>8. ASSUME NEW p \in Paths, Unlink(p)
      PROVE  DiskOK(e) /\ touched' \subseteq Inums \X {"atim", "mtim", "ctim"}
  <2>1. PICK i \in Files(disk), k \in Live(disk) :
          /\ disk.dents[k].num = i /\ Removed(disk, e, i, k) /\ touched' = {0} \X {"mtim", "ctim"}
    BY <1>1, <1>2, <1>8, UnlinkDoes
  <2>2. i \in Inums \ {0}
    BY DEF Files
  <2>3. DiskOK(e)
    BY <1>4, <2>1, <2>2, RemovedOK
  <2> QED BY <2>1, <2>3, TouchedOK, InumsAre
<1>9. ASSUME NEW p \in Paths, Removexattr(p)
      PROVE  DiskOK(e) /\ touched' \subseteq Inums \X {"atim", "mtim", "ctim"}
  <2>1. PICK i \in Files(disk) : DiskOK(e) /\ touched' = {<<i, "ctim">>}
    BY <1>1, <1>2, <1>9, RemovexattrDoes
  <2>2. i \in Inums
    BY DEF Files
  <2> QED BY <2>1, <2>2, TouchedOK
<1>10. ASSUME NEW p \in Paths, NEW off \in Offs, NEW len \in Lens, Read(p, off, len)
       PROVE  DiskOK(e) /\ touched' \subseteq Inums \X {"atim", "mtim", "ctim"}
  <2>1. disk' = disk
    BY <1>1, <1>10, ReadDoes
  <2>2. touched' = {} \/ \E i \in Files(disk) : touched' = {<<i, "atim">>}
    BY <1>1, <1>10, ReadDoes
  <2>3. touched' \subseteq Inums \X {"atim", "mtim", "ctim"}
    BY <2>2, TouchedOK DEF Files
  <2> QED BY <1>2, <1>4, <2>1, <2>3
<1>11. ASSUME NEW p \in Paths, NEW off \in Offs, NEW data \in Data, Write(p, off, data)
       PROVE  DiskOK(e) /\ touched' \subseteq Inums \X {"atim", "mtim", "ctim"}
  <2>1. PICK i, d, r :
          /\ i \in Files(disk) /\ DiskOK(d) /\ Retouched(d, e, i, r) /\ r.size <= Limit
          /\ touched' = {i} \X {"mtim", "ctim"}
    BY <1>1, <1>2, <1>11, WriteDoes
  <2>2. i \in Inums \ {0}
    BY <2>1 DEF Files
  <2>3. DiskOK(e)
    BY <2>1, <2>2, RetouchedOK
  <2> QED BY <2>1, <2>2, <2>3, TouchedOK
<1>12. ASSUME NEW p \in Paths, NEW off \in Offs, NEW data \in Data, WriteFails(p, off, data)
       PROVE  DiskOK(e) /\ touched' \subseteq Inums \X {"atim", "mtim", "ctim"}
  BY <1>1, <1>2, <1>12, WriteFailsDoes
<1>13. ASSUME NEW p \in Paths, NEW c \in Colors, NEW flags \in 0..2, Setxattr(p, c, flags)
       PROVE  DiskOK(e) /\ touched' \subseteq Inums \X {"atim", "mtim", "ctim"}
  <2>1. PICK i \in Files(disk) : DiskOK(e) /\ touched' = {<<i, "ctim">>}
    BY <1>1, <1>2, <1>13, SetxattrDoes
  <2>2. i \in Inums
    BY DEF Files
  <2> QED BY <2>1, <2>2, TouchedOK
<1>14. CASE Readdir
  <2>1. e = disk /\ touched' = {<<0, "atim">>}
    BY <1>2, <1>14 DEF Readdir
  <2> QED BY <1>4, <2>1, TouchedOK, InumsAre
<1>15. CASE Look
  BY <1>2, <1>4, <1>15 DEF Look
<1>16. CASE UNCHANGED vars
  BY <1>1, <1>2, <1>4, <1>16 DEF vars, IInv
<1> QED
  BY <1>1, <1>5, <1>6, <1>7, <1>8, <1>9, <1>10, <1>11, <1>12, <1>13, <1>14, <1>15, <1>16 DEF Next

\* The invariant, of which the others are consequences.
THEOREM InvariantHolds == Spec => []IInv
<1>1. Init => IInv
  BY InitOK
<1>2. IInv /\ [Next]_vars => IInv'
  BY NextOK
<1> QED BY <1>1, <1>2, PTL DEF Spec

\* Sizes and pointers stay what an inode and mkfs provide for: no call grows a file past
\* its last block or stores a pointer that no allocation gave it.
THEOREM TypeCorrect == Spec => []TypeOK
<1>1. IInv => TypeOK
  <2>1. SUFFICES ASSUME IInv PROVE TypeOK
    OBVIOUS
  <2>2. disk \in Disks /\ Sizes(disk) /\ Entries(disk) /\ disk.bits \in SUBSET Blocks
    BY <2>1, DiskParts DEF IInv, Disks
  <2>3. ASSUME NEW i \in Inums
        PROVE  /\ disk.inode[i].size \in 0 .. MaxFile * (IF i = 0 THEN DPB ELSE BS)
               /\ disk.inode[i].color \in Colors
               /\ disk.inode[i].blocks \in [0..NDirect -> 0..NumBlocks]
    <3>1. /\ disk.inode[i].size \in Nat /\ disk.inode[i].color \in Colors
          /\ disk.inode[i].blocks \in [0..NDirect -> 0..NumBlocks]
      BY <2>1, DiskParts DEF IInv
    <3>2. CASE i = 0
      <4>1. disk.inode[i].size <= MaxFile * DPB /\ MaxFile * DPB \in Nat
        BY <2>2, <3>2, LimitIs, Positive DEF Sizes
      <4> QED BY <3>1, <3>2, <4>1
    <3>3. CASE i # 0
      <4>1. disk.inode[i].size <= MaxFile * BS /\ MaxFile * BS \in Nat
        BY <2>2, <3>3, LimitIs DEF Sizes
      <4> QED BY <3>1, <3>3, <4>1
    <3> QED BY <3>2, <3>3
  <2>4. /\ disk.bytes \in [Blocks -> [0 .. BS - 1 -> Bytes]]
        /\ disk.ptrs \in [Blocks -> [0 .. PPB - 1 -> 0..NumBlocks]]
    BY <2>2 DEF Disks
  <2>5. \A k \in DOMAIN disk.dents : disk.dents[k].num \in Files(disk) \cup {0}
    <3>1. ASSUME NEW k \in DOMAIN disk.dents, disk.dents[k].num # 0
          PROVE  disk.dents[k].num \in Files(disk)
      <4>1. k \in Live(disk)
        BY <3>1 DEF Live
      <4>2. disk.dents[k].num \in Inums
        BY <2>2, LiveIs
      <4> QED BY <2>2, <3>1, <4>1, <4>2 DEF Entries, Files
    <3> QED BY <3>1
  <2> QED BY <2>1, <2>2, <2>3, <2>4, <2>5 DEF TypeOK, IInv
<1> QED BY <1>1, InvariantHolds, PTL

\* A name ls was given is the name of the file it stands for: the cleaner undoes the
\* color of every file, however its name ends.
THEOREM ListingsResolve == Spec => []ListedResolve
<1>1. IInv => ListedResolve
  <2>1. SUFFICES ASSUME IInv, NEW k \in Live(disk), NEW ls \in BOOLEAN
                 PROVE  Find(disk, Strip(Listed(k, ls))) = disk.dents[k].num
    BY DEF ListedResolve
  <2>2. disk \in Disks /\ Entries(disk) /\ disk.dents[k].num \in Inums /\ disk.dents[k].name \in Names
    BY <2>1, DiskParts, LiveIs DEF IInv, Entries
  <2>3. disk.inode[disk.dents[k].num].color \in Colors
    BY <2>1, <2>2, DiskParts DEF IInv
  <2>4. Strip(Listed(k, ls)) = disk.dents[k].name
    BY <2>2, <2>3, StripDecorated DEF Listed
  <2> QED BY <2>2, <2>4, FindIs
<1> QED BY <1>1, InvariantHolds, PTL

\* A read returns the bytes of its file, for any offset and length, from whatever blocks
\* they are in, up to the end of the file or a hole.
THEOREM ReadsAreTrue == Spec => []ReadsTheFile
<1>1. IInv => ReadsTheFile
  <2>1. SUFFICES ASSUME IInv, NEW i \in Files(disk), NEW off \in Offs, NEW len \in Lens,
                        NEW got, got = ReadBytes(i, off, len), NEW want,
                        want = {p \in 0 .. Limit - 1 : p >= off /\ p < off + len /\ p < disk.inode[i].size}
                 PROVE  Tells(i, off, got, want)
    BY DEF ReadsTheFile, Tells
  <2>2. off \in Nat /\ len \in Nat
    BY FileAssumption
  <2> QED BY <2>1, <2>2, ReadIs
<1> QED BY <1>1, InvariantHolds, PTL

\* The bits of the bitmap are those of the blocks inodes hold, so what statfs counts as
\* free is what no file has.
THEOREM StatfsIsTrue == Spec => []StatfsTrue
<1>1. IInv => StatfsTrue
  <2>1. SUFFICES ASSUME IInv PROVE StatfsTrue
    OBVIOUS
  <2>2. disk \in Disks /\ Owned(disk) /\ Entries(disk) /\ disk.bits \in SUBSET Blocks
    BY <2>1, DiskParts DEF IInv, Disks
  <2>3. PICK held : held = UNION {Held(disk, i) : i \in Files(disk) \cup {0}}
    OBVIOUS
  <2>4. \A b : b \in held <=> \E i \in Files(disk) \cup {0} : b \in Held(disk, i)
    BY <2>3
  <2>5. Files(disk) \cup {0} = {i \in Inums : disk.inode[i].live}
    BY <2>2, InumsAre DEF Files, Entries
  <2>6. \A b : b \in held => b \in disk.bits
    <3>1. ASSUME NEW i \in Inums, NEW b \in Held(disk, i) PROVE b \in disk.bits
      <4>1. PICK j \in Cells : b = Ptr(disk, i, j) /\ b # 0
        BY <3>1, HeldIs
      <4> QED BY <2>2, <4>1, PtrUsed
    <3> QED BY <2>4, <2>5, <3>1
  <2>7. ASSUME NEW b \in disk.bits PROVE b \in held
    <3>1. PICK i \in Inums, j \in Cells : Ptr(disk, i, j) = b
      BY <2>2, <2>7 DEF Owned
    <3>2. b # 0
      BY <2>2, <2>7 DEF Blocks
    <3>3. disk.inode[i].live
      BY <2>2, <3>1, <3>2 DEF Entries
    <3>4. b \in Held(disk, i)
      BY <3>1, <3>2, HeldIs
    <3> QED BY <2>4, <2>5, <3>3, <3>4
  <2>8. held = disk.bits
    BY <2>6, <2>7
  <2>9. IsFiniteSet(Blocks) /\ Cardinality(Blocks) = NumBlocks
    BY BlocksCovered, FS_Interval DEF Blocks
  <2>10. held \subseteq Blocks /\ Blocks \cap held = held
    BY <2>2, <2>8
  <2>11. Cardinality(Blocks \ held) = NumBlocks - Cardinality(held)
    BY <2>9, <2>10, FS_Difference, ZenonT(40)
  <2> QED BY <2>3, <2>8, <2>11, FreeIs DEF StatfsTrue, Bfree
<1> QED BY <1>1, InvariantHolds, PTL

-----------------------------------------------------------------------------
(* The directory as FileStore has it *)

FileOf(d, i) == [tape |-> Tape(d, i), size |-> d.inode[i].size, color |-> d.inode[i].color]
FileRecords == [tape : [0 .. Limit - 1 -> Bytes \cup {Hole}], size : Nat, color : Colors]
Named(d) == {d.dents[k].name : k \in Live(d)}

\* A file is a tape, a size and a color.
LEMMA FileIs ==
  ASSUME NEW d \in Disks, NEW i \in Inums
  PROVE  FileOf(d, i) \in FileRecords
<1>1. PICK t : t = Tape(d, i)
  OBVIOUS
<1>2. ASSUME NEW p \in 0 .. Limit - 1 PROVE t[p] \in Bytes \cup {Hole}
  <2>1. PICK c \in Cells :
          t[p] = (IF Ptr(d, i, c) = 0 THEN Hole ELSE d.bytes[Ptr(d, i, c)][p % BS])
    BY <1>1, TapeAt
  <2>2. p % BS \in 0 .. BS - 1
    BY TapeAt
  <2>3. d.bytes \in [Blocks -> [0 .. BS - 1 -> Bytes]]
    BY DEF Disks
  <2>4. CASE Ptr(d, i, c) = 0
    BY <2>1, <2>4
  <2>5. CASE Ptr(d, i, c) # 0
    <3>1. Ptr(d, i, c) \in Blocks
      BY <2>5, PtrType
    <3>2. d.bytes[Ptr(d, i, c)] \in [0 .. BS - 1 -> Bytes]
      BY <2>3, <3>1
    <3> QED BY <2>1, <2>2, <2>5, <3>2
  <2> QED BY <2>4, <2>5
<1>3. t = [p \in 0 .. Limit - 1 |-> t[p]]
  BY <1>1 DEF Tape
<1>4. t \in [0 .. Limit - 1 -> Bytes \cup {Hole}]
  BY <1>2, <1>3
<1>5. d.inode[i].size \in Nat /\ d.inode[i].color \in Colors
  BY DEF Disks, InodeRecords
<1> QED BY <1>1, <1>4, <1>5 DEF FileOf, FileRecords

\* Each entry's name has the contents of its inode.
LEMMA ContentsIs ==
  ASSUME NEW d, DiskOK(d)
  PROVE  /\ Contents(d) \in [Named(d) -> FileRecords] /\ DOMAIN Contents(d) = Named(d)
         /\ \A k \in Live(d) : /\ d.dents[k].name \in Named(d)
                               /\ Contents(d)[d.dents[k].name] = FileOf(d, d.dents[k].num)
<1>1. Contents(d) = [n \in Named(d) |-> FileOf(d, Find(d, n))]
  BY DEF Contents, FileOf, Named
<1>2. \A n \in Named(d) : FileOf(d, Find(d, n)) \in FileRecords
  BY DiskParts, FindIs, FileIs
<1>3. ASSUME NEW k \in Live(d)
      PROVE  /\ d.dents[k].name \in Named(d)
             /\ Contents(d)[d.dents[k].name] = FileOf(d, d.dents[k].num)
  <2>1. d.dents[k].name \in Named(d)
    BY DEF Named
  <2>2. Find(d, d.dents[k].name) = d.dents[k].num
    BY DiskParts, FindIs
  <2> QED BY <1>1, <2>1, <2>2
<1> QED BY <1>1, <1>2, <1>3

\* The contents are what each live entry says of its file.
LEMMA ContentsEqual ==
  ASSUME NEW e, DiskOK(e), NEW F, DOMAIN F = Named(e), F = [m \in DOMAIN F |-> F[m]],
         \A k \in Live(e) : FileOf(e, e.dents[k].num) = F[e.dents[k].name]
  PROVE  Contents(e) = F
<1>1. PICK G : G = Contents(e)
  OBVIOUS
<1>2. DOMAIN G = Named(e) /\ G = [m \in DOMAIN G |-> G[m]]
  BY <1>1, ContentsIs
<1>3. ASSUME NEW m \in Named(e) PROVE G[m] = F[m]
  <2>1. PICK k \in Live(e) : m = e.dents[k].name
    BY DEF Named
  <2>2. G[m] = FileOf(e, e.dents[k].num)
    BY <1>1, <2>1, ContentsIs
  <2> QED BY <2>1, <2>2
<1> QED BY <1>1, <1>2, <1>3

\* An entry is named by what is in use, and not the root.
LEMMA EntryIs ==
  ASSUME NEW d, DiskOK(d), NEW k \in Live(d)
  PROVE  /\ d.dents[k].num \in Inums \ {0} /\ d.dents[k].num \in Inums /\ d.inode[d.dents[k].num].live
         /\ k \in 1 .. Len(d.dents) /\ d.dents[k].name \in Names
BY DiskParts, LiveIs DEF Entries

\* A directory with a new file.
WithNew(F, n) == [m \in DOMAIN F \cup {n} |-> IF m = n THEN Store!NewFile ELSE F[m]]

\* A new inode with a new entry is a new, empty file and nothing else.
LEMMA AddedContents ==
  ASSUME NEW d, DiskOK(d), NEW e, NEW i \in Inums \ {0}, ~d.inode[i].live,
         NEW n \in Names, Find(d, n) = 0, NEW p, Added(d, e, i, n, p)
  PROVE  /\ n \notin DOMAIN Contents(d)
         /\ Contents(e) = WithNew(Contents(d), n)
         /\ NameOf(e, i) = n
<1>1. DiskOK(e)
  BY AddedOK
<1>2. Live(e) = Live(d) \cup {p}
  BY AddedLive
<1>3. \A k \in Inums : Tape(e, k) = Tape(d, k)
  BY AddedOK
<1>4. /\ e.inode[i] = NewInode /\ \A k \in Inums : k # i /\ k # 0 => e.inode[k] = d.inode[k]
      /\ p \notin Live(d) /\ e.dents[p].num = i /\ e.dents[p].name = n
      /\ \A k \in 1 .. Len(d.dents) : k # p => e.dents[k] = d.dents[k]
  BY DEF Added
<1>5. \A k \in Live(d) : e.dents[k] = d.dents[k]
  BY <1>4, EntryIs
<1>6. n \notin Named(d)
  <2>1. ASSUME NEW k \in Live(d) PROVE d.dents[k].name # n
    BY DiskParts, EntryIs, FindIs
  <2> QED BY <2>1 DEF Named
<1>7. Named(e) = Named(d) \cup {n}
  BY <1>2, <1>4, <1>5 DEF Named
<1>8. FileOf(e, i) = Store!NewFile
  <2>1. Tape(d, i) = [q \in 0 .. Limit - 1 |-> Hole]
    <3>1. \A j \in Cells : Ptr(d, i, j) = 0
      BY DiskParts DEF Entries
    <3>2. PICK t : t = Tape(d, i)
      OBVIOUS
    <3>3. \A q \in 0 .. Limit - 1 : t[q] = Hole
      BY <3>1, <3>2, TapeAt
    <3>4. t = [q \in 0 .. Limit - 1 |-> t[q]]
      BY <3>2 DEF Tape
    <3> QED BY <3>2, <3>3, <3>4
  <2>2. Tape(e, i) = [q \in 0 .. Limit - 1 |-> Hole]
    BY <1>3, <2>1
  <2> QED BY <1>4, <2>2, NewInodeIs DEF FileOf, Store!NewFile, Store!Positions
<1>9. PICK F : F = [m \in Named(d) \cup {n} |-> IF m = n THEN Store!NewFile ELSE Contents(d)[m]]
  OBVIOUS
<1>10. ASSUME NEW k \in Live(e) PROVE FileOf(e, e.dents[k].num) = F[e.dents[k].name]
  <2>1. CASE k = p
    BY <1>4, <1>8, <1>9, <2>1
  <2>2. CASE k # p
    <3>1. k \in Live(d) /\ e.dents[k] = d.dents[k]
      BY <1>2, <1>5, <2>2
    <3>2. PICK num \in Inums \ {0} : num = d.dents[k].num /\ d.inode[num].live
      BY <3>1, EntryIs
    <3>3. d.dents[k].name \in Named(d) /\ d.dents[k].name # n
      BY <1>6, <3>1 DEF Named
    <3>4. F[d.dents[k].name] = FileOf(d, num)
      BY <1>9, <3>1, <3>2, <3>3, ContentsIs
    <3>5. e.inode[num] = d.inode[num] /\ Tape(e, num) = Tape(d, num)
      BY <1>3, <1>4, <3>2
    <3>6. FileOf(e, num) = FileOf(d, num)
      BY <3>5 DEF FileOf
    <3> QED BY <3>1, <3>2, <3>4, <3>6
  <2> QED BY <2>1, <2>2
<1>11. DOMAIN F = Named(e) /\ F = [m \in DOMAIN F |-> F[m]]
  BY <1>7, <1>9
<1>12. Contents(e) = F
  BY <1>1, <1>10, <1>11, ContentsEqual
<1>13. NameOf(e, i) = n
  <2>1. p \in Live(e)
    BY <1>2
  <2> QED BY <1>1, <1>4, <2>1, DiskParts, NameOfIs
<1>14. DOMAIN Contents(d) = Named(d)
  BY ContentsIs
<1> QED BY <1>6, <1>9, <1>12, <1>13, <1>14 DEF WithNew

\* An entry that is removed takes its file away and nothing else.
LEMMA RemovedContents ==
  ASSUME NEW d, DiskOK(d), NEW e, NEW i \in Inums \ {0}, NEW p \in Live(d), d.dents[p].num = i,
         NEW n, d.dents[p].name = n, Removed(d, e, i, p)
  PROVE  /\ n \in DOMAIN Contents(d)
         /\ Contents(e) = Restrict(Contents(d), DOMAIN Contents(d) \ {n})
<1>1. DiskOK(e)
  BY RemovedOK
<1>2. Live(e) = Live(d) \ {p}
  BY RemovedOK
<1>3. \A k \in Inums : k # i => Tape(e, k) = Tape(d, k)
  BY RemovedOK, SMTT(30)
<1>4. /\ \A k \in Inums : k # i => e.inode[k] = d.inode[k]
      /\ \A k \in 1 .. Len(d.dents) : k # p => e.dents[k] = d.dents[k]
  BY DEF Removed
<1>5. \A k \in Live(d) \ {p} : /\ e.dents[k] = d.dents[k]
                               /\ d.dents[k].name # n /\ d.dents[k].num # i
  BY <1>4, EntryIs, DiskParts DEF Entries
<1>6. Named(e) = Named(d) \ {n}
  <2>1. ASSUME NEW m \in Named(e) PROVE m \in Named(d) \ {n}
    BY <1>2, <1>5, <2>1 DEF Named
  <2>2. ASSUME NEW m \in Named(d) \ {n} PROVE m \in Named(e)
    BY <1>2, <1>5, <2>2 DEF Named
  <2> QED BY <2>1, <2>2
<1>7. PICK F : F = [m \in Named(d) \ {n} |-> Contents(d)[m]]
  OBVIOUS
<1>8. ASSUME NEW k \in Live(e) PROVE FileOf(e, e.dents[k].num) = F[e.dents[k].name]
  <2>1. k \in Live(d) /\ e.dents[k] = d.dents[k] /\ d.dents[k].name # n /\ d.dents[k].num # i
    BY <1>2, <1>5
  <2>2. PICK num \in Inums : num = d.dents[k].num /\ num # i
    BY <2>1, EntryIs
  <2>3. F[d.dents[k].name] = FileOf(d, num)
    BY <1>7, <2>1, <2>2, ContentsIs
  <2>4. FileOf(e, num) = FileOf(d, num)
    BY <1>3, <1>4, <2>2 DEF FileOf
  <2> QED BY <2>1, <2>2, <2>3, <2>4
<1>9. DOMAIN F = Named(e) /\ F = [m \in DOMAIN F |-> F[m]]
  BY <1>6, <1>7
<1>10. Contents(e) = F
  BY <1>1, <1>8, <1>9, ContentsEqual
<1>11. DOMAIN Contents(d) = Named(d) /\ n \in Named(d)
  BY ContentsIs
<1> QED BY <1>7, <1>10, <1>11 DEF Restrict

\* One file of a directory, replaced.
WithFile(F, n, r) == [F EXCEPT ![n] = r]
OthersSame(d, e, i) == \A k \in Inums : k # i => FileOf(e, k) = FileOf(d, k)

\* Where only one inode changes, only its file does.
LEMMA OneFileContents ==
  ASSUME NEW d, DiskOK(d), NEW e, DiskOK(e), e.dents = d.dents, NEW i \in Inums,
         NEW h \in Live(d), d.dents[h].num = i, NEW n, d.dents[h].name = n,
         OthersSame(d, e, i)
  PROVE  /\ Contents(e) = WithFile(Contents(d), n, FileOf(e, i))
         /\ n \in DOMAIN Contents(d) /\ Contents(d)[n] = FileOf(d, i) /\ Contents(e)[n] = FileOf(e, i)
         /\ NameOf(e, i) = n
<1>1. Live(e) = Live(d) /\ Named(e) = Named(d)
  BY DEF Live, Named
<1>2. PICK G : G = Contents(d)
  OBVIOUS
<1>3. DOMAIN G = Named(d) /\ G \in [Named(d) -> FileRecords] /\ n \in Named(d) /\ G[n] = FileOf(d, i)
  BY <1>2, ContentsIs
<1>4. PICK r : r = FileOf(e, i)
  OBVIOUS
<1>5. PICK F : F = [G EXCEPT ![n] = r]
  OBVIOUS
<1>6. ASSUME NEW k \in Live(e) PROVE FileOf(e, e.dents[k].num) = F[e.dents[k].name]
  <2>1. k \in Live(d) /\ d.dents[k].name \in Named(d)
    BY <1>1, ContentsIs
  <2>2. CASE k = h
    BY <1>3, <1>4, <1>5, <2>2
  <2>3. CASE k # h
    <3>1. d.dents[k].num # i /\ d.dents[k].name # n
      BY <2>1, <2>3, DiskParts DEF Entries
    <3>2. PICK num \in Inums \ {0} : num = d.dents[k].num /\ num # i
      BY <2>1, <3>1, EntryIs
    <3>3. FileOf(e, num) = FileOf(d, num)
      BY <3>2 DEF OthersSame
    <3>4. G[d.dents[k].name] = FileOf(d, num)
      BY <1>2, <2>1, <3>2, ContentsIs
    <3>5. F[d.dents[k].name] = G[d.dents[k].name]
      BY <1>3, <1>5, <2>1, <3>1
    <3> QED BY <3>2, <3>3, <3>4, <3>5
  <2> QED BY <2>2, <2>3
<1>7. DOMAIN F = Named(e) /\ F = [m \in DOMAIN F |-> F[m]]
  BY <1>1, <1>3, <1>5
<1>8. Contents(e) = F
  BY <1>6, <1>7, ContentsEqual
<1>9. F[n] = r
  BY <1>3, <1>5
<1>10. NameOf(e, i) = n
  BY <1>1, DiskParts, NameOfIs
<1> QED BY <1>2, <1>3, <1>4, <1>5, <1>8, <1>9, <1>10 DEF WithFile

\* A directory that grows changes no file.
LEMMA GrownContents ==
  ASSUME NEW d, DiskOK(d), NEW e, DiskOK(e), Grown(d, e, 0)
  PROVE  Contents(e) = Contents(d)
<1>1. e.dents = d.dents /\ SameAttributes(d, e)
  BY DEF Grown
<1>2. Live(e) = Live(d) /\ Named(e) = Named(d)
  BY <1>1 DEF Live, Named
<1>3. \A k \in Inums : k # 0 => Tape(e, k) = Tape(d, k)
  BY DiskParts, InumsAre, GrownTapes
<1>4. PICK F : F = Contents(d)
  OBVIOUS
<1>5. DOMAIN F = Named(e) /\ F = [m \in DOMAIN F |-> F[m]]
  BY <1>2, <1>4, ContentsIs
<1>6. ASSUME NEW k \in Live(e) PROVE FileOf(e, e.dents[k].num) = F[e.dents[k].name]
  <2>1. PICK num \in Inums : num = d.dents[k].num /\ num # 0
    BY <1>2, EntryIs
  <2>2. FileOf(e, num) = FileOf(d, num)
    BY <1>1, <1>3, <2>1 DEF FileOf, SameAttributes
  <2>3. F[d.dents[k].name] = FileOf(d, num)
    BY <1>2, <1>4, <2>1, ContentsIs
  <2> QED BY <1>1, <2>1, <2>2, <2>3
<1> QED BY <1>4, <1>5, <1>6, ContentsEqual

-----------------------------------------------------------------------------
(* Each handler is a step of FileStore *)

\* The times that are set, by name.
Stamps(d, T) == {<<NameOf(d, t[1]), t[2]>> : t \in T}

\* The times of one inode are the times of its name.
LEMMA StampsAre ==
  ASSUME NEW d, NEW i, NEW T
  PROVE  Stamps(d, {i} \X T) = Store!Set(NameOf(d, i), T) /\ Stamps(d, {}) = {}
<1>1. PICK n : n = NameOf(d, i)
  OBVIOUS
<1>2. ASSUME NEW x \in Stamps(d, {i} \X T) PROVE x \in {n} \X T
  BY <1>1, <1>2 DEF Stamps
<1>3. ASSUME NEW x \in {n} \X T PROVE x \in Stamps(d, {i} \X T)
  <2>1. PICK y \in T : x = <<n, y>>
    OBVIOUS
  <2>2. <<i, y>> \in {i} \X T /\ <<i, y>>[1] = i /\ <<i, y>>[2] = y
    OBVIOUS
  <2> QED BY <1>1, <2>1, <2>2 DEF Stamps
<1>4. Stamps(d, {i} \X T) = {n} \X T
  BY <1>2, <1>3
<1> QED BY <1>1, <1>4 DEF Stamps, Store!Set

\* Times can be taken apart.
LEMMA StampsJoin ==
  ASSUME NEW d, NEW S, NEW T
  PROVE  Stamps(d, S \cup T) = Stamps(d, S) \cup Stamps(d, T)
BY DEF Stamps

\* What FileStore sees of the next state.
LEMMA SeenNext ==
  ASSUME NEW e, e = disk'
  PROVE  /\ Contents(disk)' = Contents(e)
         /\ Cardinality(Free(disk))' = Cardinality(Free(e))
         /\ {<<NameOf(disk, t[1]), t[2]>> : t \in touched}' = Stamps(e, touched')
BY DEF Stamps

\* The free blocks of a disk that has lost some.
LEMMA FewerFree ==
  ASSUME NEW d, NEW e, d.bits \subseteq e.bits
  PROVE  Cardinality(Free(e)) <= Cardinality(Free(d))
<1>1. Free(e) \subseteq Free(d) /\ IsFiniteSet(Free(d))
  BY FreeIs, FreeFinite
<1> QED BY <1>1, FS_Subset

\* Blocks that are given back are counted.
LEMMA MoreFree ==
  ASSUME NEW d, NEW e, Free(d) \subseteq Free(e)
  PROVE  Cardinality(Free(e)) >= Cardinality(Free(d))
<1>1. IsFiniteSet(Free(e)) /\ Cardinality(Free(e)) \in Nat /\ Cardinality(Free(d)) \in Nat
  BY FreeFinite
<1>2. Cardinality(Free(d)) <= Cardinality(Free(e))
  BY <1>1, FS_Subset
<1> QED BY <1>1, <1>2

\* The root has no name.
LEMMA RootName ==
  ASSUME NEW d
  PROVE  NameOf(d, 0) = Store!Root
BY DEF NameOf, Store!Root

\* mknod in a hole creates the file in the store, but for the directory's times.
LEMMA MknodInHoleCreates ==
  ASSUME IInv, NEW n \in Names, MknodInHole(n)
  PROVE  EntryInHole
<1>1. PICK e : e = disk'
  OBVIOUS
<1>2. PICK i, p :
        /\ i \in Inums \ {0}
        /\ ~disk.inode[i].live /\ Added(disk, e, i, n, p) /\ Find(disk, n) = 0
        /\ touched' = NewTimes(i)
  BY <1>1, MknodInHoleAdds
<1>3. DiskOK(disk)
  BY DEF IInv
<1>4. n \notin DOMAIN Contents(disk)
  BY <1>2, <1>3, AddedContents
<1>5. Contents(e) = WithNew(Contents(disk), n)
  BY <1>2, <1>3, AddedContents
<1>6. NameOf(e, i) = n
  BY <1>2, <1>3, AddedContents
<1>7. Cardinality(Free(e)) \in Cardinality(Free(disk)) - 2 .. Cardinality(Free(disk))
  <2>1. e.bits = disk.bits
    BY <1>2 DEF Added
  <2>2. Free(e) = Free(disk)
    BY <2>1, FreeIs
  <2> QED BY <2>2, FreeFinite
<1>8. Stamps(e, touched') = Store!Set(n, Store!Times)
  BY <1>2, <1>6, StampsAre DEF NewTimes, Store!Times
<1>9. Store!CreateUntimed(n)
  BY <1>1, <1>4, <1>5, <1>7, <1>8, SeenNext DEF Store!CreateUntimed, Store!Entered, WithNew
<1>10. Holes(disk) # {}
  BY DEF MknodInHole
<1> QED BY <1>9, <1>10 DEF EntryInHole

\* mknod at the end creates the file in the store, which takes up to two blocks.
LEMMA MknodAtEndCreates ==
  ASSUME IInv, NEW n \in Names, MknodAtEnd(n)
  PROVE  Store!Create(n)
<1>1. PICK e : e = disk'
  OBVIOUS
<1>2. PICK d : d = Provide(disk, 0, Len(disk.dents) \div DPB)
  OBVIOUS
<1>3. PICK i, p :
        /\ i \in Inums \ {0}
        /\ ~d.inode[i].live /\ Added(d, e, i, n, p) /\ Find(d, n) = 0
        /\ touched' = NewTimes(i) \cup {0} \X {"mtim", "ctim"}
  BY <1>1, <1>2, MknodAtEndAdds
<1>4. DiskOK(disk)
  BY DEF IInv
<1>5. DiskOK(d)
  BY <1>2, RootProvided
<1>6. Grown(disk, d, 0)
  BY <1>2, RootProvided
<1>7. Cardinality(Free(d)) \in Cardinality(Free(disk)) - 2 .. Cardinality(Free(disk))
  BY <1>2, RootProvided
<1>8. Contents(d) = Contents(disk)
  BY <1>4, <1>5, <1>6, GrownContents
<1>9. n \notin DOMAIN Contents(d)
  BY <1>3, <1>5, AddedContents
<1>10. Contents(e) = WithNew(Contents(d), n)
  BY <1>3, <1>5, AddedContents
<1>11. NameOf(e, i) = n
  BY <1>3, <1>5, AddedContents
<1>12. Free(e) = Free(d)
  <2>1. e.bits = d.bits
    BY <1>3 DEF Added
  <2> QED BY <2>1, FreeIs
<1>13. Stamps(e, touched') = Store!Set(n, Store!Times) \cup Store!Set(Store!Root, {"mtim", "ctim"})
  <2>1. PICK T : T = {"atim", "mtim", "ctim"} /\ T = Store!Times
    BY DEF Store!Times
  <2>2. PICK R : R = {"mtim", "ctim"}
    OBVIOUS
  <2>3. touched' = {i} \X T \cup {0} \X R
    BY <1>3, <2>1, <2>2 DEF NewTimes
  <2>4. Stamps(e, {i} \X T) = Store!Set(n, T)
    BY <1>11, StampsAre
  <2>5. Stamps(e, {0} \X R) = Store!Set(Store!Root, R)
    BY StampsAre, RootName
  <2> QED BY <2>1, <2>2, <2>3, <2>4, <2>5, StampsJoin, SMTT(30)
<1> QED BY <1>1, <1>7, <1>8, <1>9, <1>10, <1>12, <1>13, SeenNext
    DEF Store!Create, Store!Entered, WithNew

\* A refused mknod is a refused creation.
LEMMA MknodFailsRefused ==
  ASSUME IInv, NEW n \in Names, MknodFails(n)
  PROVE  Store!CreateFails(n)
<1>1. PICK e : e = disk'
  OBVIOUS
<1>2. DiskOK(e) /\ Grown(disk, e, 0) /\ Find(disk, n) = 0 /\ touched' = {}
  BY <1>1, MknodFailsIs
<1>3. Free(e) = {} \/ e = disk
  BY <1>1, MknodFailsIs
<1>4. DiskOK(disk)
  BY DEF IInv
<1>5. Contents(e) = Contents(disk)
  BY <1>2, <1>4, GrownContents
<1>6. n \notin DOMAIN Contents(disk)
  <2>1. ASSUME NEW k \in Live(disk) PROVE disk.dents[k].name # n
    BY <1>2, <1>4, DiskParts, EntryIs, FindIs
  <2>2. DOMAIN Contents(disk) = Named(disk)
    BY <1>4, ContentsIs
  <2> QED BY <2>1, <2>2 DEF Named
<1>7. Cardinality(Free(e)) \in {0, Cardinality(Free(disk))}
  BY <1>3, FS_EmptySet
<1>8. Stamps(e, touched') = {}
  BY <1>2, StampsAre
<1> QED BY <1>1, <1>5, <1>6, <1>7, <1>8, SeenNext DEF Store!CreateFails

\* unlink removes the file from the store.
LEMMA UnlinkRemoves ==
  ASSUME IInv, NEW p \in Paths, Unlink(p)
  PROVE  p \in Names /\ Store!Remove(p)
<1>1. PICK e : e = disk'
  OBVIOUS
<1>2. PICK i, k :
        /\ i \in Files(disk) /\ k \in Live(disk)
        /\ p \in Names /\ disk.dents[k].name = p /\ disk.dents[k].num = i
        /\ Removed(disk, e, i, k)
        /\ touched' = {0} \X {"mtim", "ctim"}
  BY <1>1, UnlinkDoes
<1>3. DiskOK(disk) /\ i \in Inums \ {0}
  BY <1>2 DEF IInv, Files
<1>4. p \in DOMAIN Contents(disk)
  BY <1>2, <1>3, RemovedContents
<1>5. Contents(e) = Restrict(Contents(disk), DOMAIN Contents(disk) \ {p})
  BY <1>2, <1>3, RemovedContents
<1>6. Cardinality(Free(e)) >= Cardinality(Free(disk))
  <2>1. e.bits \subseteq disk.bits
    BY <1>2 DEF Removed
  <2>2. Free(disk) \subseteq Free(e)
    BY <2>1, FreeIs
  <2> QED BY <2>2, MoreFree
<1>7. Stamps(e, touched') = Store!Set(Store!Root, {"mtim", "ctim"})
  BY <1>2, StampsAre, RootName
<1> QED BY <1>1, <1>2, <1>4, <1>5, <1>6, <1>7, SeenNext DEF Store!Remove, Store!Restrict, Restrict

\* A file with a new tape and size, and one with a new color.
TapeSized(F, n, t, s) == [F EXCEPT ![n].tape = t, ![n].size = s]
Painted(F, n, c) == [F EXCEPT ![n].color = c]

\* A record with the old color is the old one with a new tape and size.
LEMMA TapeSizedIs ==
  ASSUME NEW S, NEW F \in [S -> FileRecords], NEW n \in S, NEW r \in FileRecords,
         r.color = F[n].color, NEW t, r.tape = t, NEW s, r.size = s
  PROVE  WithFile(F, n, r) = TapeSized(F, n, t, s)
<1>1. PICK old \in FileRecords : old = F[n]
  OBVIOUS
<1>2. r = [[old EXCEPT !.tape = t] EXCEPT !.size = s]
  BY <1>1 DEF FileRecords
<1>3. PICK old1 : old1 = [old EXCEPT !.tape = t]
  OBVIOUS
<1>4. old1 \in FileRecords /\ r = [old1 EXCEPT !.size = s]
  BY <1>2, <1>3 DEF FileRecords
<1>5. PICK F1 : F1 = [F EXCEPT ![n] = old1]
  OBVIOUS
<1>6. F1 \in [S -> FileRecords] /\ F1[n] = old1
  BY <1>4, <1>5
<1>7. [F1 EXCEPT ![n] = r] = [F EXCEPT ![n] = r]
  BY <1>5
<1>8. TapeSized(F, n, t, s) = [F1 EXCEPT ![n] = r]
  BY <1>1, <1>3, <1>4, <1>5, <1>6 DEF TapeSized
<1> QED BY <1>7, <1>8 DEF WithFile

\* A record with the old tape and size is the old one with a new color.
LEMMA PaintedIs ==
  ASSUME NEW S, NEW F \in [S -> FileRecords], NEW n \in S, NEW r \in FileRecords,
         r.tape = F[n].tape, r.size = F[n].size, NEW c, r.color = c
  PROVE  WithFile(F, n, r) = Painted(F, n, c)
<1>1. PICK old \in FileRecords : old = F[n]
  OBVIOUS
<1>2. r = [old EXCEPT !.color = c]
  BY <1>1 DEF FileRecords
<1> QED BY <1>1, <1>2 DEF WithFile, Painted

\* What a run does to its file and to the others.
LEMMA RunFiles ==
  ASSUME NEW d, NEW e, NEW i \in Inums, NEW off, NEW data, NEW n, Run(d, e, i, off, data, n)
  PROVE  /\ e.dents = d.dents /\ d.bits \subseteq e.bits
         /\ OthersSame(d, e, i)
         /\ FileOf(e, i).size = d.inode[i].size /\ FileOf(e, i).color = d.inode[i].color
         /\ Store!Stored(Tape(d, i), Tape(e, i), off, data, n)
<1>1. OthersSame(d, e, i)
  BY DEF Run, SameAttributes, FileOf, OthersSame
<1> QED BY <1>1 DEF Run, SameAttributes, FileOf

\* What a new color or size does to the others, and to the tape.
LEMMA RetouchedFiles ==
  ASSUME NEW d, d \in Disks, NEW e, NEW i \in Inums, NEW r, Retouched(d, e, i, r)
  PROVE  OthersSame(d, e, i) /\ Tape(e, i) = Tape(d, i)
<1>1. \A k \in Inums : k # i => e.inode[k] = d.inode[k]
  <2>1. ASSUME NEW k \in Inums, k # i PROVE e.inode[k] = d.inode[k]
    BY <2>1, RetouchedIs, SMTT(30)
  <2> QED BY <2>1
<1>2. ASSUME NEW k \in Inums PROVE Tape(e, k) = Tape(d, k)
  BY RetouchedIs
<1> QED BY <1>1, <1>2 DEF OthersSame, FileOf

\* Two changes of one file leave the others as they are.
LEMMA OthersJoin ==
  ASSUME NEW d, NEW e, NEW f, NEW i, OthersSame(d, e, i), OthersSame(e, f, i)
  PROVE  OthersSame(d, f, i)
BY DEF OthersSame

\* A file that was found, and what became of it.
LEMMA OneFileSteps ==
  ASSUME NEW d, DiskOK(d), NEW e, DiskOK(e), e.dents = d.dents, NEW i \in Inums,
         NEW h \in Live(d), d.dents[h].num = i, NEW n, d.dents[h].name = n,
         OthersSame(d, e, i)
  PROVE  /\ n \in DOMAIN Contents(d) /\ NameOf(e, i) = n
         /\ Contents(d)[n] = FileOf(d, i) /\ Contents(e)[n] = FileOf(e, i)
         /\ e.inode[i].color = d.inode[i].color =>
              Contents(e) = TapeSized(Contents(d), n, Tape(e, i), e.inode[i].size)
         /\ Tape(e, i) = Tape(d, i) /\ e.inode[i].size = d.inode[i].size =>
              Contents(e) = Painted(Contents(d), n, e.inode[i].color)
<1>1. n \in DOMAIN Contents(d) /\ NameOf(e, i) = n
  BY OneFileContents
<1>2. Contents(d)[n] = FileOf(d, i) /\ Contents(e)[n] = FileOf(e, i)
  BY OneFileContents
<1>3. PICK F : F = Contents(d)
  OBVIOUS
<1>4. F \in [Named(d) -> FileRecords] /\ n \in Named(d) /\ F[n] = FileOf(d, i)
  BY <1>1, <1>2, <1>3, ContentsIs
<1>5. PICK r \in FileRecords : r = FileOf(e, i)
  BY DiskParts, FileIs
<1>6. Contents(e) = WithFile(F, n, r)
  BY <1>3, <1>5, OneFileContents
<1>7. r.tape = Tape(e, i) /\ r.size = e.inode[i].size /\ r.color = e.inode[i].color
  BY <1>5 DEF FileOf
<1>8. F[n].tape = Tape(d, i) /\ F[n].size = d.inode[i].size /\ F[n].color = d.inode[i].color
  BY <1>4 DEF FileOf
<1>9. ASSUME e.inode[i].color = d.inode[i].color
      PROVE  Contents(e) = TapeSized(F, n, Tape(e, i), e.inode[i].size)
  BY <1>4, <1>6, <1>7, <1>8, <1>9, TapeSizedIs
<1>10. ASSUME Tape(e, i) = Tape(d, i), e.inode[i].size = d.inode[i].size
       PROVE  Contents(e) = Painted(F, n, e.inode[i].color)
  BY <1>4, <1>6, <1>7, <1>8, <1>10, PaintedIs
<1> QED BY <1>1, <1>2, <1>3, <1>9, <1>10

\* A write stores all of its data in the store.
LEMMA WriteStores ==
  ASSUME IInv, NEW p \in Paths, NEW off \in Offs, NEW data \in Data, Write(p, off, data)
  PROVE  Strip(p) \in Names /\ Store!Write(Strip(p), off, data)
<1>1. PICK e : e = disk'
  OBVIOUS
<1>2. PICK i, d, r :
        /\ i \in Files(disk) /\ Strip(p) \in Names
        /\ \E k \in Live(disk) : disk.dents[k].name = Strip(p) /\ disk.dents[k].num = i
        /\ DiskOK(d) /\ Run(disk, d, i, off, data, Len(data)) /\ Retouched(d, e, i, r)
        /\ r.size = Max({disk.inode[i].size, off + Len(data)}) /\ r.size <= Limit
        /\ r.color = disk.inode[i].color
        /\ touched' = {i} \X {"mtim", "ctim"}
  BY <1>1, WriteDoes, ZenonT(40)
<1>3. PICK n, k : n = Strip(p) /\ n \in Names /\ k \in Live(disk)
                  /\ disk.dents[k].name = n /\ disk.dents[k].num = i
  BY <1>2
<1>4. DiskOK(disk) /\ d \in Disks /\ i \in Inums \ {0} /\ i \in Inums
  BY <1>2, DiskParts DEF IInv, Files
<1>5. PICK size \in Nat : size = Len(data)
  BY DataAre
<1>6. DiskOK(e)
  BY <1>2, <1>4, RetouchedOK
<1>7. e.bits = d.bits /\ e.dents = d.dents /\ e.inode[i] = r
  BY <1>2, <1>4, RetouchedIs
<1>8. OthersSame(d, e, i)
  BY <1>2, <1>4, RetouchedFiles
<1>9. Tape(e, i) = Tape(d, i)
  BY <1>2, <1>4, RetouchedFiles
<1>10. d.dents = disk.dents /\ disk.bits \subseteq d.bits
  BY <1>2, <1>4, RunFiles
<1>11. OthersSame(disk, d, i)
  BY <1>2, <1>4, RunFiles
<1>12. Store!Stored(Tape(disk, i), Tape(d, i), off, data, Len(data))
  BY <1>2, <1>4, RunFiles
<1>13. OthersSame(disk, e, i)
  BY <1>8, <1>11, OthersJoin
<1>14. e.dents = disk.dents /\ e.inode[i].color = disk.inode[i].color
  BY <1>2, <1>7, <1>10
<1>15. n \in DOMAIN Contents(disk) /\ NameOf(e, i) = n
  BY <1>3, <1>4, <1>6, <1>13, <1>14, OneFileSteps
<1>16. Contents(disk)[n] = FileOf(disk, i)
  BY <1>3, <1>4, <1>6, <1>13, <1>14, OneFileSteps
<1>17. Contents(e)[n] = FileOf(e, i)
  BY <1>3, <1>4, <1>6, <1>13, <1>14, OneFileSteps
<1>18. Contents(e) = TapeSized(Contents(disk), n, Tape(e, i), e.inode[i].size)
  BY <1>3, <1>4, <1>6, <1>13, <1>14, OneFileSteps
<1>19. Cardinality(Free(e)) <= Cardinality(Free(disk))
  <2>1. disk.bits \subseteq e.bits
    BY <1>7, <1>10
  <2> QED BY <2>1, FewerFree
<1>20. Stamps(e, touched') = Store!Set(n, {"mtim", "ctim"})
  BY <1>2, <1>15, StampsAre
<1>21. PICK new : new = Contents(e)[n] /\ new.tape = Tape(e, i) /\ new.size = e.inode[i].size
  BY <1>17 DEF FileOf
<1>22. PICK old : old = Contents(disk)[n] /\ old.tape = Tape(disk, i) /\ old.size = disk.inode[i].size
  BY <1>16 DEF FileOf
<1>23. Store!Stored(old.tape, new.tape, off, data, Len(data))
  BY <1>4, <1>9, <1>12, <1>21, <1>22
<1>24. new.size = Store!Max({old.size, off + Len(data)})
  BY <1>2, <1>7, <1>21, <1>22 DEF Max, Store!Max
<1>25. Contents(e) = [Contents(disk) EXCEPT ![n].tape = new.tape, ![n].size = new.size]
  BY <1>18, <1>21 DEF TapeSized
<1>26. Store!Write(n, off, data)
  BY <1>1, <1>15, <1>19, <1>20, <1>21, <1>22, <1>23, <1>24, <1>25, SeenNext
     DEF Store!Write, Store!Changed
<1> QED BY <1>3, <1>26

\* A refused write is refused by the store, with a part stored.
LEMMA WriteFailsStores ==
  ASSUME IInv, NEW p \in Paths, NEW off \in Offs, NEW data \in Data, WriteFails(p, off, data)
  PROVE  Strip(p) \in Names /\ Store!WriteFails(Strip(p), off, data)
<1>1. PICK e : e = disk'
  OBVIOUS
<1>2. PICK i, m :
        /\ i \in Files(disk) /\ m \in 0 .. Len(data) - 1 /\ Strip(p) \in Names
        /\ \E h \in Live(disk) : disk.dents[h].name = Strip(p) /\ disk.dents[h].num = i
        /\ DiskOK(e) /\ Run(disk, e, i, off, data, m)
        /\ Free(e) = {} \/ Limit < off + Len(data)
        /\ touched' = {}
  BY <1>1, WriteFailsDoes
<1>3. PICK n, k : n = Strip(p) /\ n \in Names /\ k \in Live(disk)
                  /\ disk.dents[k].name = n /\ disk.dents[k].num = i
  BY <1>2
<1>4. DiskOK(disk) /\ DiskOK(e) /\ i \in Inums \ {0} /\ i \in Inums
  BY <1>2 DEF IInv, Files
<1>5. e.dents = disk.dents /\ disk.bits \subseteq e.bits
  BY <1>2, <1>4, RunFiles
<1>6. OthersSame(disk, e, i)
  BY <1>2, <1>4, RunFiles
<1>7. Store!Stored(Tape(disk, i), Tape(e, i), off, data, m)
  BY <1>2, <1>4, RunFiles
<1>8. e.inode[i].color = disk.inode[i].color /\ e.inode[i].size = disk.inode[i].size
  BY <1>2, <1>4 DEF Run, SameAttributes
<1>9. n \in DOMAIN Contents(disk)
  BY <1>3, <1>4, <1>5, <1>6, OneFileSteps
<1>10. Contents(disk)[n] = FileOf(disk, i)
  BY <1>3, <1>4, <1>5, <1>6, OneFileSteps
<1>11. Contents(e)[n] = FileOf(e, i)
  BY <1>3, <1>4, <1>5, <1>6, OneFileSteps
<1>12. Contents(e) = TapeSized(Contents(disk), n, Tape(e, i), e.inode[i].size)
  BY <1>3, <1>4, <1>5, <1>6, <1>8, OneFileSteps
<1>13. Cardinality(Free(e)) <= Cardinality(Free(disk))
  BY <1>5, FewerFree
<1>14. Cardinality(Free(e)) = 0 \/ (off + Len(data) > Limit /\ Cardinality(Free(e)) <= Cardinality(Free(disk)))
  <2>1. off + Len(data) \in Nat
    BY DataAre, FileAssumption
  <2>2. Free(e) = {} => Cardinality(Free(e)) = 0
    BY FS_EmptySet
  <2> QED BY <1>2, <1>13, <2>1, <2>2, LimitIs
<1>15. Stamps(e, touched') = {}
  BY <1>2, StampsAre
<1>16. PICK new : new = Contents(e)[n] /\ new.tape = Tape(e, i) /\ new.size = e.inode[i].size
  BY <1>11 DEF FileOf
<1>17. PICK old : old = Contents(disk)[n] /\ old.tape = Tape(disk, i) /\ old.size = disk.inode[i].size
  BY <1>10 DEF FileOf
<1>18. \E l \in 0 .. Len(data) - 1 : Store!Stored(old.tape, new.tape, off, data, l)
  BY <1>2, <1>7, <1>16, <1>17
<1>19. Contents(e) = [Contents(disk) EXCEPT ![n].tape = new.tape, ![n].size = old.size]
  BY <1>8, <1>12, <1>16, <1>17 DEF TapeSized
<1>20. Store!WriteFails(n, off, data)
  BY <1>1, <1>9, <1>14, <1>15, <1>16, <1>17, <1>18, <1>19, SeenNext
     DEF Store!WriteFails, Store!Changed
<1> QED BY <1>3, <1>20

\* A new color changes nothing else.
LEMMA Paints ==
  ASSUME IInv, NEW e, e = disk', DiskOK(e), NEW i \in Files(disk), NEW k \in Live(disk), NEW n,
         disk.dents[k].name = n, disk.dents[k].num = i, NEW c,
         \E r : Retouched(disk, e, i, r) /\ r.size = disk.inode[i].size /\ r.color = c,
         touched' = {<<i, "ctim">>}
  PROVE  Store!Paint(n, c)
<1>1. DiskOK(disk) /\ disk \in Disks /\ i \in Inums \ {0} /\ i \in Inums
  BY DiskParts DEF IInv, Files
<1>2. PICK r : Retouched(disk, e, i, r) /\ r.size = disk.inode[i].size /\ r.color = c
  OBVIOUS
<1>3. e.bits = disk.bits /\ e.dents = disk.dents /\ e.inode[i] = r
  BY <1>1, <1>2, RetouchedIs
<1>4. OthersSame(disk, e, i)
  BY <1>1, <1>2, RetouchedFiles
<1>5. Tape(e, i) = Tape(disk, i)
  BY <1>1, <1>2, RetouchedFiles
<1>6. n \in DOMAIN Contents(disk) /\ NameOf(e, i) = n
  BY <1>1, <1>3, <1>4, OneFileSteps
<1>7. Tape(e, i) = Tape(disk, i) /\ e.inode[i].size = disk.inode[i].size
  BY <1>1, <1>2, <1>3, <1>5
<1>8. Contents(e) = Painted(Contents(disk), n, e.inode[i].color)
  BY <1>1, <1>3, <1>4, <1>7, OneFileSteps
<1>9. Contents(e) = [Contents(disk) EXCEPT ![n].color = c]
  BY <1>2, <1>3, <1>8 DEF Painted
<1>10. Free(e) = Free(disk)
  BY <1>3, FreeIs
<1>11. Stamps(e, touched') = Store!Set(n, {"ctim"})
  <2>1. touched' = {i} \X {"ctim"}
    OBVIOUS
  <2> QED BY <1>6, <2>1, StampsAre
<1> QED BY <1>6, <1>9, <1>10, <1>11, SeenNext DEF Store!Paint

\* A step that keeps the image and sets at most one access time only looks.
LEMMA Looks ==
  ASSUME disk' = disk, NEW e, e = disk',
         \/ Stamps(e, touched') = {}
         \/ \E n \in DOMAIN Contents(disk) \cup {Store!Root} : Stamps(e, touched') = Store!Set(n, {"atim"})
  PROVE  Store!Look
<1>1. Contents(e) = Contents(disk) /\ Cardinality(Free(e)) = Cardinality(Free(disk))
  OBVIOUS
<1> QED BY <1>1, SeenNext DEF Store!Look

\* read only looks.
LEMMA ReadLooks ==
  ASSUME IInv, NEW p \in Paths, NEW off \in Offs, NEW len \in Lens, Read(p, off, len)
  PROVE  Store!Look
<1>1. PICK e : e = disk'
  OBVIOUS
<1>2. disk' = disk
  BY ReadDoes
<1>3. \/ touched' = {}
      \/ \E i \in Files(disk) :
           /\ \E k \in Live(disk) : disk.dents[k].name = Strip(p) /\ disk.dents[k].num = i
           /\ Strip(p) \in Names
           /\ touched' = {<<i, "atim">>}
  BY ReadDoes
<1>4. CASE touched' = {}
  <2>1. Stamps(e, touched') = {}
    BY <1>4, StampsAre
  <2> QED BY <1>1, <1>2, <2>1, Looks
<1>5. CASE touched' # {}
  <2>1. PICK i, k : /\ k \in Live(disk) /\ disk.dents[k].num = i /\ touched' = {<<i, "atim">>}
    BY <1>3, <1>5
  <2>2. PICK n : n = disk.dents[k].name
    OBVIOUS
  <2>3. DiskOK(disk)
    BY DEF IInv
  <2>4. NameOf(e, i) = n
    BY <1>1, <1>2, <2>1, <2>2, <2>3, DiskParts, NameOfIs
  <2>5. n \in DOMAIN Contents(disk)
    <3>1. DOMAIN Contents(disk) = Named(disk)
      BY <2>3, ContentsIs
    <3> QED BY <2>1, <2>2, <3>1 DEF Named
  <2>6. Stamps(e, touched') = Store!Set(n, {"atim"})
    <3>1. touched' = {i} \X {"atim"}
      BY <2>1
    <3> QED BY <2>4, <3>1, StampsAre
  <2> QED BY <1>1, <1>2, <2>5, <2>6, Looks
<1> QED BY <1>4, <1>5

\* readdir only looks.
LEMMA ReaddirLooks ==
  ASSUME Readdir
  PROVE  Store!Look
<1>1. PICK e : e = disk'
  OBVIOUS
<1>2. disk' = disk /\ touched' = {0} \X {"atim"}
  BY DEF Readdir
<1>3. Stamps(e, touched') = Store!Set(Store!Root, {"atim"})
  BY <1>2, StampsAre, RootName
<1> QED BY <1>1, <1>2, <1>3, Looks

\* So do getattr, getxattr, statfs and the refused calls.
LEMMA LookLooks ==
  ASSUME Look
  PROVE  Store!Look
<1>1. PICK e : e = disk'
  OBVIOUS
<1>2. disk' = disk /\ Stamps(e, touched') = {}
  BY StampsAre DEF Look
<1> QED BY <1>1, <1>2, Looks

\* setxattr paints the file in the store.
LEMMA SetxattrPaints ==
  ASSUME IInv, NEW p \in Paths, NEW c \in Colors, NEW flags, Setxattr(p, c, flags)
  PROVE  Strip(p) \in Names /\ Store!Paint(Strip(p), c)
<1>1. PICK e : e = disk'
  OBVIOUS
<1>2. PICK i \in Files(disk) :
        /\ \E k \in Live(disk) : disk.dents[k].name = Strip(p) /\ disk.dents[k].num = i
        /\ DiskOK(e) /\ Strip(p) \in Names
        /\ \E r : Retouched(disk, e, i, r) /\ r.size = disk.inode[i].size /\ r.color = c
        /\ touched' = {<<i, "ctim">>}
  BY <1>1, SetxattrDoes
<1>3. PICK k \in Live(disk) : disk.dents[k].name = Strip(p) /\ disk.dents[k].num = i
  BY <1>2
<1> QED BY <1>1, <1>2, <1>3, Paints

\* removexattr takes its color away.
LEMMA RemovexattrPaints ==
  ASSUME IInv, NEW p \in Paths, Removexattr(p)
  PROVE  Strip(p) \in Names /\ Store!Paint(Strip(p), "none")
<1>1. PICK e : e = disk'
  OBVIOUS
<1>2. PICK i \in Files(disk) :
        /\ \E k \in Live(disk) : disk.dents[k].name = Strip(p) /\ disk.dents[k].num = i
        /\ DiskOK(e) /\ Strip(p) \in Names
        /\ \E r : Retouched(disk, e, i, r) /\ r.size = disk.inode[i].size /\ r.color = "none"
        /\ touched' = {<<i, "ctim">>}
  BY <1>1, RemovexattrDoes
<1>3. PICK k \in Live(disk) : disk.dents[k].name = Strip(p) /\ disk.dents[k].num = i
  BY <1>2
<1> QED BY <1>1, <1>2, <1>3, Paints

\* Every handler is a step of the store, an entry in a hole, or none.
LEMMA StoreSteps ==
  IInv /\ [Next]_vars => [Store!Next \/ EntryInHole]_(Store!fsVars)
<1> SUFFICES ASSUME IInv, [Next]_vars PROVE [Store!Next \/ EntryInHole]_(Store!fsVars)
  OBVIOUS
<1>1. ASSUME NEW n \in Names, MknodInHole(n) PROVE EntryInHole
  BY <1>1, MknodInHoleCreates
<1>2. ASSUME NEW n \in Names, MknodAtEnd(n) PROVE Store!Next
  BY <1>2, MknodAtEndCreates DEF Store!Next
<1>3. ASSUME NEW n \in Names, MknodFails(n) PROVE Store!Next
  BY <1>3, MknodFailsRefused DEF Store!Next
<1>4. ASSUME NEW p \in Paths, Unlink(p) PROVE Store!Next
  BY <1>4, UnlinkRemoves DEF Store!Next
<1>5. ASSUME NEW p \in Paths, Removexattr(p) PROVE Store!Next
  <2>1. "none" \in Colors
    BY FileAssumption
  <2> QED BY <1>5, <2>1, RemovexattrPaints DEF Store!Next
<1>6. ASSUME NEW p \in Paths, NEW off \in Offs, NEW len \in Lens, Read(p, off, len) PROVE Store!Next
  BY <1>6, ReadLooks DEF Store!Next
<1>7. ASSUME NEW p \in Paths, NEW off \in Offs, NEW data \in Data, Write(p, off, data)
      PROVE  Store!Next
  BY <1>7, WriteStores DEF Store!Next
<1>8. ASSUME NEW p \in Paths, NEW off \in Offs, NEW data \in Data, WriteFails(p, off, data)
      PROVE  Store!Next
  BY <1>8, WriteFailsStores DEF Store!Next
<1>9. ASSUME NEW p \in Paths, NEW c \in Colors, NEW flags \in 0..2, Setxattr(p, c, flags)
      PROVE  Store!Next
  BY <1>9, SetxattrPaints DEF Store!Next
<1>10. CASE Readdir
  BY <1>10, ReaddirLooks DEF Store!Next
<1>11. CASE Look
  BY <1>11, LookLooks DEF Store!Next
<1>12. CASE UNCHANGED vars
  BY <1>12, SeenNext DEF vars, Store!fsVars, Stamps
<1> QED
  BY <1>1, <1>2, <1>3, <1>4, <1>5, <1>6, <1>7, <1>8, <1>9, <1>10, <1>11, <1>12 DEF Next

\* The image that mkfs writes is an empty store.
LEMMA StoreInit == Init => Store!Init
<1> SUFFICES ASSUME Init PROVE Store!Init
  OBVIOUS
<1>1. DiskOK(disk)
  BY InitOK DEF IInv
<1>2. disk.dents = <<>> /\ touched = {}
  BY DEF Init
<1>3. Named(disk) = {}
  BY <1>2 DEF Live, Named
<1>4. Contents(disk) = [n \in {} |-> Store!NewFile]
  <2>1. PICK F : F = Contents(disk)
    OBVIOUS
  <2>2. F = [n \in DOMAIN F |-> F[n]] /\ DOMAIN F = {}
    BY <1>1, <1>3, <2>1, ContentsIs
  <2> QED BY <2>1, <2>2
<1> QED BY <1>2, <1>4, FreeFinite DEF Store!Init

\* Each handler does to the named file what FileStore says and nothing to another, for
\* every size of an image, any offset and any data, also where allocation fails midway;
\* what is let off are the times of the directory when an entry goes in a hole.
THEOREM FilesAreStored == Spec => ImplementsFilesButATime
<1>1. Init => Store!Init
  BY StoreInit
<1>2. IInv /\ [Next]_vars => [Store!Next \/ EntryInHole]_(Store!fsVars)
  BY StoreSteps
<1> QED BY <1>1, <1>2, InvariantHolds, PTL DEF Spec, ImplementsFilesButATime
=============================================================================
