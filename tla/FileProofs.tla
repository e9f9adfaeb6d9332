----------------------------- MODULE FileProofs -----------------------------
(***************************************************************************)
(* Types and the inductive invariant of FileData, and what follows from    *)
(* it: offsets are mapped, their addresses are apart, free blocks are zero *)
(* and a read reaches what is in the file.                                 *)
(***************************************************************************)
EXTENDS FileProperties, FiniteSetTheorems, SequenceTheorems, TLAPS

USE DEF NoId, NoAddr, NotYet

-----------------------------------------------------------------------------
(* Blocks and addresses *)

\* A set of naturals that is not empty has a smallest element.
LEMMA MinIsSmallest ==
    ASSUME NEW S \in SUBSET Nat, S # {}
    PROVE  Min(S) \in S /\ \A j \in S : Min(S) <= j
<1>1. \E k \in S : \A j \in S : ~(<<j, k>> \in OpToRel(<, Nat))
  BY WFMin, NatLessThanWellFounded
<1>2. PICK k \in S : \A j \in S : ~(<<j, k>> \in OpToRel(<, Nat))
  BY <1>1
<1>3. \A j \in S : ~(j < k)
  BY <1>2 DEF OpToRel
<1>4. k \in S /\ \A j \in S : k <= j
  BY <1>3
<1> QED
  BY <1>4 DEF Min

\* allocDataBlock returns a block that is not taken, or -1 if there is none.
LEMMA AllocFree ==
    ASSUME NEW used
    PROVE  /\ AllocDataBlock(used) # NoId => AllocDataBlock(used) \in Blocks \ used
           /\ AllocDataBlock(used) \in Blocks \cup {NoId}
           /\ AllocDataBlock(used) = NoId => Blocks \subseteq used
<1>1. Blocks \ used \in SUBSET Nat
  BY FileAssumption DEF Blocks
<1>2. NoId \notin Blocks
  BY DEF Blocks
<1>3. CASE Blocks \subseteq used
  BY <1>3 DEF AllocDataBlock
<1>4. CASE ~(Blocks \subseteq used)
  <2>1. Min(Blocks \ used) \in Blocks \ used
    BY <1>1, <1>4, MinIsSmallest
  <2> QED
    BY <2>1, <1>2, <1>4 DEF AllocDataBlock
<1> QED
  BY <1>3, <1>4

\* A word of block b: where it is, and in which block it is.
LEMMA WordOfBlock ==
    ASSUME NEW b \in Blocks \cup {NoId}, NEW k \in 0 .. DSize - 1
    PROVE  /\ DataOffset(b) \in Int
           /\ DataOffset(b) + k \in Addr
           /\ BlockOf(DataOffset(b) + k) = b
<1>1. DSize \in Nat /\ DSize >= 2 /\ DNum \in Nat
  BY FileAssumption
<1>2. b \in Int /\ -1 <= b /\ b <= DNum - 1
  BY <1>1 DEF Blocks
<1>3. b * DSize \in Int /\ -DSize <= b * DSize /\ b * DSize <= DNum * DSize - DSize /\ DNum * DSize \in Int
  BY <1>1, <1>2
<1>4. (b * DSize + k) \div DSize = b
  BY <1>1, <1>2
<1> QED
  BY <1>1, <1>3, <1>4 DEF DataOffset, Addr, BlockOf

\* Blocks do not overlap.
LEMMA StartsApart ==
    ASSUME NEW b \in Blocks \cup {NoId}, NEW c \in Blocks \cup {NoId},
           NEW k \in 0 .. DSize - 1, NEW l \in 0 .. DSize - 1,
           DataOffset(b) + k = DataOffset(c) + l
    PROVE  b = c /\ k = l
<1>1. b = c
  BY WordOfBlock
<1> QED
  BY <1>1, WordOfBlock, FileAssumption

LEMMA ZeroWord == 0 \in 0 .. DSize - 1 /\ DSize \in Nat /\ DSize >= 2 /\ -1 \in Addr
<1>1. DSize \in Nat /\ DSize >= 2 /\ DNum \in Nat
  BY FileAssumption
<1>2. DNum * DSize \in Nat
  BY <1>1
<1> QED
  BY <1>1, <1>2 DEF Addr

\* An offset is its block and what is within the block.
LEMMA OffsetParts ==
    ASSUME NEW p \in Nat
    PROVE  /\ BlockOf(p) \in Nat
           /\ Inner(p) \in 0 .. DSize - 1
           /\ p = BlockOf(p) * DSize + Inner(p)
           /\ \A c \in Nat : p < c * DSize <=> BlockOf(p) < c
BY FileAssumption DEF BlockOf, Inner

\* Within a block, offsets count up.
LEMMA NextOffset ==
    ASSUME NEW p \in Nat, NEW k \in Nat, Inner(p) + k < DSize
    PROVE  BlockOf(p + k) = BlockOf(p) /\ Inner(p + k) = Inner(p) + k
BY FileAssumption DEF BlockOf, Inner

\* Offsets in different blocks, or of different words, are different.
LEMMA PartsDiffer ==
    ASSUME NEW p \in Nat, NEW q \in Nat, BlockOf(p) = BlockOf(q), Inner(p) = Inner(q)
    PROVE  p = q
BY OffsetParts

\* calcDiskAddr: the start of the offset's block and the offset within it.
LEMMA AddressParts ==
    ASSUME NEW m, NEW n, NEW p \in Nat
    PROVE  CalcDiskAddr(m, n, p) = StartOf(m, n, BlockOf(p)) + Inner(p)
<1>1. DSize \in Nat /\ DSize >= 2
  BY FileAssumption
<1>2. CASE p < DSize
  <2>1. p \div DSize = 0 /\ p % DSize = p
    BY <1>1, <1>2
  <2> QED
    BY <2>1, <1>2 DEF CalcDiskAddr, StartOf, Cap0, BlockOf, Inner
<1>3. CASE ~(p < DSize)
  <2>1. (p - DSize) \div DSize = (p \div DSize) - 1 /\ p \div DSize \in Nat /\ p \div DSize # 0
    BY <1>1, <1>3
  <2>2. StartOf(m, n, BlockOf(p)) = m[n.addr_1 + (p \div DSize) - 1]
    BY <2>1 DEF StartOf, BlockOf
  <2> QED
    BY <2>1, <2>2, <1>3 DEF CalcDiskAddr, Cap0, Inner
<1> QED
  BY <1>2, <1>3

-----------------------------------------------------------------------------
(* What the operations do to a layout *)

\* What is needed of an inode to find its blocks.
Fits(n) == n \in NodeT /\ n.cap \in 0 .. DSize + 1 /\ (n.cap > 1 => n.addr_1 # NoAddr)

LEMMA OffsetNotNoAddr == \A b \in Blocks \cup {NoId} : DataOffset(b) # NoAddr
<1> SUFFICES ASSUME NEW b \in Blocks \cup {NoId}, b * DSize = -1
             PROVE  FALSE
  BY DEF DataOffset
<1>1. b \in Int /\ DSize \in Nat /\ DSize >= 2
  BY FileAssumption DEF Blocks
<1>2. b < 0 \/ b = 0 \/ b > 0
  BY <1>1
<1> QED
  BY <1>1, <1>2

LEMMA ShapedFits ==
    ASSUME NEW n \in NodeT, n = NoNode \/ WellShaped(n)
    PROVE  Fits(n)
<1>1. CASE n = NoNode
  BY <1>1, ZeroWord DEF Fits, NoNode
<1>2. CASE WellShaped(n)
  BY <1>2, ZeroWord, OffsetNotNoAddr DEF Fits, WellShaped
<1> QED
  BY <1>1, <1>2

\* The words of the level 1 block that are in use.
LEMMA IndexWord ==
    ASSUME NEW n, Fits(n), NEW k \in Held(n), k > 0
    PROVE  -1 \in Held(n) /\ k - 1 \in 0 .. DSize - 1 /\ n.addr_1 # NoAddr
BY ZeroWord DEF Fits, Held, NodeT

\* Taking blocks leaves a layout.
LEMMA LayoutTakes ==
    ASSUME NEW used, NEW more, used \subseteq more, NEW m, NEW ns, Layout(used, m, ns)
    PROVE  Layout(more, m, ns)
BY DEF Layout

\* The blocks of an inode are the first ones of another.
Begins(n, copy) == /\ copy.addr_0 = n.addr_0
                   /\ n.cap <= copy.cap
                   /\ n.addr_1 \in {NoAddr, copy.addr_1}

LEMMA BeginHolds ==
    ASSUME NEW n, NEW copy, Fits(n), Fits(copy), Begins(n, copy), NEW m, NEW k \in Held(n)
    PROVE  k \in Held(copy) /\ StartOf(m, copy, k) = StartOf(m, n, k)
<1>1. /\ n.cap \in Nat /\ copy.cap \in Nat
      /\ n.cap <= copy.cap
      /\ copy.addr_0 = n.addr_0
      /\ n.addr_1 = NoAddr \/ n.addr_1 = copy.addr_1
  BY DEF Fits, NodeT, Begins
<1>2. k \in Held(copy)
  BY <1>1 DEF Held
<1>3. CASE k = -1
  <2>1. n.addr_1 # NoAddr
    BY <1>3, <1>1 DEF Held
  <2> QED
    BY <2>1, <1>1, <1>2, <1>3 DEF StartOf
<1>4. CASE k = 0
  BY <1>1, <1>2, <1>4 DEF StartOf
<1>5. CASE k > 0
  <2>1. n.addr_1 = copy.addr_1
    BY <1>1, <1>5, IndexWord
  <2> QED
    BY <2>1, <1>2, <1>5 DEF StartOf
<1>6. k \in Int
  BY <1>1 DEF Held
<1> QED
  BY <1>3, <1>4, <1>5, <1>6, <1>1 DEF Held

\* The copies of a write are lost with the process.
LEMMA LayoutShrinks ==
    ASSUME NEW used, NEW m, NEW old, NEW ns, Layout(used, m, old),
           \A i \in File : Fits(ns[i]) /\ Fits(old[i]) /\ Begins(ns[i], old[i])
    PROVE  Layout(used, m, ns)
<1>1. \A i \in File : \A k \in Held(ns[i]) :
          k \in Held(old[i]) /\ StartOf(m, old[i], k) = StartOf(m, ns[i], k)
  BY BeginHolds
<1>2. /\ \A i \in File : \A k \in Held(old[i]) : \E b \in used : StartOf(m, old[i], k) = DataOffset(b)
      /\ \A i, j \in File : \A k \in Held(old[i]), l \in Held(old[j]) :
            StartOf(m, old[i], k) = StartOf(m, old[j], l) => i = j /\ k = l
      /\ \A a \in Addr : BlockOf(a) \in Blocks \ used => m[a] = 0
  BY DEF Layout
<1>3. \A i \in File : \A k \in Held(ns[i]) : \E b \in used : StartOf(m, ns[i], k) = DataOffset(b)
  BY <1>1, <1>2
<1>4. ASSUME NEW i \in File, NEW j \in File, NEW k \in Held(ns[i]), NEW l \in Held(ns[j]),
             StartOf(m, ns[i], k) = StartOf(m, ns[j], l)
      PROVE  i = j /\ k = l
  <2>1. StartOf(m, old[i], k) = StartOf(m, old[j], l)
    BY <1>1, <1>4
  <2> QED
    BY <2>1, <1>1, <1>2
<1> QED
  BY <1>2, <1>3, <1>4 DEF Layout

\* A block that is held is not one that is not taken.
LEMMA HeldNotFree ==
    ASSUME NEW used \in SUBSET Blocks, NEW m, NEW ns, Layout(used, m, ns),
           NEW i \in File, NEW k \in Held(ns[i]), NEW b \in Blocks \ used
    PROVE  StartOf(m, ns[i], k) # DataOffset(b)
<1>1. PICK c \in used : StartOf(m, ns[i], k) = DataOffset(c)
  BY DEF Layout
<1>2. c # b /\ c \in Blocks
  OBVIOUS
<1>3. DataOffset(c) # DataOffset(b)
  <2>1. DataOffset(c) + 0 \in Int /\ DataOffset(c) \in Int /\ DataOffset(b) \in Int
    BY <1>2, WordOfBlock, ZeroWord
  <2> QED
    BY <2>1, <1>2, StartsApart, ZeroWord
<1> QED
  BY <1>1, <1>3

\* createFile gives a file a block of its own.
LEMMA LayoutCreates ==
    ASSUME NEW used \in SUBSET Blocks, NEW m, NEW ns, NEW i \in File, NEW b \in Blocks \ used,
           NEW new, new.cap = 1, new.addr_0 = DataOffset(b), new.addr_1 = NoAddr,
           NEW made, \A j \in File : made[j] = IF j = i THEN new ELSE ns[j],
           Layout(used, m, ns)
    PROVE  Layout(used \cup {b}, m, made)
<1>1. Held(new) = {0}
  BY DEF Held
<1>2. StartOf(m, new, 0) = DataOffset(b)
  BY DEF StartOf
<1>3. ASSUME NEW j \in File, NEW k \in Held(made[j])
      PROVE  \E c \in used \cup {b} : StartOf(m, made[j], k) = DataOffset(c)
  <2>1. CASE j = i
    BY <2>1, <1>1, <1>2
  <2>2. CASE j # i
    BY <2>2 DEF Layout
  <2> QED
    BY <2>1, <2>2
<1>4. ASSUME NEW j \in File, NEW k \in Held(made[j]), j # i
      PROVE  StartOf(m, made[j], k) # DataOffset(b)
  BY <1>4, HeldNotFree
<1>5. ASSUME NEW j \in File, NEW l \in File, NEW k \in Held(made[j]), NEW h \in Held(made[l]),
             StartOf(m, made[j], k) = StartOf(m, made[l], h)
      PROVE  j = l /\ k = h
  <2>1. CASE j = i /\ l = i
    BY <2>1, <1>1
  <2>2. CASE j = i /\ l # i
    BY <2>2, <1>1, <1>2, <1>4, <1>5
  <2>3. CASE j # i /\ l = i
    BY <2>3, <1>1, <1>2, <1>4, <1>5
  <2>4. CASE j # i /\ l # i
    BY <2>4, <1>5 DEF Layout
  <2> QED
    BY <2>1, <2>2, <2>3, <2>4
<1>6. \A a \in Addr : BlockOf(a) \in Blocks \ (used \cup {b}) => m[a] = 0
  BY DEF Layout
<1> QED
  BY <1>3, <1>5, <1>6 DEF Layout

\* The word of a level 1 block lies in that block.
LEMMA IndexInBlock ==
    ASSUME NEW used \in SUBSET Blocks, NEW m, NEW ns, Layout(used, m, ns),
           NEW i \in File, Fits(ns[i]), NEW k \in Held(ns[i]), k > 0
    PROVE  /\ ns[i].addr_1 + k - 1 \in Addr
           /\ BlockOf(ns[i].addr_1 + k - 1) \in used
           /\ DataOffset(BlockOf(ns[i].addr_1 + k - 1)) = ns[i].addr_1
<1>1. -1 \in Held(ns[i]) /\ k - 1 \in 0 .. DSize - 1
  BY IndexWord
<1>2. PICK b \in used : StartOf(m, ns[i], -1) = DataOffset(b)
  BY <1>1 DEF Layout
<1>3. ns[i].addr_1 = DataOffset(b)
  BY <1>2 DEF StartOf
<1>4. DataOffset(b) \in Int /\ DataOffset(b) + (k - 1) \in Addr /\ BlockOf(DataOffset(b) + (k - 1)) = b
  BY <1>1, WordOfBlock
<1>5. k \in Int
  BY DEF Held, Fits, NodeT
<1>6. ns[i].addr_1 + k - 1 = DataOffset(b) + (k - 1)
  BY <1>3, <1>4, <1>5
<1> QED
  BY <1>3, <1>4, <1>6

\* Words written within a block that holds data move no block.
LEMMA LayoutWrites ==
    ASSUME NEW used \in SUBSET Blocks, NEW m, NEW ns, Layout(used, m, ns),
           \A j \in File : Fits(ns[j]),
           NEW i \in File, NEW k \in Held(ns[i]), k >= 0,
           NEW new, \A a \in Addr : new[a] # m[a] => BlockOf(a) = BlockOf(StartOf(m, ns[i], k))
    PROVE  /\ Layout(used, new, ns)
           /\ \A j \in File : \A l \in Held(ns[j]) : StartOf(new, ns[j], l) = StartOf(m, ns[j], l)
<1>1. PICK b \in used : StartOf(m, ns[i], k) = DataOffset(b)
  BY DEF Layout
<1>2. BlockOf(StartOf(m, ns[i], k)) = b
  <2>1. DataOffset(b) \in Int /\ BlockOf(DataOffset(b) + 0) = b
    BY WordOfBlock, ZeroWord
  <2> QED
    BY <2>1, <1>1
<1>3. ASSUME NEW j \in File, NEW l \in Held(ns[j])
      PROVE  StartOf(new, ns[j], l) = StartOf(m, ns[j], l)
  <2>1. l \in Int
    BY DEF Held, Fits, NodeT
  <2>2. CASE l <= 0
    BY <2>1, <2>2 DEF StartOf, Held, Fits, NodeT
  <2>3. CASE l > 0
    <3>1. -1 \in Held(ns[j])
      BY <2>3, IndexWord
    <3>2. StartOf(m, ns[j], -1) # StartOf(m, ns[i], k)
      <4>1. k # -1
        BY DEF Held, Fits, NodeT
      <4> QED
        BY <4>1, <3>1 DEF Layout
    <3>3. StartOf(m, ns[j], -1) = ns[j].addr_1
      BY DEF StartOf
    <3>4. BlockOf(ns[j].addr_1 + l - 1) # b
      BY <1>1, <2>3, <3>2, <3>3, IndexInBlock
    <3>5. new[ns[j].addr_1 + l - 1] = m[ns[j].addr_1 + l - 1]
      BY <3>4, <1>2, <2>3, IndexInBlock
    <3> QED
      BY <3>5, <2>1, <2>3 DEF StartOf
  <2> QED
    BY <2>1, <2>2, <2>3
<1>4. \A a \in Addr : BlockOf(a) \in Blocks \ used => new[a] = 0
  BY <1>2 DEF Layout
<1>5. \A j \in File : \A l \in Held(ns[j]) : \E c \in used : StartOf(new, ns[j], l) = DataOffset(c)
  BY <1>3 DEF Layout
<1>6. \A j, h \in File : \A l \in Held(ns[j]), g \in Held(ns[h]) :
          StartOf(new, ns[j], l) = StartOf(new, ns[h], g) => j = h /\ l = g
  BY <1>3 DEF Layout
<1> QED
  BY <1>3, <1>4, <1>5, <1>6 DEF Layout

\* An inode without a level 1 block takes a free block for it.
LEMMA LayoutIndexes ==
    ASSUME NEW used \in SUBSET Blocks, NEW m, NEW ns, Layout(used, m, ns),
           NEW i \in File, NEW b \in Blocks \ used, ns[i].addr_1 = NoAddr, ns[i].cap = 1,
           NEW new, new.cap = 1, new.addr_0 = ns[i].addr_0, new.addr_1 = DataOffset(b),
           NEW made, \A j \in File : made[j] = IF j = i THEN new ELSE ns[j]
    PROVE  Layout(used \cup {b}, m, made)
<1>1. Held(new) = {-1, 0} /\ Held(ns[i]) = {0}
  BY OffsetNotNoAddr DEF Held
<1>2. StartOf(m, new, -1) = DataOffset(b) /\ StartOf(m, new, 0) = StartOf(m, ns[i], 0)
  BY DEF StartOf
<1>3. ASSUME NEW j \in File, NEW k \in Held(made[j]), <<j, k>> # <<i, -1>>
      PROVE  k \in Held(ns[j]) /\ StartOf(m, made[j], k) = StartOf(m, ns[j], k)
  BY <1>1, <1>2, <1>3
<1>4. ASSUME NEW j \in File, NEW k \in Held(made[j]), <<j, k>> # <<i, -1>>
      PROVE  StartOf(m, made[j], k) # DataOffset(b)
  BY <1>3, <1>4, HeldNotFree
<1>5. ASSUME NEW j \in File, NEW k \in Held(made[j])
      PROVE  \E c \in used \cup {b} : StartOf(m, made[j], k) = DataOffset(c)
  <2>1. CASE <<j, k>> = <<i, -1>>
    BY <2>1, <1>2
  <2>2. CASE <<j, k>> # <<i, -1>>
    BY <2>2, <1>3 DEF Layout
  <2> QED
    BY <2>1, <2>2
<1>6. ASSUME NEW j \in File, NEW l \in File, NEW k \in Held(made[j]), NEW h \in Held(made[l]),
             StartOf(m, made[j], k) = StartOf(m, made[l], h)
      PROVE  j = l /\ k = h
  <2>1. CASE <<j, k>> = <<i, -1>> /\ <<l, h>> = <<i, -1>>
    BY <2>1
  <2>2. CASE <<j, k>> = <<i, -1>> /\ <<l, h>> # <<i, -1>>
    BY <2>2, <1>2, <1>4, <1>6
  <2>3. CASE <<j, k>> # <<i, -1>> /\ <<l, h>> = <<i, -1>>
    BY <2>3, <1>2, <1>4, <1>6
  <2>4. CASE <<j, k>> # <<i, -1>> /\ <<l, h>> # <<i, -1>>
    <3>1. k \in Held(ns[j]) /\ h \in Held(ns[l]) /\ StartOf(m, ns[j], k) = StartOf(m, ns[l], h)
      BY <2>4, <1>3, <1>6
    <3> QED
      BY <3>1 DEF Layout
  <2> QED
    BY <2>1, <2>2, <2>3, <2>4
<1>7. \A a \in Addr : BlockOf(a) \in Blocks \ (used \cup {b}) => m[a] = 0
  BY DEF Layout
<1> QED
  BY <1>5, <1>6, <1>7 DEF Layout

\* Inode i of ns has a level 1 block with room for an address; in made it has a
\* block more, and more is m with the address of block b there.
Extends(ns, i, made) ==
    /\ ns[i].addr_1 # NoAddr
    /\ ns[i].cap \in 1 .. DSize
    /\ made[i].cap = ns[i].cap + 1
    /\ made[i].addr_0 = ns[i].addr_0
    /\ made[i].addr_1 = ns[i].addr_1
    /\ \A j \in File : j # i => made[j] = ns[j]
PutsAddress(m, n, b, more) ==
    \A a \in Addr : more[a] = IF a = n.addr_1 + n.cap - 1 THEN DataOffset(b) ELSE m[a]
Keeps(m, ns, more, made) ==
    \A j \in File : \A l \in Held(ns[j]) :
        l \in Held(made[j]) /\ StartOf(more, made[j], l) = StartOf(m, ns[j], l)

LEMMA LayoutGrows ==
    ASSUME NEW used \in SUBSET Blocks, NEW m, NEW ns, Layout(used, m, ns),
           \A j \in File : Fits(ns[j]),
           NEW i \in File, NEW b \in Blocks \ used,
           NEW made, Extends(ns, i, made),
           NEW more, PutsAddress(m, ns[i], b, more)
    PROVE  Layout(used \cup {b}, more, made) /\ Keeps(m, ns, more, made)
<1> DEFINE new == made[i]
<1>0. /\ ns[i].addr_1 # NoAddr /\ ns[i].cap \in 1 .. DSize
      /\ new.cap = ns[i].cap + 1 /\ new.addr_0 = ns[i].addr_0 /\ new.addr_1 = ns[i].addr_1
      /\ \A j \in File : made[j] = IF j = i THEN new ELSE ns[j]
      /\ \A a \in Addr : more[a] = IF a = ns[i].addr_1 + ns[i].cap - 1 THEN DataOffset(b) ELSE m[a]
  BY DEF Extends, PutsAddress
<1> HIDE DEF new
<1> USE <1>0
<1> DEFINE cap == ns[i].cap
           word == ns[i].addr_1 + cap - 1
<1>1. cap \in Nat /\ cap >= 1 /\ cap - 1 \in 0 .. DSize - 1
  BY ZeroWord
<1>2. -1 \in Held(ns[i]) /\ StartOf(m, ns[i], -1) = ns[i].addr_1
  BY <1>1 DEF Held, StartOf
<1>3. PICK c \in used : ns[i].addr_1 = DataOffset(c)
  BY <1>2 DEF Layout
<1>4. /\ DataOffset(c) \in Int
      /\ word = DataOffset(c) + (cap - 1)
      /\ word \in Addr
      /\ BlockOf(word) = c
  <2>1. DataOffset(c) \in Int /\ DataOffset(c) + (cap - 1) \in Addr /\ BlockOf(DataOffset(c) + (cap - 1)) = c
    BY <1>1, WordOfBlock
  <2>2. word = DataOffset(c) + (cap - 1)
    BY <2>1, <1>1, <1>3
  <2> QED
    BY <2>1, <2>2
<1>5. \A a \in Addr : a # word => more[a] = m[a]
  BY <1>4
<1>6. more[word] = DataOffset(b)
  BY <1>4
<1>7. Held(new) = Held(ns[i]) \cup {cap}
  BY <1>1 DEF Held
<1>8. StartOf(more, new, cap) = DataOffset(b)
  BY <1>1, <1>6 DEF StartOf
<1>9. ASSUME NEW j \in File, NEW l \in Held(ns[j])
      PROVE  l \in Held(made[j]) /\ StartOf(more, made[j], l) = StartOf(m, ns[j], l)
  <2>1. l \in Held(made[j])
    BY <1>7
  <2>2. made[j].addr_0 = ns[j].addr_0 /\ made[j].addr_1 = ns[j].addr_1
    OBVIOUS
  <2>3. l \in Int /\ (l <= 0 => l = -1 \/ l = 0)
    BY DEF Held, Fits, NodeT
  <2>4. CASE l <= 0
    BY <2>1, <2>2, <2>3, <2>4 DEF StartOf
  <2>5. CASE l > 0
    <3>1. /\ ns[j].addr_1 + l - 1 \in Addr
          /\ DataOffset(BlockOf(ns[j].addr_1 + l - 1)) = ns[j].addr_1
          /\ -1 \in Held(ns[j]) /\ StartOf(m, ns[j], -1) = ns[j].addr_1
      BY <2>5, IndexInBlock, IndexWord DEF StartOf
    <3>2. ns[j].addr_1 + l - 1 # word
      <4>1. CASE j = i
        <5>1. l # cap
          BY <4>1, <1>1 DEF Held
        <5>2. ns[j].addr_1 \in Int
          BY <4>1, <1>3, <1>4
        <5> QED
          BY <4>1, <5>1, <5>2, <2>3, <1>1
      <4>2. CASE j # i
        <5>1. ns[j].addr_1 # ns[i].addr_1
          BY <4>2, <3>1, <1>2 DEF Layout
        <5> QED
          BY <5>1, <3>1, <1>3, <1>4
      <4> QED
        BY <4>1, <4>2
    <3>3. more[ns[j].addr_1 + l - 1] = m[ns[j].addr_1 + l - 1]
      BY <3>1, <3>2, <1>5
    <3> QED
      BY <3>3, <2>1, <2>2, <2>3, <2>5 DEF StartOf
  <2> QED
    BY <2>3, <2>4, <2>5
<1>10. ASSUME NEW j \in File, NEW l \in Held(made[j]), ~(j = i /\ l = cap)
       PROVE  /\ l \in Held(ns[j])
              /\ StartOf(more, made[j], l) = StartOf(m, ns[j], l)
              /\ StartOf(more, made[j], l) # DataOffset(b)
  <2>1. l \in Held(ns[j])
    BY <1>7, <1>10
  <2>2. StartOf(m, ns[j], l) # DataOffset(b)
    BY <2>1, HeldNotFree
  <2>3. StartOf(more, made[j], l) = StartOf(m, ns[j], l)
    BY <2>1, <1>9
  <2> QED
    BY <2>1, <2>2, <2>3
<1>11. ASSUME NEW j \in File, NEW k \in Held(made[j])
       PROVE  \E e \in used \cup {b} : StartOf(more, made[j], k) = DataOffset(e)
  <2>1. CASE (j = i /\ k = cap)
    BY <2>1, <1>8
  <2>2. CASE ~(j = i /\ k = cap)
    <3>1. k \in Held(ns[j]) /\ StartOf(more, made[j], k) = StartOf(m, ns[j], k)
      BY <2>2, <1>10
    <3> QED
      BY <3>1 DEF Layout
  <2> QED
    BY <2>1, <2>2
<1>12. ASSUME NEW j \in File, NEW l \in File, NEW k \in Held(made[j]), NEW h \in Held(made[l]),
              StartOf(more, made[j], k) = StartOf(more, made[l], h)
       PROVE  j = l /\ k = h
  <2>1. CASE (j = i /\ k = cap) /\ (l = i /\ h = cap)
    BY <2>1
  <2>2. CASE (j = i /\ k = cap) /\ ~(l = i /\ h = cap)
    BY <2>2, <1>8, <1>10, <1>12
  <2>3. CASE ~(j = i /\ k = cap) /\ (l = i /\ h = cap)
    BY <2>3, <1>8, <1>10, <1>12
  <2>4. CASE ~(j = i /\ k = cap) /\ ~(l = i /\ h = cap)
    <3>1. k \in Held(ns[j]) /\ h \in Held(ns[l]) /\ StartOf(m, ns[j], k) = StartOf(m, ns[l], h)
      BY <2>4, <1>10, <1>12
    <3> QED
      BY <3>1 DEF Layout
  <2> QED
    BY <2>1, <2>2, <2>3, <2>4
<1>13. \A a \in Addr : BlockOf(a) \in Blocks \ (used \cup {b}) => more[a] = 0
  BY <1>4, <1>5 DEF Layout
<1>14. Layout(used \cup {b}, more, made)
  BY <1>11, <1>12, <1>13 DEF Layout
<1> QED
  BY <1>9, <1>14 DEF Keeps

-----------------------------------------------------------------------------
(* Types and shapes *)

Typed == TypeOK /\ Shapes

LEMMA InitTyped == Init => Typed
<1> SUFFICES ASSUME Init PROVE Typed
  OBVIOUS
<1>1. NoNode \in NodeT
  BY ZeroWord DEF NoNode, NodeT
<1>2. TypeOK
  BY <1>1, FileAssumption DEF Init, TypeOK
<1>3. Created = {}
  BY DEF Init, Created
<1>4. Shapes
  BY <1>3 DEF Init, Shapes
<1> QED
  BY <1>2, <1>4 DEF Typed

\* The inode of a new file.
LEMMA NewNodeShaped ==
    ASSUME NEW b \in Blocks
    PROVE  LET n == [size |-> 0, cap |-> 1, addr_0 |-> DataOffset(b), addr_1 |-> NoAddr]
           IN  n \in NodeT /\ n # NoNode /\ WellShaped(n)
<1>1. DataOffset(b) \in Addr
  <2>1. DataOffset(b) \in Int /\ DataOffset(b) + 0 \in Addr
    BY WordOfBlock, ZeroWord
  <2> QED
    BY <2>1
<1> QED
  BY <1>1, ZeroWord DEF NodeT, NoNode, WellShaped

LEMMA OpeningTyped ==
    ASSUME Typed, NEW i \in File, Opening(i)
    PROVE  /\ taken' \subseteq Blocks
           /\ node' \in [File -> NodeT]
           /\ named' \subseteq Created'
           /\ fd_cnt' \in -1 .. MaxFd
           /\ DOMAIN fd_map' \subseteq 0 .. fd_cnt'
           /\ \A fd \in DOMAIN fd_map' : /\ fd_map'[fd] \in [file : File, off : 0 .. MaxOffset]
                                         /\ fd_map'[fd].file \in Created'
           /\ \A j \in Created' : WellShaped(node'[j])
           /\ fd_cnt' \in DOMAIN fd_map'
           /\ fd_map'[fd_cnt'] = [file |-> i, off |-> 0]
           /\ job = Idle
<1>1. TypeOK /\ Shapes
  BY DEF Typed
<1>2. /\ taken' \subseteq Blocks
      /\ node' \in [File -> NodeT]
      /\ named' \subseteq Created'
      /\ Created \subseteq Created'
      /\ i \in Created'
      /\ \A j \in Created' : WellShaped(node'[j])
  <2>1. CASE i \in named /\ UNCHANGED <<taken, node, named>>
    BY <2>1, <1>1 DEF TypeOK, Shapes, Created
  <2>2. CASE ~(i \in named /\ UNCHANGED <<taken, node, named>>)
    <3> DEFINE b == AllocDataBlock(taken)
               n == [size |-> 0, cap |-> 1, addr_0 |-> DataOffset(b), addr_1 |-> NoAddr]
    <3>1. /\ i \in NextFile
          /\ b # NoId
          /\ taken' = Taking(taken, b)
          /\ node' = [node EXCEPT ![i] = n]
          /\ named' = named \cup {i}
      BY <2>2 DEF Opening
    <3>2. b \in Blocks /\ n \in NodeT /\ n # NoNode /\ WellShaped(n)
      BY <3>1, AllocFree, NewNodeShaped
    <3> QED
      BY <3>1, <3>2, <1>1 DEF TypeOK, Shapes, Created, Taking
  <2> QED
    BY <2>1, <2>2
<1>3. /\ fd_cnt \in -1 .. MaxFd /\ fd_cnt < MaxFd /\ fd_cnt' = fd_cnt + 1
      /\ DOMAIN fd_map \subseteq 0 .. fd_cnt
      /\ fd_map' = [g \in DOMAIN fd_map \cup {fd_cnt + 1} |->
                       IF g = fd_cnt + 1 THEN [file |-> i, off |-> 0] ELSE fd_map[g]]
      /\ job = Idle
      /\ \A fd \in DOMAIN fd_map : /\ fd_map[fd] \in [file : File, off : 0 .. MaxOffset]
                                   /\ fd_map[fd].file \in Created
  BY <1>1 DEF Opening, TypeOK, Shapes, SetFD, Ready
<1>4. 0 \in 0 .. MaxOffset /\ MaxFd \in Nat
  <2>1. Cap1 \in Int
    BY ZeroWord DEF Cap1
  <2> QED
    BY <2>1, FileAssumption
<1>5. [file |-> i, off |-> 0] \in [file : File, off : 0 .. MaxOffset]
  BY <1>4
<1> QED
  BY <1>2, <1>3, <1>4, <1>5

LEMMA OpenTyped == ASSUME Typed, NEW i \in File, Open(i) PROVE Typed'
<1>1. Opening(i) /\ UNCHANGED <<mem, job>>
  BY DEF Open
<1>2. TypeOK'
  BY <1>1, OpeningTyped DEF Typed, TypeOK, Created
<1>3. Shapes'
  BY <1>1, OpeningTyped DEF Shapes
<1> QED
  BY <1>2, <1>3 DEF Typed

\* Commands that change a descriptor and nothing else.
LEMMA SetFDTyped ==
    ASSUME Typed, NEW fd \in DOMAIN fd_map, NEW off \in 0 .. MaxOffset, Seek(fd, off)
    PROVE  Typed'
<1>1. fd_map' = [g \in DOMAIN fd_map \cup {fd} |->
                    IF g = fd THEN [file |-> fd_map[fd].file, off |-> off] ELSE fd_map[g]]
  BY DEF Seek, SetFD
<1>2. fd_map[fd].file \in File
  BY DEF Typed, TypeOK
<1>3. DOMAIN fd_map' = DOMAIN fd_map
  BY <1>1
<1>4. TypeOK'
  BY <1>1, <1>2, <1>3 DEF Typed, TypeOK, Seek, Ready
<1>5. Shapes'
  BY <1>1, <1>2, <1>3 DEF Typed, Shapes, Seek, Ready, Created
<1> QED
  BY <1>4, <1>5 DEF Typed

LEMMA CommandsTyped ==
    ASSUME Typed
    PROVE  /\ \A fd \in DOMAIN fd_map : Close(fd) => Typed'
           /\ \A fd \in DOMAIN fd_map, off \in SeekTo : Seek(fd, off) => Typed'
           /\ \A fd \in DOMAIN fd_map, len \in ReadLen : Read(fd, len) => Typed'
           /\ \A i \in File : Export(i) => Typed'
           /\ \A i \in File : Remove(i) => Typed'
           /\ Restart => Typed'
           /\ UNCHANGED vars => Typed'
<1>1. ASSUME NEW fd \in DOMAIN fd_map, Close(fd) PROVE Typed'
  BY <1>1 DEF Typed, TypeOK, Shapes, Close, DropFD, Ready, Created
<1>2. ASSUME NEW fd \in DOMAIN fd_map, NEW off \in SeekTo, Seek(fd, off) PROVE Typed'
  BY <1>2, SetFDTyped, FileAssumption
<1>3. ASSUME NEW fd \in DOMAIN fd_map, NEW len \in ReadLen, Read(fd, len) PROVE Typed'
  <2>1. fd_map[fd].off + len \in 0 .. MaxOffset
    BY <1>3, FileAssumption DEF Read, Typed, TypeOK
  <2> QED
    BY <2>1, <1>3, SetFDTyped DEF Read
<1>4. ASSUME NEW i \in File, Export(i) PROVE Typed'
  BY <1>4, FileAssumption DEF Typed, TypeOK, Shapes, Export, Ready, Created
<1>5. ASSUME NEW i \in File, Remove(i) PROVE Typed'
  BY <1>5 DEF Typed, TypeOK, Shapes, Remove, Ready, Created
<1>6. ASSUME Restart PROVE Typed'
  <2>1. /\ fd_cnt' = -1 /\ fd_map' = [fd \in {} |-> 0] /\ job' = Idle
        /\ UNCHANGED <<taken, mem, node, named>>
    BY <1>6 DEF Restart
  <2>2. DOMAIN fd_map' = {}
    BY <2>1
  <2>3. TypeOK'
    BY <2>1, <2>2, FileAssumption DEF Typed, TypeOK
  <2>4. Shapes'
    BY <2>1, <2>2 DEF Typed, Shapes, Created
  <2> QED
    BY <2>3, <2>4 DEF Typed
<1>7. ASSUME UNCHANGED vars PROVE Typed'
  BY <1>7 DEF Typed, TypeOK, Shapes, vars, Created, Growing, Writing, Left
<1> QED
  BY <1>1, <1>2, <1>3, <1>4, <1>5, <1>6, <1>7

-----------------------------------------------------------------------------
(* The write under way *)

JobT == [fd : DOMAIN fd_map, node : NodeT, at : 0 .. MaxOffset,
         left : Seq(Nat), got : Blocks \cup {NoId, NotYet},
         closes : BOOLEAN, ends : BOOLEAN]

LEMMA JobFields ==
    ASSUME Typed, job # Idle
    PROVE  /\ job \in JobT
           /\ job.fd \in DOMAIN fd_map
           /\ fd_map[job.fd].file \in Created
           /\ job.node \in NodeT /\ WellShaped(job.node) /\ Fits(job.node)
           /\ job.at \in Nat /\ job.left \in Seq(Nat) /\ Len(job.left) \in Nat
           /\ job.at + Len(job.left) <= MaxOffset
           /\ MaxOffset \in Nat /\ MaxOffset <= DSize * DSize
<1>1. job \in JobT /\ fd_map[job.fd].file \in Created
  BY DEF Typed, TypeOK, Shapes, JobT
<1>2. MaxOffset \in 0 .. DSize * DSize
  BY FileAssumption DEF Cap1
<1>3. MaxOffset \in Nat /\ MaxOffset <= DSize * DSize
  BY <1>2, ZeroWord
<1>4. WellShaped(job.node) /\ job.at + Len(job.left) <= MaxOffset
  BY DEF Typed, Shapes
<1>5. Fits(job.node)
  BY <1>1, <1>4, ShapedFits DEF JobT
<1>6. job.left \in Seq(Nat) /\ Len(job.left) \in Nat
  BY <1>1 DEF JobT
<1> QED
  BY <1>1, <1>3, <1>4, <1>5, <1>6 DEF JobT

\* Any offset within the capacity has an address.
LEMMA AddressInt ==
    ASSUME NEW n \in NodeT, WellShaped(n), NEW m \in [Addr -> Int],
           NEW p \in Nat, p < n.cap * DSize
    PROVE  /\ BlockOf(p) \in Held(n)
           /\ BlockOf(p) >= 0
           /\ StartOf(m, n, BlockOf(p)) \in Int
           /\ CalcDiskAddr(m, n, p) \in Int
<1>1. n.cap \in Nat /\ DSize \in Nat
  BY ZeroWord DEF NodeT
<1>2. BlockOf(p) \in Nat /\ BlockOf(p) < n.cap /\ Inner(p) \in Int
  BY <1>1, OffsetParts
<1>3. BlockOf(p) \in Held(n)
  BY <1>1, <1>2 DEF Held
<1>4. StartOf(m, n, BlockOf(p)) \in Int
  <2>1. CASE BlockOf(p) = 0
    BY <2>1 DEF StartOf, NodeT, Addr
  <2>2. CASE BlockOf(p) > 0
    <3>1. n.cap # 1
      BY <2>2, <1>1, <1>2
    <3>2. PICK b \in Blocks \cup {NoId} : n.addr_1 = DataOffset(b)
      BY <3>1 DEF WellShaped
    <3>3. BlockOf(p) - 1 \in 0 .. DSize - 1
      BY <2>2, <1>1, <1>2 DEF WellShaped
    <3>4. DataOffset(b) \in Int /\ DataOffset(b) + (BlockOf(p) - 1) \in Addr
      BY <3>3, WordOfBlock
    <3>5. n.addr_1 + BlockOf(p) - 1 = DataOffset(b) + (BlockOf(p) - 1)
      BY <3>2, <3>4, <1>2
    <3>6. m[n.addr_1 + BlockOf(p) - 1] \in Int
      BY <3>4, <3>5
    <3> QED
      BY <3>6, <2>2, <1>2 DEF StartOf
  <2> QED
    BY <2>1, <2>2, <1>2
<1>5. CalcDiskAddr(m, n, p) \in Int
  BY <1>2, <1>4, AddressParts
<1> QED
  BY <1>2, <1>3, <1>4, <1>5

\* How much of a write goes into the current block.
Chunk == IF Len(job.left) <= DSize - Inner(job.at) THEN Len(job.left) ELSE DSize - Inner(job.at)

LEMMA ChunkFits ==
    ASSUME Typed, job # Idle
    PROVE  /\ Chunk \in 0 .. Len(job.left)
           /\ Inner(job.at) + Chunk <= DSize
           /\ Chunk = 0 => job.left = <<>>
           /\ SubSeq(job.left, 1, Chunk) \in Seq(Nat)
           /\ Len(SubSeq(job.left, 1, Chunk)) = Chunk
           /\ \A k \in 1 .. Chunk : SubSeq(job.left, 1, Chunk)[k] = job.left[k]
           /\ SubSeq(job.left, Chunk + 1, Len(job.left)) \in Seq(Nat)
           /\ Len(SubSeq(job.left, Chunk + 1, Len(job.left))) = Len(job.left) - Chunk
           /\ Chunk = Len(job.left) => SubSeq(job.left, Chunk + 1, Len(job.left)) = <<>>
<1>1. /\ job.at \in Nat /\ job.left \in Seq(Nat) /\ Len(job.left) \in Nat
      /\ DSize \in Nat /\ Inner(job.at) \in Nat /\ Inner(job.at) < DSize
      /\ DOMAIN job.left = 1 .. Len(job.left)
  <2>1. job.at \in Nat /\ job.left \in Seq(Nat)
    BY JobFields
  <2>2. Len(job.left) \in Nat /\ DOMAIN job.left = 1 .. Len(job.left)
    BY <2>1
  <2>3. DSize \in Nat /\ Inner(job.at) \in 0 .. DSize - 1
    BY <2>1, OffsetParts, ZeroWord
  <2> QED
    BY <2>1, <2>2, <2>3
<1>2. Chunk \in 0 .. Len(job.left) /\ Inner(job.at) + Chunk <= DSize /\ Chunk \in Nat
  BY <1>1 DEF Chunk
<1>3. Chunk = 0 => job.left = <<>>
  BY <1>1 DEF Chunk
<1>4. /\ SubSeq(job.left, 1, Chunk) \in Seq(Nat)
      /\ Len(SubSeq(job.left, 1, Chunk)) = Chunk
      /\ \A k \in 1 .. Chunk : SubSeq(job.left, 1, Chunk)[k] = job.left[k]
  <2>1. \A k \in 1 .. Chunk : job.left[k] \in Nat
    BY <1>1, <1>2
  <2>2. /\ SubSeq(job.left, 1, Chunk) \in Seq(Nat)
        /\ Len(SubSeq(job.left, 1, Chunk)) = IF 1 <= Chunk THEN Chunk - 1 + 1 ELSE 0
        /\ \A k \in 1 .. Chunk - 1 + 1 : SubSeq(job.left, 1, Chunk)[k] = job.left[1 + k - 1]
    BY <2>1, <1>2, SubSeqProperties
  <2>3. \A k \in 1 .. Chunk : 1 + k - 1 = k /\ k \in 1 .. Chunk - 1 + 1
    BY <1>2
  <2> QED
    BY <2>2, <2>3, <1>2
<1>5. /\ SubSeq(job.left, Chunk + 1, Len(job.left)) \in Seq(Nat)
      /\ Len(SubSeq(job.left, Chunk + 1, Len(job.left))) = Len(job.left) - Chunk
  <2>1. \A k \in Chunk + 1 .. Len(job.left) : job.left[k] \in Nat
    BY <1>1, <1>2
  <2>2. /\ SubSeq(job.left, Chunk + 1, Len(job.left)) \in Seq(Nat)
        /\ Len(SubSeq(job.left, Chunk + 1, Len(job.left))) =
              IF Chunk + 1 <= Len(job.left) THEN Len(job.left) - (Chunk + 1) + 1 ELSE 0
    <3>1. Chunk + 1 \in Int /\ Len(job.left) \in Int
      BY <1>1, <1>2
    <3> QED
      BY <3>1, <2>1, SubSeqProperties
  <2> QED
    BY <2>2, <1>1, <1>2
<1>6. Chunk = Len(job.left) => SubSeq(job.left, Chunk + 1, Len(job.left)) = <<>>
  <2>1. ASSUME Chunk = Len(job.left) PROVE SubSeq(job.left, Chunk + 1, Len(job.left)) = <<>>
    <3>1. Len(job.left) < Chunk + 1 /\ Chunk + 1 \in Int /\ Len(job.left) \in Int
      BY <2>1, <1>1
    <3> QED
      BY <3>1, SubSeqEmpty
  <2> QED
    BY <2>1
<1> QED
  BY <1>2, <1>3, <1>4, <1>5, <1>6

LEMMA WrittenTyped ==
    ASSUME NEW m \in [Addr -> Int], NEW a \in Int, NEW data \in Seq(Nat)
    PROVE  /\ Written(m, a, data) \in [Addr -> Int]
           /\ \A x \in Addr : Written(m, a, data)[x] =
                 IF x \in a .. a + Len(data) - 1 THEN data[x - a + 1] ELSE m[x]
<1>1. Len(data) \in Nat /\ \A k \in 1 .. Len(data) : data[k] \in Nat
  OBVIOUS
<1>2. Addr \subseteq Int
  BY DEF Addr
<1>3. \A x \in Addr : x \in a .. a + Len(data) - 1 => x - a + 1 \in 1 .. Len(data)
  BY <1>1, <1>2
<1> QED
  BY <1>1, <1>3 DEF Written

\* The parts of WriteBlock.
LEMMA WriteBlockParts ==
    ASSUME Typed, WriteBlock
    PROVE  /\ job # Idle /\ ~job.ends
           /\ job.at < job.node.cap * DSize
           /\ mem' = Written(mem, CalcDiskAddr(mem, job.node, job.at), SubSeq(job.left, 1, Chunk))
           /\ job' = [job EXCEPT !.at = job.at + Chunk,
                                 !.left = SubSeq(job.left, Chunk + 1, Len(job.left)),
                                 !.ends = (Len(job.left) <= DSize - Inner(job.at))]
           /\ UNCHANGED <<taken, node, named, fd_cnt, fd_map>>
<1>1. job # Idle
  BY DEF WriteBlock, Writing
<1>2. job.node.cap * DSize - job.at > 0 /\ job.at \in Nat
  BY <1>1, JobFields DEF WriteBlock, Left
<1>3. job.node.cap * DSize \in Int
  BY <1>1, JobFields, ZeroWord DEF NodeT
<1>4. job.at < job.node.cap * DSize
  BY <1>2, <1>3
<1> QED
  BY <1>1, <1>4 DEF WriteBlock, Writing, Chunk

\* A block does not end beyond the capacity.
LEMMA BlockInCapacity ==
    ASSUME NEW cap \in Nat, NEW p \in Nat, p < cap * DSize, NEW k \in Nat, Inner(p) + k <= DSize
    PROVE  p + k <= cap * DSize
<1>1. /\ BlockOf(p) \in Nat /\ BlockOf(p) < cap /\ Inner(p) \in Nat /\ DSize \in Nat
      /\ p = BlockOf(p) * DSize + Inner(p)
  BY OffsetParts, ZeroWord
<1>2. BlockOf(p) * DSize + DSize <= cap * DSize
  <2>1. (BlockOf(p) + 1) * DSize <= cap * DSize
    BY <1>1
  <2>2. (BlockOf(p) + 1) * DSize = BlockOf(p) * DSize + DSize
    BY <1>1
  <2> QED
    BY <2>1, <2>2
<1>3. BlockOf(p) * DSize \in Int /\ cap * DSize \in Int
  BY <1>1
<1> QED
  BY <1>1, <1>2, <1>3

LEMMA WriteBlockTyped == ASSUME Typed, WriteBlock PROVE Typed'
<1>1. /\ job # Idle
      /\ job.at < job.node.cap * DSize
      /\ mem' = Written(mem, CalcDiskAddr(mem, job.node, job.at), SubSeq(job.left, 1, Chunk))
      /\ job' = [job EXCEPT !.at = job.at + Chunk,
                            !.left = SubSeq(job.left, Chunk + 1, Len(job.left)),
                            !.ends = (Len(job.left) <= DSize - Inner(job.at))]
      /\ UNCHANGED <<taken, node, named, fd_cnt, fd_map>>
  BY WriteBlockParts
<1>2. TypeOK /\ Shapes
  BY DEF Typed
<1>3. mem' \in [Addr -> Int]
  <2>1. CalcDiskAddr(mem, job.node, job.at) \in Int
    BY <1>1, <1>2, JobFields, AddressInt DEF TypeOK
  <2> QED
    BY <2>1, <1>1, <1>2, ChunkFits, WrittenTyped DEF TypeOK
<1>4. /\ job \in JobT
      /\ job.at \in Nat /\ Len(job.left) \in Nat /\ MaxOffset \in Nat
      /\ job.at + Len(job.left) <= MaxOffset
      /\ job.node.cap \in Nat
  BY <1>1, JobFields DEF NodeT
<1>5. Chunk \in 0 .. Len(job.left) /\ Inner(job.at) + Chunk <= DSize /\ Chunk \in Nat
  BY <1>1, <1>4, ChunkFits
<1>6. job.at + Chunk \in 0 .. MaxOffset
  BY <1>4, <1>5
<1>7. job.at + Chunk <= job.node.cap * DSize
  BY <1>1, <1>4, <1>5, BlockInCapacity
<1>8. /\ SubSeq(job.left, Chunk + 1, Len(job.left)) \in Seq(Nat)
      /\ Len(SubSeq(job.left, Chunk + 1, Len(job.left))) = Len(job.left) - Chunk
      /\ Len(job.left) <= DSize - Inner(job.at) => SubSeq(job.left, Chunk + 1, Len(job.left)) = <<>>
  BY <1>1, ChunkFits DEF Chunk
<1>9. /\ job' \in JobT
      /\ job'.node = job.node /\ job'.fd = job.fd /\ job'.at = job.at + Chunk
      /\ job'.left = SubSeq(job.left, Chunk + 1, Len(job.left))
      /\ job'.ends = (Len(job.left) <= DSize - Inner(job.at))
  <2> DEFINE rest == SubSeq(job.left, Chunk + 1, Len(job.left))
             done == (Len(job.left) <= DSize - Inner(job.at))
  <2>1. done \in BOOLEAN /\ rest \in Seq(Nat)
    BY <1>8
  <2>2. job' = [job EXCEPT !.at = job.at + Chunk, !.left = rest, !.ends = done]
    BY <1>1
  <2> HIDE DEF rest, done
  <2>3. /\ job' \in JobT
        /\ job'.node = job.node /\ job'.fd = job.fd /\ job'.at = job.at + Chunk
        /\ job'.left = rest
        /\ job'.ends = done
    BY <2>1, <2>2, <1>4, <1>6 DEF JobT
  <2> QED
    BY <2>3 DEF rest, done
<1>10. TypeOK'
  BY <1>1, <1>2, <1>3, <1>9 DEF TypeOK, JobT
<1>11. job'.at + Len(job'.left) <= MaxOffset
  BY <1>4, <1>5, <1>8, <1>9
<1>12. job'.got = NotYet
  <2>1. job.node.cap * DSize \in Int
    BY <1>4, ZeroWord
  <2>2. ~(job.node.cap * DSize - job.at <= 0)
    BY <2>1, <1>1, <1>4
  <2>3. job.got # NotYet => Growing
    BY <1>1, <1>2 DEF Shapes
  <2>4. job.got = NotYet
    BY <2>2, <2>3 DEF Growing, Left
  <2> QED
    BY <2>4, <1>1, <1>4 DEF JobT
<1>13. Shapes'
  BY <1>1, <1>2, <1>7, <1>8, <1>9, <1>11, <1>12 DEF Shapes, Created
<1> QED
  BY <1>10, <1>13 DEF Typed

\* A write that has come to the end of its capacity.
LEMMA GrowingFacts ==
    ASSUME Typed, Growing
    PROVE  /\ job # Idle /\ ~job.ends
           /\ job.node.cap * DSize <= job.at
           /\ job.node.cap \in 1 .. DSize
<1>1. job # Idle /\ ~job.ends
  BY DEF Growing, Writing
<1>2. /\ job.node \in NodeT /\ job.at \in Nat /\ job.node.cap \in Nat
      /\ job.at <= DSize * DSize
      /\ job.node.cap \in 1 .. DSize + 1
  <2>1. /\ job.node \in NodeT /\ job.at \in Nat
        /\ Len(job.left) \in Nat /\ MaxOffset \in Nat /\ MaxOffset <= DSize * DSize
        /\ job.at + Len(job.left) <= MaxOffset
        /\ WellShaped(job.node)
    BY <1>1, JobFields
  <2>2. DSize * DSize \in Nat
    BY ZeroWord
  <2>3. job.at <= DSize * DSize
    BY <2>1, <2>2
  <2> QED
    BY <2>1, <2>3 DEF NodeT, WellShaped
<1>3. job.node.cap * DSize <= job.at
  <2>1. job.node.cap * DSize - job.at <= 0 /\ job.node.cap * DSize \in Int
    BY <1>2, ZeroWord DEF Growing, Left
  <2> QED
    BY <2>1, <1>2
<1>4. job.node.cap <= DSize
  <2>1. SUFFICES ASSUME job.node.cap = DSize + 1 PROVE FALSE
    BY <1>2, ZeroWord
  <2>2. job.node.cap * DSize = DSize * DSize + DSize
    BY <2>1, ZeroWord
  <2>3. DSize * DSize \in Nat
    BY ZeroWord
  <2> QED
    BY <1>2, <1>3, <2>2, <2>3, ZeroWord
<1> QED
  BY <1>1, <1>2, <1>3, <1>4

\* A step behind the capacity changes the copy of the inode and the block that
\* the write has taken.
GrowsTo(new, got) == /\ job' = [job EXCEPT !.node = new, !.got = got]
                     /\ UNCHANGED <<node, named, fd_cnt, fd_map>>

LEMMA GrowsTyped ==
    ASSUME Typed, Growing, NEW new \in NodeT, WellShaped(new), CopyExtends(job.node, new),
           NEW got \in Blocks \cup {NoId, NotYet},
           got # NotYet => new.cap * DSize <= job.at /\ new.addr_1 # NoAddr,
           GrowsTo(new, got), taken' \subseteq Blocks, mem' \in [Addr -> Int]
    PROVE  /\ Typed'
           /\ job' # Idle /\ job'.node = new /\ job'.got = got /\ job'.fd = job.fd
           /\ job'.at = job.at /\ job'.left = job.left
           /\ job'.closes = job.closes /\ job'.ends = job.ends
<1>1. TypeOK /\ Shapes /\ job # Idle /\ ~job.ends
  BY GrowingFacts DEF Typed
<1>2. /\ job \in JobT /\ job.node \in NodeT /\ job.at \in Nat
      /\ job.at + Len(job.left) <= MaxOffset
  BY <1>1, JobFields
<1>3. /\ job' \in JobT /\ job'.node = new /\ job'.got = got /\ job'.fd = job.fd
      /\ job'.at = job.at /\ job'.left = job.left
      /\ job'.closes = job.closes /\ job'.ends = job.ends
  BY <1>2 DEF JobT, GrowsTo
<1>4. job' # Idle
  <2>1. "at" \in DOMAIN job' /\ "at" \notin DOMAIN Idle
    BY <1>3 DEF JobT, Idle
  <2> QED
    BY <2>1
<1>5. CopyExtends(node[fd_map[job.fd].file], new)
  <2>1. CopyExtends(node[fd_map[job.fd].file], job.node)
    BY <1>1 DEF Shapes
  <2>2. fd_map[job.fd].file \in File
    BY <1>1, <1>2 DEF JobT, TypeOK
  <2>3. node[fd_map[job.fd].file].cap \in Nat /\ job.node.cap \in Nat /\ new.cap \in Nat
    BY <2>2, <1>1, <1>2 DEF TypeOK, NodeT
  <2> QED
    BY <2>1, <2>3 DEF CopyExtends
<1>6. got # NotYet => Growing' /\ new.addr_1 # NoAddr
  <2>1. ASSUME got # NotYet PROVE Growing'
    <3>1. new.cap * DSize \in Nat /\ new.cap * DSize <= job.at
      BY <2>1, ZeroWord DEF NodeT
    <3>2. new.cap * DSize - job.at <= 0
      BY <3>1, <1>2
    <3> QED
      BY <3>2, <1>1, <1>3, <1>4 DEF Growing, Writing, Left
  <2> QED
    BY <2>1
<1>7. TypeOK'
  BY <1>1, <1>3 DEF TypeOK, JobT, GrowsTo
<1>8. Shapes'
  BY <1>1, <1>2, <1>3, <1>5, <1>6 DEF Shapes, Created, GrowsTo
<1> QED
  BY <1>3, <1>4, <1>7, <1>8 DEF Typed

\* The block that is taken next, or -1.
NewB == AllocDataBlock(taken)

LEMMA NewBTaken ==
    ASSUME Typed
    PROVE  /\ NewB \in Blocks \cup {NoId}
           /\ Taking(taken, NewB) \subseteq Blocks
           /\ DataOffset(NewB) \in Addr /\ DataOffset(NewB) \in Int
           /\ DataOffset(NewB) # NoAddr
<1>1. NewB \in Blocks \cup {NoId}
  BY AllocFree DEF NewB
<1>2. DataOffset(NewB) \in Int /\ DataOffset(NewB) + 0 \in Addr
  BY <1>1, WordOfBlock, ZeroWord
<1> QED
  BY <1>1, <1>2, OffsetNotNoAddr DEF Taking, Typed, TypeOK

\* The inode with a level 1 block.
IndexNode == [job.node EXCEPT !.addr_1 = DataOffset(NewB)]

LEMMA AllocAddr1Parts ==
    ASSUME Typed, AllocAddr1
    PROVE  /\ Growing /\ job.node.addr_1 = NoAddr /\ job.node.cap = 1 /\ job.got = NotYet
           /\ taken' = Taking(taken, NewB) /\ mem' = mem
           /\ GrowsTo(IndexNode, NotYet)
           /\ IndexNode \in NodeT /\ WellShaped(IndexNode) /\ CopyExtends(job.node, IndexNode)
           /\ IndexNode.cap = 1 /\ IndexNode.addr_0 = job.node.addr_0
           /\ IndexNode.addr_1 = DataOffset(NewB) /\ IndexNode.addr_1 # NoAddr
<1>1. Growing /\ job # Idle /\ job.node.addr_1 = NoAddr
  BY GrowingFacts DEF AllocAddr1
<1>2. job \in JobT /\ job.node \in NodeT /\ WellShaped(job.node)
  BY <1>1, JobFields
<1>3. job.node.cap = 1 /\ job.got = NotYet
  BY <1>1, <1>2 DEF WellShaped, Typed, Shapes
<1>4. /\ IndexNode \in NodeT
      /\ IndexNode.cap = job.node.cap /\ IndexNode.addr_0 = job.node.addr_0
      /\ IndexNode.addr_1 = DataOffset(NewB) /\ IndexNode.size = job.node.size
  BY <1>2, NewBTaken DEF IndexNode, NodeT
<1>5. WellShaped(IndexNode)
  BY <1>2, <1>4, NewBTaken DEF WellShaped
<1>6. CopyExtends(job.node, IndexNode)
  BY <1>1, <1>2, <1>4 DEF CopyExtends, NodeT
<1>7. GrowsTo(IndexNode, NotYet) /\ taken' = Taking(taken, NewB) /\ mem' = mem
  <2>1. job' = [job EXCEPT !.node.addr_1 = DataOffset(NewB)]
    BY DEF AllocAddr1, NewB
  <2>2. job' = [job EXCEPT !.node = IndexNode, !.got = NotYet]
    BY <2>1, <1>2, <1>3 DEF IndexNode, JobT, NodeT
  <2> QED
    BY <2>2 DEF AllocAddr1, NewB, GrowsTo
<1> QED
  BY <1>1, <1>3, <1>4, <1>5, <1>6, <1>7, NewBTaken

LEMMA AllocAddr1Typed == ASSUME Typed, AllocAddr1 PROVE Typed'
BY AllocAddr1Parts, NewBTaken, GrowsTyped DEF Typed, TypeOK

LEMMA TakeBlockParts ==
    ASSUME Typed, TakeBlock
    PROVE  /\ Growing /\ job.node.addr_1 # NoAddr /\ job.got = NotYet
           /\ taken' = Taking(taken, NewB) /\ mem' = mem
           /\ GrowsTo(job.node, NewB)
           /\ job.node \in NodeT /\ WellShaped(job.node) /\ CopyExtends(job.node, job.node)
           /\ job.node.cap * DSize <= job.at
<1>1. /\ Growing /\ job # Idle /\ job.node.addr_1 # NoAddr /\ job.got = NotYet
      /\ job.node.cap * DSize <= job.at
  BY GrowingFacts DEF TakeBlock
<1>2. job \in JobT /\ job.node \in NodeT /\ WellShaped(job.node)
  BY <1>1, JobFields
<1>3. CopyExtends(job.node, job.node)
  BY <1>2 DEF CopyExtends, NodeT
<1>4. job' = [job EXCEPT !.node = job.node, !.got = NewB]
  <2>1. job' = [job EXCEPT !.got = NewB]
    BY DEF TakeBlock, NewB
  <2> QED
    BY <2>1, <1>2 DEF JobT
<1> QED
  BY <1>1, <1>2, <1>3, <1>4 DEF TakeBlock, NewB, GrowsTo

LEMMA TakeBlockTyped == ASSUME Typed, TakeBlock PROVE Typed'
<1>1. NewB # NotYet
  BY NewBTaken DEF Blocks
<1> QED
  BY <1>1, TakeBlockParts, NewBTaken, GrowsTyped DEF Typed, TypeOK

\* The inode with a block more.
GrownNode == [job.node EXCEPT !.cap = job.node.cap + 1]

LEMMA PutAddressParts ==
    ASSUME Typed, PutAddress
    PROVE  /\ Growing /\ job.got # NotYet /\ job.got \in Blocks \cup {NoId}
           /\ mem' = [mem EXCEPT ![job.node.addr_1 + job.node.cap - 1] = DataOffset(job.got)]
           /\ taken' = taken
           /\ GrowsTo(GrownNode, NotYet)
           /\ job.node.cap \in 1 .. DSize
           /\ job.node.addr_1 # NoAddr
           /\ \E c \in Blocks \cup {NoId} : job.node.addr_1 = DataOffset(c)
           /\ GrownNode \in NodeT /\ WellShaped(GrownNode) /\ CopyExtends(job.node, GrownNode)
           /\ GrownNode.cap = job.node.cap + 1
           /\ GrownNode.addr_0 = job.node.addr_0 /\ GrownNode.addr_1 = job.node.addr_1
<1>1. Growing /\ job # Idle /\ job.got # NotYet /\ job.node.cap \in 1 .. DSize
  BY GrowingFacts DEF PutAddress
<1>2. job \in JobT /\ job.node \in NodeT /\ WellShaped(job.node)
  BY <1>1, JobFields
<1>3. job.node.addr_1 # NoAddr
  BY <1>1 DEF Typed, Shapes
<1>4. PICK c \in Blocks \cup {NoId} : job.node.addr_1 = DataOffset(c)
  BY <1>2, <1>3 DEF WellShaped
<1>5. /\ GrownNode \in NodeT
      /\ GrownNode.cap = job.node.cap + 1 /\ GrownNode.addr_1 = job.node.addr_1
      /\ GrownNode.addr_0 = job.node.addr_0 /\ GrownNode.size = job.node.size
  BY <1>2 DEF GrownNode, NodeT
<1>6. WellShaped(GrownNode)
  <2>1. job.node.cap \in Nat /\ job.node.size \in Nat /\ job.node.size <= job.node.cap * DSize
    BY <1>2 DEF NodeT, WellShaped
  <2>2. (job.node.cap + 1) * DSize = job.node.cap * DSize + DSize /\ job.node.cap * DSize \in Nat
    BY <2>1, ZeroWord
  <2>3. GrownNode.size <= GrownNode.cap * DSize
    BY <2>1, <2>2, <1>5, ZeroWord
  <2>4. GrownNode.cap \in 1 .. DSize + 1
    BY <1>1, <1>5, ZeroWord
  <2> QED
    BY <2>3, <2>4, <1>3, <1>4, <1>5 DEF WellShaped
<1>7. CopyExtends(job.node, GrownNode)
  BY <1>2, <1>5 DEF CopyExtends, NodeT
<1>8. GrowsTo(GrownNode, NotYet)
  <2>1. job' = [job EXCEPT !.node.cap = job.node.cap + 1, !.got = NotYet]
    BY DEF PutAddress
  <2>2. job' = [job EXCEPT !.node = GrownNode, !.got = NotYet]
    BY <2>1, <1>2 DEF GrownNode, JobT, NodeT
  <2> QED
    BY <2>2 DEF PutAddress, GrowsTo
<1> QED
  BY <1>1, <1>2, <1>3, <1>4, <1>5, <1>6, <1>7, <1>8 DEF PutAddress, JobT

LEMMA PutAddressTyped == ASSUME Typed, PutAddress PROVE Typed'
<1>1. DataOffset(job.got) \in Int
  BY PutAddressParts, WordOfBlock, ZeroWord
<1>2. mem' \in [Addr -> Int] /\ taken' \subseteq Blocks
  BY <1>1, PutAddressParts DEF Typed, TypeOK
<1> QED
  BY <1>2, PutAddressParts, GrowsTyped

\* The inode that write_ stores.
EndNode == [job.node EXCEPT !.size = IF job.at <= job.node.size THEN job.node.size ELSE job.at]

LEMMA EndWriteParts ==
    ASSUME Typed, EndWrite
    PROVE  /\ job # Idle /\ job.ends
           /\ job.left = <<>>
           /\ node' = [node EXCEPT ![fd_map[job.fd].file] = EndNode]
           /\ EndNode \in NodeT /\ WellShaped(EndNode)
           /\ EndNode.cap = job.node.cap /\ EndNode.addr_0 = job.node.addr_0
           /\ EndNode.addr_1 = job.node.addr_1
           /\ EndNode.size = IF job.at <= job.node.size THEN job.node.size ELSE job.at
           /\ fd_map' = IF job.closes THEN DropFD(job.fd) ELSE SetFD(job.fd, fd_map[job.fd].file, job.at)
           /\ job' = Idle
           /\ UNCHANGED <<taken, mem, named, fd_cnt>>
<1>1. /\ job # Idle /\ job.ends
      /\ node' = [node EXCEPT ![fd_map[job.fd].file] = EndNode]
      /\ fd_map' = IF job.closes THEN DropFD(job.fd) ELSE SetFD(job.fd, fd_map[job.fd].file, job.at)
      /\ job' = Idle
      /\ UNCHANGED <<taken, mem, named, fd_cnt>>
  BY DEF EndWrite, EndNode
<1>2. job.node \in NodeT /\ WellShaped(job.node) /\ job.at \in Nat
  BY <1>1, JobFields
<1>3. job.left = <<>> /\ job.at <= job.node.cap * DSize
  BY <1>1 DEF Typed, Shapes
<1>4. /\ EndNode \in NodeT
      /\ EndNode.cap = job.node.cap /\ EndNode.addr_0 = job.node.addr_0
      /\ EndNode.addr_1 = job.node.addr_1
      /\ EndNode.size = IF job.at <= job.node.size THEN job.node.size ELSE job.at
  BY <1>2 DEF EndNode, NodeT
<1>5. WellShaped(EndNode)
  BY <1>2, <1>3, <1>4 DEF WellShaped
<1> QED
  BY <1>1, <1>3, <1>4, <1>5

LEMMA EndWriteTyped == ASSUME Typed, EndWrite PROVE Typed'
<1> DEFINE i == fd_map[job.fd].file
<1>1. /\ job # Idle
      /\ node' = [node EXCEPT ![i] = EndNode]
      /\ EndNode \in NodeT /\ WellShaped(EndNode)
      /\ fd_map' = IF job.closes THEN DropFD(job.fd) ELSE SetFD(job.fd, i, job.at)
      /\ job' = Idle
      /\ UNCHANGED <<taken, mem, named, fd_cnt>>
  BY EndWriteParts
<1>2. TypeOK /\ Shapes /\ job \in JobT /\ i \in Created /\ job.at \in 0 .. MaxOffset
  BY <1>1, JobFields DEF Typed, JobT
<1>3. EndNode # NoNode
  BY <1>1 DEF WellShaped, NoNode
<1>4. Created' = Created
  BY <1>1, <1>2, <1>3 DEF Created, TypeOK
<1>5. /\ DOMAIN fd_map' \subseteq DOMAIN fd_map
      /\ \A fd \in DOMAIN fd_map' : /\ fd_map'[fd] \in [file : File, off : 0 .. MaxOffset]
                                    /\ fd_map'[fd].file \in Created
  <2>1. CASE job.closes
    BY <2>1, <1>1, <1>2 DEF DropFD, TypeOK, Shapes
  <2>2. CASE ~job.closes
    <3>1. fd_map' = [g \in DOMAIN fd_map \cup {job.fd} |->
                        IF g = job.fd THEN [file |-> i, off |-> job.at] ELSE fd_map[g]]
      BY <2>2, <1>1 DEF SetFD
    <3>2. job.fd \in DOMAIN fd_map
      BY <1>2 DEF JobT
    <3>3. [file |-> i, off |-> job.at] \in [file : File, off : 0 .. MaxOffset]
      BY <1>2 DEF Created
    <3>4. DOMAIN fd_map' \subseteq DOMAIN fd_map
      BY <3>1, <3>2
    <3>5. ASSUME NEW fd \in DOMAIN fd_map'
          PROVE  /\ fd_map'[fd] \in [file : File, off : 0 .. MaxOffset]
                 /\ fd_map'[fd].file \in Created
      <4>1. CASE fd = job.fd
        BY <4>1, <3>1, <3>3, <1>2
      <4>2. CASE fd # job.fd
        BY <4>2, <3>1, <3>4, <1>2 DEF TypeOK, Shapes
      <4> QED
        BY <4>1, <4>2
    <3> QED
      BY <3>4, <3>5
  <2> QED
    BY <2>1, <2>2
<1>6. TypeOK'
  BY <1>1, <1>2, <1>5 DEF TypeOK
<1>7. Shapes'
  BY <1>1, <1>2, <1>4, <1>5 DEF Shapes, TypeOK, Created
<1> QED
  BY <1>6, <1>7 DEF Typed

LEMMA BeginWriteTyped ==
    ASSUME Typed, NEW fd \in DOMAIN fd_map, NEW data \in Data, BeginWrite(fd, data)
    PROVE  Typed'
<1> DEFINE i == fd_map[fd].file
           new == [fd |-> fd, node |-> node[i], at |-> fd_map[fd].off,
                   left |-> data, got |-> NotYet, closes |-> FALSE, ends |-> FALSE]
<1>1. TypeOK /\ Shapes
  BY DEF Typed
<1>2. /\ job' = new /\ fd_map[fd].off + Len(data) <= MaxOffset
      /\ UNCHANGED <<taken, mem, node, named, fd_cnt, fd_map>>
  BY DEF BeginWrite
<1>3. i \in Created /\ node[i] \in NodeT /\ WellShaped(node[i]) /\ fd_map[fd].off \in 0 .. MaxOffset
  BY <1>1 DEF TypeOK, Shapes, Created
<1>4. data \in Seq(Nat)
  BY FileAssumption
<1>5. new \in JobT
  BY <1>3, <1>4 DEF JobT
<1>6. CopyExtends(node[i], node[i])
  BY <1>3 DEF CopyExtends, NodeT
<1>7. TypeOK'
  BY <1>1, <1>2, <1>5 DEF TypeOK, JobT
<1>8. Shapes'
  BY <1>1, <1>2, <1>3, <1>6 DEF Shapes, Created
<1> QED
  BY <1>7, <1>8 DEF Typed

LEMMA ImportTyped ==
    ASSUME Typed, NEW i \in File, NEW data \in Data, Import(i, data)
    PROVE  Typed'
<1> DEFINE new == [fd |-> fd_cnt', node |-> node'[i], at |-> 0,
                   left |-> data, got |-> NotYet, closes |-> TRUE, ends |-> FALSE]
<1>1. Opening(i) /\ Len(data) <= MaxOffset /\ job' = new /\ UNCHANGED mem
  BY DEF Import
<1>2. /\ taken' \subseteq Blocks
      /\ node' \in [File -> NodeT]
      /\ named' \subseteq Created'
      /\ fd_cnt' \in -1 .. MaxFd
      /\ DOMAIN fd_map' \subseteq 0 .. fd_cnt'
      /\ \A fd \in DOMAIN fd_map' : /\ fd_map'[fd] \in [file : File, off : 0 .. MaxOffset]
                                    /\ fd_map'[fd].file \in Created'
      /\ \A j \in Created' : WellShaped(node'[j])
      /\ fd_cnt' \in DOMAIN fd_map'
      /\ fd_map'[fd_cnt'] = [file |-> i, off |-> 0]
  BY <1>1, OpeningTyped
<1>3. /\ fd_map'[fd_cnt'].file = i /\ i \in Created'
      /\ node'[i] \in NodeT /\ WellShaped(node'[i])
  BY <1>2
<1>4. data \in Seq(Nat) /\ Len(data) \in Nat /\ MaxOffset \in Nat
  <2>1. Cap1 \in Int
    BY ZeroWord DEF Cap1
  <2> QED
    BY <2>1, FileAssumption
<1>5. new \in [fd : DOMAIN fd_map', node : NodeT, at : 0 .. MaxOffset,
               left : Seq(Nat), got : Blocks \cup {NoId, NotYet},
               closes : BOOLEAN, ends : BOOLEAN]
  BY <1>2, <1>3, <1>4
<1>6. CopyExtends(node'[i], node'[i])
  BY <1>3 DEF CopyExtends, NodeT
<1>7. TypeOK'
  BY <1>1, <1>2, <1>5 DEF Typed, TypeOK, Created
<1>8. Shapes'
  BY <1>1, <1>2, <1>3, <1>4, <1>6 DEF Shapes
<1> QED
  BY <1>7, <1>8 DEF Typed

LEMMA NextTyped == Typed /\ [Next]_vars => Typed'
<1> SUFFICES ASSUME Typed, [Next]_vars PROVE Typed'
  OBVIOUS
<1> USE OpenTyped, CommandsTyped, BeginWriteTyped, ImportTyped,
        WriteBlockTyped, AllocAddr1Typed, TakeBlockTyped, PutAddressTyped, EndWriteTyped
<1>1. ASSUME NEW i \in File, Open(i) \/ Export(i) \/ Remove(i) PROVE Typed'
  BY <1>1
<1>2. ASSUME NEW fd \in DOMAIN fd_map,
             \/ Close(fd)
             \/ \E off \in SeekTo : Seek(fd, off)
             \/ \E len \in ReadLen : Read(fd, len)
             \/ \E data \in Data : BeginWrite(fd, data)
      PROVE  Typed'
  BY <1>2
<1>3. ASSUME NEW i \in File, NEW data \in Data, Import(i, data) PROVE Typed'
  BY <1>3
<1>4. CASE Continue
  BY <1>4 DEF Continue
<1>5. CASE Restart \/ UNCHANGED vars
  BY <1>5
<1> QED
  BY <1>1, <1>2, <1>3, <1>4, <1>5 DEF Next

LEMMA TypedCorrect == Spec => []Typed
<1> QED
  BY InitTyped, NextTyped, PTL DEF Spec

\* Every command, each block of a write and the end of the process keep the
\* types of all variables, on a full disk too, where block -1 is in use: what
\* calcDiskAddr reads as an address is a word of the disk.
THEOREM FileTypeCorrect == Spec => []TypeOK
<1>1. Typed => TypeOK
  BY DEF Typed
<1> QED
  BY <1>1, TypedCorrect, PTL

-----------------------------------------------------------------------------
(* The layout, while no block is missing *)

Mapped == Layout(taken, mem, CurrentNodes) /\ PendingSound /\ Roomy

\* The inodes as they are on the disk, and as the write under way sees them.
LEMMA CurrentCases ==
    ASSUME Typed
    PROVE  /\ \A i \in File : CurrentNodes[i] = Current(i)
           /\ \A i \in File : node[i] \in NodeT /\ Fits(node[i]) /\ (i \in Created => WellShaped(node[i]))
           /\ \A i \in File : CurrentNodes[i] \in NodeT /\ Fits(CurrentNodes[i])
           /\ \A i \in Created : WellShaped(CurrentNodes[i])
           /\ \A i \in File : Begins(node[i], CurrentNodes[i])
           /\ job = Idle => \A i \in File : CurrentNodes[i] = node[i]
<1>1. \A i \in File : CurrentNodes[i] = Current(i)
  BY DEF CurrentNodes
<1>2. ASSUME NEW i \in File PROVE node[i] \in NodeT /\ Fits(node[i]) /\ (i \in Created => WellShaped(node[i]))
  BY ShapedFits DEF Typed, TypeOK, Shapes, Created
<1>3. ASSUME NEW i \in File
      PROVE  /\ Current(i) \in NodeT /\ Fits(Current(i))
             /\ i \in Created => WellShaped(Current(i))
             /\ Begins(node[i], Current(i))
  <2>1. CASE job # Idle /\ fd_map[job.fd].file = i
    <3>1. Current(i) = job.node /\ job.node \in NodeT /\ WellShaped(job.node) /\ Fits(job.node)
      BY <2>1, JobFields DEF Current
    <3>2. CopyExtends(node[i], job.node)
      BY <2>1 DEF Typed, Shapes
    <3> QED
      BY <3>1, <3>2 DEF CopyExtends, Begins
  <2>2. CASE ~(job # Idle /\ fd_map[job.fd].file = i)
    <3>1. Current(i) = node[i]
      BY <2>2 DEF Current
    <3>2. node[i].cap <= node[i].cap
      BY <1>2 DEF NodeT
    <3> QED
      BY <3>1, <3>2, <1>2 DEF Begins
  <2> QED
    BY <2>1, <2>2
<1>4. job = Idle => \A i \in File : CurrentNodes[i] = node[i]
  BY <1>1 DEF Current
<1> QED
  BY <1>1, <1>2, <1>3, <1>4 DEF Created

LEMMA LayoutSame ==
    ASSUME NEW used, NEW m, NEW ns, NEW other, \A i \in File : other[i] = ns[i], Layout(used, m, ns)
    PROVE  Layout(used, m, other)
BY DEF Layout

LEMMA InitMapped == Init => Mapped
<1> SUFFICES ASSUME Init PROVE Mapped
  OBVIOUS
<1>1. \A i \in File : CurrentNodes[i] = NoNode
  BY DEF Init, CurrentNodes, Current
<1>2. Held(NoNode) = {}
  BY DEF Held, NoNode
<1>3. \A a \in Addr : mem[a] = 0
  BY DEF Init
<1> QED
  BY <1>1, <1>2, <1>3 DEF Mapped, Layout, PendingSound, Roomy, Init

\* open, as a command and in import.
LEMMA OpeningMapped ==
    ASSUME Typed, Mapped, NEW i \in File, Opening(i)
    PROVE  Layout(taken', mem, node')
<1>1. job = Idle /\ taken \in SUBSET Blocks /\ node \in [File -> NodeT]
  BY DEF Opening, Ready, Typed, TypeOK
<1>2. Layout(taken, mem, node)
  BY <1>1, CurrentCases, LayoutSame DEF Mapped
<1>3. CASE i \in named /\ UNCHANGED <<taken, node, named>>
  BY <1>2, <1>3
<1>4. CASE ~(i \in named /\ UNCHANGED <<taken, node, named>>)
  <2> DEFINE b == AllocDataBlock(taken)
             n == [size |-> 0, cap |-> 1, addr_0 |-> DataOffset(b), addr_1 |-> NoAddr]
  <2>1. b # NoId /\ taken' = Taking(taken, b) /\ node' = [node EXCEPT ![i] = n]
    BY <1>4 DEF Opening
  <2>2. b \in Blocks \ taken
    BY <2>1, AllocFree
  <2>3. taken' = taken \cup {b}
    BY <2>1, <2>2 DEF Taking
  <2>4. \A j \in File : node'[j] = IF j = i THEN n ELSE node[j]
    BY <2>1, <1>1
  <2>5. n.cap = 1 /\ n.addr_0 = DataOffset(b) /\ n.addr_1 = NoAddr
    OBVIOUS
  <2> HIDE DEF b, n
  <2>6. Layout(taken \cup {b}, mem, node')
    BY <1>1, <1>2, <2>2, <2>4, <2>5, LayoutCreates
  <2> QED
    BY <2>3, <2>6
<1> QED
  BY <1>3, <1>4

LEMMA OpenMapped == ASSUME Typed, Typed', Mapped, NEW i \in File, Open(i) PROVE Mapped'
<1>1. Opening(i) /\ mem' = mem /\ job' = job /\ job = Idle
  BY DEF Open, Opening, Ready
<1>2. Layout(taken', mem', node')
  BY <1>1, OpeningMapped
<1>3. \A j \in File : CurrentNodes'[j] = node'[j]
  BY <1>1 DEF CurrentNodes, Current
<1> QED
  BY <1>1, <1>2, <1>3, LayoutSame DEF Mapped, PendingSound, Roomy

LEMMA ImportMapped ==
    ASSUME Typed, Typed', Mapped, NEW i \in File, NEW data \in Data, Import(i, data)
    PROVE  Mapped'
<1>1. /\ Opening(i) /\ mem' = mem
      /\ HasRoom(taken', node'[i], Len(data))
      /\ job' = [fd |-> fd_cnt', node |-> node'[i], at |-> 0,
                 left |-> data, got |-> NotYet, closes |-> TRUE, ends |-> FALSE]
  BY DEF Import
<1>2. Layout(taken', mem', node')
  BY <1>1, OpeningMapped
<1>3. fd_map'[fd_cnt'] = [file |-> i, off |-> 0]
  BY <1>1, OpeningTyped
<1>4. \A j \in File : CurrentNodes'[j] = node'[j]
  BY <1>1, <1>3 DEF CurrentNodes, Current
<1>5. HasRoom(taken', job'.node, job'.at + Len(job'.left))
  <2>1. job'.node = node'[i] /\ job'.at = 0 /\ job'.left = data /\ Len(data) \in Nat
    BY <1>1, FileAssumption
  <2>2. job'.at + Len(job'.left) = Len(data)
    BY <2>1
  <2> QED
    BY <2>1, <2>2, <1>1
<1>6. Layout(taken, mem, CurrentNodes)'
  BY <1>2, <1>4, LayoutSame
<1>7. Roomy' /\ PendingSound'
  BY <1>1, <1>5 DEF Roomy, Counted, PendingSound, HasRoom, Needs
<1> QED
  BY <1>6, <1>7 DEF Mapped

LEMMA BeginWriteMapped ==
    ASSUME Typed, Typed', Mapped, NEW fd \in DOMAIN fd_map, NEW data \in Data, BeginWrite(fd, data)
    PROVE  Mapped'
<1>1. /\ job = Idle
      /\ HasRoom(taken, node[fd_map[fd].file], fd_map[fd].off + Len(data))
      /\ job' = [fd |-> fd, node |-> node[fd_map[fd].file], at |-> fd_map[fd].off,
                 left |-> data, got |-> NotYet, closes |-> FALSE, ends |-> FALSE]
      /\ UNCHANGED <<taken, mem, node, named, fd_cnt, fd_map>>
  BY DEF BeginWrite, Ready
<1>2. \A j \in File : CurrentNodes'[j] = node[j]
  BY <1>1 DEF CurrentNodes, Current
<1>3. \A j \in File : CurrentNodes[j] = node[j]
  BY <1>1, CurrentCases
<1>4. Layout(taken, mem, CurrentNodes)'
  BY <1>1, <1>2, <1>3, LayoutSame DEF Mapped
<1>5. Roomy' /\ PendingSound'
  BY <1>1 DEF Roomy, Counted, PendingSound, HasRoom, Needs
<1> QED
  BY <1>4, <1>5 DEF Mapped

LEMMA CommandsMapped ==
    ASSUME Typed, Mapped
    PROVE  /\ \A fd \in DOMAIN fd_map : Close(fd) => Mapped'
           /\ \A fd \in DOMAIN fd_map, off \in SeekTo : Seek(fd, off) => Mapped'
           /\ \A fd \in DOMAIN fd_map, len \in ReadLen : Read(fd, len) => Mapped'
           /\ \A i \in File : Export(i) => Mapped'
           /\ \A i \in File : Remove(i) => Mapped'
           /\ Restart => Mapped'
           /\ UNCHANGED vars => Mapped'
<1>1. ASSUME job = Idle, job' = Idle, mem' = mem, node' = node, taken \subseteq taken' PROVE Mapped'
  <2>1. \A j \in File : CurrentNodes'[j] = node[j] /\ CurrentNodes[j] = node[j]
    BY <1>1 DEF CurrentNodes, Current
  <2>2. Layout(taken, mem, CurrentNodes')
    BY <2>1, LayoutSame DEF Mapped
  <2>3. Layout(taken', mem, CurrentNodes')
    BY <2>2, <1>1, LayoutTakes
  <2> QED
    BY <2>3, <1>1 DEF Mapped, PendingSound, Roomy
<1>2. ASSUME NEW fd \in DOMAIN fd_map, Close(fd) PROVE Mapped'
  BY <1>1, <1>2 DEF Close, Ready
<1>3. ASSUME NEW fd \in DOMAIN fd_map, NEW off \in SeekTo, Seek(fd, off) PROVE Mapped'
  BY <1>1, <1>3 DEF Seek, Ready
<1>4. ASSUME NEW fd \in DOMAIN fd_map, NEW len \in ReadLen, Read(fd, len) PROVE Mapped'
  BY <1>1, <1>4 DEF Read, Seek, Ready
<1>5. ASSUME NEW i \in File, Export(i) PROVE Mapped'
  BY <1>1, <1>5 DEF Export, Ready
<1>6. ASSUME NEW i \in File, Remove(i) PROVE Mapped'
  BY <1>1, <1>6 DEF Remove, Ready
<1>7. ASSUME Restart PROVE Mapped'
  <2>1. job' = Idle /\ UNCHANGED <<taken, mem, node, named>>
    BY <1>7 DEF Restart
  <2>2. \A j \in File : CurrentNodes'[j] = node[j]
    BY <2>1 DEF CurrentNodes, Current
  <2>3. Layout(taken, mem, node)
    BY CurrentCases, LayoutShrinks DEF Mapped
  <2>4. Layout(taken, mem, CurrentNodes')
    BY <2>2, <2>3, LayoutSame
  <2> QED
    BY <2>1, <2>4 DEF Mapped, PendingSound, Roomy
<1>8. ASSUME UNCHANGED vars PROVE Mapped'
  <2>1. UNCHANGED <<taken, mem, node, job, fd_map>>
    BY <1>8 DEF vars
  <2>2. \A j \in File : CurrentNodes'[j] = CurrentNodes[j]
    BY <2>1 DEF CurrentNodes, Current
  <2>3. Layout(taken, mem, CurrentNodes')
    BY <2>2, LayoutSame DEF Mapped
  <2>4. PendingSound'
    BY <2>1, <2>2 DEF Mapped, PendingSound, Pending
  <2> QED
    BY <2>1, <2>3, <2>4 DEF Mapped, Roomy, Counted, HasRoom, Needs
<1> QED
  BY <1>2, <1>3, <1>4, <1>5, <1>6, <1>7, <1>8

LEMMA EndWriteMapped == ASSUME Typed, Typed', Mapped, EndWrite PROVE Mapped'
<1> DEFINE i == fd_map[job.fd].file
<1>1. /\ job # Idle /\ job' = Idle
      /\ node' = [node EXCEPT ![i] = EndNode]
      /\ EndNode \in NodeT /\ WellShaped(EndNode)
      /\ EndNode.cap = job.node.cap /\ EndNode.addr_0 = job.node.addr_0
      /\ EndNode.addr_1 = job.node.addr_1
      /\ UNCHANGED <<taken, mem>>
  BY EndWriteParts
<1>2. /\ \A j \in File : CurrentNodes'[j] = node'[j] /\ CurrentNodes[j] = Current(j)
      /\ node \in [File -> NodeT]
  BY <1>1 DEF CurrentNodes, Current, Typed, TypeOK
<1>3. ASSUME NEW j \in File
      PROVE  Fits(node'[j]) /\ Fits(Current(j)) /\ Begins(node'[j], Current(j))
  <2>1. Fits(Current(j)) /\ Fits(node[j]) /\ Begins(node[j], Current(j))
    BY <1>2, CurrentCases
  <2>2. CASE j = i
    <3>1. node'[j] = EndNode /\ Current(j) = job.node
      BY <2>2, <1>1, <1>2 DEF Current
    <3>2. job.node \in NodeT
      BY <1>1, JobFields
    <3> QED
      BY <3>1, <3>2, <2>1, <1>1, ShapedFits DEF Begins, NodeT
  <2>3. CASE j # i
    BY <2>1, <2>3, <1>1, <1>2
  <2> QED
    BY <2>2, <2>3
<1>4. Layout(taken, mem, node')
  BY <1>2, <1>3, LayoutShrinks DEF Mapped
<1>5. Layout(taken, mem, CurrentNodes)'
  BY <1>1, <1>2, <1>4, LayoutSame
<1> QED
  BY <1>1, <1>5 DEF Mapped, PendingSound, Roomy

\* A step of writeData within the capacity: in the block of the offset the words
\* of the chunk, and nothing else; no block moves.
LEMMA WriteBlockEffect ==
    ASSUME Typed, Mapped, WriteBlock
    PROVE  LET i == fd_map[job.fd].file
               a == CalcDiskAddr(mem, job.node, job.at)
           IN  /\ i \in Created /\ CurrentNodes[i] = job.node
               /\ \A j \in File : CurrentNodes'[j] = CurrentNodes[j]
               /\ a \in Int
               /\ \A x \in Addr : mem'[x] = IF x \in a .. a + Chunk - 1 THEN job.left[x - a + 1] ELSE mem[x]
               /\ Layout(taken, mem', CurrentNodes)
               /\ \A j \in File : \A l \in Held(CurrentNodes[j]) :
                     StartOf(mem', CurrentNodes[j], l) = StartOf(mem, CurrentNodes[j], l)
<1> DEFINE i == fd_map[job.fd].file
           a == CalcDiskAddr(mem, job.node, job.at)
           k == BlockOf(job.at)
           data == SubSeq(job.left, 1, Chunk)
<1>1. /\ job # Idle
      /\ job.at < job.node.cap * DSize
      /\ mem' = Written(mem, a, data)
      /\ UNCHANGED <<taken, node, named, fd_cnt, fd_map>>
  BY WriteBlockParts
<1>2. /\ i \in Created /\ i \in File /\ job.node \in NodeT /\ WellShaped(job.node) /\ job.at \in Nat
      /\ mem \in [Addr -> Int] /\ taken \in SUBSET Blocks
  BY <1>1, JobFields DEF Created, Typed, TypeOK
<1>3. job' # Idle /\ job'.node = job.node /\ job'.fd = job.fd
  <2>1. job' = [job EXCEPT !.at = job.at + Chunk,
                           !.left = SubSeq(job.left, Chunk + 1, Len(job.left)),
                           !.ends = (Len(job.left) <= DSize - Inner(job.at))]
    BY WriteBlockParts
  <2>2. job \in JobT
    BY <1>1, JobFields
  <2>3. DOMAIN job' = DOMAIN job
    BY <2>1, <2>2 DEF JobT
  <2>4. "at" \in DOMAIN job /\ "at" \notin DOMAIN Idle
    BY <2>2 DEF JobT, Idle
  <2>5. job' # Idle
    BY <2>3, <2>4
  <2> QED
    BY <2>1, <2>2, <2>5 DEF JobT
<1>4. CurrentNodes[i] = job.node
  BY <1>1, <1>2, CurrentCases DEF Current
<1>5. \A j \in File : CurrentNodes'[j] = CurrentNodes[j]
  BY <1>1, <1>3 DEF CurrentNodes, Current
<1>6. /\ k \in Held(job.node) /\ k >= 0
      /\ StartOf(mem, job.node, k) \in Int
      /\ a \in Int
  BY <1>1, <1>2, AddressInt
<1>7. /\ data \in Seq(Nat) /\ Len(data) = Chunk /\ Chunk \in Nat
      /\ \A q \in 1 .. Chunk : data[q] = job.left[q]
      /\ Inner(job.at) + Chunk <= DSize
  <2>1. Len(job.left) \in Nat
    BY <1>1, JobFields
  <2>2. Chunk \in 0 .. Len(job.left)
    BY <1>1, ChunkFits
  <2>3. Chunk \in Nat
    BY <2>1, <2>2
  <2> QED
    BY <2>3, <1>1, ChunkFits
<1>8. \A x \in Addr : mem'[x] = IF x \in a .. a + Len(data) - 1 THEN data[x - a + 1] ELSE mem[x]
  <2> HIDE DEF a, data
  <2>1. mem \in [Addr -> Int] /\ a \in Int /\ data \in Seq(Nat)
    BY <1>2, <1>6, <1>7
  <2> QED
    BY <2>1, <1>1, WrittenTyped
<1>9. Addr \subseteq Int
  BY DEF Addr
<1>10. \A x \in Addr : mem'[x] = IF x \in a .. a + Chunk - 1 THEN job.left[x - a + 1] ELSE mem[x]
  <2>1. ASSUME NEW x \in Addr, x \in a .. a + Chunk - 1 PROVE data[x - a + 1] = job.left[x - a + 1]
    <3>1. x - a + 1 \in 1 .. Chunk
      BY <2>1, <1>6, <1>7, <1>9
    <3> QED
      BY <3>1, <1>7
  <2> QED
    BY <2>1, <1>7, <1>8
<1>11. ASSUME NEW x \in Addr, mem'[x] # mem[x]
       PROVE  BlockOf(x) = BlockOf(StartOf(mem, CurrentNodes[i], k))
  <2>1. x \in a .. a + Chunk - 1
    BY <1>10, <1>11
  <2>2. PICK b \in taken : StartOf(mem, job.node, k) = DataOffset(b)
    BY <1>2, <1>4, <1>6 DEF Mapped, Layout
  <2>3. a = DataOffset(b) + Inner(job.at) /\ Inner(job.at) \in 0 .. DSize - 1
    BY <2>2, <1>2, AddressParts, OffsetParts
  <2>4. DataOffset(b) \in Int /\ BlockOf(DataOffset(b) + 0) = b
    BY <1>2, WordOfBlock, ZeroWord
  <2>5. x - DataOffset(b) \in 0 .. DSize - 1
    BY <2>1, <2>3, <2>4, <1>7, <1>9, ZeroWord
  <2>6. BlockOf(DataOffset(b) + (x - DataOffset(b))) = b
    BY <2>5, <1>2, WordOfBlock
  <2>7. DataOffset(b) + (x - DataOffset(b)) = x /\ DataOffset(b) + 0 = DataOffset(b)
    BY <2>4, <1>9
  <2> QED
    BY <2>2, <2>4, <2>6, <2>7, <1>4
<1>12. /\ Layout(taken, mem', CurrentNodes)
       /\ \A j \in File : \A l \in Held(CurrentNodes[j]) :
             StartOf(mem', CurrentNodes[j], l) = StartOf(mem, CurrentNodes[j], l)
  <2>1. Layout(taken, mem, CurrentNodes) /\ \A j \in File : Fits(CurrentNodes[j])
    BY CurrentCases DEF Mapped
  <2>2. k \in Held(CurrentNodes[i])
    BY <1>4, <1>6
  <2>3. \A x \in Addr : mem'[x] # mem[x] => BlockOf(x) = BlockOf(StartOf(mem, CurrentNodes[i], k))
    BY <1>11
  <2>4. taken \in SUBSET Blocks /\ i \in File /\ k >= 0
    BY <1>2, <1>6
  <2> HIDE DEF i, k
  <2>5. ASSUME NEW new,
               \A x \in Addr : new[x] # mem[x] => BlockOf(x) = BlockOf(StartOf(mem, CurrentNodes[i], k))
        PROVE  /\ Layout(taken, new, CurrentNodes)
               /\ \A j \in File : \A l \in Held(CurrentNodes[j]) :
                     StartOf(new, CurrentNodes[j], l) = StartOf(mem, CurrentNodes[j], l)
    BY <2>1, <2>2, <2>4, <2>5, LayoutWrites
  <2> QED
    BY <2>3, <2>5
<1> QED
  BY <1>2, <1>4, <1>5, <1>6, <1>10, <1>12

LEMMA WriteBlockMapped == ASSUME Typed, Mapped, WriteBlock PROVE Mapped'
<1>1. /\ job # Idle
      /\ job' = [job EXCEPT !.at = job.at + Chunk,
                            !.left = SubSeq(job.left, Chunk + 1, Len(job.left)),
                            !.ends = (Len(job.left) <= DSize - Inner(job.at))]
      /\ taken' = taken
  BY WriteBlockParts
<1>2. Layout(taken, mem, CurrentNodes)'
  BY <1>1, WriteBlockEffect, LayoutSame
<1>3. job'.at + Len(job'.left) = job.at + Len(job.left) /\ job'.node = job.node
  <2>1. /\ Chunk \in 0 .. Len(job.left)
        /\ Len(SubSeq(job.left, Chunk + 1, Len(job.left))) = Len(job.left) - Chunk
    BY <1>1, ChunkFits
  <2>2. job \in JobT /\ job.at \in Nat /\ Len(job.left) \in Nat
    BY <1>1, JobFields
  <2>3. job'.at = job.at + Chunk /\ job'.node = job.node
        /\ job'.left = SubSeq(job.left, Chunk + 1, Len(job.left))
    BY <1>1, <2>2 DEF JobT
  <2> QED
    BY <2>1, <2>2, <2>3
<1>4. job.got = NotYet /\ job'.got = NotYet
  <2>1. job.at \in Nat /\ job.node.cap * DSize \in Int /\ job.at < job.node.cap * DSize
    BY <1>1, JobFields, WriteBlockParts, ZeroWord DEF NodeT
  <2>2. ~(job.node.cap * DSize - job.at <= 0)
    BY <2>1
  <2>3. job.got # NotYet => Growing
    BY <1>1 DEF Typed, Shapes
  <2>4. job.got = NotYet
    BY <2>2, <2>3 DEF Growing, Left
  <2> QED
    BY <2>4, <1>1, JobFields DEF JobT
<1>5. Roomy' /\ PendingSound'
  BY <1>1, <1>3, <1>4 DEF Mapped, Roomy, Counted, PendingSound, HasRoom, Needs
<1> QED
  BY <1>2, <1>5 DEF Mapped

\* The block that a step behind the capacity takes is there, and so are those
\* that the write needs after it.
LEMMA FreeBlock ==
    ASSUME ~RunsDry, Typed, Mapped, Growing, job.got = NotYet
    PROVE  /\ NewB \in Blocks \ taken
           /\ Taking(taken, NewB) = taken \cup {NewB}
           /\ \A n \in NodeT : \/ /\ job.node.addr_1 = NoAddr
                                  /\ n.addr_1 # NoAddr /\ n.cap = job.node.cap
                               \/ /\ job.node.addr_1 # NoAddr
                                  /\ n.addr_1 # NoAddr /\ n.cap = job.node.cap + 1
                               => HasRoom(taken \cup {NewB}, n, job.at + Len(job.left))
<1> DEFINE end == job.at + Len(job.left)
           cap == job.node.cap
           one == IF job.node.addr_1 = NoAddr THEN 1 ELSE 0
           free == Cardinality(Blocks \ taken)
<1>1. job # Idle /\ cap \in 1 .. DSize /\ cap * DSize <= job.at
  BY GrowingFacts
<1>2. /\ job.at \in Nat /\ end \in Nat /\ job.at <= end /\ cap \in Nat /\ DSize \in Nat
      /\ one \in Nat
  BY <1>1, JobFields, ZeroWord
<1> HIDE DEF end, cap, one, free
<1>3. /\ end \div DSize \in Nat /\ cap <= end \div DSize
      /\ ~(end < cap * DSize)
      /\ (cap + 1) * DSize <= end => cap + 1 <= end \div DSize
  <2>1. cap * DSize \in Nat /\ (cap + 1) * DSize \in Nat
    BY <1>2
  <2>2. cap * DSize <= end
    BY <1>1, <1>2, <2>1
  <2>3. /\ BlockOf(end) \in Nat
        /\ end < cap * DSize <=> BlockOf(end) < cap
        /\ end < (cap + 1) * DSize <=> BlockOf(end) < cap + 1
    <3>1. cap + 1 \in Nat
      BY <1>2
    <3> QED
      BY <3>1, <1>2, OffsetParts
  <2> QED
    BY <2>1, <2>2, <2>3, <1>2 DEF BlockOf
<1>4. free >= one + end \div DSize + 1 - cap
  <2>1. HasRoom(taken, job.node, end)
    BY <1>1 DEF Mapped, Roomy, Counted, end
  <2> QED
    BY <2>1, <1>3 DEF HasRoom, Needs, cap, one, free
<1>5. IsFiniteSet(Blocks \ taken) /\ free \in Nat
  <2>1. IsFiniteSet(Blocks)
    BY FS_Interval, FileAssumption DEF Blocks
  <2> QED
    BY <2>1, FS_Subset, FS_CardinalityType DEF free
<1>6. free > 0
  BY <1>2, <1>3, <1>4, <1>5
<1>7. NewB \in Blocks \ taken
  <2>1. ~(Blocks \subseteq taken)
    <3>1. SUFFICES ASSUME Blocks \ taken = {} PROVE FALSE
      OBVIOUS
    <3> QED
      BY <3>1, <1>6, FS_EmptySet DEF free
  <2> QED
    BY <2>1, AllocFree DEF NewB
<1>8. Cardinality(Blocks \ (taken \cup {NewB})) = free - 1
  <2>1. Blocks \ (taken \cup {NewB}) = (Blocks \ taken) \ {NewB}
    OBVIOUS
  <2> QED
    BY <2>1, <1>5, <1>7, FS_RemoveElement DEF free
<1>9. ASSUME NEW n \in NodeT,
             \/ job.node.addr_1 = NoAddr /\ n.addr_1 # NoAddr /\ n.cap = cap
             \/ job.node.addr_1 # NoAddr /\ n.addr_1 # NoAddr /\ n.cap = cap + 1
      PROVE  free - 1 >= Needs(n, end)
  <2>1. CASE job.node.addr_1 = NoAddr
    <3>1. one = 1 /\ Needs(n, end) = 0 + end \div DSize + 1 - cap
      BY <2>1, <1>3, <1>9 DEF Needs, one
    <3> QED
      BY <3>1, <1>2, <1>3, <1>4, <1>5
  <2>2. CASE job.node.addr_1 # NoAddr /\ end < (cap + 1) * DSize
    <3>1. Needs(n, end) = 0
      BY <2>2, <1>9 DEF Needs
    <3> QED
      BY <3>1, <1>5, <1>6
  <2>3. CASE job.node.addr_1 # NoAddr /\ ~(end < (cap + 1) * DSize)
    <3>1. one = 0 /\ Needs(n, end) = 0 + end \div DSize + 1 - (cap + 1)
      BY <2>3, <1>9 DEF Needs, one
    <3> QED
      BY <3>1, <1>2, <1>3, <1>4, <1>5
  <2> QED
    BY <2>1, <2>2, <2>3
<1> QED
  BY <1>7, <1>8, <1>9 DEF HasRoom, Taking, end, cap

\* What every step behind the capacity does to the inodes.
LEMMA GrowsEffect ==
    ASSUME Typed, Growing, NEW new \in NodeT, NEW got, GrowsTo(new, got)
    PROVE  LET i == fd_map[job.fd].file
           IN  /\ i \in Created /\ i \in File /\ CurrentNodes[i] = job.node
               /\ job' # Idle /\ job'.node = new /\ job'.got = got /\ job'.fd = job.fd
               /\ job'.at = job.at /\ job'.left = job.left /\ job'.closes = job.closes
               /\ \A j \in File : CurrentNodes'[j] = IF j = i THEN new ELSE CurrentNodes[j]
<1>1. job # Idle
  BY GrowingFacts
<1>2. job \in JobT /\ fd_map[job.fd].file \in Created /\ fd_map[job.fd].file \in File
  BY <1>1, JobFields DEF Created
<1>3. /\ job'.node = new /\ job'.got = got /\ job'.fd = job.fd
      /\ job'.at = job.at /\ job'.left = job.left /\ job'.closes = job.closes
      /\ DOMAIN job' = DOMAIN job
  BY <1>2 DEF JobT, GrowsTo
<1>4. job' # Idle
  <2>1. "at" \in DOMAIN job /\ "at" \notin DOMAIN Idle
    BY <1>2 DEF JobT, Idle
  <2> QED
    BY <2>1, <1>3
<1>5. CurrentNodes[fd_map[job.fd].file] = job.node
  BY <1>1, <1>2, CurrentCases DEF Current
<1>6. \A j \in File : CurrentNodes'[j] = IF j = fd_map[job.fd].file THEN new ELSE CurrentNodes[j]
  BY <1>1, <1>3, <1>4 DEF CurrentNodes, Current, GrowsTo
<1> QED
  BY <1>2, <1>3, <1>4, <1>5, <1>6

\* The level 1 block: a block more that the inode holds; the others stay.
LEMMA AllocAddr1Effect ==
    ASSUME ~RunsDry, Typed, Mapped, AllocAddr1
    PROVE  /\ Mapped'
           /\ \A j \in File : CurrentNodes'[j].cap = CurrentNodes[j].cap
           /\ \A j \in File : \A l \in Held(CurrentNodes[j]) :
                 /\ l \in Held(CurrentNodes'[j])
                 /\ StartOf(mem, CurrentNodes'[j], l) = StartOf(mem, CurrentNodes[j], l)
<1> DEFINE i == fd_map[job.fd].file
<1>1. /\ Growing /\ job.node.addr_1 = NoAddr /\ job.node.cap = 1 /\ job.got = NotYet
      /\ taken' = Taking(taken, NewB) /\ mem' = mem
      /\ GrowsTo(IndexNode, NotYet)
      /\ IndexNode \in NodeT /\ WellShaped(IndexNode)
      /\ IndexNode.cap = 1 /\ IndexNode.addr_0 = job.node.addr_0
      /\ IndexNode.addr_1 = DataOffset(NewB) /\ IndexNode.addr_1 # NoAddr
  BY AllocAddr1Parts
<1>2. /\ i \in File /\ CurrentNodes[i] = job.node
      /\ job'.node = IndexNode /\ job'.got = NotYet /\ job'.at = job.at /\ job'.left = job.left
      /\ \A j \in File : CurrentNodes'[j] = IF j = i THEN IndexNode ELSE CurrentNodes[j]
  BY <1>1, GrowsEffect
<1> HIDE DEF i
<1>3. /\ NewB \in Blocks \ taken /\ taken' = taken \cup {NewB}
      /\ HasRoom(taken \cup {NewB}, IndexNode, job.at + Len(job.left))
  BY <1>1, FreeBlock
<1>4. Layout(taken \cup {NewB}, mem, CurrentNodes')
  <2>1. taken \in SUBSET Blocks /\ Layout(taken, mem, CurrentNodes)
    BY DEF Typed, TypeOK, Mapped
  <2>2. /\ i \in File /\ NewB \in Blocks \ taken
        /\ CurrentNodes[i].addr_1 = NoAddr /\ CurrentNodes[i].cap = 1
        /\ IndexNode.cap = 1 /\ IndexNode.addr_0 = CurrentNodes[i].addr_0
        /\ IndexNode.addr_1 = DataOffset(NewB)
    BY <1>1, <1>2, <1>3
  <2>3. ASSUME NEW made, \A j \in File : made[j] = IF j = i THEN IndexNode ELSE CurrentNodes[j]
        PROVE  Layout(taken \cup {NewB}, mem, made)
    <3> HIDE DEF NewB
    <3> QED
      BY <2>1, <2>2, <2>3, LayoutIndexes
  <2> QED
    BY <2>3, <1>2
<1>5. Roomy' /\ PendingSound'
  BY <1>2, <1>3 DEF Roomy, Counted, PendingSound, HasRoom, Needs
<1>6. Mapped'
  BY <1>1, <1>3, <1>4, <1>5 DEF Mapped
<1>7. ASSUME NEW j \in File, NEW l \in Held(CurrentNodes[j])
      PROVE  /\ l \in Held(CurrentNodes'[j])
             /\ StartOf(mem, CurrentNodes'[j], l) = StartOf(mem, CurrentNodes[j], l)
  <2>1. CASE j = i
    <3>1. Fits(IndexNode) /\ Fits(CurrentNodes[i])
      BY <1>1, <1>2, ShapedFits, CurrentCases
    <3>2. Begins(CurrentNodes[i], IndexNode)
      BY <1>1, <1>2 DEF Begins
    <3> QED
      BY <3>1, <3>2, <2>1, <1>2, BeginHolds
  <2>2. CASE j # i
    BY <2>2, <1>2
  <2> QED
    BY <2>1, <2>2
<1> QED
  BY <1>1, <1>2, <1>6, <1>7

\* The bit of the block: nothing that is held or that can be read changes.
LEMMA TakeBlockEffect ==
    ASSUME ~RunsDry, Typed, Mapped, TakeBlock
    PROVE  Mapped' /\ \A j \in File : CurrentNodes'[j] = CurrentNodes[j]
<1>1. /\ Growing /\ job.node.addr_1 # NoAddr /\ job.got = NotYet
      /\ taken' = Taking(taken, NewB) /\ mem' = mem
      /\ GrowsTo(job.node, NewB)
      /\ job.node \in NodeT
  BY TakeBlockParts
<1>2. /\ job'.node = job.node /\ job'.got = NewB /\ job'.at = job.at /\ job'.left = job.left
      /\ \A j \in File : CurrentNodes'[j] = CurrentNodes[j]
  BY <1>1, GrowsEffect
<1>3. /\ GrownNode \in NodeT
      /\ GrownNode.cap = job.node.cap + 1 /\ GrownNode.addr_1 = job.node.addr_1
  BY <1>1 DEF GrownNode, NodeT
<1>4. /\ NewB \in Blocks \ taken /\ taken' = taken \cup {NewB}
      /\ HasRoom(taken \cup {NewB}, GrownNode, job.at + Len(job.left))
  BY <1>1, <1>3, FreeBlock
<1>5. taken \in SUBSET Blocks /\ Layout(taken, mem, CurrentNodes)
  BY DEF Typed, TypeOK, Mapped
<1>6. Layout(taken', mem, CurrentNodes')
  BY <1>2, <1>4, <1>5, LayoutSame, LayoutTakes
<1>7. Pending(taken', mem', CurrentNodes', NewB)
  <2>1. \A j \in File : \A k \in Held(CurrentNodes[j]) : StartOf(mem, CurrentNodes[j], k) # DataOffset(NewB)
    BY <1>4, <1>5, HeldNotFree
  <2>2. \A a \in Addr : BlockOf(a) = NewB => mem[a] = 0
    BY <1>4, <1>5 DEF Layout
  <2> QED
    BY <2>1, <2>2, <1>1, <1>2, <1>4 DEF Pending
<1>8. Counted' = GrownNode
  <2>1. NewB # NotYet
    BY <1>4 DEF Blocks
  <2> QED
    BY <2>1, <1>2 DEF Counted, GrownNode
<1>9. Roomy' /\ PendingSound'
  BY <1>2, <1>4, <1>7, <1>8 DEF Roomy, PendingSound, HasRoom, Needs
<1> QED
  BY <1>1, <1>2, <1>6, <1>9 DEF Mapped

\* Without a block that is pending, the rest is a layout.
LEMMA LayoutPending ==
    ASSUME NEW used, NEW m, NEW ns, NEW b, Layout(used, m, ns), Pending(used, m, ns, b)
    PROVE  Layout(used \ {b}, m, ns)
<1>1. \A i \in File : \A k \in Held(ns[i]) : \E c \in used \ {b} : StartOf(m, ns[i], k) = DataOffset(c)
  BY DEF Layout, Pending
<1>2. \A a \in Addr : BlockOf(a) \in Blocks \ (used \ {b}) => m[a] = 0
  BY DEF Layout, Pending
<1> QED
  BY <1>1, <1>2 DEF Layout

\* The address of the block: the file has a block more, of zeros, and every
\* block stays where it was.
LEMMA PutAddressEffect ==
    ASSUME ~RunsDry, Typed, Mapped, PutAddress
    PROVE  LET i == fd_map[job.fd].file
           IN  /\ i \in Created /\ CurrentNodes[i] = job.node
               /\ \A j \in File : CurrentNodes'[j] = IF j = i THEN GrownNode ELSE CurrentNodes[j]
               /\ Mapped'
               /\ \A j \in File : \A l \in Held(CurrentNodes[j]) :
                     /\ l \in Held(CurrentNodes'[j])
                     /\ StartOf(mem', CurrentNodes'[j], l) = StartOf(mem, CurrentNodes[j], l)
               /\ StartOf(mem', GrownNode, job.node.cap) = DataOffset(job.got)
               /\ job.got \in Blocks /\ \A a \in Addr : BlockOf(a) = job.got => mem[a] = 0
               /\ \A x \in Addr : mem'[x] # mem[x] => x = job.node.addr_1 + job.node.cap - 1
<1> DEFINE i == fd_map[job.fd].file
           cap == job.node.cap
<1>1. /\ Growing /\ job.got # NotYet
      /\ mem' = [mem EXCEPT ![job.node.addr_1 + cap - 1] = DataOffset(job.got)]
      /\ taken' = taken
      /\ GrowsTo(GrownNode, NotYet)
      /\ cap \in 1 .. DSize
      /\ job.node.addr_1 # NoAddr
      /\ GrownNode \in NodeT
      /\ GrownNode.cap = cap + 1
      /\ GrownNode.addr_0 = job.node.addr_0 /\ GrownNode.addr_1 = job.node.addr_1
  BY PutAddressParts
<1>2. PICK c \in Blocks \cup {NoId} : job.node.addr_1 = DataOffset(c)
  BY PutAddressParts
<1>3. /\ i \in Created /\ i \in File /\ CurrentNodes[i] = job.node
      /\ job'.node = GrownNode /\ job'.got = NotYet /\ job'.at = job.at /\ job'.left = job.left
      /\ \A j \in File : CurrentNodes'[j] = IF j = i THEN GrownNode ELSE CurrentNodes[j]
  BY <1>1, GrowsEffect
<1>4. mem \in [Addr -> Int] /\ taken \in SUBSET Blocks /\ job # Idle
  BY <1>1, GrowingFacts DEF Typed, TypeOK
<1> HIDE DEF i, cap
<1>5. Pending(taken, mem, CurrentNodes, job.got) /\ Layout(taken, mem, CurrentNodes)
  BY <1>1, <1>4 DEF Mapped, PendingSound
<1>6. job.got \in taken /\ job.got \in Blocks /\ \A a \in Addr : BlockOf(a) = job.got => mem[a] = 0
  BY <1>4, <1>5 DEF Pending
<1>7. Layout(taken \ {job.got}, mem, CurrentNodes)
  BY <1>5, LayoutPending
<1>8. Extends(CurrentNodes, i, CurrentNodes')
  BY <1>1, <1>3 DEF Extends, cap
<1>9. PutsAddress(mem, CurrentNodes[i], job.got, mem')
  BY <1>1, <1>3, <1>4 DEF PutsAddress, cap
<1>10. Layout(taken, mem', CurrentNodes') /\ Keeps(mem, CurrentNodes, mem', CurrentNodes')
  <2>1. /\ taken \ {job.got} \in SUBSET Blocks /\ job.got \in Blocks \ (taken \ {job.got})
        /\ (taken \ {job.got}) \cup {job.got} = taken
    BY <1>4, <1>6
  <2>2. \A j \in File : Fits(CurrentNodes[j])
    BY CurrentCases
  <2>3. ASSUME NEW made, Extends(CurrentNodes, i, made),
               NEW more, PutsAddress(mem, CurrentNodes[i], job.got, more)
        PROVE  Layout((taken \ {job.got}) \cup {job.got}, more, made) /\ Keeps(mem, CurrentNodes, more, made)
    BY <2>1, <2>2, <2>3, <1>3, <1>7, LayoutGrows
  <2> QED
    BY <2>1, <2>3, <1>8, <1>9
<1>11. StartOf(mem', GrownNode, cap) = DataOffset(job.got)
  <2>1. DataOffset(c) \in Int /\ DataOffset(c) + (cap - 1) \in Addr
    BY <1>1, WordOfBlock, ZeroWord
  <2>2. DataOffset(c) + (cap - 1) = job.node.addr_1 + cap - 1 /\ cap # 0 /\ cap # -1
    BY <2>1, <1>1, <1>2
  <2>3. mem'[job.node.addr_1 + cap - 1] = DataOffset(job.got)
    BY <2>1, <2>2, <1>1, <1>4
  <2> QED
    BY <2>2, <2>3, <1>1 DEF StartOf
<1>12. Roomy' /\ PendingSound'
  <2>1. Counted = GrownNode
    BY <1>1 DEF Counted, GrownNode
  <2> QED
    BY <2>1, <1>1, <1>3, <1>4 DEF Mapped, Roomy, Counted, PendingSound, HasRoom, Needs
<1>13. Mapped'
  BY <1>1, <1>10, <1>12 DEF Mapped
<1>14. \A x \in Addr : mem'[x] # mem[x] => x = job.node.addr_1 + cap - 1
  BY <1>1, <1>4
<1> QED
  BY <1>3, <1>6, <1>10, <1>11, <1>13, <1>14 DEF Keeps, i, cap

LEMMA NextMapped == ~RunsDry /\ Typed /\ Mapped /\ [Next]_vars => Mapped'
<1> SUFFICES ASSUME ~RunsDry, Typed, Mapped, [Next]_vars PROVE Mapped'
  OBVIOUS
<1> USE NextTyped, OpenMapped, CommandsMapped, BeginWriteMapped, ImportMapped,
        WriteBlockMapped, AllocAddr1Effect, TakeBlockEffect, PutAddressEffect, EndWriteMapped
<1>1. ASSUME NEW i \in File, Open(i) \/ Export(i) \/ Remove(i) PROVE Mapped'
  BY <1>1
<1>2. ASSUME NEW fd \in DOMAIN fd_map,
             \/ Close(fd)
             \/ \E off \in SeekTo : Seek(fd, off)
             \/ \E len \in ReadLen : Read(fd, len)
             \/ \E data \in Data : BeginWrite(fd, data)
      PROVE  Mapped'
  BY <1>2
<1>3. ASSUME NEW i \in File, NEW data \in Data, Import(i, data) PROVE Mapped'
  BY <1>3
<1>4. CASE Continue
  BY <1>4 DEF Continue
<1>5. CASE Restart \/ UNCHANGED vars
  BY <1>5
<1> QED
  BY <1>1, <1>2, <1>3, <1>4, <1>5 DEF Next

LEMMA MappedCorrect == ASSUME ~RunsDry PROVE Spec => []Mapped
<1>1. Typed /\ Mapped /\ [Next]_vars => Mapped'
  BY NextMapped
<1> QED
  BY <1>1, InitMapped, TypedCorrect, PTL DEF Spec

\* The inductive invariant of the files: on any disk the inodes keep their
\* shape, and while no block is missing the blocks that inodes hold, those of a
\* write under way included, are taken, apart, and zero before they are.
THEOREM FileInvCorrect == Spec => []FileInv
<1>1. CASE RunsDry
  <2>1. Typed => FileInv
    BY <1>1 DEF Typed, FileInv
  <2> QED
    BY <2>1, TypedCorrect, PTL
<1>2. CASE ~RunsDry
  <2>1. Spec => []Mapped
    BY <1>2, MappedCorrect
  <2>2. Typed /\ Mapped => FileInv
    BY DEF Typed, Mapped, FileInv
  <2> QED
    BY <2>1, <2>2, TypedCorrect, PTL
<1> QED
  BY <1>1, <1>2

-----------------------------------------------------------------------------
(* The mapping *)

\* Where an offset within the capacity is: in a block that its file holds.
LEMMA OffsetAddress ==
    ASSUME Typed, Mapped, NEW i \in Created, NEW p \in Offsets(Current(i))
    PROVE  /\ i \in File /\ p \in Nat /\ Inner(p) \in 0 .. DSize - 1
           /\ BlockOf(p) \in Held(CurrentNodes[i]) /\ BlockOf(p) >= 0
           /\ \E b \in taken : /\ b \in Blocks
                               /\ StartOf(mem, CurrentNodes[i], BlockOf(p)) = DataOffset(b)
                               /\ AddrOf(Current(i), p) = DataOffset(b) + Inner(p)
                               /\ BlockOf(AddrOf(Current(i), p)) = b
<1>1. /\ i \in File /\ Current(i) = CurrentNodes[i]
      /\ CurrentNodes[i] \in NodeT /\ WellShaped(CurrentNodes[i])
      /\ mem \in [Addr -> Int] /\ taken \subseteq Blocks
  BY CurrentCases DEF Created, Typed, TypeOK
<1> DEFINE n == CurrentNodes[i]
<1>2. p \in Nat /\ p < n.cap * DSize
  <2>1. n.cap * DSize \in Nat
    BY <1>1, ZeroWord DEF NodeT
  <2>2. p \in 0 .. n.cap * DSize - 1
    BY <1>1 DEF Offsets
  <2> QED
    BY <2>1, <2>2
<1> HIDE DEF n
<1>3. BlockOf(p) \in Held(n) /\ BlockOf(p) >= 0
  BY <1>1, <1>2, AddressInt DEF n
<1>4. PICK b \in taken : StartOf(mem, n, BlockOf(p)) = DataOffset(b)
  BY <1>1, <1>3 DEF Mapped, Layout, n
<1>5. Inner(p) \in 0 .. DSize - 1
  BY <1>2, OffsetParts
<1>6. AddrOf(Current(i), p) = DataOffset(b) + Inner(p)
  BY <1>1, <1>2, <1>4, AddressParts DEF AddrOf, n
<1>7. BlockOf(DataOffset(b) + Inner(p)) = b
  BY <1>1, <1>5, WordOfBlock
<1> QED
  BY <1>1, <1>2, <1>3, <1>4, <1>5, <1>6, <1>7 DEF n

\* An address is that of one offset of one file.
LEMMA AddressOnce ==
    ASSUME Typed, Mapped, NEW i \in Created, NEW j \in Created,
           NEW p \in Offsets(Current(i)), NEW q \in Offsets(Current(j)),
           AddrOf(Current(i), p) = AddrOf(Current(j), q)
    PROVE  i = j /\ p = q
<1>1. /\ i \in File /\ p \in Nat /\ Inner(p) \in 0 .. DSize - 1 /\ BlockOf(p) \in Held(CurrentNodes[i])
      /\ j \in File /\ q \in Nat /\ Inner(q) \in 0 .. DSize - 1 /\ BlockOf(q) \in Held(CurrentNodes[j])
  BY OffsetAddress
<1>2. PICK b \in Blocks : /\ StartOf(mem, CurrentNodes[i], BlockOf(p)) = DataOffset(b)
                          /\ AddrOf(Current(i), p) = DataOffset(b) + Inner(p)
  BY OffsetAddress
<1>3. PICK c \in Blocks : /\ StartOf(mem, CurrentNodes[j], BlockOf(q)) = DataOffset(c)
                          /\ AddrOf(Current(j), q) = DataOffset(c) + Inner(q)
  BY OffsetAddress
<1>4. b = c /\ Inner(p) = Inner(q)
  BY <1>1, <1>2, <1>3, StartsApart
<1>5. i = j /\ BlockOf(p) = BlockOf(q)
  <2>1. Layout(taken, mem, CurrentNodes)
    BY DEF Mapped
  <2> QED
    BY <2>1, <1>1, <1>2, <1>3, <1>4 DEF Layout
<1> QED
  BY <1>1, <1>4, <1>5, PartsDiffer

LEMMA MappedOffsets == Typed /\ Mapped => OffsetsMapped
BY OffsetAddress DEF OffsetsMapped

LEMMA MappedApart == Typed /\ Mapped => AddressesApart
<1> SUFFICES ASSUME Typed, Mapped PROVE AddressesApart
  OBVIOUS
<1>1. ASSUME NEW i \in Created
      PROVE  Cardinality(Addresses(i)) = Cardinality(Offsets(Current(i)))
  <2> DEFINE S == Offsets(Current(i))
             T == Addresses(i)
             F == [p \in S |-> AddrOf(Current(i), p)]
  <2>1. IsFiniteSet(S)
    <3>1. Current(i) \in NodeT
      BY CurrentCases DEF Created
    <3>2. Current(i).cap * DSize - 1 \in Int
      BY <3>1, ZeroWord DEF NodeT
    <3> QED
      BY <3>2, FS_Interval DEF Offsets
  <2>2. T = {AddrOf(Current(i), p) : p \in S}
    BY DEF Addresses
  <2>3. \A p, q \in S : AddrOf(Current(i), p) = AddrOf(Current(i), q) => p = q
    BY AddressOnce
  <2> HIDE DEF S, T
  <2>4. F \in [S -> T] /\ \A t \in T : \E p \in S : F[p] = t
    BY <2>2
  <2>5. F \in Bijection(S, T)
    BY <2>3, <2>4 DEF Bijection, Injection, IsInjective, Surjection
  <2>6. Cardinality(T) = Cardinality(S)
    BY <2>1, <2>5, FS_Bijection DEF ExistsBijection
  <2> QED
    BY <2>6 DEF S, T
<1>2. ASSUME NEW i \in Created, NEW j \in Created, i # j
      PROVE  Addresses(i) \cap Addresses(j) = {}
  BY <1>2, AddressOnce DEF Addresses
<1>3. ASSUME NEW i \in Created, NEW j \in Created, Current(j).addr_1 # NoAddr,
             NEW p \in Offsets(Current(i))
      PROVE  Current(j).addr_1 # DataOffset(BlockOf(AddrOf(Current(i), p)))
  <2>1. /\ i \in File /\ BlockOf(p) \in Held(CurrentNodes[i]) /\ BlockOf(p) >= 0
        /\ StartOf(mem, CurrentNodes[i], BlockOf(p)) = DataOffset(BlockOf(AddrOf(Current(i), p)))
    BY OffsetAddress
  <2>2. /\ j \in File /\ CurrentNodes[j] = Current(j)
        /\ -1 \in Held(CurrentNodes[j]) /\ StartOf(mem, CurrentNodes[j], -1) = Current(j).addr_1
    BY <1>3, CurrentCases, ZeroWord DEF Created, Held, StartOf, NodeT, WellShaped
  <2>3. BlockOf(p) # -1
    BY <2>1 DEF Held
  <2> QED
    BY <2>1, <2>2, <2>3 DEF Mapped, Layout
<1> QED
  BY <1>1, <1>2, <1>3 DEF AddressesApart, Addresses

\* While no block is missing, every offset within a file's capacity has an
\* address in a block whose bit is set, all along a write.
THEOREM OffsetsMappedCorrect == ASSUME ~RunsDry PROVE Spec => []OffsetsMapped
BY MappedCorrect, TypedCorrect, MappedOffsets, PTL

\* While no block is missing, no two offsets share an address, and none lies in
\* a level 1 block.
THEOREM AddressesApartCorrect == ASSUME ~RunsDry PROVE Spec => []AddressesApart
BY MappedCorrect, TypedCorrect, MappedApart, PTL

\* While no block is missing, a block that is handed out holds zeros.
THEOREM FreeIsZeroCorrect == ASSUME ~RunsDry PROVE Spec => []FreeIsZero
<1>1. Mapped => FreeIsZero
  BY DEF Mapped, Layout, FreeIsZero
<1> QED
  BY <1>1, MappedCorrect, PTL

-----------------------------------------------------------------------------
(* readData *)

LEMMA TypedReads == Typed => ReadsFile
<1> SUFFICES ASSUME Typed, Ready, NEW i \in Created, NEW off \in 0 .. MaxOffset, NEW len \in ReadLen
             PROVE  /\ \A p \in off .. off + len - 1 : p < node[i].size => p \in Reached(i, off, len)
                    /\ \A p \in Reached(i, off, len) : p \in Offsets(node[i])
  BY DEF ReadsFile
<1> DEFINE n == node[i]
<1>1. /\ n \in NodeT /\ WellShaped(n)
      /\ n.size \in Nat /\ n.cap \in Nat /\ n.size <= n.cap * DSize
      /\ off \in Nat /\ len \in Nat
  <2>1. n \in NodeT /\ WellShaped(n)
    BY CurrentCases DEF Created
  <2> QED
    BY <2>1, FileAssumption DEF NodeT, WellShaped
<1> HIDE DEF n
<1>2. ASSUME NEW p \in off .. off + len - 1, p < n.size
      PROVE  p \in ReachedBy(n.size, off, len)
  <2>1. p \in Nat /\ off < n.size
    BY <1>1, <1>2
  <2>2. Inner(p) \in Nat
    BY <2>1, OffsetParts, ZeroWord
  <2>3. p - Inner(p) < n.size
    BY <2>1, <2>2, <1>1, <1>2
  <2> QED
    BY <2>1, <2>3, <1>2 DEF ReachedBy
<1>3. ASSUME NEW p \in ReachedBy(n.size, off, len)
      PROVE  p \in Offsets(n)
  <2>1. p \in off .. off + len - 1 /\ (IF p - Inner(p) > off THEN p - Inner(p) ELSE off) < n.size
    BY DEF ReachedBy
  <2>2. p \in Nat /\ n.cap * DSize \in Nat
    BY <2>1, <1>1, ZeroWord
  <2>3. /\ Inner(p) \in 0 .. DSize - 1 /\ BlockOf(p) \in Nat
        /\ p = BlockOf(p) * DSize + Inner(p)
        /\ p < n.cap * DSize <=> BlockOf(p) < n.cap
    BY <2>2, <1>1, OffsetParts
  <2> DEFINE start == BlockOf(p) * DSize
  <2>4. start \in Nat /\ start = p - Inner(p)
    BY <2>2, <2>3, ZeroWord
  <2>5. start < n.size
    BY <2>1, <2>2, <2>3, <2>4, <1>1
  <2>6. start < n.cap * DSize
    BY <2>2, <2>4, <2>5, <1>1
  <2>7. BlockOf(p) < n.cap
    BY <2>3, <2>6, <1>1, ZeroWord
  <2> QED
    BY <2>2, <2>3, <2>7 DEF Offsets
<1> QED
  BY <1>2, <1>3 DEF Reached, n

\* Also on a disk that is full: a read reaches every offset that was asked for
\* and is in the file, and no other block.
THEOREM ReadsFileCorrect == Spec => []ReadsFile
BY TypedCorrect, TypedReads, PTL
=============================================================================
