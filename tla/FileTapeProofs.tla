--------------------------- MODULE FileTapeProofs ---------------------------
(***************************************************************************)
(* FileData implements FileTape while no block is missing: the initial     *)
(* states map to initial states, and every step to a step of a tape or to  *)
(* none.                                                                   *)
(***************************************************************************)
EXTENDS FileProofs

-----------------------------------------------------------------------------
(* The mapping, part by part *)

Sizes  == [i \in File |-> node[i].size]
Tapes  == [i \in File |-> TapeOf(i)]
Writes == IF job = Idle THEN Idle
          ELSE [fd |-> job.fd, at |-> job.at, left |-> job.left, closes |-> job.closes]

Offset == 0 .. MaxOffset - 1

\* The tape that the words of a disk and an inode make.
TapeIn(m, n) == [p \in Offset |-> IF p \in Offsets(n) THEN m[CalcDiskAddr(m, n, p)] ELSE 0]

LEMMA TapesAre == /\ Tapes  = [i \in File |-> TapeIn(mem, CurrentNodes[i])]
                  /\ Tapes' = [i \in File |-> TapeIn(mem', CurrentNodes'[i])]
BY DEF Tapes, TapeOf, TapeIn, AddrOf, CurrentNodes, Offset

LEMMA OffsetNat == \A p \in Offset : p \in Nat
BY FileAssumption DEF Offset

\* An offset is within the capacity if its block is.
LEMMA OffsetHeld ==
    ASSUME NEW n, n.cap \in Nat, NEW p \in Nat
    PROVE  p \in Offsets(n) <=> BlockOf(p) \in Held(n)
<1>1. /\ BlockOf(p) \in Nat
      /\ p < n.cap * DSize <=> BlockOf(p) < n.cap
  BY OffsetParts
<1>2. n.cap * DSize \in Nat
  BY ZeroWord
<1>3. p \in Offsets(n) <=> p < n.cap * DSize
  BY <1>2 DEF Offsets
<1>4. BlockOf(p) \in Held(n) <=> BlockOf(p) < n.cap
  BY <1>1 DEF Held
<1> QED
  BY <1>1, <1>3, <1>4

\* Where the word of an offset is.
LEMMA WordPlace ==
    ASSUME NEW used \in SUBSET Blocks, NEW m, NEW ns, Layout(used, m, ns),
           NEW i \in File, NEW p \in Nat, BlockOf(p) \in Held(ns[i])
    PROVE  LET a == CalcDiskAddr(m, ns[i], p)
           IN  /\ a \in Addr
               /\ BlockOf(a) \in used
               /\ StartOf(m, ns[i], BlockOf(p)) = DataOffset(BlockOf(a))
<1>1. PICK b \in used : StartOf(m, ns[i], BlockOf(p)) = DataOffset(b)
  BY DEF Layout
<1>2. CalcDiskAddr(m, ns[i], p) = DataOffset(b) + Inner(p)
  BY <1>1, AddressParts
<1>3. Inner(p) \in 0 .. DSize - 1
  BY OffsetParts
<1>4. DataOffset(b) + Inner(p) \in Addr /\ BlockOf(DataOffset(b) + Inner(p)) = b
  BY <1>3, WordOfBlock
<1> QED
  BY <1>1, <1>2, <1>4

\* Tapes are the same if each word is, and words that come to be covered are zero.
LEMMA TapeSame ==
    ASSUME NEW m, NEW n, n.cap \in Nat, NEW new, NEW copy, copy.cap \in Nat,
           \A p \in Offset :
              IF BlockOf(p) \in Held(n)
              THEN /\ BlockOf(p) \in Held(copy)
                   /\ new[CalcDiskAddr(new, copy, p)] = m[CalcDiskAddr(m, n, p)]
              ELSE BlockOf(p) \in Held(copy) => new[CalcDiskAddr(new, copy, p)] = 0
    PROVE  TapeIn(new, copy) = TapeIn(m, n)
<1>1. ASSUME NEW p \in Offset
      PROVE  (IF p \in Offsets(copy) THEN new[CalcDiskAddr(new, copy, p)] ELSE 0)
             = (IF p \in Offsets(n) THEN m[CalcDiskAddr(m, n, p)] ELSE 0)
  BY OffsetNat, OffsetHeld
<1> QED
  BY <1>1 DEF TapeIn

-----------------------------------------------------------------------------
(* The steps of a tape *)

LEMMA TapeVars == UNCHANGED <<Sizes, Tapes, fd_map, Writes>> => UNCHANGED (Tape!vars)
BY DEF Tape!vars, Sizes, Tapes, Writes

LEMMA TapeOpen ==
    ASSUME NEW fd \in 0 .. MaxFd, NEW f \in File, Writes = Idle, fd \notin DOMAIN fd_map,
           fd_map' = SetFD(fd, f, 0), UNCHANGED <<Sizes, Tapes, Writes>>
    PROVE  Tape!Next
<1>1. Tape!Open(fd, f)
  BY DEF Tape!Open, Tape!Ready, Tape!NoWrite, Tape!With, SetFD, Sizes, Tapes, Writes, Idle
<1> QED
  BY <1>1 DEF Tape!Next

LEMMA TapeClose ==
    ASSUME NEW fd \in DOMAIN fd_map, Writes = Idle, fd_map' = DropFD(fd),
           UNCHANGED <<Sizes, Tapes, Writes>>
    PROVE  Tape!Next
<1>1. Tape!Close(fd)
  BY DEF Tape!Close, Tape!Ready, Tape!NoWrite, Tape!Without, DropFD, Sizes, Tapes, Writes, Idle
<1> QED
  BY <1>1 DEF Tape!Next

LEMMA TapeMove ==
    ASSUME NEW fd \in DOMAIN fd_map, NEW at \in 0 .. MaxOffset, Writes = Idle,
           fd_map' = SetFD(fd, fd_map[fd].file, at), UNCHANGED <<Sizes, Tapes, Writes>>
    PROVE  Tape!Next
<1>1. Tape!Move(fd, at)
  BY DEF Tape!Move, Tape!Ready, Tape!NoWrite, Tape!With, SetFD, Sizes, Tapes, Writes, Idle
<1> QED
  BY <1>1 DEF Tape!Next

LEMMA TapeWrite ==
    ASSUME NEW fd \in DOMAIN fd_map, NEW data \in Data, Writes = Idle,
           Writes' = [fd |-> fd, at |-> fd_map[fd].off, left |-> data, closes |-> FALSE],
           UNCHANGED <<Sizes, Tapes, fd_map>>
    PROVE  Tape!Next
<1>1. Tape!Write(fd, data)
  BY DEF Tape!Write, Tape!Ready, Tape!NoWrite, Sizes, Tapes, Writes, Idle
<1> QED
  BY <1>1 DEF Tape!Next

LEMMA TapeImport ==
    ASSUME NEW fd \in 0 .. MaxFd, NEW f \in File, NEW data \in Data, Writes = Idle,
           fd \notin DOMAIN fd_map, fd_map' = SetFD(fd, f, 0),
           Writes' = [fd |-> fd, at |-> 0, left |-> data, closes |-> TRUE],
           UNCHANGED <<Sizes, Tapes>>
    PROVE  Tape!Next
<1>1. Tape!Import(fd, f, data)
  BY DEF Tape!Import, Tape!Ready, Tape!NoWrite, Tape!With, SetFD, Sizes, Tapes, Writes, Idle
<1> QED
  BY <1>1 DEF Tape!Next

LEMMA TapePut ==
    ASSUME Writes # Idle, NEW n \in 1 .. MaxOffset, n \in 1 .. Len(Writes.left),
           Tapes' = [Tapes EXCEPT ![fd_map[Writes.fd].file] =
                        [p \in Offset |-> IF p \in Writes.at .. Writes.at + n - 1
                                          THEN Writes.left[p - Writes.at + 1] ELSE @[p]]],
           Writes' = [Writes EXCEPT !.at = @ + n, !.left = SubSeq(@, n + 1, Len(@))],
           UNCHANGED <<Sizes, fd_map>>
    PROVE  Tape!Next
<1>1. Tape!Put(n)
  BY DEF Tape!Put, Tape!Ready, Tape!NoWrite, Tape!Target, Tape!Offset, Offset, Sizes, Tapes, Writes, Idle
<1> QED
  BY <1>1 DEF Tape!Next

LEMMA TapeEndWrite ==
    ASSUME Writes # Idle, Writes.left = <<>>,
           Sizes' = [Sizes EXCEPT ![fd_map[Writes.fd].file] =
                        IF Writes.at > @ THEN Writes.at ELSE @],
           fd_map' = IF Writes.closes THEN DropFD(Writes.fd)
                     ELSE SetFD(Writes.fd, fd_map[Writes.fd].file, Writes.at),
           Writes' = Idle, UNCHANGED Tapes
    PROVE  Tape!Next
<1>1. Tape!EndWrite
  BY DEF Tape!EndWrite, Tape!Ready, Tape!NoWrite, Tape!Target, Tape!With, Tape!Without,
         SetFD, DropFD, Sizes, Tapes, Writes, Idle
<1> QED
  BY <1>1 DEF Tape!Next

LEMMA TapeRestart ==
    ASSUME fd_map' = [fd \in {} |-> 0], Writes' = Idle, UNCHANGED Sizes,
           \A f \in File : \A p \in Offset : \/ Tapes'[f][p] = Tapes[f][p]
                                             \/ p >= Sizes[f] /\ Tapes'[f][p] = 0
    PROVE  Tape!Next
<1>1. DOMAIN Tapes' = File /\ \A f \in File : DOMAIN Tapes'[f] = Offset
  BY TapesAre DEF TapeIn
<1>2. Tape!Restart
  BY <1>1 DEF Tape!Restart, Tape!NoWrite, Tape!Offset, Offset, Sizes, Tapes, Writes, Idle
<1> QED
  BY <1>2 DEF Tape!Next

-----------------------------------------------------------------------------
(* The commands that write nothing *)

LEMMA TapesKept ==
    ASSUME \A j \in File : TapeIn(mem', CurrentNodes'[j]) = TapeIn(mem, CurrentNodes[j])
    PROVE  UNCHANGED Tapes
BY TapesAre

LEMMA IdleKeeps ==
    ASSUME job = Idle, UNCHANGED <<mem, node, job>>
    PROVE  Writes = Idle /\ UNCHANGED <<Sizes, Tapes, Writes>>
<1>1. \A j \in File : CurrentNodes'[j] = CurrentNodes[j]
  BY DEF CurrentNodes, Current
<1>2. UNCHANGED Tapes
  BY <1>1, TapesKept
<1> QED
  BY <1>2 DEF Writes, Sizes

\* open and import: the file that is made is a tape of zeros, as it was before.
LEMMA OpeningKeeps ==
    ASSUME Typed, Mapped, NEW i \in File, Opening(i), UNCHANGED mem,
           \A j \in File : CurrentNodes'[j] = node'[j]
    PROVE  /\ Writes = Idle
           /\ UNCHANGED <<Sizes, Tapes>>
           /\ fd_cnt' \in 0 .. MaxFd
           /\ fd_cnt' \notin DOMAIN fd_map
           /\ fd_map' = SetFD(fd_cnt', i, 0)
<1>1. job = Idle /\ taken \in SUBSET Blocks /\ node \in [File -> NodeT] /\ mem \in [Addr -> Int]
  BY DEF Opening, Ready, Typed, TypeOK
<1>2. \A j \in File : CurrentNodes[j] = node[j]
  BY <1>1, CurrentCases
<1>3. UNCHANGED <<Sizes, Tapes>>
  <2>1. CASE i \in named /\ UNCHANGED <<taken, node, named>>
    <3>1. UNCHANGED Tapes
      BY <2>1, <1>2, TapesKept
    <3> QED
      BY <3>1, <2>1 DEF Sizes
  <2>2. CASE ~(i \in named /\ UNCHANGED <<taken, node, named>>)
    <3> DEFINE b == AllocDataBlock(taken)
               n == [size |-> 0, cap |-> 1, addr_0 |-> DataOffset(b), addr_1 |-> NoAddr]
    <3>1. i \in NextFile /\ b # NoId /\ node' = [node EXCEPT ![i] = n]
      BY <2>2 DEF Opening
    <3>2. b \in Blocks \ taken
      BY <3>1, AllocFree
    <3>3. node[i] = NoNode /\ node[i].size = 0 /\ node[i].cap = 0
      BY <3>1 DEF NextFile, NoNode
    <3>4. n.size = 0 /\ n.cap = 1 /\ n.addr_0 = DataOffset(b)
      OBVIOUS
    <3> HIDE DEF b, n
    <3>5. \A j \in File : node'[j] = IF j = i THEN n ELSE node[j]
      BY <3>1, <1>1
    <3>6. ASSUME NEW p \in Nat
          PROVE  /\ BlockOf(p) \notin Held(node[i])
                 /\ BlockOf(p) \in Held(n) => mem[CalcDiskAddr(mem, n, p)] = 0
      <4>1. BlockOf(p) \in Nat /\ Inner(p) \in 0 .. DSize - 1
        BY OffsetParts
      <4>2. BlockOf(p) \notin Held(node[i])
        BY <4>1, <3>3 DEF Held
      <4>3. ASSUME BlockOf(p) \in Held(n) PROVE mem[CalcDiskAddr(mem, n, p)] = 0
        <5>1. BlockOf(p) = 0
          BY <4>1, <4>3, <3>4 DEF Held
        <5>2. CalcDiskAddr(mem, n, p) = DataOffset(b) + Inner(p)
          BY <5>1, <3>4, AddressParts DEF StartOf
        <5>3. DataOffset(b) + Inner(p) \in Addr /\ BlockOf(DataOffset(b) + Inner(p)) = b
          BY <4>1, <3>2, WordOfBlock
        <5> QED
          BY <5>2, <5>3, <3>2 DEF Mapped, Layout
      <4> QED
        BY <4>2, <4>3
    <3>7. TapeIn(mem, n) = TapeIn(mem, node[i])
      BY <3>3, <3>4, <3>6, OffsetNat, TapeSame
    <3>8. UNCHANGED Tapes
      BY <3>5, <3>7, <1>2, TapesKept
    <3>9. UNCHANGED Sizes
      BY <3>3, <3>4, <3>5 DEF Sizes
    <3> QED
      BY <3>8, <3>9
  <2> QED
    BY <2>1, <2>2
<1>4. /\ fd_cnt \in -1 .. MaxFd /\ fd_cnt < MaxFd /\ fd_cnt' = fd_cnt + 1
      /\ DOMAIN fd_map \subseteq 0 .. fd_cnt
      /\ fd_map' = SetFD(fd_cnt + 1, i, 0)
  BY DEF Opening, Typed, TypeOK
<1>5. MaxFd \in Nat
  BY FileAssumption
<1> QED
  BY <1>1, <1>3, <1>4, <1>5 DEF Writes

LEMMA OpenStep == ASSUME Typed, Mapped, NEW i \in File, Open(i) PROVE Tape!Next
<1>1. Opening(i) /\ job = Idle /\ UNCHANGED <<mem, job>>
  BY DEF Open, Opening, Ready
<1>2. \A j \in File : CurrentNodes'[j] = node'[j]
  BY <1>1 DEF CurrentNodes, Current
<1>3. /\ Writes = Idle /\ UNCHANGED <<Sizes, Tapes>> /\ fd_cnt' \in 0 .. MaxFd
      /\ fd_cnt' \notin DOMAIN fd_map /\ fd_map' = SetFD(fd_cnt', i, 0)
  BY <1>1, <1>2, OpeningKeeps
<1>4. UNCHANGED Writes
  BY <1>1 DEF Writes
<1>5. ASSUME NEW fd \in 0 .. MaxFd, fd \notin DOMAIN fd_map, fd_map' = SetFD(fd, i, 0)
      PROVE  Tape!Next
  BY <1>3, <1>4, <1>5, TapeOpen
<1> QED
  BY <1>3, <1>5

LEMMA ImportStep ==
    ASSUME Typed, Mapped, NEW i \in File, NEW data \in Data, Import(i, data)
    PROVE  Tape!Next
<1>1. /\ Opening(i) /\ UNCHANGED mem
      /\ job' = [fd |-> fd_cnt', node |-> node'[i], at |-> 0,
                 left |-> data, got |-> NotYet, closes |-> TRUE, ends |-> FALSE]
  BY DEF Import
<1>2. fd_map'[fd_cnt'] = [file |-> i, off |-> 0]
  BY <1>1, OpeningTyped
<1>3. \A j \in File : CurrentNodes'[j] = node'[j]
  BY <1>1, <1>2 DEF CurrentNodes, Current
<1>4. /\ Writes = Idle /\ UNCHANGED <<Sizes, Tapes>> /\ fd_cnt' \in 0 .. MaxFd
      /\ fd_cnt' \notin DOMAIN fd_map /\ fd_map' = SetFD(fd_cnt', i, 0)
  BY <1>1, <1>3, OpeningKeeps
<1>5. Writes' = [fd |-> fd_cnt', at |-> 0, left |-> data, closes |-> TRUE]
  <2>1. "at" \in DOMAIN job' /\ "at" \notin DOMAIN Idle
    BY <1>1 DEF Idle
  <2>2. job' # Idle
    BY <2>1
  <2> QED
    BY <2>2, <1>1 DEF Writes
<1>6. ASSUME NEW fd \in 0 .. MaxFd, fd \notin DOMAIN fd_map, fd_map' = SetFD(fd, i, 0),
             Writes' = [fd |-> fd, at |-> 0, left |-> data, closes |-> TRUE]
      PROVE  Tape!Next
  BY <1>4, <1>6, TapeImport
<1> QED
  BY <1>4, <1>5, <1>6

LEMMA DescriptorStep ==
    ASSUME Typed, NEW fd \in DOMAIN fd_map,
           \/ Close(fd)
           \/ \E off \in SeekTo : Seek(fd, off)
           \/ \E len \in ReadLen : Read(fd, len)
    PROVE  Tape!Next
<1>1. CASE Close(fd)
  <2>1. /\ job = Idle /\ UNCHANGED <<mem, node, job>>
        /\ fd_map' = DropFD(fd)
    BY <1>1 DEF Close, Ready
  <2> QED
    BY <2>1, IdleKeeps, TapeClose
<1>2. ASSUME NEW off \in 0 .. MaxOffset, Seek(fd, off) PROVE Tape!Next
  <2>1. /\ job = Idle /\ UNCHANGED <<mem, node, job>>
        /\ fd_map' = SetFD(fd, fd_map[fd].file, off)
    BY <1>2 DEF Seek, Ready
  <2> QED
    BY <2>1, IdleKeeps, TapeMove
<1>3. ASSUME NEW len \in ReadLen, Read(fd, len) PROVE Tape!Next
  <2>1. fd_map[fd].off \in 0 .. MaxOffset /\ len \in Nat /\ MaxOffset \in Nat
    <3>1. Cap1 \in Int
      BY ZeroWord DEF Cap1
    <3> QED
      BY <3>1, FileAssumption DEF Typed, TypeOK
  <2>2. fd_map[fd].off + len \in 0 .. MaxOffset /\ Seek(fd, fd_map[fd].off + len)
    BY <2>1, <1>3 DEF Read
  <2> QED
    BY <2>2, <1>2
<1> QED
  BY <1>1, <1>2, <1>3, FileAssumption

LEMMA BeginWriteStep ==
    ASSUME Typed, NEW fd \in DOMAIN fd_map, NEW data \in Data, BeginWrite(fd, data)
    PROVE  Tape!Next
<1>1. /\ job = Idle
      /\ job' = [fd |-> fd, node |-> node[fd_map[fd].file], at |-> fd_map[fd].off,
                 left |-> data, got |-> NotYet, closes |-> FALSE, ends |-> FALSE]
      /\ UNCHANGED <<mem, node, fd_map>>
  BY DEF BeginWrite, Ready
<1>2. job' # Idle
  <2>1. "at" \in DOMAIN job' /\ "at" \notin DOMAIN Idle
    BY <1>1 DEF Idle
  <2> QED
    BY <2>1
<1>3. \A j \in File : CurrentNodes'[j] = CurrentNodes[j]
  BY <1>1, <1>2 DEF CurrentNodes, Current
<1>4. UNCHANGED <<Sizes, Tapes>>
  <2>1. UNCHANGED Tapes
    BY <1>1, <1>3, TapesKept
  <2> QED
    BY <2>1, <1>1 DEF Sizes
<1>5. /\ Writes = Idle
      /\ Writes' = [fd |-> fd, at |-> fd_map[fd].off, left |-> data, closes |-> FALSE]
  BY <1>1, <1>2 DEF Writes
<1> QED
  BY <1>1, <1>4, <1>5, TapeWrite

\* rm and export: the tapes do not know of names and bits.
LEMMA NamesStep ==
    ASSUME NEW i \in File, Export(i) \/ Remove(i)
    PROVE  UNCHANGED (Tape!vars)
<1>1. job = Idle /\ UNCHANGED <<mem, node, job, fd_map>>
  BY DEF Export, Remove, Ready
<1> QED
  BY <1>1, IdleKeeps, TapeVars

-----------------------------------------------------------------------------
(* A write *)

LEMMA WritesOf ==
    ASSUME Typed, job # Idle
    PROVE  /\ Writes = [fd |-> job.fd, at |-> job.at, left |-> job.left, closes |-> job.closes]
           /\ Writes # Idle
<1>1. Writes = [fd |-> job.fd, at |-> job.at, left |-> job.left, closes |-> job.closes]
  BY DEF Writes
<1>2. "at" \in DOMAIN Writes /\ "at" \notin DOMAIN Idle
  BY <1>1 DEF Idle
<1> QED
  BY <1>1, <1>2

\* A call of writeData changes the words at the next offsets of the file that is
\* written, and no other word of a file.
LEMMA BlockWords ==
    ASSUME Typed, Mapped, WriteBlock
    PROVE  /\ \A j \in File : CurrentNodes'[j] = CurrentNodes[j]
           /\ \A j \in File, p \in Nat : BlockOf(p) \in Held(CurrentNodes[j]) =>
                 mem'[CalcDiskAddr(mem', CurrentNodes[j], p)] =
                    IF j = fd_map[job.fd].file /\ p \in job.at .. job.at + Chunk - 1
                    THEN job.left[p - job.at + 1]
                    ELSE mem[CalcDiskAddr(mem, CurrentNodes[j], p)]
           /\ \A p \in job.at .. job.at + Chunk - 1 :
                 p \in Nat /\ BlockOf(p) \in Held(CurrentNodes[fd_map[job.fd].file])
<1> DEFINE i == fd_map[job.fd].file
           a == CalcDiskAddr(mem, job.node, job.at)
           at == job.at
           A(j, p) == CalcDiskAddr(mem, CurrentNodes[j], p)
<1>1. /\ i \in Created /\ CurrentNodes[i] = job.node
      /\ \A j \in File : CurrentNodes'[j] = CurrentNodes[j]
      /\ a \in Int
      /\ \A x \in Addr : mem'[x] = IF x \in a .. a + Chunk - 1 THEN job.left[x - a + 1] ELSE mem[x]
      /\ \A j \in File : \A l \in Held(CurrentNodes[j]) :
            StartOf(mem', CurrentNodes[j], l) = StartOf(mem, CurrentNodes[j], l)
  BY WriteBlockEffect
<1>2. /\ job # Idle /\ at < job.node.cap * DSize /\ at \in Nat
      /\ job.node \in NodeT /\ WellShaped(job.node)
      /\ mem \in [Addr -> Int] /\ taken \in SUBSET Blocks
      /\ Layout(taken, mem, CurrentNodes)
  BY WriteBlockParts, JobFields DEF Typed, TypeOK, Mapped
<1>3. Chunk \in Nat /\ Inner(at) + Chunk <= DSize /\ i \in File
  BY <1>1, <1>2, ChunkFits, JobFields, SMTT(40) DEF Created
<1>4. BlockOf(at) \in Held(job.node) /\ StartOf(mem, job.node, BlockOf(at)) \in Int
  BY <1>2, AddressInt
<1>5. /\ BlockOf(at) \in Nat /\ Inner(at) \in Nat /\ DSize \in Nat
      /\ a = StartOf(mem, job.node, BlockOf(at)) + Inner(at)
  BY <1>2, OffsetParts, AddressParts, ZeroWord
<1> HIDE DEF i, a, at
<1>6. ASSUME NEW q \in 0 .. Chunk - 1
      PROVE  /\ at + q \in Nat
             /\ BlockOf(at + q) \in Held(CurrentNodes[i])
             /\ A(i, at + q) = a + q
  <2>1. q \in Nat /\ Inner(at) + q < DSize
    BY <1>3, <1>5
  <2>2. BlockOf(at + q) = BlockOf(at) /\ Inner(at + q) = Inner(at) + q /\ at + q \in Nat
    BY <2>1, <1>2, NextOffset
  <2>3. A(i, at + q) = StartOf(mem, job.node, BlockOf(at)) + (Inner(at) + q)
    BY <2>2, <1>1, AddressParts
  <2> QED
    BY <2>1, <2>2, <2>3, <1>1, <1>4, <1>5
<1>7. ASSUME NEW j \in File, NEW p \in Nat, BlockOf(p) \in Held(CurrentNodes[j])
      PROVE  /\ A(j, p) \in Addr
             /\ CalcDiskAddr(mem', CurrentNodes[j], p) = A(j, p)
             /\ StartOf(mem, CurrentNodes[j], BlockOf(p)) = DataOffset(BlockOf(A(j, p)))
             /\ BlockOf(A(j, p)) \in Blocks
             /\ A(j, p) = DataOffset(BlockOf(A(j, p))) + Inner(p)
  <2>1. /\ A(j, p) \in Addr /\ BlockOf(A(j, p)) \in taken
        /\ StartOf(mem, CurrentNodes[j], BlockOf(p)) = DataOffset(BlockOf(A(j, p)))
    BY <1>2, <1>7, WordPlace
  <2>2. CalcDiskAddr(mem', CurrentNodes[j], p) = A(j, p)
    BY <1>1, <1>7, AddressParts
  <2>3. A(j, p) = StartOf(mem, CurrentNodes[j], BlockOf(p)) + Inner(p)
    BY AddressParts
  <2> QED
    BY <2>1, <2>2, <2>3, <1>2
<1>8. ASSUME NEW j \in File, NEW p \in Nat, BlockOf(p) \in Held(CurrentNodes[j]),
             NEW q \in 0 .. Chunk - 1, A(j, p) = a + q
      PROVE  j = i /\ p = at + q
  <2>1. at + q \in Nat /\ BlockOf(at + q) \in Held(CurrentNodes[i]) /\ A(i, at + q) = A(j, p)
    BY <1>6, <1>8
  <2>2. StartOf(mem, CurrentNodes[j], BlockOf(p)) = StartOf(mem, CurrentNodes[i], BlockOf(at + q))
    BY <2>1, <1>3, <1>7, <1>8
  <2>3. j = i /\ BlockOf(p) = BlockOf(at + q)
    BY <2>1, <2>2, <1>2, <1>3, <1>8 DEF Layout
  <2>4. Inner(p) = Inner(at + q)
    <3>1. /\ A(j, p) = DataOffset(BlockOf(A(j, p))) + Inner(p) /\ BlockOf(A(j, p)) \in Blocks
          /\ A(j, p) = DataOffset(BlockOf(A(j, p))) + Inner(at + q)
      BY <2>1, <1>3, <1>7, <1>8
    <3>2. Inner(p) \in 0 .. DSize - 1 /\ Inner(at + q) \in 0 .. DSize - 1
      BY <2>1, OffsetParts
    <3> QED
      BY <3>1, <3>2, StartsApart
  <2> QED
    BY <2>1, <2>3, <2>4, PartsDiffer
<1> HIDE DEF A
<1>9. ASSUME NEW j \in File, NEW p \in Nat, BlockOf(p) \in Held(CurrentNodes[j])
      PROVE  mem'[CalcDiskAddr(mem', CurrentNodes[j], p)] =
                IF j = i /\ p \in at .. at + Chunk - 1 THEN job.left[p - at + 1] ELSE mem[A(j, p)]
  <2>1. A(j, p) \in Addr /\ A(j, p) \in Int /\ CalcDiskAddr(mem', CurrentNodes[j], p) = A(j, p)
    BY <1>7, <1>9 DEF Addr
  <2>2. CASE j = i /\ p \in at .. at + Chunk - 1
    <3>1. p - at \in 0 .. Chunk - 1 /\ at + (p - at) = p
      BY <2>2, <1>2, <1>3
    <3>2. A(j, p) = a + (p - at)
      BY <3>1, <2>2, <1>6
    <3>3. A(j, p) \in a .. a + Chunk - 1 /\ A(j, p) - a + 1 = p - at + 1
      BY <3>1, <3>2, <1>1, <1>2, <1>3
    <3> QED
      BY <3>3, <2>1, <2>2, <1>1
  <2>3. CASE ~(j = i /\ p \in at .. at + Chunk - 1)
    <3>1. A(j, p) \notin a .. a + Chunk - 1
      <4> SUFFICES ASSUME A(j, p) \in a .. a + Chunk - 1 PROVE FALSE
        OBVIOUS
      <4>1. A(j, p) - a \in 0 .. Chunk - 1 /\ A(j, p) = a + (A(j, p) - a)
        BY <2>1, <1>1, <1>3
      <4>2. j = i /\ p = at + (A(j, p) - a)
        BY <4>1, <1>8, <1>9
      <4> QED
        BY <4>1, <4>2, <2>3, <1>2, <1>3
    <3> QED
      BY <3>1, <2>1, <2>3, <1>1
  <2> QED
    BY <2>2, <2>3
<1>10. ASSUME NEW p \in at .. at + Chunk - 1
       PROVE  p \in Nat /\ BlockOf(p) \in Held(CurrentNodes[i])
  <2>1. p - at \in 0 .. Chunk - 1 /\ at + (p - at) = p
    BY <1>2, <1>3
  <2> QED
    BY <2>1, <1>6
<1> QED
  BY <1>1, <1>9, <1>10 DEF i, at, A

\* writeData within the capacity: words are put on the tape, if any are left.
LEMMA WriteBlockStep ==
    ASSUME Typed, Mapped, WriteBlock
    PROVE  Tape!Next \/ UNCHANGED (Tape!vars)
<1> DEFINE i == fd_map[job.fd].file
           at == job.at
<1>1. /\ job # Idle /\ job \in JobT
      /\ i \in File /\ at \in Nat /\ job.left \in Seq(Nat) /\ Len(job.left) \in Nat
      /\ at + Len(job.left) <= MaxOffset /\ MaxOffset \in Nat
      /\ Chunk \in 0 .. Len(job.left)
      /\ Chunk = 0 => job.left = <<>>
  BY WriteBlockParts, JobFields, ChunkFits DEF Created
<1>2. /\ job' = [job EXCEPT !.at = job.at + Chunk,
                            !.left = SubSeq(job.left, Chunk + 1, Len(job.left)),
                            !.ends = (Len(job.left) <= DSize - Inner(job.at))]
      /\ UNCHANGED <<node, fd_map>>
  BY WriteBlockParts
<1>3. /\ job'.fd = job.fd /\ job'.closes = job.closes /\ job'.at = job.at + Chunk
      /\ job'.left = SubSeq(job.left, Chunk + 1, Len(job.left))
      /\ job' # Idle
  <2>1. DOMAIN job' = DOMAIN job
    BY <1>1, <1>2 DEF JobT
  <2>2. "at" \in DOMAIN job /\ "at" \notin DOMAIN Idle
    BY <1>1 DEF JobT, Idle
  <2>3. job' # Idle
    BY <2>1, <2>2
  <2> QED
    BY <2>3, <1>1, <1>2 DEF JobT
<1>4. /\ Writes = [fd |-> job.fd, at |-> job.at, left |-> job.left, closes |-> job.closes]
      /\ Writes # Idle
      /\ Writes' = [fd |-> job'.fd, at |-> job'.at, left |-> job'.left, closes |-> job'.closes]
  BY <1>1, <1>3, WritesOf DEF Writes
<1>5. UNCHANGED Sizes
  BY <1>2 DEF Sizes
<1>6. ASSUME NEW j \in File, NEW p \in Offset
      PROVE  TapeIn(mem', CurrentNodes'[j])[p] =
                IF j = i /\ p \in at .. at + Chunk - 1 THEN job.left[p - at + 1]
                ELSE TapeIn(mem, CurrentNodes[j])[p]
  <2>1. p \in Nat /\ CurrentNodes[j].cap \in Nat /\ CurrentNodes'[j] = CurrentNodes[j]
    BY OffsetNat, BlockWords, CurrentCases DEF NodeT
  <2>2. p \in Offsets(CurrentNodes[j]) <=> BlockOf(p) \in Held(CurrentNodes[j])
    BY <2>1, OffsetHeld
  <2>3. CASE BlockOf(p) \in Held(CurrentNodes[j])
    BY <2>1, <2>2, <2>3, BlockWords DEF TapeIn
  <2>4. CASE BlockOf(p) \notin Held(CurrentNodes[j])
    <3>1. ~(j = i /\ p \in at .. at + Chunk - 1)
      BY <2>4, BlockWords
    <3> QED
      BY <3>1, <2>1, <2>2, <2>4 DEF TapeIn
  <2> QED
    BY <2>3, <2>4
<1> HIDE DEF i, at
<1>7. CASE Chunk = 0
  <2>1. at .. at + Chunk - 1 = {}
    BY <1>1, <1>7
  <2>2. \A j \in File : TapeIn(mem', CurrentNodes'[j]) = TapeIn(mem, CurrentNodes[j])
    BY <2>1, <1>6 DEF TapeIn
  <2>3. UNCHANGED Tapes
    BY <2>2, TapesKept
  <2>4. job'.left = job.left /\ job'.at = job.at
    <3>1. Len(job.left) = 0 /\ job.left = <<>>
      BY <1>1, <1>7
    <3> QED
      BY <3>1, <1>1, <1>3, <1>7, ChunkFits DEF at
  <2>5. UNCHANGED Writes
    BY <2>4, <1>3, <1>4
  <2> QED
    BY <2>3, <2>5, <1>2, <1>5, TapeVars
<1>8. CASE Chunk # 0
  <2>1. Chunk \in 1 .. MaxOffset /\ Chunk \in 1 .. Len(job.left)
    BY <1>1, <1>8
  <2>2. Tapes' = [Tapes EXCEPT ![i] =
                     [p \in Offset |-> IF p \in at .. at + Chunk - 1 THEN job.left[p - at + 1] ELSE @[p]]]
    <3>1. \A j \in File : j # i => TapeIn(mem', CurrentNodes'[j]) = TapeIn(mem, CurrentNodes[j])
      BY <1>6 DEF TapeIn
    <3>2. TapeIn(mem', CurrentNodes'[i]) =
             [p \in Offset |-> IF p \in at .. at + Chunk - 1 THEN job.left[p - at + 1]
                               ELSE TapeIn(mem, CurrentNodes[i])[p]]
      BY <1>1, <1>6 DEF TapeIn
    <3> QED
      BY <3>1, <3>2, <1>1, TapesAre
  <2>3. Writes' = [Writes EXCEPT !.at = @ + Chunk, !.left = SubSeq(@, Chunk + 1, Len(@))]
    <3>1. Writes' = [fd |-> job.fd, at |-> job.at + Chunk,
                     left |-> SubSeq(job.left, Chunk + 1, Len(job.left)), closes |-> job.closes]
      BY <1>3, <1>4
    <3>2. Writes = [fd |-> job.fd, at |-> job.at, left |-> job.left, closes |-> job.closes]
      BY <1>4
    <3>3. Writes.at = job.at /\ Writes.left = job.left
      BY <3>2
    <3>4. ASSUME NEW x, NEW y
          PROVE  [Writes EXCEPT !.at = x, !.left = y]
                 = [fd |-> job.fd, at |-> x, left |-> y, closes |-> job.closes]
      <4>1. [Writes EXCEPT !.at = x] = [fd |-> job.fd, at |-> x, left |-> job.left, closes |-> job.closes]
        BY <3>2
      <4>2. [[fd |-> job.fd, at |-> x, left |-> job.left, closes |-> job.closes] EXCEPT !.left = y]
            = [fd |-> job.fd, at |-> x, left |-> y, closes |-> job.closes]
        OBVIOUS
      <4>3. [Writes EXCEPT !.at = x, !.left = y] = [[Writes EXCEPT !.at = x] EXCEPT !.left = y]
        OBVIOUS
      <4> QED
        BY <4>1, <4>2, <4>3
    <3> QED
      BY <3>1, <3>3, <3>4
  <2>4. Writes.fd = job.fd /\ Writes.at = at /\ Writes.left = job.left
    BY <1>4 DEF at
  <2> QED
    BY <2>1, <2>2, <2>3, <2>4, <1>2, <1>4, <1>5, TapePut DEF i
<1> QED
  BY <1>1, <1>7, <1>8

\* A step behind the capacity leaves the write as the tape sees it.
LEMMA GrowsWrites ==
    ASSUME Typed, Growing, NEW new \in NodeT, NEW got, GrowsTo(new, got)
    PROVE  UNCHANGED <<Sizes, fd_map, Writes>>
<1>1. job # Idle
  BY GrowingFacts
<1>2. /\ job' # Idle /\ job'.fd = job.fd /\ job'.at = job.at
      /\ job'.left = job.left /\ job'.closes = job.closes
  BY GrowsEffect
<1>3. UNCHANGED <<node, fd_map>>
  BY DEF GrowsTo
<1> QED
  BY <1>1, <1>2, <1>3 DEF Writes, Sizes

\* The level 1 block: every offset keeps its address.
LEMMA AllocAddr1Step == ASSUME ~RunsDry, Typed, Mapped, AllocAddr1 PROVE UNCHANGED (Tape!vars)
<1>1. Growing /\ mem' = mem /\ IndexNode \in NodeT /\ GrowsTo(IndexNode, NotYet)
  BY AllocAddr1Parts
<1>2. /\ \A j \in File : CurrentNodes'[j].cap = CurrentNodes[j].cap
      /\ \A j \in File : \A l \in Held(CurrentNodes[j]) :
            StartOf(mem, CurrentNodes'[j], l) = StartOf(mem, CurrentNodes[j], l)
  BY AllocAddr1Effect
<1>3. ASSUME NEW j \in File PROVE TapeIn(mem', CurrentNodes'[j]) = TapeIn(mem, CurrentNodes[j])
  <2>1. CurrentNodes[j].cap \in Nat /\ CurrentNodes'[j].cap = CurrentNodes[j].cap
    BY <1>2, CurrentCases DEF NodeT
  <2>2. ASSUME NEW p \in Offset, p \in Offsets(CurrentNodes[j])
        PROVE  CalcDiskAddr(mem, CurrentNodes'[j], p) = CalcDiskAddr(mem, CurrentNodes[j], p)
    <3>1. p \in Nat /\ BlockOf(p) \in Held(CurrentNodes[j])
      BY <2>1, <2>2, OffsetNat, OffsetHeld
    <3> QED
      BY <3>1, <1>2, AddressParts
  <2> QED
    BY <2>1, <2>2, <1>1 DEF TapeIn, Offsets
<1>4. UNCHANGED Tapes
  BY <1>3, TapesKept
<1> QED
  BY <1>1, <1>4, GrowsWrites, TapeVars

\* The bit of a block.
LEMMA TakeBlockStep == ASSUME ~RunsDry, Typed, Mapped, TakeBlock PROVE UNCHANGED (Tape!vars)
<1>1. Growing /\ mem' = mem /\ job.node \in NodeT /\ GrowsTo(job.node, NewB)
  BY TakeBlockParts
<1>2. \A j \in File : TapeIn(mem', CurrentNodes'[j]) = TapeIn(mem, CurrentNodes[j])
  BY <1>1, TakeBlockEffect
<1>3. UNCHANGED Tapes
  BY <1>2, TapesKept
<1> QED
  BY <1>1, <1>3, GrowsWrites, TapeVars

\* The address of the block: nothing that can be read changes, the block that
\* comes to the file holds zeros.
LEMMA PutAddressStep ==
    ASSUME ~RunsDry, Typed, Mapped, PutAddress
    PROVE  UNCHANGED (Tape!vars)
<1> DEFINE i == fd_map[job.fd].file
           cap == job.node.cap
           word == job.node.addr_1 + cap - 1
<1>1. /\ Growing /\ job # Idle /\ cap \in 1 .. DSize
      /\ GrownNode \in NodeT /\ GrowsTo(GrownNode, NotYet)
      /\ taken' = taken
  BY PutAddressParts, GrowingFacts
<1>2. /\ i \in File /\ job \in JobT /\ job.node \in NodeT
      /\ taken \in SUBSET Blocks /\ mem \in [Addr -> Int]
      /\ Layout(taken, mem, CurrentNodes)
  BY <1>1, JobFields DEF Created, Typed, TypeOK, Mapped
<1>3. /\ CurrentNodes[i] = job.node
      /\ \A j \in File : CurrentNodes'[j] = IF j = i THEN GrownNode ELSE CurrentNodes[j]
      /\ Mapped'
      /\ \A j \in File : \A l \in Held(CurrentNodes[j]) :
            /\ l \in Held(CurrentNodes'[j])
            /\ StartOf(mem', CurrentNodes'[j], l) = StartOf(mem, CurrentNodes[j], l)
      /\ StartOf(mem', GrownNode, cap) = DataOffset(job.got)
      /\ \A x \in Addr : mem'[x] # mem[x] => x = word
      /\ job.got \in Blocks /\ \A x \in Addr : BlockOf(x) = job.got => mem[x] = 0
  BY PutAddressEffect
<1>4. taken' \in SUBSET Blocks /\ Layout(taken', mem', CurrentNodes')
  BY <1>1, <1>2, <1>3 DEF Mapped
<1>5. PICK c \in Blocks \cup {NoId} : job.node.addr_1 = DataOffset(c)
  BY PutAddressParts
<1>6. /\ GrownNode.cap = cap + 1 /\ GrownNode.addr_1 = job.node.addr_1 /\ job.node.addr_1 # NoAddr
  BY PutAddressParts
<1>7. cap \in Nat /\ cap >= 1 /\ cap - 1 \in 0 .. DSize - 1
  BY <1>1, ZeroWord
<1>8. -1 \in Held(GrownNode) /\ StartOf(mem', GrownNode, -1) = DataOffset(c)
  BY <1>5, <1>6, <1>7 DEF Held, StartOf
<1>9. word \in Addr /\ BlockOf(word) = c
  <2>1. DataOffset(c) \in Int /\ DataOffset(c) + (cap - 1) \in Addr /\ BlockOf(DataOffset(c) + (cap - 1)) = c
    BY <1>7, WordOfBlock
  <2>2. word = DataOffset(c) + (cap - 1)
    BY <2>1, <1>5, <1>7
  <2> QED
    BY <2>1, <2>2
<1> HIDE DEF i, cap, word
\* The word that changes is in no block that holds data.
<1>10. ASSUME NEW j \in File, NEW p \in Nat, BlockOf(p) \in Held(CurrentNodes'[j])
       PROVE  LET a == CalcDiskAddr(mem', CurrentNodes'[j], p)
              IN  /\ a \in Addr
                  /\ StartOf(mem', CurrentNodes'[j], BlockOf(p)) = DataOffset(BlockOf(a))
                  /\ BlockOf(a) \in Blocks
                  /\ mem'[a] = mem[a]
  <2> DEFINE a == CalcDiskAddr(mem', CurrentNodes'[j], p)
  <2>1. /\ a \in Addr /\ BlockOf(a) \in taken'
        /\ StartOf(mem', CurrentNodes'[j], BlockOf(p)) = DataOffset(BlockOf(a))
    <3>1. ASSUME NEW m, NEW ns, Layout(taken', m, ns), BlockOf(p) \in Held(ns[j])
          PROVE  LET x == CalcDiskAddr(m, ns[j], p)
                 IN  /\ x \in Addr /\ BlockOf(x) \in taken'
                     /\ StartOf(m, ns[j], BlockOf(p)) = DataOffset(BlockOf(x))
      BY <3>1, <1>4, WordPlace
    <3> QED
      BY <3>1, <1>3, <1>4, <1>10
  <2> HIDE DEF a
  <2>2. BlockOf(p) \in Nat
    BY OffsetParts
  <2>3. BlockOf(a) # c
    <3> SUFFICES ASSUME BlockOf(a) = c PROVE FALSE
      OBVIOUS
    <3>1. /\ CurrentNodes'[i] = GrownNode
          /\ StartOf(mem', CurrentNodes'[j], BlockOf(p)) = StartOf(mem', CurrentNodes'[i], -1)
      BY <2>1, <1>2, <1>3, <1>8
    <3>2. -1 = BlockOf(p)
      <4>1. ASSUME NEW m, NEW ns, Layout(taken', m, ns), BlockOf(p) \in Held(ns[j]), -1 \in Held(ns[i]),
                   StartOf(m, ns[j], BlockOf(p)) = StartOf(m, ns[i], -1)
            PROVE  -1 = BlockOf(p)
        BY <4>1, <1>2 DEF Layout
      <4> QED
        BY <4>1, <3>1, <1>3, <1>4, <1>8, <1>10
    <3> QED
      BY <3>2, <2>2
  <2>4. a # word
    BY <2>3, <1>9
  <2> QED
    BY <2>1, <2>4, <1>3, <1>4 DEF a
<1>11. ASSUME NEW j \in File PROVE TapeIn(mem', CurrentNodes'[j]) = TapeIn(mem, CurrentNodes[j])
  <2>1. CurrentNodes[j].cap \in Nat /\ CurrentNodes'[j].cap \in Nat
    BY <1>3, <1>6, <1>7, CurrentCases DEF NodeT
  <2>2. ASSUME NEW p \in Offset, BlockOf(p) \in Held(CurrentNodes[j])
        PROVE  /\ BlockOf(p) \in Held(CurrentNodes'[j])
               /\ mem'[CalcDiskAddr(mem', CurrentNodes'[j], p)] = mem[CalcDiskAddr(mem, CurrentNodes[j], p)]
    <3>1. p \in Nat
      BY OffsetNat
    <3>2. /\ BlockOf(p) \in Held(CurrentNodes'[j])
          /\ StartOf(mem', CurrentNodes'[j], BlockOf(p)) = StartOf(mem, CurrentNodes[j], BlockOf(p))
      BY <2>2, <1>3
    <3>3. CalcDiskAddr(mem', CurrentNodes'[j], p) = CalcDiskAddr(mem, CurrentNodes[j], p)
      BY <3>1, <3>2, AddressParts
    <3> QED
      BY <3>1, <3>2, <3>3, <1>10
  <2>3. ASSUME NEW p \in Offset, BlockOf(p) \notin Held(CurrentNodes[j]), BlockOf(p) \in Held(CurrentNodes'[j])
        PROVE  mem'[CalcDiskAddr(mem', CurrentNodes'[j], p)] = 0
    <3>1. p \in Nat /\ BlockOf(p) \in Nat
      BY OffsetNat, OffsetParts
    <3>2. j = i
      BY <2>3, <1>3
    <3>3. BlockOf(p) = cap
      <4>1. BlockOf(p) \in Held(GrownNode) /\ BlockOf(p) \notin Held(job.node)
        BY <3>2, <2>3, <1>2, <1>3
      <4>2. BlockOf(p) <= cap
        BY <4>1, <3>1, <1>6, <1>7 DEF Held
      <4>3. ~(BlockOf(p) <= cap - 1)
        BY <4>1, <3>1, <1>7 DEF Held, cap
      <4> QED
        BY <4>2, <4>3, <3>1, <1>7
    <3> DEFINE a == CalcDiskAddr(mem', CurrentNodes'[j], p)
    <3>4. /\ a \in Addr /\ mem'[a] = mem[a] /\ BlockOf(a) \in Blocks
          /\ StartOf(mem', CurrentNodes'[j], BlockOf(p)) = DataOffset(BlockOf(a))
      BY <3>1, <2>3, <1>10
    <3>5. DataOffset(BlockOf(a)) = DataOffset(job.got)
      BY <3>2, <3>3, <3>4, <1>3
    <3>6. BlockOf(a) = job.got
      <4>1. DataOffset(BlockOf(a)) + 0 = DataOffset(job.got) + 0
        BY <3>5
      <4> QED
        BY <4>1, <3>4, <1>3, ZeroWord, StartsApart
    <3> QED
      BY <3>4, <3>6, <1>3
  <2> QED
    BY <2>1, <2>2, <2>3, TapeSame
<1>12. UNCHANGED Tapes
  BY <1>11, TapesKept
<1> QED
  BY <1>1, <1>12, GrowsWrites, TapeVars

LEMMA TapeOfWords ==
    ASSUME NEW m, NEW n, NEW copy, copy.cap = n.cap, copy.addr_0 = n.addr_0, copy.addr_1 = n.addr_1
    PROVE  TapeIn(m, copy) = TapeIn(m, n)
BY DEF TapeIn, Offsets, CalcDiskAddr

LEMMA EndWriteStep == ASSUME Typed, EndWrite PROVE Tape!Next
<1> DEFINE i == fd_map[job.fd].file
<1>1. /\ job # Idle /\ job.left = <<>>
      /\ node' = [node EXCEPT ![i] = EndNode]
      /\ EndNode.cap = job.node.cap /\ EndNode.addr_0 = job.node.addr_0
      /\ EndNode.addr_1 = job.node.addr_1
      /\ EndNode.size = IF job.at <= job.node.size THEN job.node.size ELSE job.at
      /\ fd_map' = IF job.closes THEN DropFD(job.fd) ELSE SetFD(job.fd, i, job.at)
      /\ job' = Idle
      /\ mem' = mem
  BY EndWriteParts
<1>2. /\ i \in File /\ job.node \in NodeT /\ job.at \in Nat
      /\ node \in [File -> NodeT]
      /\ job.node.size = node[i].size
  BY <1>1, JobFields DEF Created, Typed, TypeOK, Shapes, CopyExtends
<1>3. /\ CurrentNodes[i] = job.node
      /\ \A j \in File : j # i => CurrentNodes[j] = node[j]
  BY <1>1, <1>2, CurrentCases DEF Current
<1> HIDE DEF i
<1>4. \A j \in File : CurrentNodes'[j] = IF j = i THEN EndNode ELSE node[j]
  BY <1>1, <1>2 DEF CurrentNodes, Current
<1>5. TapeIn(mem, EndNode) = TapeIn(mem, job.node)
  BY <1>1, TapeOfWords
<1>6. UNCHANGED Tapes
  BY <1>1, <1>3, <1>4, <1>5, TapesKept
<1>7. Writes = [fd |-> job.fd, at |-> job.at, left |-> job.left, closes |-> job.closes] /\ Writes # Idle
  BY <1>1, WritesOf
<1>8. Writes' = Idle
  BY <1>1 DEF Writes
<1>9. Sizes' = [Sizes EXCEPT ![i] = IF job.at > @ THEN job.at ELSE @]
  <2>1. \A j \in File : node'[j].size = IF j = i THEN EndNode.size ELSE node[j].size
    BY <1>1, <1>2
  <2>2. EndNode.size = IF job.at > node[i].size THEN job.at ELSE node[i].size
    BY <1>1, <1>2 DEF NodeT
  <2> QED
    BY <2>1, <2>2, <1>2 DEF Sizes
<1>10. Writes.fd = job.fd /\ Writes.at = job.at /\ Writes.left = <<>> /\ Writes.closes = job.closes
  BY <1>1, <1>7
<1> QED
  BY <1>1, <1>6, <1>7, <1>8, <1>9, <1>10, TapeEndWrite DEF i

\* The end of the process: words behind the size of a file that was being
\* written, in blocks that its inode on the disk does not know, are lost.
LEMMA RestartStep == ASSUME Typed, Restart PROVE Tape!Next
<1>1. fd_map' = [fd \in {} |-> 0] /\ job' = Idle /\ UNCHANGED <<mem, node>>
  BY DEF Restart
<1>2. \A j \in File : CurrentNodes'[j] = node[j]
  BY <1>1 DEF CurrentNodes, Current
<1>3. ASSUME NEW f \in File, NEW p \in Offset
      PROVE  \/ Tapes'[f][p] = Tapes[f][p]
             \/ p >= Sizes[f] /\ Tapes'[f][p] = 0
  <2>1. Tapes[f] = TapeIn(mem, CurrentNodes[f]) /\ Tapes'[f] = TapeIn(mem, node[f])
    BY <1>1, <1>2, TapesAre
  <2>2. /\ p \in Nat /\ BlockOf(p) \in Nat
        /\ node[f] \in NodeT /\ Fits(node[f]) /\ (f \in Created => WellShaped(node[f]))
        /\ CurrentNodes[f] \in NodeT /\ Fits(CurrentNodes[f])
        /\ Begins(node[f], CurrentNodes[f])
    BY CurrentCases, OffsetNat, OffsetParts
  <2>3. node[f].cap \in Nat /\ CurrentNodes[f].cap \in Nat /\ node[f].size \in Nat
    BY <2>2 DEF NodeT
  <2>4. CASE BlockOf(p) \in Held(node[f])
    <3>1. BlockOf(p) \in Held(CurrentNodes[f]) /\ StartOf(mem, CurrentNodes[f], BlockOf(p)) = StartOf(mem, node[f], BlockOf(p))
      BY <2>2, <2>4, BeginHolds
    <3>2. CalcDiskAddr(mem, CurrentNodes[f], p) = CalcDiskAddr(mem, node[f], p)
      BY <3>1, <2>2, AddressParts
    <3>3. p \in Offsets(node[f]) /\ p \in Offsets(CurrentNodes[f])
      BY <3>1, <2>2, <2>3, <2>4, OffsetHeld
    <3> QED
      BY <3>2, <3>3, <2>1 DEF TapeIn
  <2>5. CASE BlockOf(p) \notin Held(node[f])
    <3>1. p \notin Offsets(node[f])
      BY <2>2, <2>3, <2>5, OffsetHeld
    <3>2. Tapes'[f][p] = 0
      BY <3>1, <2>1 DEF TapeIn
    <3>3. p >= node[f].cap * DSize /\ node[f].cap * DSize \in Nat
      <4>1. node[f].cap * DSize \in Nat
        BY <2>3, ZeroWord
      <4> QED
        BY <4>1, <3>1, <2>2 DEF Offsets
    <3>4. node[f].size <= node[f].cap * DSize
      <4>1. CASE f \in Created
        BY <4>1, <2>2 DEF WellShaped
      <4>2. CASE f \notin Created
        BY <4>2, <3>3 DEF Created, NoNode
      <4> QED
        BY <4>1, <4>2
    <3>5. p >= node[f].size
      BY <3>3, <3>4, <2>2, <2>3
    <3> QED
      BY <3>2, <3>5 DEF Sizes
  <2> QED
    BY <2>4, <2>5
<1> QED
  BY <1>1, <1>3, TapeRestart DEF Sizes, Writes

-----------------------------------------------------------------------------
(* The refinement *)

LEMMA TapeInit == Init => Tape!Init
<1> SUFFICES ASSUME Init PROVE Tape!Init
  OBVIOUS
<1>1. /\ job = Idle
      /\ \A i \in File : node[i] = NoNode
      /\ fd_map = [fd \in {} |-> 0]
  BY DEF Init
<1>2. Offsets(NoNode) = {} /\ NoNode.size = 0
  <2>1. NoNode.cap * DSize - 1 = -1
    BY ZeroWord DEF NoNode
  <2> QED
    BY <2>1 DEF Offsets, NoNode
<1>3. \A i \in File : Current(i) = NoNode
  BY <1>1 DEF Current
<1>4. \A i \in File : TapeOf(i) = [p \in 0 .. MaxOffset - 1 |-> 0]
  BY <1>2, <1>3 DEF TapeOf
<1> QED
  BY <1>1, <1>2, <1>4 DEF Tape!Init, Tape!NoWrite, Tape!Offset, Idle

LEMMA TapeStep ==
    ASSUME ~RunsDry, Typed, Mapped, [Next]_vars
    PROVE  [Tape!Next]_(Tape!vars)
<1>1. ASSUME NEW i \in File, Open(i) \/ Export(i) \/ Remove(i) PROVE Tape!Next \/ UNCHANGED (Tape!vars)
  BY <1>1, OpenStep, NamesStep
<1>2. ASSUME NEW fd \in DOMAIN fd_map,
             \/ Close(fd)
             \/ \E off \in SeekTo : Seek(fd, off)
             \/ \E len \in ReadLen : Read(fd, len)
             \/ \E data \in Data : BeginWrite(fd, data)
      PROVE  Tape!Next
  BY <1>2, DescriptorStep, BeginWriteStep
<1>3. ASSUME NEW i \in File, NEW data \in Data, Import(i, data) PROVE Tape!Next
  BY <1>3, ImportStep
<1>4. CASE Continue
  BY <1>4, WriteBlockStep, AllocAddr1Step, TakeBlockStep, PutAddressStep, EndWriteStep DEF Continue
<1>5. CASE Restart
  BY <1>5, RestartStep
<1>6. CASE UNCHANGED vars
  BY <1>6, TapeVars DEF vars, Sizes, Tapes, Writes, TapeOf, Current, Offsets, AddrOf, CalcDiskAddr
<1> QED
  BY <1>1, <1>2, <1>3, <1>4, <1>5, <1>6 DEF Next

\* While no block is missing, files are tapes: an offset reads what was last
\* written to it through any descriptor, zero if nothing was, whatever blocks
\* the words are in and however many calls of writeData put them there.
THEOREM FilesAreTapesCorrect == ASSUME ~RunsDry PROVE Spec => FilesAreTapes
<1>1. Typed /\ Mapped /\ [Next]_vars => [Tape!Next]_(Tape!vars)
  BY TapeStep
<1>2. Tape!Init /\ [][Tape!Next]_(Tape!vars) => FilesAreTapes
  BY PTL DEF FilesAreTapes, Tape!Spec
<1> QED
  BY <1>1, <1>2, TapeInit, TypedCorrect, MappedCorrect, PTL DEF Spec
=============================================================================
