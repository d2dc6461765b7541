---------------------------- MODULE NbMemProofs ----------------------------
(***************************************************************************)
(* Theorems about the block allocator, for every size of the heap, every   *)
(* limit on the size of a block and every sequence of calls.               *)
(***************************************************************************)
EXTENDS NbMem, FiniteSetTheorems, WellFoundedInduction, TLAPS

\* A uint16_t is a natural number; the provers are slow with its upper bound.
LEMMA WordIsNat == \A x \in Word16 : x \in Nat
<1> DEFINE max == 65535
<1>1. max \in Nat /\ Word16 = 0 .. max
  BY DEF Word16
<1> HIDE DEF max
<1> QED BY <1>1

\* So is a byte,
LEMMA ByteIsNat == \A x \in Byte : x \in Nat
  BY DEF Byte

\* and so is the number of a block.
LEMMA BlockIsNat == \A x \in Block : x \in Nat
  BY NumBlocksAssumption DEF Block

\* What the two roundings of the allocator have to do with each other: the
\* words hold the request and the blocks hold the words with their header.
LEMMA Sizes == ASSUME NEW n \in Nat, n <= MaxBlockSize
               PROVE  /\ NumBlk(n) \in 1 .. 255
                      /\ NumWords(n) \in 1 .. 255
                      /\ n <= 4 * NumWords(n) - 2
                      /\ 4 * NumWords(n) <= 8 * NumBlk(n)
  BY MaxBlockSizeAssumption DEF NumBlk, NumWords, Byte

\* The address of a block leads back to it.
LEMMA Addresses == ASSUME NEW b \in Block
                   PROVE  IsHeapAddr(Addr(b)) /\ HeadOf(Addr(b)) = b
  BY NumBlocksAssumption DEF Block, IsHeapAddr, HeadOf, Addr

\* What the program frees or reallocates is the first block of an allocation.
LEMMA HeldAddresses == ASSUME NEW a \in HeldAddr
                       PROVE  HeadOf(a) \in Held /\ a = Addr(HeadOf(a)) /\ IsHeapAddr(a)
  BY Addresses DEF HeldAddr, Held

-----------------------------------------------------------------------------
\* The blocks of an allocation are those its tag describes.
LEMMA Extent == ASSUME HeapTypeOK, RunsMatchTags, NEW h \in Held, NEW j \in Block
                PROVE  owner[j] = h <=> j \in h .. h + tag[h] - 1
  BY NumBlocksAssumption DEF HeapTypeOK, RunsMatchTags, Held, Block, None, Byte

\* Right behind an allocation there is a free block or another allocation.
LEMMA RunEnd == ASSUME HeapTypeOK, RunsMatchTags, NEW h \in Held,
                       h + tag[h] < NumBlocks
                PROVE  owner[h + tag[h]] \in {None, h + tag[h]}
<1> DEFINE p == h + tag[h]
<1>1. p \in Block /\ h \in Block /\ tag[h] \in Byte
  <2>1. h \in Block /\ tag[h] \in Byte
    BY DEF HeapTypeOK, Held
  <2>2. h \in Nat /\ tag[h] \in Nat
    BY <2>1, BlockIsNat, ByteIsNat
  <2> QED BY <2>1, <2>2, NumBlocksAssumption DEF Block
<1>2. owner[p] # h
  BY <1>1, Extent DEF Block, Byte
<1>3. SUFFICES ASSUME owner[p] # None PROVE owner[p] = p
  OBVIOUS
<1> DEFINE o == owner[p]
<1>4. o \in Held /\ o \in Block /\ tag[o] \in Byte /\ p \in o .. o + tag[o] - 1
  BY <1>1, <1>3 DEF HeapTypeOK, RunsMatchTags, Held
<1>5. CASE o <= h
  <2>1. h \in o .. o + tag[o] - 1
    <3>1. tag[h] # 0
      BY DEF RunsMatchTags, FreeTag
    <3>2. h \in Int /\ tag[h] \in Nat /\ o \in Int /\ tag[o] \in Nat
      BY <1>1, <1>4, BlockIsNat, ByteIsNat
    <3>3. h + tag[h] <= o + tag[o] - 1
      BY <1>4, <3>2
    <3> HIDE DEF o
    <3> QED BY <3>1, <3>2, <3>3, <1>5
  <2>2. owner[h] = o
    BY <2>1, <1>1, <1>4, Extent
  <2> QED BY <2>2, <1>2 DEF Held
<1>6. CASE o > h /\ o < p
  <2>1. o \in h .. h + tag[h] - 1
    <3>1. h \in Int /\ tag[h] \in Nat /\ o \in Int
      BY <1>1, <1>4, BlockIsNat, ByteIsNat
    <3> HIDE DEF o
    <3> QED BY <3>1, <1>6
  <2>2. owner[o] = h
    BY <2>1, <1>4, Extent
  <2> QED BY <2>2, <1>4, <1>6 DEF Held, Block
<1> QED BY <1>1, <1>4, <1>5, <1>6, NumBlocksAssumption DEF Block, Byte

-----------------------------------------------------------------------------
\* The inductive invariant: what holds of the heap, and what holds of a search.
HeapInv == /\ HeapTypeOK
           /\ RunsMatchTags
           /\ UnownedIsFree
           /\ HintAtBoundary
           /\ SizeCoversRequest

ScanInv == /\ ScanTypeOK
           /\ ScanInStep
           /\ NoRunPassedOver

RetOK == ret \in {0} \cup {Addr(b) : b \in Block}

Inv == HeapInv /\ ScanInv /\ RetOK

\* nb_mem_free takes back exactly the blocks of the allocation.
LEMMA FreeBlocksHeapInv ==
  ASSUME HeapInv, NEW a \in HeldAddr, FreeBlocks(a), words' = words
  PROVE  HeapInv' /\ memStart' = FreedHint(HeadOf(a))
<1> DEFINE b == HeadOf(a)
<1>1. b \in Held /\ b \in Block
  BY HeldAddresses DEF Held
<1>2. /\ tag' = FreedTag(b)
      /\ memStart' = FreedHint(b)
      /\ owner' = [c \in Block |-> IF owner[c] = b THEN None ELSE owner[c]]
      /\ ask' = [ask EXCEPT ![b] = 0]
  BY DEF FreeBlocks, Forget
<1>3. HeapTypeOK /\ RunsMatchTags
  BY DEF HeapInv
<1> HIDE DEF b
<1>4. ASSUME NEW j \in Block
      PROVE  tag'[j] = IF owner[j] = b THEN FreeTag ELSE tag[j]
  <2>1. owner[j] = b <=> j \in b .. b + tag[b] - 1
    BY <1>1, <1>3, Extent
  <2> QED BY <2>1, <1>2 DEF FreedTag
<1>5. HeapTypeOK'
  <2>1. tag' \in [Block -> Byte]
    BY <1>2, <1>3 DEF FreedTag, HeapTypeOK, FreeTag, Byte
  <2>2. memStart' \in Block
    BY <1>1, <1>2, <1>3 DEF FreedHint, HeapTypeOK
  <2>3. owner' \in [Block -> Block \cup {None}]
    BY <1>2, <1>3 DEF HeapTypeOK
  <2>4. ask' \in [Block -> Word16]
    <3>1. ask \in [Block -> Word16]
      BY <1>3 DEF HeapTypeOK
    <3>2. 0 \in Word16
      BY DEF Word16
    <3>3. ask' = [ask EXCEPT ![b] = 0]
      BY <1>2
    <3> QED BY <3>1, <3>2, <3>3
  <2> QED BY <2>1, <2>2, <2>3, <2>4, <1>3 DEF HeapTypeOK
<1>6. ASSUME NEW j \in Block
      PROVE  owner'[j] = IF owner[j] = b THEN None ELSE owner[j]
  BY <1>2
<1>7. Held' = Held \ {b}
  <2>1. b # None
    BY <1>1, NumBlocksAssumption DEF Block, None
  <2>2. ASSUME NEW j \in Block PROVE owner'[j] = j <=> owner[j] = j /\ j # b
    BY <2>1, <1>1, <1>6, NumBlocksAssumption DEF Held, Block, None
  <2> QED BY <2>2 DEF Held
<1>8. ASSUME NEW h \in Held, h # b
      PROVE  tag'[h] = tag[h] /\ ask'[h] = ask[h] /\ words'[h] = words[h] /\ owner'[h] = h
  <2>1. h \in Block /\ owner[h] = h
    BY DEF Held
  <2>2. tag'[h] = tag[h] /\ owner'[h] = h
    BY <2>1, <1>4, <1>6, <1>8
  <2>3. ask \in [Block -> Word16]
    BY <1>3 DEF HeapTypeOK
  <2>4. ask'[h] = ask[h]
    BY <2>1, <2>3, <1>2, <1>8
  <2> QED BY <2>2, <2>4
<1>9. RunsMatchTags'
  <2>1. ASSUME NEW j \in Block, owner'[j] # None
        PROVE  /\ owner'[owner'[j]] = owner'[j]
               /\ j \in owner'[j] .. owner'[j] + tag'[owner'[j]] - 1
    <3>1. owner'[j] = owner[j] /\ owner[j] # b /\ owner[j] # None
      BY <2>1, <1>6
    <3>2. owner[j] \in Held /\ j \in owner[j] .. owner[j] + tag[owner[j]] - 1
      BY <3>1, <1>3 DEF HeapTypeOK, RunsMatchTags, Held
    <3> QED BY <3>1, <3>2, <1>8
  <2>2. ASSUME NEW h \in Held'
        PROVE  /\ tag'[h] # FreeTag
               /\ h + tag'[h] <= NumBlocks
               /\ \A j \in h .. h + tag'[h] - 1 : owner'[j] = h
    <3>1. h \in Held /\ h # b /\ h \in Block
      BY <1>7, <2>2 DEF Held
    <3>2. /\ tag'[h] = tag[h]
          /\ tag[h] # FreeTag
          /\ h + tag[h] <= NumBlocks
          /\ \A j \in h .. h + tag[h] - 1 : owner[j] = h
      BY <3>1, <1>3, <1>8 DEF RunsMatchTags
    <3>3. tag[h] \in Byte
      BY <3>1, <1>3 DEF HeapTypeOK
    <3>4. ASSUME NEW j \in h .. h + tag[h] - 1 PROVE j \in Block
      BY <3>1, <3>2, <3>3, <3>4, NumBlocksAssumption DEF Block, Byte
    <3> QED BY <3>1, <3>2, <3>4, <1>6
  <2> QED BY <2>1, <2>2 DEF RunsMatchTags
<1>10. UnownedIsFree'
  BY <1>4, <1>6 DEF HeapInv, UnownedIsFree
<1>11. HintAtBoundary'
  <2>1. CASE memStart' = b
    BY <2>1, <1>1, <1>6 DEF HintAtBoundary, Held
  <2>2. CASE memStart' = memStart
    BY <2>2, <1>3, <1>6 DEF HintAtBoundary, HeapInv, HeapTypeOK
  <2> QED BY <2>1, <2>2, <1>2 DEF FreedHint
<1>12. SizeCoversRequest'
  BY <1>7, <1>8 DEF HeapInv, SizeCoversRequest, BlockSize
<1> QED BY <1>5, <1>9, <1>10, <1>11, <1>12, <1>2 DEF HeapInv, b

-----------------------------------------------------------------------------
\* A step of the loop looks at a free block if and only if nobody holds it.
LEMMA TagTellsOwner ==
  ASSUME HeapInv, ScanTypeOK, ScanInStep, pc = "scan", i < NumBlocks, blocked = 0
  PROVE  /\ i \in Block
         /\ tag[i] = FreeTag => owner[i] = None
         /\ tag[i] # FreeTag => i \in Held
<1>1. i \in Block
  BY NumBlocksAssumption DEF ScanTypeOK, Block
<1>2. owner[i] \in {None, i}
  BY <1>1, NumBlocksAssumption DEF ScanInStep, ScanTypeOK, Block
<1>3. owner[i] = i => i \in Held /\ tag[i] # FreeTag
  BY <1>1 DEF HeapInv, RunsMatchTags, Held
<1>4. owner[i] = None => tag[i] = FreeTag
  BY <1>1 DEF HeapInv, UnownedIsFree
<1> QED BY <1>1, <1>2, <1>3, <1>4

\* The free run right before the block that the loop looks at.
LEMMA RunBehind ==
  ASSUME ScanTypeOK, ScanInStep, pc = "scan", i < NumBlocks, blocked = 0
  PROVE  /\ RunStart = i - count
         /\ RunStart \in Block
         /\ \A j \in RunStart .. i - 1 : j \in Block /\ owner[j] = None
<1>1. i \in Int /\ count \in Nat /\ i >= 0 /\ from \in Int /\ from >= 0 /\ from <= i - count
  BY NumBlocksAssumption DEF ScanTypeOK, ScanInStep, Block
<1>2. RunStart = i - count
  BY <1>1 DEF ScanInStep, RunStart, ScanTypeOK, Block
<1>3. RunStart \in Block
  BY <1>1, <1>2, NumBlocksAssumption DEF Block
<1>4. ASSUME NEW j \in RunStart .. i - 1 PROVE j \in Block /\ owner[j] = None
  <2>1. j \in Int /\ i - count <= j /\ j <= i - 1
    BY <1>1, <1>2
  <2>2. count > 0 /\ RunStart = start
    BY <1>1, <2>1 DEF RunStart
  <2>3. owner[j] = None
    BY <2>2 DEF ScanInStep
  <2> QED BY <1>1, <2>1, <2>3, NumBlocksAssumption DEF Block
<1> QED BY <1>2, <1>3, <1>4

\* A search that succeeds makes an allocation of blocks that nobody held.
LEMMA FoundRun ==
  ASSUME HeapInv, ScanTypeOK, ScanInStep, ScanFound
  PROVE  /\ RunStart \in Block
         /\ NumBlk(req) \in 1 .. 255
         /\ RunStart + NumBlk(req) - 1 = i
         /\ i \in Block
         /\ \A j \in RunStart .. RunStart + NumBlk(req) - 1 :
               j \in Block /\ owner[j] = None
<1>1. /\ pc = "scan" /\ i < NumBlocks /\ blocked = 0
      /\ tag[i] = FreeTag /\ count + 1 = NumBlk(req)
  BY DEF ScanFound
<1>2. req \in Nat /\ req <= MaxBlockSize /\ count \in Nat
  <2>1. req \in Word16 /\ count \in 0 .. NumBlocks
    BY DEF ScanTypeOK
  <2>2. req <= MaxBlockSize
    BY <1>1 DEF ScanInStep
  <2> QED BY <2>1, <2>2, WordIsNat
<1>3. NumBlk(req) \in 1 .. 255
  BY <1>2, Sizes
<1>4. i \in Block /\ owner[i] = None
  BY <1>1, TagTellsOwner
<1>5. /\ RunStart = i - count
      /\ RunStart \in Block
      /\ \A j \in RunStart .. i - 1 : j \in Block /\ owner[j] = None
  BY <1>1, RunBehind
<1>6. i \in Int /\ RunStart \in Int
  BY <1>4, <1>5, NumBlocksAssumption DEF Block
<1>7. RunStart + NumBlk(req) - 1 = i
  BY <1>1, <1>2, <1>3, <1>5, <1>6
<1>8. ASSUME NEW j \in RunStart .. i PROVE j \in Block /\ owner[j] = None
  BY <1>4, <1>5, <1>6
<1> QED BY <1>3, <1>4, <1>5, <1>7, <1>8

\* The allocation that a successful search makes fits the others.
LEMMA FoundHeapInv ==
  ASSUME HeapInv, ScanTypeOK, ScanInStep, ScanFound
  PROVE  HeapInv'
<1> DEFINE r == RunStart
           n == NumBlk(req)
<1>1. /\ r \in Block /\ n \in 1 .. 255 /\ r + n - 1 = i /\ i \in Block
      /\ \A j \in r .. r + n - 1 : j \in Block /\ owner[j] = None
  BY FoundRun
<1>2. /\ pc = "scan" /\ req \in Word16 /\ req \in Nat /\ req <= MaxBlockSize
      /\ count \in Nat
  <2>1. pc = "scan" /\ req \in Word16 /\ count \in 0 .. NumBlocks
    BY DEF ScanFound, ScanTypeOK
  <2>2. req \in Nat /\ count \in Nat
    BY <2>1, WordIsNat
  <2> QED BY <2>1, <2>2 DEF ScanInStep
<1>3. /\ NumWords(req) \in 1 .. 255
      /\ req <= 4 * NumWords(req) - 2
      /\ 4 * NumWords(req) <= 8 * n
  BY <1>2, Sizes
<1>4. n % 256 = n /\ NumWords(req) % 256 = NumWords(req)
  <2> HIDE DEF n
  <2>1. ASSUME NEW x \in 1 .. 255 PROVE x % 256 = x
    OBVIOUS
  <2> QED BY <2>1, <1>1, <1>3
<1>5. /\ memStart' = IF count = 0 THEN i ELSE memStart
      /\ tag' = [tag EXCEPT ![r] = n]
      /\ words' = [words EXCEPT ![r] = NumWords(req)]
      /\ owner' = [b \in Block |-> IF b \in r .. r + n - 1 THEN r ELSE owner[b]]
      /\ ask' = [ask EXCEPT ![r] = req]
  BY <1>4 DEF ScanFound, ScanHint
<1> HIDE DEF r, n
<1>6. /\ tag \in [Block -> Byte] /\ words \in [Block -> Byte] /\ memStart \in Block
      /\ owner \in [Block -> Block \cup {None}] /\ ask \in [Block -> Word16]
  BY DEF HeapInv, HeapTypeOK
<1>7. HeapTypeOK'
  <2>1. tag' \in [Block -> Byte]
    <3>1. n \in Byte
      BY <1>1 DEF Byte
    <3> QED BY <3>1, <1>5, <1>6
  <2>2. words' \in [Block -> Byte]
    <3>1. NumWords(req) \in Byte
      BY <1>3 DEF Byte
    <3> QED BY <3>1, <1>5, <1>6
  <2>3. memStart' \in Block
    BY <1>1, <1>5, <1>6
  <2>4. owner' \in [Block -> Block \cup {None}]
    BY <1>1, <1>5, <1>6
  <2>5. ask' \in [Block -> Word16]
    BY <1>2, <1>5, <1>6
  <2> QED BY <2>1, <2>2, <2>3, <2>4, <2>5 DEF HeapTypeOK
<1>8. ASSUME NEW j \in Block
      PROVE  owner'[j] = IF j \in r .. r + n - 1 THEN r ELSE owner[j]
  BY <1>5
<1>9. r \in r .. r + n - 1 /\ r # None /\ r \in Int /\ n \in Nat
  BY <1>1, NumBlocksAssumption DEF Block, None
<1>10. ASSUME NEW h \in Held
       PROVE  /\ h \in Block /\ h \notin r .. r + n - 1
              /\ owner'[h] = h /\ tag'[h] = tag[h] /\ words'[h] = words[h] /\ ask'[h] = ask[h]
  <2>1. h \in Block /\ owner[h] = h /\ h # None
    <3>1. h \in Block /\ owner[h] = h
      BY DEF Held
    <3> QED BY <3>1, BlockIsNat DEF None
  <2>2. h \notin r .. r + n - 1
    BY <2>1, <1>1
  <2>3. h # r
    BY <2>2, <1>9
  <2>4. owner'[h] = h
    BY <2>1, <2>2, <1>8
  <2>5. tag'[h] = tag[h]
    BY <2>1, <2>3, <1>5, <1>6
  <2>6. words'[h] = words[h]
    BY <2>1, <2>3, <1>5, <1>6
  <2>7. ask'[h] = ask[h]
    BY <2>1, <2>3, <1>5, <1>6
  <2> QED BY <2>1, <2>2, <2>4, <2>5, <2>6, <2>7
<1>11. Held' = Held \cup {r}
  <2>1. ASSUME NEW j \in Block PROVE owner'[j] = j <=> owner[j] = j \/ j = r
    BY <1>1, <1>8, <1>9, <1>10 DEF Held
  <2> QED BY <2>1, <1>1 DEF Held
<1>12. /\ tag'[r] = n /\ words'[r] = NumWords(req) /\ ask'[r] = req /\ owner'[r] = r
  BY <1>1, <1>5, <1>6, <1>8, <1>9
<1>13. RunsMatchTags'
  <2>1. ASSUME NEW j \in Block, owner'[j] # None
        PROVE  /\ owner'[owner'[j]] = owner'[j]
               /\ j \in owner'[j] .. owner'[j] + tag'[owner'[j]] - 1
    <3>1. CASE j \in r .. r + n - 1
      BY <3>1, <1>8, <1>12
    <3>2. CASE j \notin r .. r + n - 1
      <4>1. owner'[j] = owner[j] /\ owner[j] # None
        BY <2>1, <3>2, <1>8
      <4>2. owner[j] \in Held /\ j \in owner[j] .. owner[j] + tag[owner[j]] - 1
        BY <4>1, <1>6 DEF HeapInv, RunsMatchTags, Held
      <4> QED BY <4>1, <4>2, <1>10
    <3> QED BY <3>1, <3>2
  <2>2. ASSUME NEW h \in Held'
        PROVE  /\ tag'[h] # FreeTag
               /\ h + tag'[h] <= NumBlocks
               /\ \A j \in h .. h + tag'[h] - 1 : owner'[j] = h
    <3>1. CASE h = r
      <4>1. n # FreeTag
        BY <1>1 DEF FreeTag
      <4>2. r + n <= NumBlocks
        BY <1>1, <1>9, NumBlocksAssumption DEF Block
      <4>3. ASSUME NEW j \in r .. r + n - 1 PROVE owner'[j] = r
        BY <1>1, <1>8
      <4> QED BY <3>1, <4>1, <4>2, <4>3, <1>12
    <3>2. CASE h # r
      <4>1. h \in Held /\ h \in Block
        BY <2>2, <3>2, <1>11, <1>10
      <4>2. /\ tag'[h] = tag[h] /\ tag[h] \in Byte
            /\ tag[h] # FreeTag
            /\ h + tag[h] <= NumBlocks
            /\ \A j \in h .. h + tag[h] - 1 : owner[j] = h
        BY <4>1, <1>6, <1>10 DEF HeapInv, RunsMatchTags
      <4>3. ASSUME NEW j \in h .. h + tag[h] - 1 PROVE owner'[j] = h
        <5>1. j \in Block
          BY <4>1, <4>2, <4>3, NumBlocksAssumption DEF Block, Byte
        <5>2. owner[j] = h /\ h # None
          BY <4>1, <4>2, NumBlocksAssumption DEF Block, None
        <5> QED BY <5>1, <5>2, <1>1, <1>8
      <4> QED BY <4>2, <4>3
    <3> QED BY <3>1, <3>2
  <2> QED BY <2>1, <2>2 DEF RunsMatchTags
<1>14. UnownedIsFree'
  <2>1. ASSUME NEW j \in Block, owner'[j] = None PROVE tag'[j] = FreeTag
    <3>1. j \notin r .. r + n - 1 /\ owner[j] = None /\ j # r
      BY <2>1, <1>8, <1>9
    <3> QED BY <3>1, <1>5, <1>6 DEF HeapInv, UnownedIsFree
  <2> QED BY <2>1 DEF UnownedIsFree
<1>15. HintAtBoundary'
  <2>1. CASE count = 0
    <3>1. memStart' = r
      BY <2>1, <1>5 DEF r, RunStart
    <3> QED BY <3>1, <1>12 DEF HintAtBoundary
  <2>2. CASE count # 0
    <3>1. memStart' = memStart
      BY <2>2, <1>5
    <3>2. memStart = start /\ r = start
      BY <2>2, <1>2 DEF ScanInStep, r, RunStart
    <3> QED BY <3>1, <3>2, <1>12 DEF HintAtBoundary
  <2> QED BY <2>1, <2>2
<1>16. SizeCoversRequest'
  <2>1. ASSUME NEW h \in Held'
        PROVE  ask'[h] <= 4 * words'[h] - 2 /\ 4 * words'[h] - 2 <= 8 * tag'[h] - 2
    <3>1. CASE h = r
      BY <3>1, <1>1, <1>3, <1>12
    <3>2. CASE h # r
      <4>1. h \in Held
        BY <2>1, <3>2, <1>11
      <4> QED BY <4>1, <1>10 DEF HeapInv, SizeCoversRequest, BlockSize
    <3> QED BY <3>1, <3>2
  <2> QED BY <2>1 DEF SizeCoversRequest, BlockSize
<1> QED BY <1>7, <1>13, <1>14, <1>15, <1>16 DEF HeapInv

-----------------------------------------------------------------------------
\* The other steps that touch the heap.
LEMMA SameHeapInv == ASSUME HeapInv, UNCHANGED <<heapVars, history>>
                     PROVE  HeapInv'
  BY DEF HeapInv, HeapTypeOK, RunsMatchTags, UnownedIsFree, HintAtBoundary,
         SizeCoversRequest, BlockSize, Held, heapVars, history

\* Moving the hint to another free block or allocation is harmless.
LEMMA HintHeapInv == ASSUME HeapInv, UNCHANGED <<tag, words, history>>,
                            memStart' \in Block, owner[memStart'] \in {None, memStart'}
                     PROVE  HeapInv'
  BY DEF HeapInv, HeapTypeOK, RunsMatchTags, UnownedIsFree, HintAtBoundary,
         SizeCoversRequest, BlockSize, Held, history

\* The heap right after nb_mem_init.
LEMMA EmptyHeapInv ==
  ASSUME tag' = [b \in Block |-> FreeTag], words' \in [Block -> Byte],
         memStart' = 0,
         owner' = [b \in Block |-> None], ask' = [b \in Block |-> 0]
  PROVE  HeapInv'
<1>1. FreeTag \in Byte /\ 0 \in Block
  BY NumBlocksAssumption DEF FreeTag, Byte, Block
<1>2. 0 \in Word16
  BY DEF Word16
<1>3. HeapTypeOK'
  BY <1>1, <1>2 DEF HeapTypeOK
<1>4. \A b \in Block : owner'[b] = None /\ b # None
  BY NumBlocksAssumption DEF Block, None
<1>5. Held' = {}
  BY <1>4 DEF Held
<1>6. RunsMatchTags' /\ SizeCoversRequest'
  BY <1>4, <1>5 DEF RunsMatchTags, SizeCoversRequest
<1>7. UnownedIsFree' /\ HintAtBoundary'
  BY <1>1, <1>4 DEF UnownedIsFree, HintAtBoundary
<1> QED BY <1>3, <1>6, <1>7 DEF HeapInv

\* The program writes behind the first block of an allocation: no tag changes.
LEMMA WriteHeapInv ==
  ASSUME HeapInv, NEW b \in Block, NEW j \in Block, UserWrite(b, j)
  PROVE  HeapInv'
<1>1. /\ owner[j] = b /\ j # b
      /\ UNCHANGED <<memStart, owner, ask>>
  BY DEF UserWrite, history
<1>2. PICK v \in UserBytes : tag' = [tag EXCEPT ![j] = v]
  BY DEF UserWrite
<1>3. PICK w \in UserBytes : words' = [words EXCEPT ![j] = w]
  BY DEF UserWrite
<1>4. HeapTypeOK /\ v \in Byte /\ w \in Byte
  BY UserBytesAssumption DEF HeapInv
<1>5. HeapTypeOK'
  BY <1>1, <1>2, <1>3, <1>4 DEF HeapTypeOK
<1>6. Held' = Held
  BY <1>1 DEF Held
<1>7. ASSUME NEW h \in Held PROVE tag'[h] = tag[h] /\ words'[h] = words[h]
  BY <1>1, <1>2, <1>3, <1>4 DEF Held, HeapTypeOK
<1>8. ASSUME NEW h \in Block, owner[h] = None PROVE tag'[h] = tag[h]
  <2>1. h # j
    BY <1>1, <1>8, NumBlocksAssumption DEF Block, None
  <2> QED BY <2>1, <1>2, <1>4 DEF HeapTypeOK
<1>9. \A h \in Block : owner[h] # None => owner[h] \in Held
  BY <1>4 DEF HeapInv, RunsMatchTags, HeapTypeOK, Held
<1>10. RunsMatchTags'
  BY <1>1, <1>6, <1>7, <1>9 DEF HeapInv, RunsMatchTags
<1>11. UnownedIsFree'
  BY <1>1, <1>8 DEF HeapInv, UnownedIsFree
<1>12. HintAtBoundary'
  BY <1>1 DEF HeapInv, HintAtBoundary
<1>13. SizeCoversRequest'
  BY <1>1, <1>6, <1>7 DEF HeapInv, SizeCoversRequest, BlockSize
<1> QED BY <1>5, <1>10, <1>11, <1>12, <1>13 DEF HeapInv

\* nb_mem_realloc keeps an allocation that is large enough.
LEMMA KeepHeapInv ==
  ASSUME HeapInv, NEW a \in HeldAddr, NEW bytes \in Requests, ReallocKeep(a, bytes)
  PROVE  HeapInv' /\ ret' \in {Addr(b) : b \in Block}
<1> DEFINE b == HeadOf(a)
<1>1. b \in Held /\ a = Addr(b)
  BY HeldAddresses
<1>2. /\ BlockSize(b) >= bytes /\ ret' = a /\ ask' = [ask EXCEPT ![b] = bytes]
      /\ UNCHANGED <<tag, words, memStart, owner>>
  BY DEF ReallocKeep, heapVars
<1> HIDE DEF b
<1>3. HeapTypeOK /\ bytes \in Word16
  BY RequestsAssumption DEF HeapInv
<1>4. HeapTypeOK'
  BY <1>2, <1>3 DEF HeapTypeOK
<1>5. Held' = Held /\ b \in Block
  BY <1>1, <1>2 DEF Held
<1>6. bytes <= BlockSize(b) /\ \A h \in Block : ask'[h] = IF h = b THEN bytes ELSE ask[h]
  <2>1. ask \in [Block -> Word16]
    BY <1>3 DEF HeapTypeOK
  <2>2. bytes \in Int /\ BlockSize(b) \in Int
    <3>1. words[b] \in Nat
      BY <1>3, <1>5, ByteIsNat DEF HeapTypeOK
    <3> QED BY <3>1, <1>3, WordIsNat DEF BlockSize
  <2> QED BY <2>1, <2>2, <1>2
<1>7. SizeCoversRequest'
  BY <1>2, <1>5, <1>6 DEF HeapInv, SizeCoversRequest, BlockSize, Held
<1>8. RunsMatchTags' /\ UnownedIsFree' /\ HintAtBoundary'
  BY <1>2, <1>5 DEF HeapInv, RunsMatchTags, UnownedIsFree, HintAtBoundary
<1> QED BY <1>1, <1>2, <1>4, <1>5, <1>7, <1>8 DEF HeapInv

-----------------------------------------------------------------------------
\* What holds of the search: nothing between two calls, and from its first
\* iteration to its last that it is in step with the allocations.
LEMMA IdleScanInv == ASSUME NEW v, Return(v) PROVE ScanInv'
<1>1. 0 \in Block /\ 0 \in 0 .. NumBlocks
  BY NumBlocksAssumption DEF Block
<1>2. 0 \in Word16 /\ 0 \in Byte
  BY DEF Word16, Byte
<1>3. /\ pc' = "idle" /\ req' = 0 /\ i' = 0 /\ blocked' = 0
      /\ start' = 0 /\ count' = 0 /\ from' = 0
  BY DEF Return
<1>4. ScanTypeOK'
  BY <1>1, <1>2, <1>3 DEF ScanTypeOK
<1> QED BY <1>3, <1>4 DEF ScanInv, ScanInStep, NoRunPassedOver

\* Between two calls nothing is to be said about the loop.
LEMMA SameScanInv == ASSUME ScanInv, pc = "idle", UNCHANGED <<pc, scanVars>>
                     PROVE  ScanInv'
  BY DEF ScanInv, ScanTypeOK, ScanInStep, NoRunPassedOver, scanVars

\* A request that is not refused is one of the sizes that Sizes is about.
LEMMA RequestSize == ASSUME NEW bytes \in Requests
                     PROVE  bytes \in Word16 /\ bytes \in Nat
  BY WordIsNat, RequestsAssumption

\* The loop starts in step with the allocations.
LEMMA BeginScanInv ==
  ASSUME NEW bytes \in Requests, bytes <= MaxBlockSize,
         NEW b \in Block, owner'[b] \in {None, b}, BeginScan(bytes, b)
  PROVE  ScanInv'
<1>1. /\ pc' = "scan" /\ req' = bytes /\ i' = b /\ from' = b
      /\ blocked' = 0 /\ start' = 0 /\ count' = 0
  BY DEF BeginScan
<1>2. bytes \in Word16 /\ bytes \in Nat
  BY RequestSize
<1>3. b \in Int /\ 0 <= b /\ b < NumBlocks /\ NumBlocks \in Nat /\ 0 \in Block
  BY NumBlocksAssumption DEF Block
<1>4. ScanTypeOK'
  <2>1. 0 \in Byte
    BY DEF Byte
  <2> QED BY <1>1, <1>2, <1>3, <2>1 DEF ScanTypeOK
<1>5. NumBlk(bytes) \in 1 .. 255
  BY <1>2, Sizes
<1>6. ScanInStep'
  BY <1>1, <1>3, <1>5 DEF ScanInStep
<1>7. NoRunPassedOver'
  BY <1>1, <1>3, <1>5 DEF NoRunPassedOver
<1> QED BY <1>4, <1>6, <1>7 DEF ScanInv

\* Numbers that the steps of the loop compute with.
LEMMA ScanNumbers ==
  ASSUME ScanInv, pc = "scan", i < NumBlocks
  PROVE  /\ i \in Nat /\ count \in Nat /\ blocked \in Nat /\ from \in Nat
         /\ start \in Nat /\ NumBlocks \in Nat
         /\ NumBlk(req) \in 1 .. 255
         /\ from <= i - count
<1>1. /\ i \in 0 .. NumBlocks /\ count \in 0 .. NumBlocks
      /\ blocked \in Byte /\ from \in Block /\ start \in Block /\ req \in Word16
  BY DEF ScanInv, ScanTypeOK
<1>2. req \in Nat /\ req <= MaxBlockSize /\ from <= i - count
  <2>1. req \in Nat
    BY <1>1, WordIsNat
  <2> QED BY <2>1 DEF ScanInv, ScanInStep
<1>3. NumBlk(req) \in 1 .. 255
  BY <1>2, Sizes
<1> QED BY <1>1, <1>2, <1>3, NumBlocksAssumption DEF Byte, Block

\* A run that ends at the block under i is passed over for a good reason.
LEMMA PassedOver ==
  ASSUME ScanInv, pc = "scan", i < NumBlocks,
         owner[i] # None \/ count + 1 < NumBlk(req),
         pc' = "scan", i' = i + 1, UNCHANGED <<owner, req, from>>
  PROVE  NoRunPassedOver'
<1> DEFINE n == NumBlk(req)
<1>1. /\ i \in Nat /\ count \in Nat /\ from \in Nat /\ n \in 1 .. 255
      /\ from <= i - count
  BY ScanNumbers
<1> HIDE DEF n
<1>2. ASSUME NEW s \in from .. NumBlocks - 1, s + n <= i + 1
      PROVE  ~FreeRun(s, n)
  <2>1. s \in Nat
    BY <1>1
  <2>2. CASE s + n <= i
    BY <2>2 DEF ScanInv, NoRunPassedOver, n
  <2>3. CASE s + n = i + 1 /\ owner[i] # None
    <3>1. i \in s .. s + n - 1
      BY <2>1, <2>3, <1>1
    <3> QED BY <3>1, <2>3 DEF FreeRun
  <2>4. CASE s + n = i + 1 /\ count + 1 < n
    <3>1. from < i - count /\ i - count - 1 \in s .. s + n - 1
      BY <2>1, <2>4, <1>1
    <3>2. owner[i - count - 1] # None
      BY <3>1 DEF ScanInv, ScanInStep
    <3> QED BY <3>1, <3>2 DEF FreeRun
  <2>5. s + n <= i \/ s + n = i + 1
    BY <2>1, <1>1, <1>2
  <2>6. owner[i] # None \/ count + 1 < n
    BY DEF n
  <2> QED BY <2>2, <2>3, <2>4, <2>5, <2>6
<1>3. \A s : FreeRun(s, n)' <=> FreeRun(s, n)
  BY DEF FreeRun, NumBlk, n
<1> QED BY <1>2, <1>3 DEF NoRunPassedOver, FreeRun, NumBlk, n

\* An iteration over a block behind the first one of an allocation.
LEMMA BlockedScanInv == ASSUME HeapInv, ScanInv, ScanBlocked PROVE ScanInv'
<1>1. /\ pc = "scan" /\ i < NumBlocks /\ blocked > 0
      /\ blocked' = blocked - 1 /\ i' = i + 1
      /\ UNCHANGED <<tag, words, memStart, pc, req, start, count, from, owner>>
  BY DEF ScanBlocked, heapVars, history
<1>2. /\ i \in Nat /\ count \in Nat /\ blocked \in Nat /\ from \in Nat
      /\ start \in Nat /\ NumBlocks \in Nat
      /\ NumBlk(req) \in 1 .. 255 /\ from <= i - count
  BY <1>1, ScanNumbers
<1>3. /\ count = 0 /\ i > 0 /\ owner[i - 1] # None
      /\ owner[i + blocked - 1] = owner[i - 1]
      /\ i + blocked <= NumBlocks
      /\ i + blocked < NumBlocks => owner[i + blocked] \in {None, i + blocked}
      /\ req <= MaxBlockSize /\ count < NumBlk(req)
  BY <1>1, <1>2 DEF ScanInv, ScanInStep
<1> DEFINE h == owner[i - 1]
<1>4. i - 1 \in Block /\ i \in Block /\ i + blocked - 1 \in Block
  BY <1>1, <1>2, <1>3 DEF Block
<1>5. h \in Held
  BY <1>3, <1>4 DEF HeapInv, HeapTypeOK, RunsMatchTags, Held
<1>6. HeapTypeOK /\ RunsMatchTags /\ h \in Block /\ tag[h] \in Byte
  BY <1>5 DEF HeapInv, HeapTypeOK, Held
<1>7. i - 1 \in h .. h + tag[h] - 1 /\ i + blocked - 1 \in h .. h + tag[h] - 1
  BY <1>3, <1>4, <1>5, <1>6, Extent
<1>8. i \in h .. h + tag[h] - 1
  <2>1. h \in Int /\ tag[h] \in Int
    BY <1>6, <1>2 DEF Block, Byte
  <2> HIDE DEF h
  <2> QED BY <2>1, <1>1, <1>2, <1>7
<1>9. owner[i] = h /\ owner[i] # None
  BY <1>3, <1>4, <1>5, <1>6, <1>8, Extent
<1>10. ScanTypeOK'
  <2>1. blocked' \in Byte
    BY <1>1, <1>2 DEF ScanInv, ScanTypeOK, Byte
  <2>2. i' \in 0 .. NumBlocks
    BY <1>1, <1>2
  <2> QED BY <2>1, <2>2, <1>1 DEF ScanInv, ScanTypeOK
<1>11. ScanInStep'
  <2>1. i' + blocked' = i + blocked /\ i' - count' = i + 1 /\ i' - 1 = i
    BY <1>1, <1>2, <1>3
  <2>2. NumBlk(req)' = NumBlk(req)
    BY <1>1 DEF NumBlk
  <2> QED BY <2>1, <2>2, <1>1, <1>2, <1>3, <1>9 DEF ScanInStep
<1>12. NoRunPassedOver'
  BY <1>1, <1>9, PassedOver
<1> QED BY <1>10, <1>11, <1>12 DEF ScanInv

\* An iteration over the first block of an allocation.
LEMMA UsedScanInv == ASSUME HeapInv, ScanInv, ScanUsed PROVE ScanInv'
<1>1. /\ pc = "scan" /\ i < NumBlocks /\ blocked = 0 /\ tag[i] # FreeTag
      /\ blocked' = tag[i] - 1 /\ start' = 0 /\ count' = 0 /\ i' = i + 1
      /\ UNCHANGED <<tag, words, memStart, pc, req, from, owner>>
  BY DEF ScanUsed, heapVars, history
<1>2. /\ i \in Nat /\ count \in Nat /\ from \in Nat
      /\ NumBlocks \in Nat
      /\ NumBlk(req) \in 1 .. 255 /\ from <= i - count
  BY <1>1, ScanNumbers
<1>3. i \in Block /\ i \in Held
  BY <1>1, TagTellsOwner DEF ScanInv
<1>4. HeapTypeOK /\ RunsMatchTags /\ tag[i] \in Byte /\ owner[i] = i /\ i # None
  BY <1>2, <1>3 DEF HeapInv, HeapTypeOK, Held, None
<1>5. tag[i] >= 1 /\ i + tag[i] <= NumBlocks /\ tag[i] \in Nat
  BY <1>3, <1>4 DEF RunsMatchTags, FreeTag, Byte
<1>6. i + tag[i] < NumBlocks => owner[i + tag[i]] \in {None, i + tag[i]}
  BY <1>3, <1>4, RunEnd
<1>7. i + tag[i] - 1 \in Block /\ i + tag[i] - 1 \in i .. i + tag[i] - 1
  BY <1>2, <1>5 DEF Block
<1>8. owner[i + tag[i] - 1] = i
  BY <1>3, <1>4, <1>7, Extent
<1>9. ScanTypeOK'
  <2>1. blocked' \in Byte
    BY <1>1, <1>4, <1>5 DEF Byte
  <2>2. i' \in 0 .. NumBlocks /\ 0 \in 0 .. NumBlocks /\ 0 \in Block
    BY <1>1, <1>2 DEF Block
  <2> QED BY <2>1, <2>2, <1>1 DEF ScanInv, ScanTypeOK
<1>10. ScanInStep'
  <2>1. /\ i' + blocked' = i + tag[i] /\ i' - count' = i + 1 /\ i' - 1 = i
        /\ i' + blocked' - 1 = i + tag[i] - 1 /\ i' - count' - 1 = i
        /\ from' <= i' - count' /\ i' > 0
    BY <1>1, <1>2, <1>5
  <2>2. NumBlk(req)' = NumBlk(req) /\ req <= MaxBlockSize
    BY <1>1 DEF NumBlk, ScanInv, ScanInStep
  <2>3. count' < NumBlk(req)'
    BY <2>2, <1>1, <1>2
  <2> QED BY <2>1, <2>2, <2>3, <1>1, <1>4, <1>5, <1>6, <1>8 DEF ScanInStep
<1>11. NoRunPassedOver'
  BY <1>1, <1>4, PassedOver
<1> QED BY <1>9, <1>10, <1>11 DEF ScanInv

\* An iteration over a free block.
LEMMA FreeScanInv == ASSUME HeapInv, ScanInv, ScanFree PROVE HeapInv' /\ ScanInv'
<1>1. /\ pc = "scan" /\ i < NumBlocks /\ blocked = 0 /\ tag[i] = FreeTag
      /\ memStart' = IF count = 0 THEN i ELSE memStart
      /\ count + 1 # NumBlk(req)
      /\ start' = RunStart /\ count' = count + 1 /\ i' = i + 1
      /\ UNCHANGED <<tag, words, pc, req, blocked, from, owner, ask>>
  BY DEF ScanFree, ScanHint, history
<1>2. /\ i \in Nat /\ count \in Nat /\ from \in Nat
      /\ NumBlocks \in Nat
      /\ NumBlk(req) \in 1 .. 255 /\ from <= i - count
  BY <1>1, ScanNumbers
<1>3. i \in Block /\ owner[i] = None
  BY <1>1, TagTellsOwner DEF ScanInv
<1>4. /\ RunStart = i - count /\ RunStart \in Block
      /\ \A j \in RunStart .. i - 1 : owner[j] = None
  BY <1>1, RunBehind DEF ScanInv
<1>5. HeapInv'
  BY <1>1, <1>3, HintHeapInv DEF history, HeapInv, HeapTypeOK, HintAtBoundary
<1>6. count < NumBlk(req) /\ req <= MaxBlockSize
  BY <1>1 DEF ScanInv, ScanInStep
<1>7. count + 1 < NumBlk(req)
  BY <1>1, <1>2, <1>6
<1>8. ScanTypeOK'
  <2>1. i' \in 0 .. NumBlocks /\ count' \in 0 .. NumBlocks
    BY <1>1, <1>2
  <2> QED BY <2>1, <1>1, <1>4 DEF ScanInv, ScanTypeOK
<1>9. ScanInStep'
  <2>1. /\ i' + blocked' = i + 1 /\ i' - count' = i - count
        /\ i' - count' - 1 = i - count - 1
    BY <1>1, <1>2
  <2>2. start' + count' = i'
    BY <1>1, <1>2, <1>4
  <2>3. ASSUME NEW j \in start' .. i' - 1 PROVE owner[j] = None
    <3>1. j = i \/ j \in RunStart .. i - 1
      BY <1>1, <1>2, <1>4
    <3> QED BY <3>1, <1>3, <1>4
  <2>4. i + 1 < NumBlocks => owner[i + 1] \in {None, i + 1}
    <3>1. SUFFICES ASSUME i + 1 < NumBlocks, owner[i + 1] # None
                   PROVE  owner[i + 1] = i + 1
      OBVIOUS
    <3> DEFINE o == owner[i + 1]
    <3>2. i + 1 \in Block
      BY <3>1, <1>2 DEF Block
    <3>3. o \in Held /\ o \in Block /\ tag[o] \in Byte /\ HeapTypeOK /\ RunsMatchTags
      BY <3>1, <3>2 DEF HeapInv, HeapTypeOK, RunsMatchTags, Held
    <3>4. i + 1 \in o .. o + tag[o] - 1
      BY <3>2, <3>3, Extent
    <3>5. i \notin o .. o + tag[o] - 1
      <4>1. o # None
        BY <3>3, <1>2 DEF Block, None
      <4> QED BY <4>1, <1>3, <3>3, Extent
    <3>6. o \in Int /\ tag[o] \in Int
      BY <3>3, <1>2 DEF Block, Byte
    <3> HIDE DEF o
    <3>7. o = i + 1
      BY <3>4, <3>5, <3>6, <1>2
    <3> QED BY <3>7 DEF o
  <2>5. memStart' = start'
    <3>1. count > 0 => memStart = start
      BY <1>1 DEF ScanInv, ScanInStep
    <3> QED BY <3>1, <1>1, <1>2 DEF RunStart
  <2>6. NumBlk(req)' = NumBlk(req)
    BY <1>1 DEF NumBlk
  <2>7. from < i - count => owner[i - count - 1] # None
    BY <1>1 DEF ScanInv, ScanInStep
  <2>8. i + 1 <= NumBlocks /\ ~(blocked' > 0) /\ count' < NumBlk(req)
    BY <1>1, <1>2, <1>7
  <2> QED BY <2>1, <2>2, <2>3, <2>4, <2>5, <2>6, <2>7, <2>8, <1>1, <1>2, <1>6
          DEF ScanInStep
<1>10. NoRunPassedOver'
  BY <1>1, <1>7, PassedOver
<1> QED BY <1>5, <1>8, <1>9, <1>10 DEF ScanInv

-----------------------------------------------------------------------------
\* The invariant holds when the machine is created.
LEMMA InitInv == ASSUME Init PROVE Inv
<1>1. FreeTag \in Byte /\ 0 \in Block /\ 0 \in 0 .. NumBlocks
  BY NumBlocksAssumption DEF FreeTag, Byte, Block
<1>2. 0 \in Word16 /\ 0 \in Byte
  BY DEF Word16, Byte
<1>3. \A b \in Block : owner[b] = None /\ b # None
  BY NumBlocksAssumption DEF Init, Block, None
<1>4. Held = {}
  BY <1>3 DEF Held
<1>5. HeapTypeOK
  BY <1>1, <1>2 DEF Init, HeapTypeOK
<1>6. HeapInv
  BY <1>1, <1>3, <1>4, <1>5 DEF Init, HeapInv, RunsMatchTags, UnownedIsFree,
     HintAtBoundary, SizeCoversRequest
<1>7. pc = "idle" /\ ScanTypeOK
  BY <1>1, <1>2 DEF Init, ScanTypeOK
<1>8. ScanInv
  BY <1>7 DEF ScanInv, ScanInStep, NoRunPassedOver
<1>9. RetOK
  BY DEF Init, RetOK
<1> QED BY <1>6, <1>8, <1>9 DEF Inv

\* The invariant is kept by every step of the allocator and of its caller.
LEMMA NextInv == ASSUME Inv, [Next]_vars PROVE Inv'
<1> USE DEF Inv
<1>1. CASE MemInit
  <2>1. HeapInv'
    <3>1. words' \in [Block -> Byte]
      BY <1>1 DEF MemInit, Byte
    <3> QED BY <3>1, <1>1, EmptyHeapInv DEF MemInit
  <2>2. ScanInv'
    BY <1>1, SameScanInv DEF MemInit
  <2>3. RetOK'
    BY <1>1 DEF MemInit, RetOK
  <2> QED BY <2>1, <2>2, <2>3
<1>2. ASSUME NEW bytes \in Requests, Alloc(bytes) PROVE Inv'
  <2>1. UNCHANGED <<heapVars, history>> /\ ret' = ret
    BY <1>2 DEF Alloc
  <2>2. HeapInv'
    BY <2>1, SameHeapInv
  <2>3. memStart \in Block /\ owner'[memStart] \in {None, memStart}
    BY <2>1 DEF HeapInv, HeapTypeOK, HintAtBoundary, history
  <2>4. ScanInv'
    BY <2>3, <1>2, BeginScanInv DEF Alloc
  <2> QED BY <2>1, <2>2, <2>4 DEF RetOK
<1>3. ASSUME NEW bytes \in Requests, AllocTooBig(bytes) PROVE Inv'
  <2>1. HeapInv'
    BY <1>3, SameHeapInv DEF AllocTooBig
  <2>2. ScanInv'
    BY <1>3, SameScanInv DEF AllocTooBig
  <2> QED BY <1>3, <2>1, <2>2 DEF AllocTooBig, RetOK
<1>4. CASE ScanBlocked
  <2>1. HeapInv' /\ ret' = ret
    BY <1>4, SameHeapInv DEF ScanBlocked
  <2> QED BY <2>1, <1>4, BlockedScanInv DEF RetOK
<1>5. CASE ScanUsed
  <2>1. HeapInv' /\ ret' = ret
    BY <1>5, SameHeapInv DEF ScanUsed
  <2> QED BY <2>1, <1>5, UsedScanInv DEF RetOK
<1>6. CASE ScanFree
  BY <1>6, FreeScanInv DEF RetOK, ScanFree
<1>7. CASE ScanFound
  <2>1. HeapInv'
    BY <1>7, FoundHeapInv DEF ScanInv
  <2>2. RunStart \in Block /\ Return(Addr(RunStart))
    BY <1>7, FoundRun DEF ScanInv, ScanFound
  <2>3. ScanInv' /\ RetOK'
    BY <2>2, IdleScanInv DEF Return, RetOK
  <2> QED BY <2>1, <2>3
<1>8. CASE ScanEnd
  <2>1. HeapInv'
    BY <1>8, SameHeapInv DEF ScanEnd
  <2>2. ScanInv' /\ RetOK'
    BY <1>8, IdleScanInv DEF ScanEnd, Return, RetOK
  <2> QED BY <2>1, <2>2
<1>9. ASSUME NEW a \in HeldAddr, Free(a) PROVE Inv'
  <2>1. HeapInv'
    BY <1>9, FreeBlocksHeapInv DEF Free
  <2>2. ScanInv' /\ ret' = ret
    BY <1>9, SameScanInv DEF Free
  <2> QED BY <2>1, <2>2 DEF RetOK
<1>10. ASSUME NEW a \in HeldAddr \cup {0}, NEW bytes \in Requests, ReallocKeep(a, bytes)
       PROVE  Inv'
  <2>1. a \in HeldAddr
    BY <1>10 DEF ReallocKeep, IsHeapAddr
  <2>2. HeapInv' /\ RetOK'
    BY <2>1, <1>10, KeepHeapInv DEF RetOK
  <2>3. ScanInv'
    BY <1>10, SameScanInv DEF ReallocKeep
  <2> QED BY <2>2, <2>3
<1>11. ASSUME NEW a \in HeldAddr \cup {0}, NEW bytes \in Requests, ReallocMove(a, bytes)
       PROVE  Inv'
  <2>1. a \in HeldAddr
    BY <1>11 DEF ReallocMove, IsHeapAddr
  <2>2. HeapInv' /\ memStart' = FreedHint(HeadOf(a)) /\ ret' = ret
    BY <2>1, <1>11, FreeBlocksHeapInv DEF ReallocMove
  <2>3. memStart' \in Block /\ owner'[memStart'] \in {None, memStart'}
    BY <2>2 DEF HeapInv, HeapTypeOK, HintAtBoundary
  <2>4. FreedHint(HeadOf(a)) \in Block
        /\ owner'[FreedHint(HeadOf(a))] \in {None, FreedHint(HeadOf(a))}
    BY <2>2, <2>3
  <2>5. bytes <= MaxBlockSize /\ BeginScan(bytes, FreedHint(HeadOf(a)))
    BY <1>11 DEF ReallocMove
  <2>6. ScanInv'
    BY <2>4, <2>5, BeginScanInv
  <2> QED BY <2>2, <2>6 DEF RetOK
<1>12. ASSUME NEW a \in HeldAddr \cup {0}, NEW bytes \in Requests, ReallocRefused(a, bytes)
       PROVE  Inv'
  <2>1. HeapInv'
    BY <1>12, SameHeapInv DEF ReallocRefused
  <2>2. ScanInv'
    BY <1>12, SameScanInv DEF ReallocRefused
  <2> QED BY <1>12, <2>1, <2>2 DEF ReallocRefused, RetOK
<1>13. ASSUME NEW b \in Block, NEW j \in Block, UserWrite(b, j) PROVE Inv'
  <2>1. HeapInv'
    BY <1>13, WriteHeapInv
  <2>2. ScanInv' /\ ret' = ret
    BY <1>13, SameScanInv DEF UserWrite
  <2> QED BY <2>1, <2>2 DEF RetOK
<1>14. CASE UNCHANGED vars
  <2>1. HeapInv'
    BY <1>14, SameHeapInv DEF vars, heapVars, history
  <2>2. ScanInv' /\ RetOK'
    BY <1>14 DEF vars, ScanInv, ScanTypeOK, ScanInStep, NoRunPassedOver, FreeRun,
       NumBlk, RetOK
  <2> QED BY <2>1, <2>2
<1> QED BY <1>1, <1>2, <1>3, <1>4, <1>5, <1>6, <1>7, <1>8, <1>9, <1>10, <1>11,
           <1>12, <1>13, <1>14 DEF Next, ScanStep

-----------------------------------------------------------------------------
\* The inductive invariant of the allocator: its conjuncts are the properties of
\* the theorems below and what they need of each other.
THEOREM Invariance == Spec => []Inv
<1>1. Init => Inv
  BY InitInv
<1>2. Inv /\ [Next]_vars => Inv'
  BY NextInv
<1> QED BY <1>1, <1>2, PTL DEF Spec

\* Type correctness: the C types are respected, no block number leaves the
\* heap and every call returns 0 or the address of a block.
THEOREM TypeCorrect == Spec => []TypeOK
<1>1. Inv => TypeOK
  BY DEF Inv, HeapInv, ScanInv, RetOK, TypeOK
<1> QED BY <1>1, Invariance, PTL

\* What the callers rely on: no block belongs to two allocations, the tags that
\* nb_mem_free goes by describe what was handed out, nothing that is given back
\* is lost as free block, the hint points to no data, and the size that indices
\* are checked against lies between the request and the end of the allocation.
THEOREM AllocationsApart ==
  Spec => [](RunsMatchTags /\ UnownedIsFree /\ HintAtBoundary /\ SizeCoversRequest)
<1>1. Inv => RunsMatchTags /\ UnownedIsFree /\ HintAtBoundary /\ SizeCoversRequest
  BY DEF Inv, HeapInv
<1> QED BY <1>1, Invariance, PTL

\* The search reads tags only where there are tags and misses no run of free
\* blocks that is long enough: it fails only if there is none behind the hint.
THEOREM SearchComplete == Spec => [](ScanInStep /\ NoRunPassedOver)
<1>1. Inv => ScanInStep /\ NoRunPassedOver
  BY DEF Inv, ScanInv
<1> QED BY <1>1, Invariance, PTL

-----------------------------------------------------------------------------
\* A set of natural numbers that is not empty has a least element.
LEMMA LeastNumber == ASSUME NEW T \in SUBSET Nat, T # {}
                     PROVE  \E n \in T : \A k \in T : n <= k
<1>1. IsWellFoundedOn(OpToRel(<, Nat), Nat)
  BY NatLessThanWellFounded
<1>2. PICK n \in T : \A k \in T : ~(<<k, n>> \in OpToRel(<, Nat))
  BY <1>1, WFMin, Zenon
<1>3. \A k \in T : ~(k < n)
  BY <1>2 DEF OpToRel
<1> QED BY <1>3

\* Induction: a set that holds 0 and with a number the next one holds them all.
LEMMA SetInduction == ASSUME NEW T, 0 \in T, \A n \in Nat : n \in T => n + 1 \in T
                      PROVE  Nat \subseteq T
<1> SUFFICES ASSUME Nat \ T # {} PROVE FALSE
  OBVIOUS
<1>1. PICK n \in Nat \ T : \A k \in Nat \ T : n <= k
  BY LeastNumber
<1>2. n - 1 \in Nat /\ n - 1 + 1 = n
  OBVIOUS
<1>3. n - 1 \in T
  BY <1>1, <1>2
<1> QED BY <1>2, <1>3

\* One step of the walk of nb_mem_get_free from block b, what follows being w.
WalkStep(w, b) == CASE b >= NumBlocks -> 0
                    [] b < NumBlocks /\ tag[b] = FreeTag -> 8 + w[b + 1]
                    [] OTHER -> w[b + tag[b]]

\* In front of the end of the heap there are blocks.
LEMMA InHeapIsBlock == ASSUME NEW b \in Nat, b < NumBlocks PROVE b \in Block
<1>1. NumBlocks \in Nat
  BY NumBlocksAssumption
<1> QED BY <1>1 DEF Block

\* What it is behind the heap, at a free block and at an allocation.
LEMMA WalkSteps ==
  ASSUME NEW b \in Nat, NEW w
  PROVE  /\ b >= NumBlocks => WalkStep(w, b) = 0
         /\ b < NumBlocks /\ tag[b] = FreeTag => WalkStep(w, b) = 8 + w[b + 1]
         /\ b < NumBlocks /\ tag[b] # FreeTag => WalkStep(w, b) = w[b + tag[b]]
<1>1. NumBlocks \in Nat
  BY NumBlocksAssumption
<1>2. (b >= NumBlocks) = ~ (b < NumBlocks)
  BY <1>1
<1> QED BY <1>2 DEF WalkStep

\* A tag leads onwards, and a step needs only what the walk counts from there.
LEMMA WalkOnward ==
  ASSUME HeapTypeOK, NEW b \in Nat, NEW v, NEW w, \A c \in Nat : c > b => v[c] = w[c]
  PROVE  WalkStep(v, b) = WalkStep(w, b)
<1>1. CASE b >= NumBlocks
  BY <1>1, WalkSteps
<1>2. CASE b < NumBlocks /\ tag[b] = FreeTag
  <2>1. v[b + 1] = w[b + 1]
    OBVIOUS
  <2> QED BY <1>2, <2>1, WalkSteps
<1>3. CASE b < NumBlocks /\ tag[b] # FreeTag
  <2>1. tag[b] \in Nat /\ tag[b] # 0
    <3>1. b \in Block
      BY <1>3, InHeapIsBlock
    <3> QED BY <3>1, <1>3, ByteIsNat DEF HeapTypeOK, FreeTag
  <2>2. v[b + tag[b]] = w[b + tag[b]]
    BY <2>1
  <2> QED BY <1>3, <2>2, WalkSteps
<1> QED BY <1>1, <1>2, <1>3, NumBlocksAssumption

\* So there is a function that counts as the walk does: it is built from the end
\* of the heap.
LEMMA WalkExists == ASSUME HeapTypeOK
                    PROVE  \E w : w = [b \in Nat |-> WalkStep(w, b)]
<1> DEFINE Right(w, n) == \A b \in Nat : b + n >= NumBlocks => w[b] = WalkStep(w, b)
           T == {n \in Nat : \E w : w = [b \in Nat |-> w[b]] /\ Right(w, n)}
<1>1. 0 \in T
  <2> DEFINE w == [b \in Nat |-> 0]
  <2>1. ASSUME NEW b \in Nat, b >= NumBlocks PROVE w[b] = WalkStep(w, b)
    BY <2>1, WalkSteps
  <2>2. w = [b \in Nat |-> w[b]]
    OBVIOUS
  <2>3. Right(w, 0)
    BY <2>1
  <2> HIDE DEF w
  <2> QED BY <2>2, <2>3
<1>2. ASSUME NEW n \in Nat, n \in T PROVE n + 1 \in T
  <2>1. PICK v : v = [b \in Nat |-> v[b]] /\ Right(v, n)
    BY <1>2
  <2> DEFINE w == [b \in Nat |-> IF b + n + 1 = NumBlocks THEN WalkStep(v, b) ELSE v[b]]
  <2>2. w = [b \in Nat |-> w[b]]
    OBVIOUS
  <2>3. ASSUME NEW b \in Nat, b + (n + 1) >= NumBlocks PROVE w[b] = WalkStep(w, b)
    <3>1. \A c \in Nat : c > b => v[c] = w[c]
      BY <2>3, NumBlocksAssumption
    <3> HIDE DEF w
    <3>2. WalkStep(v, b) = WalkStep(w, b)
      BY <3>1, WalkOnward
    <3>3. v[b] = WalkStep(v, b) \/ b + n + 1 = NumBlocks
      <4>1. CASE b + n >= NumBlocks
        BY <4>1, <2>1
      <4> QED BY <4>1, <2>3, NumBlocksAssumption
    <3>4. w[b] = IF b + n + 1 = NumBlocks THEN WalkStep(v, b) ELSE v[b]
      BY DEF w
    <3> QED BY <3>2, <3>3, <3>4
  <2> HIDE DEF w
  <2>4. Right(w, n + 1)
    BY <2>3
  <2> QED BY <2>2, <2>4
<1> HIDE DEF T
<1>3. NumBlocks \in T
  <2>1. Nat \subseteq T
    BY <1>1, <1>2, SetInduction
  <2>2. NumBlocks \in Nat
    BY NumBlocksAssumption
  <2> QED BY <2>1, <2>2, Zenon
<1>4. PICK w : w = [b \in Nat |-> w[b]] /\ Right(w, NumBlocks)
  BY <1>3 DEF T
<1>5. ASSUME NEW b \in Nat PROVE w[b] = WalkStep(w, b)
  <2>1. b + NumBlocks >= NumBlocks
    BY NumBlocksAssumption
  <2> QED BY <1>4, <2>1
<1>6. w = [b \in Nat |-> WalkStep(w, b)]
  BY <1>4, <1>5
<1> QED BY <1>6

\* nb_mem_get_free returns what such a function has for the hint.
LEMMA GetFreeWalks == ASSUME HeapTypeOK
                      PROVE  \E w : /\ GetFree = w[memStart]
                                    /\ \A b \in Nat : w[b] = WalkStep(w, b)
<1> DEFINE Good(w) == w = [b \in Nat |-> WalkStep(w, b)]
           walk == CHOOSE w : Good(w)
<1>1. GetFree = walk[memStart]
  BY DEF GetFree, WalkStep
<1>2. \E w : Good(w)
  BY WalkExists
<1>3. Good(walk)
  BY <1>2
<1>4. \A b \in Nat : walk[b] = WalkStep(walk, b)
  <2> HIDE DEF walk
  <2> QED BY <1>3
<1> HIDE DEF walk
<1> QED BY <1>1, <1>4

-----------------------------------------------------------------------------
\* The free blocks from block b onwards.
FreeFrom(b) == {j \in Block : j >= b /\ owner[j] = None}

\* They are finitely many.
LEMMA FiniteFrom == \A b : IsFiniteSet(FreeFrom(b))
<1>1. IsFiniteSet(Block)
  BY FS_Interval, NumBlocksAssumption DEF Block
<1> QED BY <1>1, FS_Subset DEF FreeFrom

\* A block that nobody holds is one more,
LEMMA FreeCounts ==
  ASSUME HeapInv, NEW b \in Block, owner[b] = None
  PROVE  /\ tag[b] = FreeTag
         /\ b + 1 < NumBlocks => owner[b + 1] \in {None, b + 1}
         /\ Cardinality(FreeFrom(b)) = Cardinality(FreeFrom(b + 1)) + 1
<1>1. b \in Nat /\ b < NumBlocks
  BY NumBlocksAssumption DEF Block
<1>2. IsFiniteSet(FreeFrom(b + 1))
  BY FiniteFrom
<1>3. FreeFrom(b) = FreeFrom(b + 1) \cup {b} /\ b \notin FreeFrom(b + 1)
  BY <1>1, NumBlocksAssumption DEF FreeFrom, Block
<1>4. Cardinality(FreeFrom(b)) = Cardinality(FreeFrom(b + 1)) + 1
  BY <1>2, <1>3, FS_AddElement
<1>5. ASSUME b + 1 < NumBlocks, owner[b + 1] # None PROVE owner[b + 1] = b + 1
  <2> DEFINE o == owner[b + 1]
  <2>1. b + 1 \in Block
    BY <1>1, <1>5, NumBlocksAssumption DEF Block
  <2>2. o \in Held /\ o \in Nat /\ b + 1 \in o .. o + tag[o] - 1
    BY <2>1, <1>5, NumBlocksAssumption DEF HeapInv, HeapTypeOK, RunsMatchTags, Held, Block, None
  <2>3. tag[o] \in Nat
    BY <2>2, ByteIsNat DEF HeapInv, HeapTypeOK, Held
  <2>4. ~ (b \in o .. o + tag[o] - 1)
    BY <2>2, Extent, <1>1 DEF HeapInv, None, Held, Block
  <2> QED BY <2>2, <2>3, <2>4, <1>1
<1> QED BY <1>4, <1>5 DEF HeapInv, UnownedIsFree

\* the blocks of an allocation are none.
LEMMA HeldCounts ==
  ASSUME HeapInv, NEW b \in Held
  PROVE  /\ tag[b] # FreeTag
         /\ b + tag[b] < NumBlocks => owner[b + tag[b]] \in {None, b + tag[b]}
         /\ Cardinality(FreeFrom(b)) = Cardinality(FreeFrom(b + tag[b]))
<1>1. b \in Nat /\ tag[b] \in Nat /\ b \in Block
  BY BlockIsNat, ByteIsNat DEF HeapInv, HeapTypeOK, Held
<1>2. ASSUME NEW j \in Block, j >= b, owner[j] = None PROVE j >= b + tag[b]
  <2>1. ~ (j \in b .. b + tag[b] - 1)
    BY <1>2, <1>1, Extent DEF HeapInv, None
  <2> QED BY <2>1, <1>1, <1>2, BlockIsNat
<1>3. ASSUME NEW j \in Block, j >= b + tag[b] PROVE j >= b
  BY <1>1, <1>3, BlockIsNat
<1>4. FreeFrom(b) = FreeFrom(b + tag[b])
  BY <1>2, <1>3, Zenon DEF FreeFrom
<1> QED BY <1>4, RunEnd DEF HeapInv, RunsMatchTags

\* Behind the heap there is none.
LEMMA NoneBehind == ASSUME NEW b \in Nat, b >= NumBlocks
                    PROVE  Cardinality(FreeFrom(b)) = 0
<1>1. FreeFrom(b) = {}
  BY NumBlocksAssumption DEF FreeFrom, Block
<1> QED BY <1>1, FS_EmptySet

\* From the beginning of an allocation or from a free block the walk counts the free
\* blocks: it never lands inside an allocation, where data would be taken for tags.
LEMMA WalkCounts ==
  ASSUME HeapInv, NEW w, \A b \in Nat : w[b] = WalkStep(w, b)
  PROVE  \A b \in Block : owner[b] \in {None, b} => w[b] = 8 * Cardinality(FreeFrom(b))
<1> DEFINE Outside(b) == b < NumBlocks => owner[b] \in {None, b}
           Exact(b) == w[b] = 8 * Cardinality(FreeFrom(b))
           Wrong == {n \in Nat : \E b \in Nat : b + n = NumBlocks /\ Outside(b) /\ ~Exact(b)}
<1>1. ASSUME NEW b \in Nat, b >= NumBlocks PROVE Exact(b)
  BY <1>1, NoneBehind, WalkSteps
<1>2. Wrong = {}
  <2> SUFFICES ASSUME Wrong # {} PROVE FALSE
    OBVIOUS
  <2>1. PICK n \in Wrong : \A k \in Wrong : n <= k
    BY LeastNumber
  <2>2. PICK b \in Nat : b + n = NumBlocks /\ Outside(b) /\ ~Exact(b)
    OBVIOUS
  <2>3. ASSUME NEW c \in Nat, c > b, Outside(c) PROVE Exact(c)
    <3>1. CASE c >= NumBlocks
      BY <3>1, <1>1
    <3>2. CASE c < NumBlocks
      <4>1. NumBlocks - c \in Nat /\ c + (NumBlocks - c) = NumBlocks /\ NumBlocks - c < n
        BY <3>2, <2>2, <2>3, NumBlocksAssumption
      <4> QED BY <4>1, <2>1, <2>3
    <3> QED BY <3>1, <3>2, NumBlocksAssumption
  <2>4. b \in Block
    <3>1. ~ (b >= NumBlocks)
      BY <1>1, <2>2
    <3> QED BY <3>1, InHeapIsBlock, NumBlocksAssumption
  <2> HIDE DEF Wrong, Exact
  <2>5. CASE owner[b] = None
    <3>1. tag[b] = FreeTag /\ Outside(b + 1)
      BY <2>4, <2>5, FreeCounts
    <3>2. Exact(b + 1)
      BY <2>3, <3>1
    <3>3. w[b] = 8 + w[b + 1]
      BY <2>4, <3>1, WalkSteps, NumBlocksAssumption DEF Block
    <3>4. Cardinality(FreeFrom(b)) = Cardinality(FreeFrom(b + 1)) + 1
      BY <2>4, <2>5, FreeCounts
    <3>5. Cardinality(FreeFrom(b + 1)) \in Nat
      BY FiniteFrom, FS_CardinalityType
    <3> QED BY <2>2, <3>2, <3>3, <3>4, <3>5 DEF Exact
  <2>6. CASE owner[b] = b
    <3>1. b \in Held /\ tag[b] \in Nat
      BY <2>4, <2>6, ByteIsNat DEF Held, HeapInv, HeapTypeOK
    <3>2. tag[b] # FreeTag /\ Outside(b + tag[b])
      BY <3>1, HeldCounts
    <3>3. Exact(b + tag[b])
      BY <2>3, <3>1, <3>2 DEF FreeTag
    <3>4. w[b] = w[b + tag[b]]
      BY <2>4, <3>2, WalkSteps, NumBlocksAssumption DEF Block
    <3>5. Cardinality(FreeFrom(b)) = Cardinality(FreeFrom(b + tag[b]))
      BY <3>1, HeldCounts
    <3> QED BY <2>2, <3>3, <3>4, <3>5 DEF Exact
  <2> QED BY <2>2, <2>4, <2>5, <2>6, NumBlocksAssumption DEF Block
<1>3. ASSUME NEW b \in Block, owner[b] \in {None, b} PROVE Exact(b)
  <2>1. b \in Nat /\ NumBlocks - b \in Nat /\ b + (NumBlocks - b) = NumBlocks
    BY NumBlocksAssumption DEF Block
  <2> QED BY <1>2, <1>3, <2>1
<1> QED BY <1>3

\* FRE reports exactly the free blocks at or behind the hint, whatever data the
\* program stores where an allocation has no tag.
THEOREM FreeCounted == Spec => []FreeCountExact
<1>1. ASSUME HeapInv PROVE GetFree = 8 * Cardinality(FreeFrom(memStart))
  <2>1. PICK w : GetFree = w[memStart] /\ \A b \in Nat : w[b] = WalkStep(w, b)
    BY <1>1, GetFreeWalks DEF HeapInv
  <2>2. memStart \in Block /\ owner[memStart] \in {None, memStart}
    BY <1>1 DEF HeapInv, HeapTypeOK, HintAtBoundary
  <2> QED BY <1>1, <2>1, <2>2, WalkCounts
<1>2. Inv => FreeCountExact
  BY <1>1 DEF Inv, FreeCountExact, FreeFrom
<1> QED BY <1>2, Invariance, PTL
-----------------------------------------------------------------------------
\* The mapping to the abstract heap: an allocation appears when its search
\* succeeds, the other iterations of the loop change nothing.
LEMMA SameBlocks == AH!Block = Block /\ AH!None = None
  BY DEF AH!Block, AH!None, Block, None

\* The cells of the abstract heap are pairs of bytes,
LEMMA CellsTyped == ASSUME HeapTypeOK PROVE cells \in [Block -> Byte \X Byte]
  BY DEF HeapTypeOK, cells

\* also after a step.
LEMMA CellsTypedNext == ASSUME HeapTypeOK' PROVE cells' \in [Block -> Byte \X Byte]
  BY DEF HeapTypeOK, cells

\* A step that changes neither tags nor owners is none of the abstract heap.
LEMMA StutterMapped == ASSUME UNCHANGED <<tag, words, owner>>
                       PROVE  UNCHANGED AH!avars
  BY DEF AH!avars, cells

\* A step that keeps the header bytes of the other allocations disturbs nobody.
LEMMA KeptMapped ==
  ASSUME HeapTypeOK', \A j \in Block : owner[j] # None /\ owner'[j] # None =>
                        tag'[j] = tag[j] /\ words'[j] = words[j]
  PROVE  AH!Undisturbed
<1>1. cells' \in [Block -> Byte \X Byte]
  BY CellsTypedNext
<1>2. ASSUME NEW j \in Block, owner[j] # None, owner'[j] # None PROVE cells'[j] = cells[j]
  BY <1>2 DEF cells
<1> QED BY <1>1, <1>2, SameBlocks DEF AH!Undisturbed

\* What nb_mem_free does is one Release of the abstract heap.
LEMMA ReleaseMapped ==
  ASSUME HeapInv, HeapInv', NEW a \in HeldAddr, FreeBlocks(a), words' = words
  PROVE  \E h \in AH!Block : AH!Release(h)
<1> DEFINE b == HeadOf(a)
<1>1. b \in Block /\ b \in Held /\ owner[b] = b
  BY HeldAddresses DEF Held
<1>2. /\ tag' = FreedTag(b)
      /\ owner' = [c \in Block |-> IF owner[c] = b THEN None ELSE owner[c]]
  BY DEF FreeBlocks, Forget
<1> HIDE DEF b
<1>3. ASSUME NEW j \in Block, owner'[j] # None PROVE tag'[j] = tag[j]
  <2>1. owner[j] # b
    BY <1>2, <1>3
  <2>2. j \notin b .. b + tag[b] - 1
    BY <2>1, <1>1, Extent DEF HeapInv
  <2> QED BY <2>2, <1>2 DEF FreedTag
<1>4. AH!Undisturbed
  BY <1>3, KeptMapped DEF HeapInv
<1> QED BY <1>1, <1>2, <1>4, SameBlocks DEF AH!Release

\* A successful search is one Allocate of the abstract heap.
LEMMA FoundMapped ==
  ASSUME Inv, Inv', ScanFound
  PROVE  \E h \in AH!Block, n \in 1 .. NumBlocks : AH!Allocate(h, n)
<1> DEFINE r == RunStart
           n == NumBlk(req)
<1>1. /\ r \in Block /\ n \in 1 .. 255 /\ r + n - 1 = i /\ i \in Block
      /\ \A j \in r .. r + n - 1 : j \in Block /\ owner[j] = None
  BY FoundRun DEF Inv, ScanInv
<1>2. /\ tag' = [tag EXCEPT ![r] = n % 256]
      /\ words' = [words EXCEPT ![r] = NumWords(req) % 256]
      /\ owner' = [b \in Block |-> IF b \in r .. r + n - 1 THEN r ELSE owner[b]]
  BY DEF ScanFound
<1> HIDE DEF r, n
<1>3. r \in r .. r + n - 1 /\ n \in 1 .. NumBlocks
  BY <1>1, NumBlocksAssumption DEF Block
<1>4. ASSUME NEW j \in Block, owner[j] # None PROVE tag'[j] = tag[j] /\ words'[j] = words[j]
  <2>1. j # r
    BY <1>1, <1>3, <1>4
  <2> QED BY <2>1, <1>2 DEF Inv, HeapInv, HeapTypeOK
<1>5. AH!Undisturbed
  BY <1>4, KeptMapped DEF Inv, HeapInv
<1>6. AH!Allocate(r, n)
  BY <1>1, <1>2, <1>3, <1>5, SameBlocks DEF AH!Allocate
<1> QED BY <1>1, <1>3, <1>6, SameBlocks

\* A write of the program is a Store of the abstract heap.
LEMMA WriteMapped ==
  ASSUME HeapInv, HeapInv', NEW b \in Block, NEW j \in Block, UserWrite(b, j)
  PROVE  AH!Store(b, j)
<1>1. owner[j] = b /\ j # b /\ owner' = owner
  BY DEF UserWrite, history
<1>2. cells' \in [Block -> Byte \X Byte]
  BY CellsTypedNext DEF HeapInv
<1>3. ASSUME NEW k \in Block \ {j} PROVE cells'[k] = cells[k]
  <2>1. PICK v \in UserBytes : tag' = [tag EXCEPT ![j] = v]
    BY DEF UserWrite
  <2>2. PICK w \in UserBytes : words' = [words EXCEPT ![j] = w]
    BY DEF UserWrite
  <2> QED BY <2>1, <2>2 DEF cells, HeapInv, HeapTypeOK
<1> QED BY <1>1, <1>2, <1>3, SameBlocks DEF AH!Store

\* Every step is one of the abstract heap or a stutter.
LEMMA StepMapped == ASSUME Inv, Inv', [Next]_vars PROVE [AH!ANext]_(AH!avars)
<1>1. CASE MemInit
  <2>1. cells' \in [Block -> Byte \X Byte]
    BY CellsTypedNext DEF Inv, HeapInv
  <2>2. AH!Clear
    BY <1>1, <2>1, SameBlocks DEF MemInit, AH!Clear
  <2> QED BY <2>2 DEF AH!ANext
<1>2. CASE ScanFound
  BY <1>2, FoundMapped DEF AH!ANext
<1>3. ASSUME NEW a \in HeldAddr, Free(a) PROVE AH!ANext
  <2>1. FreeBlocks(a) /\ words' = words
    BY <1>3 DEF Free
  <2> QED BY <2>1, ReleaseMapped DEF AH!ANext, Inv
<1>4. ASSUME NEW a \in HeldAddr \cup {0}, NEW bytes \in Requests, ReallocMove(a, bytes)
      PROVE  AH!ANext
  <2>1. a \in HeldAddr /\ FreeBlocks(a) /\ words' = words
    BY <1>4 DEF ReallocMove, IsHeapAddr
  <2> QED BY <2>1, ReleaseMapped DEF AH!ANext, Inv
<1>5. ASSUME NEW b \in Block, NEW j \in Block, UserWrite(b, j) PROVE AH!ANext
  BY <1>5, WriteMapped, SameBlocks DEF AH!ANext, Inv
<1>6. CASE UNCHANGED <<tag, words, owner>>
  BY <1>6, StutterMapped
<1>7. ASSUME NEW a, NEW bytes, ReallocKeep(a, bytes) \/ ReallocRefused(a, bytes)
      PROVE  UNCHANGED <<tag, words, owner>>
  BY <1>7 DEF ReallocKeep, ReallocRefused, heapVars, history
<1>8. ASSUME NEW bytes, Alloc(bytes) \/ AllocTooBig(bytes)
      PROVE  UNCHANGED <<tag, words, owner>>
  BY <1>8 DEF Alloc, AllocTooBig, heapVars, history
<1>9. ScanBlocked \/ ScanUsed \/ ScanFree \/ ScanEnd \/ UNCHANGED vars
      => UNCHANGED <<tag, words, owner>>
  BY DEF ScanBlocked, ScanUsed, ScanFree, ScanEnd, heapVars, history, vars
<1> QED BY <1>1, <1>2, <1>3, <1>4, <1>5, <1>6, <1>7, <1>8, <1>9 DEF Next, ScanStep

\* The initial state is one of the abstract heap.
LEMMA InitMapped == ASSUME Init PROVE AH!AInit
<1>1. HeapTypeOK
  BY InitInv DEF Inv, HeapInv
<1> QED BY <1>1, CellsTyped, SameBlocks DEF AH!AInit, Init

\* The block allocator implements the abstract heap: it hands out free blocks
\* only, takes back what it handed out and keeps the data of everybody else.
THEOREM Refinement == Spec => ImplementsHeap
<1>1. Init => AH!AInit
  BY InitMapped
<1>2. Inv /\ Inv' /\ [Next]_vars => [AH!ANext]_(AH!avars)
  BY StepMapped
<1> QED BY <1>1, <1>2, Invariance, PTL DEF Spec, ImplementsHeap, AH!ASpec
=============================================================================
