------------------------------- MODULE NbMem -------------------------------
(***************************************************************************)
(* The block allocator of the virtual machine (src/src/nb_memory.c, built  *)
(* with cfg_STRING_SUPPORT).                                               *)
(*                                                                         *)
(* The heap is an array of 8 byte blocks.  An allocation is a run of       *)
(* blocks; byte 0 of its first block (the tag) holds the number of blocks, *)
(* byte 1 the usable size in words, and a tag 0 marks a block as free.     *)
(* The two bytes at the same place of the other blocks of the run belong   *)
(* to the program, which writes what it likes there.  So only these two    *)
(* bytes of every block are modelled, and addresses are block numbers.     *)
(*                                                                         *)
(* A call of nb_mem_alloc takes one step per iteration of its loop.        *)
(***************************************************************************)
EXTENDS Integers, FiniteSets

CONSTANTS NumBlocks,     \* cfg_MEM_HEAP_SIZE / k_MEM_BLOCK_SIZE
          MaxBlockSize,  \* cfg_MAX_MEM_BLOCK_SIZE
          Requests,      \* sizes the machine asks for, uint16_t
          UserBytes      \* bytes the program stores in its blocks

Byte == 0 .. 255
Word16 == 0 .. 65535
Block == 0 .. NumBlocks - 1

FreeTag == 0             \* k_MEM_FREE_TAG
None == -1               \* owner of a free block

\* Faulty variants of some definitions (their names end in _m and a letter)
\* stand in front of them: they show that the properties notice such faults.
NumBlk_mA(bytes) == (bytes + 7) \div 8    \* no room for the header

NumBlk(bytes)   == (bytes + 9) \div 8
NumWords(bytes) == (bytes + 5) \div 4

\* A block number and a size in blocks survive the trip through the 15 bits
\* of an address and the bytes of the header.
ASSUME NumBlocksAssumption == NumBlocks \in 1 .. 4096
ASSUME MaxBlockSizeAssumption == /\ MaxBlockSize \in Nat
                                 /\ NumWords(MaxBlockSize) \in Byte
ASSUME RequestsAssumption == Requests \subseteq Word16
ASSUME UserBytesAssumption == UserBytes \subseteq Byte

-----------------------------------------------------------------------------
VARIABLES
    tag,       \* heap[8 * b]
    words,     \* heap[8 * b + 1]
    memStart,  \* mem_start_addr / 8: where the next search starts
    pc,        \* "idle", or "scan" inside the loop of nb_mem_alloc
    req,       \* bytes   (local of nb_mem_alloc)
    i,         \* i / 8
    blocked,   \* blocked
    start,     \* start / 8
    count,     \* count
    ret,       \* the value of the last call
    \* History: what the machine was promised, which no code reads.
    owner,     \* first block of the allocation that block j was given to
    ask,       \* the size it was asked for
    from       \* where the running search started

heapVars == <<tag, words, memStart>>
scanVars == <<req, i, blocked, start, count, from>>
history  == <<owner, ask>>
vars == <<tag, words, memStart, pc, req, i, blocked, start, count, ret,
          owner, ask, from>>

-----------------------------------------------------------------------------
\* Addresses: 0x8000 + 8 * block + HEADER_SIZE; everything up to 0x7FFF is not
\* an address of the heap.
Addr(b) == 32768 + 8 * b + 2
IsHeapAddr(a) == a > 32767
HeadOf(a) == ((a % 32768) - 2) \div 8

Held == {b \in Block : owner[b] = b}
HeldAddr == {Addr(b) : b \in Held}

BlockSize(b) == 4 * words[b] - 2

GetFree_mA ==                              \* steps into allocations
    LET walk[b \in Nat] == IF b >= NumBlocks THEN 0
                           ELSE walk[b + 1] + IF tag[b] = FreeTag THEN 8 ELSE 0
    IN walk[memStart]

\* What nb_mem_get_free counts: a walk from the hint over the tags.
GetFree ==
    LET walk[b \in Nat] == CASE b >= NumBlocks     -> 0
                             [] b < NumBlocks /\ tag[b] = FreeTag
                                                   -> 8 + walk[b + 1]
                             [] OTHER              -> walk[b + tag[b]]
    IN walk[memStart]

-----------------------------------------------------------------------------
\* nb_mem_init on the cleared machine of nb_create.
Init == /\ tag = [b \in Block |-> FreeTag]
        /\ words = [b \in Block |-> 0]
        /\ memStart = 0
        /\ pc = "idle"
        /\ req = 0 /\ i = 0 /\ blocked = 0 /\ start = 0 /\ count = 0
        /\ ret = 0
        /\ owner = [b \in Block |-> None]
        /\ ask = [b \in Block |-> 0]
        /\ from = 0

\* nb_reset clears the heap and calls it again, in whatever state the program
\* left the heap.
MemInit == /\ pc = "idle"
           /\ tag' = [b \in Block |-> FreeTag]
           /\ words' = [b \in Block |-> 0]
           /\ memStart' = 0
           /\ ret' = 0
           /\ owner' = [b \in Block |-> None]
           /\ ask' = [b \in Block |-> 0]
           /\ UNCHANGED <<pc, scanVars>>

-----------------------------------------------------------------------------
\* Entering the loop of nb_mem_alloc with the hint at b.
BeginScan(bytes, b) == /\ pc' = "scan"
                       /\ req' = bytes
                       /\ i' = b
                       /\ from' = b
                       /\ blocked' = 0
                       /\ start' = 0
                       /\ count' = 0

\* Leaving it: the locals are gone.
Return(v) == /\ pc' = "idle"
             /\ ret' = v
             /\ req' = 0 /\ i' = 0 /\ blocked' = 0 /\ start' = 0 /\ count' = 0
             /\ from' = 0

Alloc(bytes) == /\ pc = "idle"
                /\ bytes <= MaxBlockSize
                /\ BeginScan(bytes, memStart)
                /\ UNCHANGED <<heapVars, ret, history>>

AllocTooBig(bytes) == /\ pc = "idle"
                      /\ bytes > MaxBlockSize
                      /\ ret' = 0
                      /\ UNCHANGED <<heapVars, pc, scanVars, history>>

\* One iteration over a block behind the first one of an allocation.
ScanBlocked == /\ pc = "scan" /\ i < NumBlocks
               /\ blocked > 0
               /\ blocked' = blocked - 1
               /\ i' = i + 1
               /\ UNCHANGED <<heapVars, pc, req, start, count, ret, from, history>>

ScanUsed_m(blk, c, next) == /\ pc = "scan" /\ i < NumBlocks
                            /\ blocked = 0
                            /\ tag[i] # FreeTag
                            /\ blocked' = blk /\ start' = (IF c = 0 THEN 0 ELSE start)
                            /\ count' = c /\ i' = next
                            /\ UNCHANGED <<heapVars, pc, req, ret, from, history>>
ScanUsed_mA == ScanUsed_m(tag[i] - 2, 0, i + 1)       \* one block short
ScanUsed_mB == ScanUsed_m(tag[i] - 1, count, i + 1)   \* run not given up
ScanUsed_mC == ScanUsed_m(tag[i], 0, i + 1)           \* one block too many
ScanUsed_mD == ScanUsed_m(0, 0, i + tag[i] - 1)       \* no way past one block

\* One iteration over the first block of an allocation.
ScanUsed == /\ pc = "scan" /\ i < NumBlocks
            /\ blocked = 0
            /\ tag[i] # FreeTag
            /\ blocked' = tag[i] - 1
            /\ start' = 0
            /\ count' = 0
            /\ i' = i + 1
            /\ UNCHANGED <<heapVars, pc, req, ret, from, history>>

\* One iteration over a free block.  The first one of a run becomes the hint,
\* whether or not the run turns out long enough; the last one needed ends the
\* search.
RunStart == IF count = 0 THEN i ELSE start

ScanHint_mA == i                                      \* at the last block

ScanHint == IF count = 0 THEN i ELSE memStart

ScanFree == /\ pc = "scan" /\ i < NumBlocks
            /\ blocked = 0
            /\ tag[i] = FreeTag
            /\ memStart' = ScanHint
            /\ count + 1 # NumBlk(req)
            /\ start' = RunStart
            /\ count' = count + 1
            /\ i' = i + 1
            /\ UNCHANGED <<tag, words, pc, req, blocked, ret, from, history>>

ScanFound == /\ pc = "scan" /\ i < NumBlocks
             /\ blocked = 0
             /\ tag[i] = FreeTag
             /\ memStart' = ScanHint
             /\ count + 1 = NumBlk(req)
             /\ tag' = [tag EXCEPT ![RunStart] = NumBlk(req) % 256]
             /\ words' = [words EXCEPT ![RunStart] = NumWords(req) % 256]
             /\ Return(Addr(RunStart))
             /\ owner' = [b \in Block |->
                            IF b \in RunStart .. RunStart + NumBlk(req) - 1
                            THEN RunStart ELSE owner[b]]
             /\ ask' = [ask EXCEPT ![RunStart] = req]

ScanEnd == /\ pc = "scan" /\ i >= NumBlocks
           /\ Return(0)
           /\ UNCHANGED <<heapVars, history>>

-----------------------------------------------------------------------------
\* nb_mem_free, called with an address of the heap.
FreedTag_mA(b) == [tag EXCEPT ![b] = FreeTag]         \* only the first block
FreedTag_mB(b) == [c \in Block |-> IF c \in b .. b + tag[b] THEN FreeTag ELSE tag[c]]

FreedTag(b) == [c \in Block |-> IF c \in b .. b + tag[b] - 1 THEN FreeTag
                                                             ELSE tag[c]]
FreedHint(b) == IF b < memStart THEN b ELSE memStart
InHeap(b) == b < NumBlocks /\ b + tag[b] <= NumBlocks

Forget(b) == /\ owner' = [c \in Block |-> IF owner[c] = b THEN None ELSE owner[c]]
             /\ ask' = [ask EXCEPT ![b] = 0]

FreeBlocks(a) == /\ IsHeapAddr(a)
                 /\ InHeap(HeadOf(a))
                 /\ tag' = FreedTag(HeadOf(a))
                 /\ memStart' = FreedHint(HeadOf(a))
                 /\ Forget(HeadOf(a))

\* The machine frees what a variable holds: the address of an allocation, or
\* 0, which nb_mem_free ignores (that step changes nothing).
Free(a) == /\ pc = "idle"
           /\ FreeBlocks(a)
           /\ UNCHANGED <<words, pc, scanVars, ret>>

-----------------------------------------------------------------------------
\* nb_mem_realloc.  A size that fits keeps the allocation; otherwise the old
\* one is given up before the search for the new one starts, so a search that
\* fails leaves the caller with nothing.
ReallocKeep(a, bytes) == /\ pc = "idle"
                         /\ IsHeapAddr(a) /\ bytes <= MaxBlockSize
                         /\ BlockSize(HeadOf(a)) >= bytes
                         /\ ret' = a
                         /\ ask' = [ask EXCEPT ![HeadOf(a)] = bytes]
                         /\ UNCHANGED <<heapVars, pc, scanVars, owner>>

ReallocMove(a, bytes) == /\ pc = "idle"
                         /\ IsHeapAddr(a) /\ bytes <= MaxBlockSize
                         /\ BlockSize(HeadOf(a)) < bytes
                         /\ FreeBlocks(a)
                         /\ BeginScan(bytes, FreedHint(HeadOf(a)))
                         /\ UNCHANGED <<words, ret>>

ReallocRefused(a, bytes) == /\ pc = "idle"
                            /\ ~IsHeapAddr(a) \/ bytes > MaxBlockSize
                            /\ ret' = 0
                            /\ UNCHANGED <<heapVars, pc, scanVars, history>>

-----------------------------------------------------------------------------
\* The program stores an element or a string into the allocation b.  Block
\* j of it, any but the first, takes arbitrary bytes where a tag would be.
UserWrite(b, j) == /\ pc = "idle"
                   /\ owner[j] = b /\ j # b
                   /\ \E v \in UserBytes : tag' = [tag EXCEPT ![j] = v]
                   /\ \E v \in UserBytes : words' = [words EXCEPT ![j] = v]
                   /\ UNCHANGED <<memStart, pc, scanVars, ret, history>>

-----------------------------------------------------------------------------
ScanStep == ScanBlocked \/ ScanUsed \/ ScanFree \/ ScanFound \/ ScanEnd

Next == \/ MemInit
        \/ \E bytes \in Requests : Alloc(bytes) \/ AllocTooBig(bytes)
        \/ ScanStep
        \/ \E a \in HeldAddr : Free(a)
        \/ \E a \in HeldAddr \cup {0}, bytes \in Requests :
              ReallocKeep(a, bytes) \/ ReallocMove(a, bytes) \/ ReallocRefused(a, bytes)
        \/ \E b, j \in Block : UserWrite(b, j)

\* The loop runs to its end without anybody interrupting it.
Spec == Init /\ [][Next]_vars /\ WF_vars(ScanStep)

-----------------------------------------------------------------------------
HeapTypeOK == /\ tag \in [Block -> Byte]
              /\ words \in [Block -> Byte]
              /\ memStart \in Block
              /\ owner \in [Block -> Block \cup {None}]
              /\ ask \in [Block -> Word16]

ScanTypeOK == /\ pc \in {"idle", "scan"}
              /\ req \in Word16
              /\ i \in 0 .. NumBlocks
              /\ blocked \in Byte
              /\ start \in Block
              /\ count \in 0 .. NumBlocks
              /\ from \in Block

(* The type invariant: every variable of the allocator keeps its C type,   *)
(* the block numbers stay in the heap, and a call returns 0 or an address. *)
TypeOK == /\ HeapTypeOK
          /\ ScanTypeOK
          /\ ret \in {0} \cup {Addr(b) : b \in Block}

(* Every block that was given to somebody lies inside the run that the tag *)
(* of its owner describes, and that run holds nothing else: what the tags  *)
(* say, and nb_mem_free goes by, is what the callers were promised.        *)
RunsMatchTags ==
    /\ \A j \in Block : owner[j] # None =>
          /\ owner[owner[j]] = owner[j]
          /\ j \in owner[j] .. owner[j] + tag[owner[j]] - 1
    /\ \A b \in Held : /\ tag[b] # FreeTag
                       /\ b + tag[b] <= NumBlocks
                       /\ \A j \in b .. b + tag[b] - 1 : owner[j] = b

(* A block that nobody holds carries the free tag, although it may have    *)
(* been the inside of an allocation that the program filled with data:     *)
(* the next search takes it for what it is.                                *)
UnownedIsFree == \A j \in Block : owner[j] = None => tag[j] = FreeTag

(* The hint never points inside an allocation, where the search and        *)
(* nb_mem_get_free would read data as tags.                                *)
HintAtBoundary == owner[memStart] \in {None, memStart}

(* The size that nb_mem_get_blocksize reports, against which the           *)
(* interpreter checks its indices, covers what was asked for and ends      *)
(* inside the allocation.                                                  *)
SizeCoversRequest ==
    \A b \in Held : /\ ask[b] <= BlockSize(b)
                    /\ BlockSize(b) <= 8 * tag[b] - 2

(* While the loop of nb_mem_alloc runs, it is in step with the allocations *)
(* (blocked spans the rest of the one it is in; start and count span the   *)
(* free run right before i, which begins where the search began or after   *)
(* an allocation), so that it takes no data for a tag.                     *)
ScanInStep ==
    pc = "scan" =>
      /\ req <= MaxBlockSize
      /\ count < NumBlk(req)
      /\ i + blocked <= NumBlocks
      /\ blocked > 0 => /\ count = 0
                        /\ i > 0
                        /\ owner[i - 1] # None
                        /\ owner[i + blocked - 1] = owner[i - 1]
      /\ i + blocked < NumBlocks => owner[i + blocked] \in {None, i + blocked}
      /\ count > 0 => /\ start + count = i
                      /\ \A j \in start .. i - 1 : owner[j] = None
                    /\ memStart = start
      /\ from <= i - count
      /\ from < i - count => owner[i - count - 1] # None

(* No free run of the wanted length that starts at or behind the hint is   *)
(* passed over.  At the end of the heap this says that the call fails only *)
(* if there is none.                                                       *)
FreeRun(s, n) == \A j \in s .. s + n - 1 : owner[j] = None

NoRunPassedOver ==
    pc = "scan" =>
      \A s \in from .. NumBlocks - 1 :
         s + NumBlk(req) <= i => ~FreeRun(s, NumBlk(req))

(* Between two calls nb_mem_get_free reports exactly the blocks that are   *)
(* free at or behind the hint.                                             *)
FreeCountExact ==
    pc = "idle" =>
      GetFree = 8 * Cardinality({j \in Block : j >= memStart /\ owner[j] = None})

(* A call of nb_mem_alloc or nb_mem_realloc returns.                       *)
AllocReturns == pc = "scan" ~> pc = "idle"

(* The allocator implements the abstract heap: an allocation is one step   *)
(* of it, and what the holders of the other allocations stored is kept.    *)
cells == [b \in Block |-> <<tag[b], words[b]>>]

AH == INSTANCE AbstractHeap WITH Cell <- Byte \X Byte, cell <- cells
ImplementsHeap == AH!ASpec

-----------------------------------------------------------------------------
(* What the program tells its user and does not hold.                      *)

(* "Error: Out of memory" (nb_runtime.c:306, the answer to a failed call)  *)
(* means that no free run of the wanted length exists.                     *)
OutOfMemoryMeansFull ==
    pc = "scan" /\ i >= NumBlocks =>
      \A s \in Block : s + NumBlk(req) <= NumBlocks => ~FreeRun(s, NumBlk(req))
=============================================================================
