---------------------------- MODULE AbstractHeap ----------------------------
(***************************************************************************)
(* What the block heap of src/src/nb_memory.c promises to the virtual      *)
(* machine: a block of the heap belongs to at most one allocation, an      *)
(* allocation is a run of consecutive blocks named by its first one, and   *)
(* neither allocating nor releasing disturbs what the other allocations    *)
(* hold.  Which run is chosen, and when a request is refused, is left      *)
(* open.                                                                   *)
(***************************************************************************)
EXTENDS Integers

CONSTANTS NumBlocks,  \* number of 8 byte blocks
          Cell        \* what a block can hold

Block == 0 .. NumBlocks - 1
None == -1            \* owner of a block that is free

VARIABLES owner,      \* owner[j]: first block of the allocation that holds j
          cell        \* cell[j]: the content of block j

avars == <<owner, cell>>

AInit == /\ owner = [j \in Block |-> None]
         /\ cell \in [Block -> Cell]

\* The cells that belong to somebody before and after the step keep their
\* content; the content of every other cell is arbitrary.
Undisturbed == /\ cell' \in [Block -> Cell]
               /\ \A j \in Block :
                     owner[j] # None /\ owner'[j] # None => cell'[j] = cell[j]

\* n free consecutive blocks starting at h become an allocation.
Allocate(h, n) ==
    LET run == h .. h + n - 1
    IN /\ n > 0
       /\ run \subseteq Block
       /\ \A j \in run : owner[j] = None
       /\ owner' = [j \in Block |-> IF j \in run THEN h ELSE owner[j]]
       /\ Undisturbed

\* The allocation h is given back, all of it and nothing else.
Release(h) ==
    /\ owner[h] = h
    /\ owner' = [j \in Block |-> IF owner[j] = h THEN None ELSE owner[j]]
    /\ Undisturbed

\* The program writes to a block of the allocation h behind its first one.
Store(h, j) ==
    /\ owner[j] = h
    /\ j # h
    /\ cell' \in [Block -> Cell]
    /\ \A k \in Block \ {j} : cell'[k] = cell[k]
    /\ UNCHANGED owner

\* The machine is reset: everything is given back.
Clear == /\ owner' = [j \in Block |-> None]
         /\ cell' \in [Block -> Cell]

ANext == \/ \E h \in Block, n \in 1 .. NumBlocks : Allocate(h, n)
         \/ \E h \in Block : Release(h)
         \/ \E h, j \in Block : Store(h, j)
         \/ Clear

ASpec == AInit /\ [][ANext]_avars
=============================================================================
