------------------------------ MODULE NbStrings ------------------------------
(***************************************************************************)
(* Strings and arrays of the virtual machine (src/src/nb_runtime.c): the   *)
(* string variables, the arrays, the two buffers for intermediate results, *)
(* and the host's strings.  An operand is an address: of a constant in the *)
(* code, of a buffer, or of an allocation of the heap, which is used       *)
(* through what AbstractHeap promises of it.                               *)
(*                                                                         *)
(* Any sequence of instructions is explored that finds its operands on the *)
(* stack, so the steps of an interrupt routine between the steps of an     *)
(* expression are among them.  A character of the model stands for Chunk   *)
(* characters.  Numbers are not kept on the stack: an instruction that     *)
(* takes one takes any.                                                    *)
(***************************************************************************)
EXTENDS Integers, Sequences, FiniteSets

CONSTANTS
    Strings, Arrays,   \* the variables
    Programs,          \* what programs need: names, operands at a time (words),
                       \* and whether they call the host
    Literals,          \* code address -> text of the constant there
    Chars,             \* characters of the texts
    Elems,             \* what the program stores in arrays
    Dims, Indexes,     \* n of DIM a(n), i of a(i)
    Numerals,          \* what STR$ and HEX$ make
    HostTexts,         \* what the host answers
    Counts,            \* numbers of LEFT$, RIGHT$, MID$, STRING$
    MaxText,           \* k_MAX_LINE_LEN - 1
    Chunk,             \* characters in a character of the model
    MaxAllocs          \* addresses of the heap

NbError == 1           \* NB_ERROR
MaxBlock == 512        \* cfg_MAX_MEM_BLOCK_SIZE
Buf1 == 32753          \* STRBUF1
Buf2 == 32754          \* STRBUF2
Temps == {Buf1, Buf2}
HeapAddr == 32768 + 1 .. 32768 + MaxAllocs
IsHeap(a) == a > 32767
Names == Strings \cup Arrays

Unknown == -1          \* a character or an element that nobody has written
Junk == <<Unknown>>
Lost == <<Unknown>>    \* history: nothing can be said of this value
Text == UNION {[1 .. n -> Chars] : n \in 0 .. MaxText}

ASSUME NamesAssumption == Strings \cap Arrays = {}
ASSUME LiteralsAssumption ==
    /\ DOMAIN Literals \subseteq 2 .. Buf1 - 1
    /\ \A a \in DOMAIN Literals : Literals[a] \in Text
ASSUME ProgramsAssumption ==
    \A p \in Programs : p.names \subseteq Names /\ p.words \in Nat /\ p.calls \in BOOLEAN
ASSUME DataAssumption == /\ Unknown \notin Chars \cup Elems
                         /\ Numerals \cup HostTexts \subseteq Text
                         /\ Dims \cup Counts \cup Indexes \subseteq Int
ASSUME SizeAssumption == /\ MaxText \in Nat /\ Chunk \in Nat \ {0} /\ MaxAllocs \in Nat
                         /\ Chunk * MaxText + 1 <= MaxBlock

-----------------------------------------------------------------------------
VARIABLES
    prog,         \* the program
    variables,    \* name -> address
    heap,         \* address -> the allocation there, or Nothing
    bufs,         \* strbuf1, strbuf2
    strbuf1_used,
    stack,        \* string operands
    params,       \* string operands on the parameter stack
    mode,         \* "run", or "error" after NB_ERROR
    astray,       \* a step has read or written what is not its own: the memory
                  \* may hold anything then, and the model ends there
    store         \* history: the values the program gave its variables

vars == <<prog, variables, heap, bufs, strbuf1_used, stack, params, mode, astray, store>>

\* An operand, with its history: the text it was pushed for and what is left of
\* its life, 0 when that text may be gone.
Named == {0, NbError} \cup DOMAIN Literals \cup HeapAddr
Word == [addr : Named \cup Temps, meant : Text, life : 0 .. 2]
Dead(a) == [addr |-> a, meant |-> <<>>, life |-> 0]

\* nb_memory.c: blocks of 8 bytes, words of 4, a header of 2 bytes.
Blocks(bytes) == (bytes + 9) \div 8
Words(bytes) == (bytes + 5) \div 4
TextBytes(t) == Chunk * Len(t) + 1

Character == Chars \cup {Unknown}
Element == Elems \cup {0, Unknown}
Allocation == [blocks : Nat, words : Nat, text : Seq(Character), elems : Seq(Element)]
Nothing == [blocks |-> 0, words |-> 0, text |-> Junk, elems |-> <<>>]
TextAlloc(t) == [blocks |-> Blocks(TextBytes(t)), words |-> Words(TextBytes(t)),
                 text |-> t, elems |-> <<>>]
Room(blocks) == (8 * blocks - 2) \div 4
ArrayAlloc(bytes) ==
    [blocks |-> Blocks(bytes), words |-> Words(bytes), text |-> Junk,
     elems |-> [k \in 1 .. Room(Blocks(bytes)) |-> IF 4 * k <= bytes THEN 0 ELSE Unknown]]

Init == /\ prog \in Programs
        /\ variables = [v \in Names |-> 0]
        /\ heap = [h \in HeapAddr |-> Nothing]
        /\ bufs = [b \in Temps |-> <<>>]
        /\ strbuf1_used = FALSE
        /\ stack = <<>> /\ params = <<>>
        /\ mode = "run" /\ astray = FALSE
        /\ store = [v \in Names |-> <<>>]

-----------------------------------------------------------------------------
\* get_string
Read(a) == CASE a \in Temps -> bufs[a]
             [] a \in HeapAddr -> heap[a].text
             [] a = 0 -> <<>>
             [] a \in DOMAIN Literals -> Literals[a]
             [] OTHER -> Junk

\* alloc_temp_string
NextBuf_mA == Buf1              \* the flag is never looked at
NextBuf == IF strbuf1_used THEN Buf2 ELSE Buf1

\* The words that stay on the stacks when a buffer is handed out, and when the
\* allocation h is released or filled anew.
Older(w) == CASE w.addr \notin Temps -> w
              [] w.addr \in Temps /\ w.life = 2 -> [w EXCEPT !.life = 1]
              [] OTHER -> Dead(w.addr)
Aged(s) == [k \in DOMAIN s |-> Older(s[k])]
Parted(w, h) == IF IsHeap(h) /\ w.addr = h THEN Dead(h) ELSE w
Expired(s, h) == [k \in DOMAIN s |-> Parted(s[k], h)]

Depth(k) == Len(stack) - k
Top(k) == stack[Len(stack) - k + 1]
Below(k) == SubSeq(stack, 1, Depth(k))

RoomForWord == Len(stack) + Len(params) < prog.words
Running == mode = "run" /\ ~astray

\* A string function takes k words and leaves a text in the next buffer.
\* known: the text is what the program meant, given what it meant before.
Yield(k, text, known, meant) ==
    /\ k > 0 \/ RoomForWord
    /\ bufs' = [bufs EXCEPT ![NextBuf] = text]
    /\ strbuf1_used' = ~strbuf1_used
    /\ stack' = Append(Aged(Below(k)), IF known /\ meant \in Text
                                       THEN [addr |-> NextBuf, meant |-> meant, life |-> 2]
                                       ELSE Dead(NextBuf))
    /\ params' = Aged(params)
    /\ UNCHANGED <<variables, heap, mode, store>>

-----------------------------------------------------------------------------
\* Operands.

PushStr(a) == /\ Running /\ RoomForWord
              /\ stack' = Append(stack, [addr |-> a, meant |-> Literals[a], life |-> 1])
              /\ UNCHANGED <<variables, heap, bufs, strbuf1_used, params, mode, astray, store>>

PushVar(s) == /\ Running /\ RoomForWord
              /\ stack' = Append(stack, IF store[s] = Lost THEN Dead(variables[s])
                                        ELSE [addr |-> variables[s], meant |-> store[s],
                                              life |-> 1])
              /\ UNCHANGED <<variables, heap, bufs, strbuf1_used, params, mode, astray, store>>

\* The buffer is filled with the left operand before the right one is read.
\* Nothing compares the sum with the size of the buffer.
AddStr == /\ Running /\ Len(stack) >= 2
          /\ LET left == Read(Top(2).addr)
                 right == IF Top(1).addr = NextBuf THEN left ELSE Read(Top(1).addr)
             IN /\ Yield(2, IF Len(left \o right) > MaxText THEN Junk ELSE left \o right,
                         /\ Top(1).life > 0 /\ Top(2).life > 0
                         /\ Top(1).addr # NextBuf,
                         Top(2).meant \o Top(1).meant)
                /\ astray' = (Len(left \o right) > MaxText)

Lesser(m, n) == IF m < n THEN m ELSE n

LeftOf(t, n) == SubSeq(t, 1, n)
LeftStr(n) == /\ Running /\ Len(stack) >= 1
              /\ LET t == Read(Top(1).addr)
                     count == Lesser(MaxText, n)
                 IN /\ Yield(1, IF count < 0 THEN Junk ELSE LeftOf(t, Lesser(count, Len(t))),
                          Top(1).life > 0 /\ count >= 0,
                             LeftOf(Top(1).meant, Lesser(n, Len(Top(1).meant))))
                    /\ astray' = (count < 0)

\* strncpy moves a text within the buffer: onto itself, whatever then stands there.
Overlap(from, n) == Top(1).addr = NextBuf /\ 0 < from /\ from < n

RightOf(t, n) == SubSeq(t, Len(t) - n + 1, Len(t))
RightStr(n) == /\ Running /\ Len(stack) >= 1
               /\ LET t == Read(Top(1).addr)
                      count == Lesser(Len(t), n)
                      known == count >= 0 /\ ~Overlap(Len(t) - count, count)
                  IN /\ Yield(1, IF known THEN RightOf(t, count) ELSE Junk,
                              Top(1).life > 0 /\ known,
                              RightOf(Top(1).meant, Lesser(n, Len(Top(1).meant))))
                     /\ astray' = (count < 0)

MidOf(t, start, n) == SubSeq(t, start, start + Lesser(n, Len(t) - start + 1) - 1)
MidStr(start, n) ==
    /\ Running /\ Len(stack) >= 1
    /\ LET t == Read(Top(1).addr)
           from == Lesser(Len(t), start - 1)
           count == Lesser(Len(t) - from, n)
           known == from >= 0 /\ count >= 0 /\ ~Overlap(from, count)
       IN /\ Yield(1, IF known THEN SubSeq(t, from + 1, from + count) ELSE Junk,
                   Top(1).life > 0 /\ known,
                   MidOf(Top(1).meant, start, n))
          /\ astray' = (from < 0 \/ count < 0)

\* STR$ and HEX$: the text of a number.
NumberStr(t) == /\ Running
                /\ Yield(0, t, TRUE, t)
                /\ UNCHANGED astray

\* STRING$(n, fill)
AllocStr(n) == /\ Running /\ Len(stack) >= 1
               /\ LET t == Read(Top(1).addr)
                      count == Lesser(MaxText, n)
                      filled(text) == [k \in 1 .. count |-> text[1]]
                  IN /\ Yield(1, IF count < 0 THEN Junk ELSE IF t = <<>> THEN <<>> ELSE filled(t),
                              Top(1).life > 0 /\ count >= 0,
                              IF Top(1).meant = <<>> THEN <<>> ELSE filled(Top(1).meant))
                     /\ astray' = (count < 0)

\* LEN, VAL and PRINT take a text, the comparisons and INSTR two.
Consume(k) == /\ Running /\ Len(stack) >= k
              /\ stack' = Below(k)
              /\ UNCHANGED <<variables, heap, bufs, strbuf1_used, params, mode, astray, store>>

\* INSTR(start, text, pattern) looks at the character before an empty text.
Instr == /\ Running /\ Len(stack) >= 2
         /\ stack' = Below(2)
         /\ astray' = (Read(Top(2).addr) = <<>>)
         /\ UNCHANGED <<variables, heap, bufs, strbuf1_used, params, mode, store>>

\* k_STR_GREATER_N1 falls through into k_STR_GREATER_EQU_N1: its result and the
\* word below are compared again.
Greater == /\ Running /\ Len(stack) >= 2
           /\ stack' = Below(Lesser(3, Len(stack)))
           /\ astray' = TRUE
           /\ UNCHANGED <<variables, heap, bufs, strbuf1_used, params, mode, store>>

-----------------------------------------------------------------------------
\* Variables.  An address the heap gives out is any that is free; it may refuse.

FreeAddr(hp) == {h \in HeapAddr : hp[h].blocks = 0}
Without(a) == IF IsHeap(a) THEN [heap EXCEPT ![a] = Nothing] ELSE heap

Settled(s, w) == store' = [store EXCEPT ![s] = IF w.life > 0 THEN w.meant ELSE Lost]
Pop(s) == /\ stack' = Expired(Below(1), variables[s])
          /\ params' = Expired(params, variables[s])

\* realloc_string, a constant: the variable takes its address.
StaticAddr_mA(a) == a <= Buf1        \* the first buffer is taken for a constant
StaticAddr(a) == a < Buf1
AssignStatic(s) ==
    /\ Running /\ Len(stack) >= 1 /\ StaticAddr(Top(1).addr)
    /\ heap' = Without(variables[s])
    /\ variables' = [variables EXCEPT ![s] = Top(1).addr]
    /\ Pop(s) /\ Settled(s, Top(1))
    /\ UNCHANGED <<bufs, strbuf1_used, mode, astray>>

\* realloc_string, a buffer or the text of a variable, which nb_mem_realloc finds
\* to fit into the words that were asked for last ...
Fits(t, a) == TextBytes(t) <= 4 * heap[a].words - 2

AssignInPlace(s) ==
    /\ Running /\ Len(stack) >= 1 /\ ~StaticAddr(Top(1).addr)
    /\ LET t == Read(Top(1).addr)
           a == variables[s]
       IN /\ IsHeap(a) /\ Fits(t, a)
          /\ heap' = [heap EXCEPT ![a].text = t]
    /\ Pop(s) /\ Settled(s, Top(1))
    /\ UNCHANGED <<variables, bufs, strbuf1_used, mode, astray>>

NeedsRoom(s) ==
    /\ Running /\ Len(stack) >= 1 /\ ~StaticAddr(Top(1).addr)
    /\ IsHeap(variables[s]) => ~Fits(Read(Top(1).addr), variables[s])

\* ... or gets a new one, the old one having been freed before,
AssignCopy_mA(s) ==                  \* the old allocation is not given back
    /\ NeedsRoom(s)
    /\ LET t == Read(Top(1).addr)
       IN \E h \in FreeAddr(heap) :
             /\ heap' = [heap EXCEPT ![h] = TextAlloc(t)]
             /\ variables' = [variables EXCEPT ![s] = h]
    /\ Pop(s) /\ Settled(s, Top(1))
    /\ UNCHANGED <<bufs, strbuf1_used, mode, astray>>

AssignCopy(s) ==
    /\ NeedsRoom(s)
    /\ LET t == Read(Top(1).addr)
           rest == Without(variables[s])
       IN \E h \in FreeAddr(rest) :
             /\ heap' = [rest EXCEPT ![h] = TextAlloc(t)]
             /\ variables' = [variables EXCEPT ![s] = h]
    /\ Pop(s) /\ Settled(s, Top(1))
    /\ UNCHANGED <<bufs, strbuf1_used, mode, astray>>

\* ... or is refused: the result code becomes the address, the program goes on.
AssignRefused(s) ==
    /\ NeedsRoom(s)
    /\ heap' = Without(variables[s])
    /\ variables' = [variables EXCEPT ![s] = NbError]
    /\ Pop(s)
    /\ store' = [store EXCEPT ![s] = Lost]
    /\ UNCHANGED <<bufs, strbuf1_used, mode, astray>>

Erase(v) == /\ Running
            /\ heap' = Without(variables[v])
            /\ variables' = [variables EXCEPT ![v] = 0]
            /\ stack' = Expired(stack, variables[v])
            /\ params' = Expired(params, variables[v])
            /\ store' = [store EXCEPT ![v] = <<>>]
            /\ UNCHANGED <<bufs, strbuf1_used, mode, astray>>

-----------------------------------------------------------------------------
\* Arrays.

\* n is taken for 16 bits, and so is the size in bytes when it is asked for; it
\* is cleared in full.  A negative n, or a large one, gets a block or two and
\* clears the heap and what lies behind it.
Count(n) == (n % 65536) + 1
Asked(n) == (4 * Count(n)) % 65536

Dim(a, n) == /\ Running
             /\ Asked(n) <= MaxBlock
             /\ LET rest == Without(variables[a])
                IN \E h \in FreeAddr(rest) :
                      /\ heap' = [rest EXCEPT ![h] = ArrayAlloc(Asked(n))]
                      /\ variables' = [variables EXCEPT ![a] = h]
             /\ astray' = (4 * Count(n) > Asked(n))
             /\ store' = [store EXCEPT ![a] = IF astray' THEN Lost
                                              ELSE [k \in 1 .. Count(n) |-> 0]]
             /\ UNCHANGED <<bufs, strbuf1_used, stack, params, mode>>

DimRefused(a) == /\ Running
                 /\ heap' = Without(variables[a])
                 /\ mode' = "error"
                 /\ store' = [store EXCEPT ![a] = Lost]
                 /\ UNCHANGED <<variables, bufs, strbuf1_used, stack, params, astray>>

\* Four times the index is kept in 32 bits, with a sign: the element it leads to.
Reached(i) == ((i + 2^29) % 2^30) - 2^29

\* The comparison with nb_mem_get_blocksize: signed, in bytes, with the size as
\* it was rounded up.
Accepted(a, i) == 4 * Reached(i) < 4 * heap[variables[a]].words - 2

\* What belongs to the allocation.
Inside(a, i) == Reached(i) + 1 \in DOMAIN heap[variables[a]].elems

\* What is written in front of the allocation or behind it damages the header of
\* an allocation; an index of 2^30 writes the element 0.
SetArr(a, i, x) ==
    /\ Running /\ IsHeap(variables[a]) /\ Accepted(a, i)
    /\ astray' = ~(Inside(a, i) /\ Reached(i) = i)
    /\ heap' = IF Inside(a, i)
               THEN [heap EXCEPT ![variables[a]].elems[Reached(i) + 1] = x] ELSE heap
    /\ store' = IF i + 1 \in DOMAIN store[a]
                THEN [store EXCEPT ![a][i + 1] = x] ELSE store
    /\ UNCHANGED <<variables, bufs, strbuf1_used, stack, params, mode>>

GetArr(a, i) == /\ Running /\ IsHeap(variables[a]) /\ Accepted(a, i)
                /\ astray' = ~Inside(a, i)
                /\ UNCHANGED <<variables, heap, bufs, strbuf1_used, stack, params, mode, store>>

OutOfBounds(a, i) == /\ Running /\ IsHeap(variables[a]) /\ ~Accepted(a, i)
                     /\ mode' = "error"
                     /\ UNCHANGED <<variables, heap, bufs, strbuf1_used, stack, params,
                                    astray, store>>

\* No DIM was executed: the size is read from behind the heap, and whatever
\* stands there decides.
NeverDimensioned(a) ==
    /\ Running /\ variables[a] = 0
    /\ \/ mode' = "error" /\ UNCHANGED astray
       \/ astray' = TRUE /\ UNCHANGED mode
    /\ UNCHANGED <<variables, heap, bufs, strbuf1_used, stack, params, store>>

-----------------------------------------------------------------------------
\* The host: parameters of external functions, their results, nb_write_arr,
\* nb_reset.

PushParam == /\ Running /\ Len(stack) >= 1
             /\ params' = Append(params, Top(1))
             /\ stack' = Below(1)
             /\ UNCHANGED <<variables, heap, bufs, strbuf1_used, mode, astray, store>>

\* nb_pop_str
HostPop == /\ Running /\ params # <<>>
           /\ params' = SubSeq(params, 1, Len(params) - 1)
           /\ UNCHANGED <<variables, heap, bufs, strbuf1_used, stack, mode, astray, store>>

\* nb_push_str
HostPush(t) ==
    /\ Running /\ RoomForWord
    /\ bufs' = [bufs EXCEPT ![NextBuf] = t]
    /\ strbuf1_used' = ~strbuf1_used
    /\ params' = Append(Aged(params), [addr |-> NextBuf, meant |-> t, life |-> 2])
    /\ stack' = Aged(stack)
    /\ UNCHANGED <<variables, heap, mode, astray, store>>

\* k_PARAMS_N1, without a parameter the address 0.
Param == /\ Running
         /\ \/ /\ params # <<>>
               /\ stack' = Append(stack, params[Len(params)])
               /\ params' = SubSeq(params, 1, Len(params) - 1)
            \/ /\ params = <<>> /\ RoomForWord
               /\ stack' = Append(stack, [addr |-> 0, meant |-> <<>>, life |-> 1])
               /\ UNCHANGED params
         /\ UNCHANGED <<variables, heap, bufs, strbuf1_used, mode, astray, store>>

\* nb_write_arr: at most as much as the block size says.
HostWrite(a, x) ==
    /\ Running /\ IsHeap(variables[a])
    /\ heap' = [heap EXCEPT ![variables[a]].elems[1] = x]
    /\ store' = [store EXCEPT ![a][1] = x]
    /\ UNCHANGED <<variables, bufs, strbuf1_used, stack, params, mode, astray>>

\* The buffers and the flag stay as they are.
Reset == /\ ~astray
         /\ variables' = [v \in Names |-> 0]
         /\ heap' = [h \in HeapAddr |-> Nothing]
         /\ stack' = <<>> /\ params' = <<>>
         /\ mode' = "run"
         /\ store' = [v \in Names |-> <<>>]
         /\ UNCHANGED <<bufs, strbuf1_used, astray>>

-----------------------------------------------------------------------------
Operand == \/ \E a \in DOMAIN Literals : PushStr(a)
           \/ \E s \in Strings \cap prog.names : PushVar(s)
           \/ AddStr
           \/ \E n \in Counts : LeftStr(n) \/ RightStr(n) \/ AllocStr(n)
           \/ \E n, m \in Counts : MidStr(n, m)
           \/ \E t \in Numerals : NumberStr(t)
           \/ \E k \in 1 .. 2 : Consume(k)
           \/ Instr
           \/ Greater

Variable == \/ \E s \in Strings \cap prog.names : \/ AssignStatic(s)
                                                  \/ AssignInPlace(s)
                                                  \/ AssignCopy(s)
                                                  \/ AssignRefused(s)
            \/ \E v \in prog.names : Erase(v)

Array == \E a \in Arrays \cap prog.names :
            \/ \E n \in Dims : Dim(a, n)
            \/ DimRefused(a)
            \/ \E i \in Indexes : \/ \E x \in Elems : SetArr(a, i, x)
                                  \/ GetArr(a, i)
                                  \/ OutOfBounds(a, i)
            \/ NeverDimensioned(a)

Host == /\ prog.calls
        /\ \/ PushParam
           \/ HostPop
           \/ \E t \in HostTexts : HostPush(t)
           \/ Param
           \/ \E a \in Arrays \cap prog.names, x \in Elems : HostWrite(a, x)

Next == /\ Operand \/ Variable \/ Array \/ Host \/ Reset
        /\ UNCHANGED prog

Spec == Init /\ [][Next]_vars

-----------------------------------------------------------------------------
\* Addresses are of the four kinds get_string knows, texts are no longer than
\* two of them, words have their history: nb_int.h, t_VM.  As all of these
\* properties, it says nothing of a memory that a step went astray in.
TypeOK ==
  ~astray =>
    /\ prog \in Programs
    /\ variables \in [Names -> Named]
    /\ heap \in [HeapAddr -> Allocation]
    /\ bufs \in [Temps -> Seq(Character)]
    /\ \A s \in Strings : store[s] \in Text \cup {Lost}
    /\ strbuf1_used \in BOOLEAN /\ mode \in {"run", "error"}
    /\ stack \in Seq(Word) /\ params \in Seq(Word)
    /\ Len(stack) + Len(params) <= prog.words

\* Whoever has an allocation has it alone, nothing is released that is still
\* named, and nothing is lost: realloc_string, DIM and ERASE between them keep
\* exactly one variable for every allocation, also when the heap refuses a text
\* (nb_runtime.c:871).  A DIM that is refused breaks this, and it stops the
\* program; so do a DIM whose size does not fit 16 bits and an element behind
\* the array that is accepted, which destroy the headers of others.
NamesOwnAllocations ==
    mode = "run" /\ ~astray =>
      /\ \A v \in Names : IsHeap(variables[v]) => heap[variables[v]].blocks > 0
      /\ \A v, w \in Names : IsHeap(variables[v]) /\ variables[v] = variables[w] => v = w
      /\ \A h \in HeapAddr : heap[h].blocks > 0 => \E v \in Names : variables[v] = h

\* What the program reads is what it stored: a variable whose text was right
\* when it was assigned keeps it, whatever is done to the buffers, to the other
\* variables and to the heap; an array keeps its elements.
Reading(v) == LET a == variables[v]
              IN IF v \in Strings THEN Read(a)
                 ELSE IF a = 0 THEN <<>> ELSE SubSeq(heap[a].elems, 1, Len(store[v]))
ReadsBack == ~astray => \A v \in Names : store[v] # Lost => Reading(v) = store[v]

\* How long an operand lives (alloc_temp_string, nb_runtime.c:847): until the
\* second text after it is made, or until its variable is assigned.  Longer
\* expressions and interrupt routines outlive it.
OperandsKept ==
    ~astray => /\ \A k \in DOMAIN stack : stack[k].life > 0 => Read(stack[k].addr) = stack[k].meant
               /\ \A k \in DOMAIN params : params[k].life > 0 => Read(params[k].addr) = params[k].meant
=============================================================================
