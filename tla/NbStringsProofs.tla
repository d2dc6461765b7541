--------------------------- MODULE NbStringsProofs ---------------------------
(***************************************************************************)
(* Theorems about strings and arrays, for every program, every heap and    *)
(* all texts: who names an allocation owns it, what is stored is read      *)
(* back, and operands live as long as alloc_temp_string lets them.         *)
(***************************************************************************)
EXTENDS NbStrings, SequenceTheorems, TLAPS

Addr == Named \cup Temps

-----------------------------------------------------------------------------
\* Addresses tell what they are addresses of (nb_int.h, get_string).
LEMMA Addresses ==
    /\ 0 \in Named /\ NbError \in Named
    /\ Buf1 \in Temps /\ Buf2 \in Temps /\ Buf1 # Buf2
    /\ \A a \in Named : a \notin Temps
    /\ \A a \in Addr : a \in Nat /\ (IsHeap(a) <=> a \in HeapAddr)
    /\ \A a \in Addr : StaticAddr(a) <=> a \notin Temps \cup HeapAddr
    /\ ~IsHeap(0) /\ ~IsHeap(NbError)
    /\ 0 \notin HeapAddr /\ NbError \notin HeapAddr \cup DOMAIN Literals
    /\ \A a \in DOMAIN Literals : a # 0 /\ a \notin HeapAddr \cup Temps
    /\ \A a \in HeapAddr : a \notin Temps
    /\ 0 \notin Temps
<1>1. /\ Buf1 = 32753 /\ Buf2 = 32754 /\ Temps = {Buf1, Buf2}
      /\ \A a : IsHeap(a) <=> a > 32767
      /\ \A a : StaticAddr(a) <=> a < Buf1
  BY DEF Buf1, Buf2, Temps, IsHeap, StaticAddr
<1>2. \A a \in DOMAIN Literals : a \in Nat /\ a >= 2 /\ a < Buf1
  <2>1. ASSUME NEW a \in DOMAIN Literals PROVE a \in 2 .. Buf1 - 1
    BY LiteralsAssumption
  <2>2. Buf1 \in Int
    BY <1>1
  <2> QED
    BY <2>1, <2>2
<1>3. \A a \in HeapAddr : a \in Nat /\ a > 32768
  <2>1. ASSUME NEW a \in HeapAddr PROVE a \in Int /\ 32768 + 1 <= a
    BY SizeAssumption DEF HeapAddr
  <2> QED
    BY <2>1
<1>4. 0 \in Named /\ NbError \in Named /\ NbError = 1
  BY DEF Named, NbError
<1>5. \A a \in Addr : a = 0 \/ a = 1 \/ a \in DOMAIN Literals \/ a \in HeapAddr \/ a = Buf1 \/ a = Buf2
  BY <1>1, <1>4 DEF Addr, Named
<1>6. \A a \in Named : a = 0 \/ a = 1 \/ a \in DOMAIN Literals \/ a \in HeapAddr
  BY <1>4 DEF Named
<1> HIDE DEF Temps, Named, Addr, HeapAddr
<1>7. Buf1 \in Temps /\ Buf2 \in Temps /\ Buf1 # Buf2 /\ \A a \in Temps : a = Buf1 \/ a = Buf2
  BY <1>1
<1>8. \A a \in Named : a \notin Temps
  BY <1>1, <1>2, <1>3, <1>6, <1>7
<1>9. \A a \in Addr : a \in Nat /\ (IsHeap(a) <=> a \in HeapAddr)
  BY <1>1, <1>2, <1>3, <1>5
<1>10. \A a \in Addr : StaticAddr(a) <=> a \notin Temps \cup HeapAddr
  BY <1>1, <1>2, <1>3, <1>5, <1>7
<1>11. /\ ~IsHeap(0) /\ ~IsHeap(NbError)
       /\ 0 \notin HeapAddr /\ NbError \notin HeapAddr \cup DOMAIN Literals
  BY <1>1, <1>2, <1>3, <1>4
<1>12. \A a \in DOMAIN Literals : a # 0 /\ a \notin HeapAddr \cup Temps
  BY <1>1, <1>2, <1>3, <1>7
<1>13. (\A a \in HeapAddr : a \notin Temps) /\ 0 \notin Temps
  BY <1>1, <1>3, <1>7
<1> QED
  BY <1>4, <1>7, <1>8, <1>9, <1>10, <1>11, <1>12, <1>13

\* The next buffer, and the one after it.
LEMMA NextBuffers == ASSUME strbuf1_used \in BOOLEAN, strbuf1_used' = ~strbuf1_used
                 PROVE /\ NextBuf \in Temps /\ NextBuf' \in Temps /\ NextBuf' # NextBuf
                       /\ \A a \in Temps : a = NextBuf \/ a = NextBuf'
  BY Addresses, Zenon DEF NextBuf, Temps

\* Texts are sequences of characters, the length of which is limited.
LEMMA TextFacts == /\ \A t : t \in Text <=> t \in Seq(Chars) /\ Len(t) <= MaxText
                   /\ \A t \in Text : t \in Seq(Character)
                   /\ Junk \in Seq(Character) /\ <<>> \in Text /\ Lost \notin Text
<1>1. \A t : t \in Text <=> t \in Seq(Chars) /\ Len(t) <= MaxText
  <2>1. ASSUME NEW t, t \in Text PROVE t \in Seq(Chars) /\ Len(t) <= MaxText
    BY <2>1, SizeAssumption DEF Text
  <2>2. ASSUME NEW t, t \in Seq(Chars), Len(t) <= MaxText PROVE t \in Text
    <3>1. Len(t) \in 0 .. MaxText /\ t \in [1 .. Len(t) -> Chars]
      BY <2>2, LenProperties, SizeAssumption
    <3> QED
      BY <3>1 DEF Text
  <2> QED
    BY <2>1, <2>2
<1>2. \A t \in Seq(Chars) : t \in Seq(Character)
  BY SeqMonotonic DEF Character
<1>3. Junk \in Seq(Character)
  BY DEF Junk, Character
<1>4. <<>> \in Text
  <2>1. <<>> \in Seq(Chars) /\ Len(<<>>) = 0
    BY EmptySeq
  <2>2. 0 <= MaxText
    BY SizeAssumption
  <2>3. Len(<<>>) <= MaxText
    BY <2>1, <2>2
  <2> QED
    BY <1>1, <2>1, <2>3
<1>5. Lost \notin Text
  <2>1. SUFFICES ASSUME Lost \in Seq(Chars) PROVE FALSE
    BY <1>1
  <2>2. Lost[1] \in Chars
    BY <2>1, ElementOfSeq DEF Lost
  <2> QED
    BY <2>2, DataAssumption DEF Lost
<1> QED
  BY <1>1, <1>2, <1>3, <1>4, <1>5

\* What get_string finds at an address, given the heap and the buffers.
Found(hp, bf, a) == CASE a \in Temps -> bf[a]
                      [] a \in HeapAddr -> hp[a].text
                      [] a = 0 -> <<>>
                      [] a \in DOMAIN Literals -> Literals[a]
                      [] OTHER -> Junk
Heaps == [HeapAddr -> Allocation]
Buffers == [Temps -> Seq(Character)]

\* The kinds of addresses do not overlap, so get_string finds what they say.
LEMMA Finds ==
    ASSUME NEW hp, NEW bf
    PROVE /\ \A a \in Temps : Found(hp, bf, a) = bf[a]
          /\ \A a \in HeapAddr : Found(hp, bf, a) = hp[a].text
          /\ \A a \in DOMAIN Literals : Found(hp, bf, a) = Literals[a]
          /\ Found(hp, bf, 0) = <<>>
<1>1. \A a \in HeapAddr : a \notin Temps
  BY Addresses
<1>2. \A a \in DOMAIN Literals : a # 0 /\ a \notin HeapAddr \cup Temps
  BY Addresses
<1>3. 0 \notin HeapAddr \cup Temps
  BY Addresses
<1>4. \A a \in Temps : Found(hp, bf, a) = bf[a]
  BY <1>1, <1>2, <1>3 DEF Found
<1>5. \A a \in HeapAddr : Found(hp, bf, a) = hp[a].text
  BY <1>1, <1>2, <1>3 DEF Found
<1>6. \A a \in DOMAIN Literals : Found(hp, bf, a) = Literals[a]
  BY <1>1, <1>2, <1>3 DEF Found
<1>7. Found(hp, bf, 0) = <<>>
  BY <1>1, <1>2, <1>3 DEF Found
<1> QED
  BY <1>4, <1>5, <1>6, <1>7

\* A buffer's address finds the buffer (get_string).
LEMMA FindsBuffer == ASSUME NEW hp, NEW bf, NEW a \in Temps
                     PROVE Found(hp, bf, a) = bf[a]
<1>1. a # 0 /\ a \notin HeapAddr /\ a \notin DOMAIN Literals
  BY Addresses
<1> QED
  BY <1>1 DEF Found

\* An address of the heap finds the allocation there (get_string).
LEMMA FindsAllocation == ASSUME NEW hp, NEW bf, NEW a \in HeapAddr
                         PROVE Found(hp, bf, a) = hp[a].text
<1>1. a # 0 /\ a \notin Temps /\ a \notin DOMAIN Literals
  BY Addresses
<1> QED
  BY <1>1 DEF Found

\* An address that is no buffer's is not touched by the buffers, one that is not
\* of the heap is not touched by the heap.
LEMMA FindsElsewhere ==
    ASSUME NEW hp, NEW hq, NEW bf, NEW bg, NEW a,
           a \in Temps => bf[a] = bg[a],
           a \in HeapAddr => hp[a].text = hq[a].text
    PROVE Found(hp, bf, a) = Found(hq, bg, a)
  BY DEF Found

\* It is a text, wherever get_string looks.
LEMMA FoundType == ASSUME NEW hp \in Heaps, NEW bf \in Buffers, NEW a
                   PROVE Found(hp, bf, a) \in Seq(Character)
<1>0. /\ \A c \in Temps : Found(hp, bf, c) = bf[c]
      /\ \A c \in HeapAddr : Found(hp, bf, c) = hp[c].text
      /\ \A c \in DOMAIN Literals : Found(hp, bf, c) = Literals[c]
      /\ Found(hp, bf, 0) = <<>>
  BY Finds
<1>1. CASE a \in Temps
  BY <1>0, <1>1 DEF Buffers
<1>2. CASE a \in HeapAddr
  BY <1>0, <1>2 DEF Heaps, Allocation
<1>3. <<>> \in Seq(Character) /\ Junk \in Seq(Character)
  BY TextFacts, EmptySeq
<1>4. CASE a \in DOMAIN Literals
  BY <1>0, <1>4, LiteralsAssumption, TextFacts
<1>5. CASE a = 0
  BY <1>0, <1>3, <1>5
<1>6. CASE a \notin Temps \cup HeapAddr \cup DOMAIN Literals \cup {0}
  BY <1>3, <1>6 DEF Found
<1> QED
  BY <1>1, <1>2, <1>4, <1>5, <1>6

\* Sizes of allocations: a text takes a block at least, and the blocks of an array
\* have room for its elements (NUM_BLOCKS).
LEMMA TextBlocks == ASSUME NEW t \in Seq(Character)
                    PROVE /\ TextBytes(t) \in Nat /\ Words(TextBytes(t)) \in Nat
                          /\ Blocks(TextBytes(t)) \in Nat /\ Blocks(TextBytes(t)) > 0
<1>1. Len(t) \in Nat /\ Chunk \in Nat
  BY SizeAssumption, LenProperties
<1>2. Chunk * Len(t) \in Nat
  BY <1>1
<1> QED
  BY <1>2 DEF TextBytes, Blocks, Words

\* The blocks for m elements hold them (k_DIM_ARR_N2).
LEMMA ArrayRoom == ASSUME NEW m \in Nat
                   PROVE /\ Blocks(4 * m) \in Nat /\ Blocks(4 * m) > 0 /\ Words(4 * m) \in Nat
                         /\ Room(Blocks(4 * m)) \in Nat /\ Room(Blocks(4 * m)) >= m
  BY DEF Blocks, Words, Room

\* DIM asks for all the elements it clears, or the size has overflown.
LEMMA AskedFor == ASSUME NEW n \in Int, ~(4 * Count(n) > Asked(n))
                  PROVE Count(n) \in Nat /\ Asked(n) = 4 * Count(n)
<1>1. (n % 65536) \in Nat
  OBVIOUS
<1>2. Count(n) \in Nat
  BY <1>1 DEF Count
<1> HIDE DEF Count
<1>3. \A m \in Nat : (4 * m) % 65536 <= 4 * m
  OBVIOUS
<1> QED
  BY <1>2, <1>3 DEF Asked

-----------------------------------------------------------------------------
\* A live operand holds its text; one in the buffer that is handed out next goes
\* with it; one in the heap is the value of a variable.
Alive(w, hp, bf, nb, vs) ==
    w.life > 0 => /\ Found(hp, bf, w.addr) = w.meant
                  /\ w.addr = nb => w.life = 1
                  /\ w.addr \in HeapAddr => \E s \in Strings : vs[s] = w.addr
AllAlive(q, hp, bf, nb, vs) == \A k \in 1 .. Len(q) : Alive(q[k], hp, bf, nb, vs)

\* Every allocation has one variable, and no other allocation is named.
Owned(vs, hp) == /\ \A v \in Names : vs[v] \in HeapAddr => hp[vs[v]].blocks > 0
                 /\ \A v, w \in Names : vs[v] \in HeapAddr /\ vs[v] = vs[w] => v = w
                 /\ \A h \in HeapAddr : hp[h].blocks > 0 => \E v \in Names : vs[v] = h

\* What a variable holds is what was stored in it.
Elements(hp, a, x) == /\ Len(x) <= Len(hp[a].elems)
                      /\ \A k \in 1 .. Len(x) : hp[a].elems[k] = x[k]
Stored(v, hp, bf, vs, x) ==
    x # Lost => /\ v \in Strings => Found(hp, bf, vs[v]) = x
                /\ v \in Arrays => /\ x \in Seq(Elems \cup {0})
                                   /\ \/ vs[v] = 0 /\ x = <<>>
                                      \/ vs[v] \in HeapAddr /\ Elements(hp, vs[v], x)

\* A change of the variable v leaves the others and their allocations alone.
Untouched(v, hp, hq, vs, vt) ==
    \A u \in Names \ {v} : /\ vt[u] = vs[u]
                           /\ vs[u] \in HeapAddr => hq[vs[u]] = hp[vs[u]]

Variables == [Names -> Named]

\* What is left of a stack when the operands above were taken.
LEMMA WordsBelow ==
    ASSUME NEW q \in Seq(Word), NEW n \in 0 .. Len(q)
    PROVE /\ SubSeq(q, 1, n) \in Seq(Word) /\ Len(SubSeq(q, 1, n)) = n
          /\ \A k \in 1 .. n : SubSeq(q, 1, n)[k] = q[k]
<1>1. n \in Int /\ \A k \in 1 .. n : q[k] \in Word
  BY ElementOfSeq, LenProperties
<1>2. /\ SubSeq(q, 1, n) \in Seq(Word)
      /\ Len(SubSeq(q, 1, n)) = IF 1 <= n THEN n - 1 + 1 ELSE 0
      /\ \A k \in 1 .. n - 1 + 1 : SubSeq(q, 1, n)[k] = q[1 + k - 1]
  BY <1>1, SubSeqProperties
<1>3. n \in Nat
  BY LenProperties
<1> QED
  BY <1>2, <1>3

\* The words that are left are as alive as they were.
LEMMA AliveBelow ==
    ASSUME NEW q \in Seq(Word), NEW n \in 0 .. Len(q),
           NEW hp, NEW bf, NEW nb, NEW vs, AllAlive(q, hp, bf, nb, vs)
    PROVE AllAlive(SubSeq(q, 1, n), hp, bf, nb, vs)
<1>1. \A k \in 1 .. n : k \in 1 .. Len(q)
  BY LenProperties
<1> QED
  BY <1>1, WordsBelow DEF AllAlive

\* A live word on top of live words.
LEMMA AliveAppend ==
    ASSUME NEW q \in Seq(Word), NEW w \in Word,
           NEW hp, NEW bf, NEW nb, NEW vs, AllAlive(q, hp, bf, nb, vs), Alive(w, hp, bf, nb, vs)
    PROVE /\ Append(q, w) \in Seq(Word) /\ Len(Append(q, w)) = Len(q) + 1
          /\ AllAlive(Append(q, w), hp, bf, nb, vs)
<1>1. /\ Append(q, w) \in Seq(Word) /\ Len(Append(q, w)) = Len(q) + 1
      /\ \A k \in 1 .. Len(q) : Append(q, w)[k] = q[k]
      /\ Append(q, w)[Len(q) + 1] = w
  BY AppendProperties
<1>2. Len(q) \in Nat
  BY LenProperties
<1>3. ASSUME NEW k \in 1 .. Len(q) + 1 PROVE Alive(Append(q, w)[k], hp, bf, nb, vs)
  <2>1. CASE k \in 1 .. Len(q)
    BY <1>1, <2>1 DEF AllAlive
  <2>2. CASE k = Len(q) + 1
    BY <1>1, <2>2
  <2> QED
    BY <1>2, <2>1, <2>2
<1> QED
  BY <1>1, <1>3 DEF AllAlive

\* A dead word is a word, and says nothing.
LEMMA DeadWord ==
    ASSUME NEW a \in Addr
    PROVE /\ Dead(a) \in Word /\ Dead(a).life = 0
          /\ \A hp, bf, nb, vs : Alive(Dead(a), hp, bf, nb, vs)
<1>1. Dead(a) \in Word
  BY TextFacts DEF Dead, Word, Addr
<1>2. Dead(a).life = 0
  BY DEF Dead
<1> QED
  BY <1>1, <1>2 DEF Alive

\* The two buffers take turns: a word that is alive behind the turn is in the
\* other one (alloc_temp_string).
LEMMA AliveOlder ==
    ASSUME NEW w \in Word, NEW hp, NEW bf \in Buffers, NEW nb \in Temps, NEW nc \in Temps,
           nc # nb, NEW t, NEW vs, Alive(w, hp, bf, nb, vs)
    PROVE Older(w) \in Word /\ Alive(Older(w), hp, [bf EXCEPT ![nb] = t], nc, vs)
<1> DEFINE bg == [bf EXCEPT ![nb] = t]
<1>1. w.addr \in Addr /\ w.life \in 0 .. 2 /\ w.meant \in Text
  BY DEF Word, Addr
<1>2. CASE w.addr \notin Temps
  <2>1. Older(w) = w
    BY <1>2 DEF Older
  <2>2. Found(hp, bg, w.addr) = Found(hp, bf, w.addr)
    BY <1>2, FindsElsewhere
  <2> QED
    BY <1>2, <2>1, <2>2 DEF Alive
<1>3. CASE w.addr \in Temps /\ w.life = 2
  <2>1. Older(w) = [w EXCEPT !.life = 1]
    BY <1>3 DEF Older
  <2>2. w.addr # nb /\ Found(hp, bf, w.addr) = w.meant
    BY <1>3 DEF Alive
  <2>3. bg[w.addr] = bf[w.addr]
    BY <1>3, <2>2 DEF Buffers
  <2>4. Found(hp, bg, w.addr) = Found(hp, bf, w.addr)
    BY <1>3, <2>3 DEF Found
  <2>5. w.addr \notin HeapAddr
    BY <1>3, Addresses DEF Named
  <2>6. /\ Older(w).addr = w.addr /\ Older(w).meant = w.meant /\ Older(w).life = 1
        /\ Older(w) \in Word
    BY <1>1, <2>1 DEF Word
  <2> QED
    BY <2>2, <2>4, <2>5, <2>6 DEF Alive
<1>4. CASE w.addr \in Temps /\ w.life # 2
  <2>1. Older(w) = Dead(w.addr)
    BY <1>4 DEF Older
  <2> QED
    BY <1>1, <2>1, DeadWord
<1> QED
  BY <1>2, <1>3, <1>4

\* The same of a whole stack.
LEMMA AliveAged ==
    ASSUME NEW q \in Seq(Word), NEW hp, NEW bf \in Buffers, NEW nb \in Temps, NEW nc \in Temps,
           nc # nb, NEW t, NEW vs, AllAlive(q, hp, bf, nb, vs)
    PROVE /\ Aged(q) \in Seq(Word) /\ Len(Aged(q)) = Len(q)
          /\ AllAlive(Aged(q), hp, [bf EXCEPT ![nb] = t], nc, vs)
<1>1. Len(q) \in Nat /\ DOMAIN q = 1 .. Len(q) /\ \A k \in 1 .. Len(q) : q[k] \in Word
  BY LenProperties, ElementOfSeq
<1>2. Aged(q) = [k \in 1 .. Len(q) |-> Older(q[k])]
  BY <1>1 DEF Aged
<1>3. \A k \in 1 .. Len(q) : /\ Older(q[k]) \in Word
                             /\ Alive(Older(q[k]), hp, [bf EXCEPT ![nb] = t], nc, vs)
  BY <1>1, AliveOlder DEF AllAlive
<1>4. Aged(q) \in Seq(Word) /\ Len(Aged(q)) = Len(q)
  BY <1>1, <1>2, <1>3
<1> QED
  BY <1>2, <1>3, <1>4 DEF AllAlive

\* When the variable v changes, the words that name its allocation die and the
\* others are as alive as before; an array has no words.
LEMMA AliveParted ==
    ASSUME NEW w \in Word, NEW hp, NEW hq, NEW bf, NEW nb,
           NEW vs \in Variables, NEW vt, NEW v \in Names,
           Owned(vs, hp), Untouched(v, hp, hq, vs, vt), Alive(w, hp, bf, nb, vs)
    PROVE /\ Parted(w, vs[v]) \in Word
          /\ Alive(Parted(w, vs[v]), hq, bf, nb, vt)
          /\ v \in Arrays => Alive(w, hq, bf, nb, vt)
<1>1. w.addr \in Addr /\ vs[v] \in Addr
  BY DEF Word, Addr, Variables
<1>2. IsHeap(vs[v]) <=> vs[v] \in HeapAddr
  BY <1>1, Addresses
<1>3. ASSUME w.life > 0, v \in Arrays \/ ~(IsHeap(vs[v]) /\ w.addr = vs[v])
      PROVE Alive(w, hq, bf, nb, vt)
  <2>1. CASE w.addr \notin HeapAddr
    <3>1. Found(hq, bf, w.addr) = Found(hp, bf, w.addr)
      BY <2>1, FindsElsewhere
    <3> QED
      BY <1>3, <2>1, <3>1 DEF Alive
  <2>2. CASE w.addr \in HeapAddr
    <3>1. PICK s \in Strings : vs[s] = w.addr
      BY <1>3, <2>2 DEF Alive
    <3>2. s \in Names /\ s # v
      BY <1>2, <1>3, <2>2, <3>1, NamesAssumption DEF Names
    <3>3. vt[s] = w.addr /\ hq[w.addr] = hp[w.addr]
      BY <2>2, <3>1, <3>2 DEF Untouched
    <3>4. Found(hq, bf, w.addr) = Found(hp, bf, w.addr)
      BY <3>3, FindsElsewhere
    <3> QED
      BY <1>3, <3>3, <3>4 DEF Alive
  <2> QED
    BY <2>1, <2>2
<1>4. CASE IsHeap(vs[v]) /\ w.addr = vs[v]
  <2>1. Parted(w, vs[v]) = Dead(vs[v])
    BY <1>4 DEF Parted
  <2>2. v \in Arrays => Alive(w, hq, bf, nb, vt)
    BY <1>3 DEF Alive
  <2> QED
    BY <1>1, <2>1, <2>2, DeadWord
<1>5. CASE ~(IsHeap(vs[v]) /\ w.addr = vs[v])
  <2>1. Parted(w, vs[v]) = w
    BY <1>5 DEF Parted
  <2>2. Alive(w, hq, bf, nb, vt)
    BY <1>3, <1>5 DEF Alive
  <2> QED
    BY <2>1, <2>2
<1> QED
  BY <1>4, <1>5

\* The same of a whole stack.
LEMMA AliveExpired ==
    ASSUME NEW q \in Seq(Word), NEW hp, NEW hq, NEW bf, NEW nb,
           NEW vs \in Variables, NEW vt, NEW v \in Names,
           Owned(vs, hp), Untouched(v, hp, hq, vs, vt), AllAlive(q, hp, bf, nb, vs)
    PROVE /\ Expired(q, vs[v]) \in Seq(Word) /\ Len(Expired(q, vs[v])) = Len(q)
          /\ AllAlive(Expired(q, vs[v]), hq, bf, nb, vt)
          /\ v \in Arrays => AllAlive(q, hq, bf, nb, vt)
<1>1. Len(q) \in Nat /\ DOMAIN q = 1 .. Len(q) /\ \A k \in 1 .. Len(q) : q[k] \in Word
  BY LenProperties, ElementOfSeq
<1>2. Expired(q, vs[v]) = [k \in 1 .. Len(q) |-> Parted(q[k], vs[v])]
  BY <1>1 DEF Expired
<1>3. \A k \in 1 .. Len(q) : /\ Parted(q[k], vs[v]) \in Word
                             /\ Alive(Parted(q[k], vs[v]), hq, bf, nb, vt)
                             /\ v \in Arrays => Alive(q[k], hq, bf, nb, vt)
  BY <1>1, AliveParted DEF AllAlive
<1>4. Expired(q, vs[v]) \in Seq(Word) /\ Len(Expired(q, vs[v])) = Len(q)
  BY <1>1, <1>2, <1>3
<1> QED
  BY <1>2, <1>3, <1>4 DEF AllAlive

\* The other variables keep what was stored in them.
LEMMA StoredElsewhere ==
    ASSUME NEW hp, NEW hq, NEW bf, NEW bg, NEW vs \in Variables, NEW vt, NEW v, NEW u \in Names,
           u # v, Untouched(v, hp, hq, vs, vt), NEW x, Stored(u, hp, bf, vs, x)
    PROVE Stored(u, hq, bg, vt, x)
<1>1. vt[u] = vs[u] /\ vs[u] \in Named /\ (vs[u] \in HeapAddr => hq[vs[u]] = hp[vs[u]])
  BY DEF Untouched, Variables
<1>2. vs[u] \notin Temps
  BY <1>1, Addresses
<1>3. Found(hq, bg, vs[u]) = Found(hp, bf, vs[u])
  BY <1>1, <1>2, FindsElsewhere
<1> QED
  BY <1>1, <1>3 DEF Stored, Elements

\* A variable is given a new address, and its allocation is released; another one
\* may be made that nobody has.
LEMMA Releases ==
    ASSUME NEW hp \in Heaps, NEW vs \in Variables, NEW v \in Names, NEW a \in Named,
           Owned(vs, hp), NEW hq,
           hq = IF IsHeap(vs[v]) THEN [hp EXCEPT ![vs[v]] = Nothing] ELSE hp
    PROVE /\ hq \in Heaps
          /\ Untouched(v, hp, hq, vs, [vs EXCEPT ![v] = a])
          /\ a \notin HeapAddr => Owned([vs EXCEPT ![v] = a], hq)
<1> DEFINE vt == [vs EXCEPT ![v] = a]
<1>1. vs[v] \in Addr /\ (IsHeap(vs[v]) <=> vs[v] \in HeapAddr)
  BY Addresses DEF Variables, Addr
<1>2. Nothing \in Allocation /\ Nothing.blocks = 0
  BY TextFacts, EmptySeq DEF Nothing, Allocation
<1>3. hq \in Heaps
  BY <1>1, <1>2 DEF Heaps
<1>4. Untouched(v, hp, hq, vs, vt)
  <2>1. SUFFICES ASSUME NEW u \in Names \ {v}
                 PROVE vt[u] = vs[u] /\ (vs[u] \in HeapAddr => hq[vs[u]] = hp[vs[u]])
    BY DEF Untouched
  <2>2. vt[u] = vs[u]
    BY DEF Variables
  <2>3. ASSUME vs[u] \in HeapAddr PROVE hq[vs[u]] = hp[vs[u]]
    <3>1. vs[u] # vs[v]
      BY <2>3 DEF Owned
    <3> QED
      BY <1>1, <2>3, <3>1 DEF Heaps
  <2> QED
    BY <2>2, <2>3
<1>5. ASSUME a \notin HeapAddr PROVE Owned(vt, hq)
  <2>1. vt[v] = a /\ \A u \in Names : u # v => vt[u] = vs[u]
    BY DEF Variables
  <2>2. \A u \in Names : vt[u] \in HeapAddr => u # v /\ vs[u] = vt[u] /\ hq[vs[u]] = hp[vs[u]]
    BY <1>4, <1>5, <2>1 DEF Untouched
  <2>3. ASSUME NEW h \in HeapAddr, hq[h].blocks > 0 PROVE \E u \in Names : vt[u] = h
    <3>1. h # vs[v] /\ hq[h] = hp[h]
      BY <1>1, <1>2, <2>3 DEF Heaps
    <3>2. PICK u \in Names : vs[u] = h
      BY <2>3, <3>1 DEF Owned
    <3> QED
      BY <2>1, <3>1, <3>2
  <2> QED
    BY <2>2, <2>3 DEF Owned
<1> QED
  BY <1>3, <1>4, <1>5

\* The allocation of a variable is released and it gets another: nobody else's
\* changes, and every allocation has its variable again (realloc_string, DIM).
LEMMA Allocates ==
    ASSUME NEW hp \in Heaps, NEW vs \in Variables, NEW v \in Names,
           Owned(vs, hp), NEW hq,
           hq = IF IsHeap(vs[v]) THEN [hp EXCEPT ![vs[v]] = Nothing] ELSE hp,
           NEW h \in HeapAddr, hq[h].blocks = 0, NEW x \in Allocation, x.blocks > 0
    PROVE /\ [hq EXCEPT ![h] = x] \in Heaps
          /\ Untouched(v, hp, [hq EXCEPT ![h] = x], vs, [vs EXCEPT ![v] = h])
          /\ Owned([vs EXCEPT ![v] = h], [hq EXCEPT ![h] = x])
<1> DEFINE vt == [vs EXCEPT ![v] = h]
           hr == [hq EXCEPT ![h] = x]
<1>1. h \in Named
  BY DEF Named
<1>2. hq \in Heaps /\ Untouched(v, hp, hq, vs, vt)
  BY <1>1, Releases
<1>3. hr \in Heaps /\ hr[h] = x /\ \A g \in HeapAddr : g # h => hr[g] = hq[g]
  BY <1>2 DEF Heaps
<1>4. vt[v] = h /\ \A u \in Names : u # v => vt[u] = vs[u]
  BY DEF Variables
<1>5. ASSUME NEW u \in Names, u # v, vs[u] \in HeapAddr
      PROVE vs[u] # h /\ hr[vs[u]] = hp[vs[u]] /\ hp[vs[u]].blocks > 0
  <2>1. hq[vs[u]] = hp[vs[u]] /\ hp[vs[u]].blocks > 0
    BY <1>2, <1>5 DEF Untouched, Owned
  <2>2. vs[u] # h
    BY <2>1
  <2> QED
    BY <1>3, <1>5, <2>1, <2>2
<1>6. Untouched(v, hp, hr, vs, vt)
  BY <1>4, <1>5 DEF Untouched
<1>7. \A u \in Names : vt[u] \in HeapAddr => hr[vt[u]].blocks > 0
  BY <1>3, <1>4, <1>5
<1>8. \A u, w \in Names : vt[u] \in HeapAddr /\ vt[u] = vt[w] => u = w
  BY <1>4, <1>5 DEF Owned
<1>9. ASSUME NEW g \in HeapAddr, hr[g].blocks > 0 PROVE \E u \in Names : vt[u] = g
  <2>1. CASE g = h
    BY <1>4, <2>1
  <2>2. CASE g # h
    <3>1. hq[g].blocks > 0
      BY <1>3, <1>9, <2>2
    <3>2. vs[v] \in Addr /\ (IsHeap(vs[v]) <=> vs[v] \in HeapAddr)
      BY Addresses DEF Variables, Addr
    <3>3. g # vs[v] /\ hq[g] = hp[g]
      BY <3>1, <3>2 DEF Heaps, Nothing
    <3>4. PICK u \in Names : vs[u] = g
      BY <3>1, <3>3 DEF Owned
    <3> QED
      BY <1>4, <3>3, <3>4
  <2> QED
    BY <2>1, <2>2
<1>10. Owned(vt, hr)
  BY <1>7, <1>8, <1>9 DEF Owned
<1> QED
  BY <1>3, <1>6, <1>10

-----------------------------------------------------------------------------
\* The inductive invariant.  A step that goes astray leaves nothing to be said.
SInv == /\ astray \in BOOLEAN
        /\ TypeOK
        /\ ~astray => /\ store = [v \in Names |-> store[v]]
                      /\ mode = "run" => Owned(variables, heap)
                      /\ AllAlive(stack, heap, bufs, NextBuf, variables)
                      /\ AllAlive(params, heap, bufs, NextBuf, variables)
                      /\ \A v \in Names : Stored(v, heap, bufs, variables, store[v])
                      /\ mode = "run" => \A a \in Arrays : store[a] # Lost

\* After a step that goes astray it holds.
LEMMA Astray == ASSUME astray' = TRUE PROVE SInv'
  BY DEF SInv, TypeOK

\* What it says before a step.
LEMMA Before ==
    ASSUME SInv, Running
    PROVE /\ prog \in Programs /\ prog.words \in Nat
          /\ variables \in Variables /\ heap \in Heaps /\ bufs \in Buffers
          /\ strbuf1_used \in BOOLEAN /\ NextBuf \in Temps
          /\ stack \in Seq(Word) /\ params \in Seq(Word)
          /\ Len(stack) \in Nat /\ Len(params) \in Nat /\ Len(stack) + Len(params) <= prog.words
          /\ mode = "run" /\ astray = FALSE
          /\ store = [v \in Names |-> store[v]] /\ \A s \in Strings : store[s] \in Text \cup {Lost}
          /\ Owned(variables, heap)
          /\ AllAlive(stack, heap, bufs, NextBuf, variables)
          /\ AllAlive(params, heap, bufs, NextBuf, variables)
          /\ \A v \in Names : Stored(v, heap, bufs, variables, store[v])
          /\ \A a \in Arrays : store[a] # Lost
<1>1. prog.words \in Nat
  BY ProgramsAssumption DEF SInv, TypeOK, Running
<1>2. NextBuf \in Temps
  BY Addresses DEF NextBuf
<1>3. Len(stack) \in Nat /\ Len(params) \in Nat
  BY LenProperties DEF SInv, TypeOK, Running
<1> QED
  BY <1>1, <1>2, <1>3 DEF SInv, TypeOK, Running, Variables, Heaps, Buffers

\* A step that leaves the variables alone.
LEMMA WordsStep ==
    ASSUME SInv, Running, UNCHANGED <<prog, variables, heap, store>>,
           bufs' \in Buffers, strbuf1_used' \in BOOLEAN, astray' \in BOOLEAN,
           mode' \in {"run", "error"},
           stack' \in Seq(Word), params' \in Seq(Word),
           Len(stack') + Len(params') <= prog.words,
           ~astray' => /\ AllAlive(stack', heap, bufs', NextBuf', variables)
                       /\ AllAlive(params', heap, bufs', NextBuf', variables)
    PROVE SInv'
<1>1. TypeOK'
  BY Before DEF SInv, TypeOK, Buffers
<1>2. ASSUME NEW v \in Names PROVE Stored(v, heap, bufs', variables, store[v])
  <2>1. variables[v] \in Named /\ Stored(v, heap, bufs, variables, store[v])
    BY Before DEF Variables
  <2>2. variables[v] \notin Temps
    BY <2>1, Addresses
  <2>3. Found(heap, bufs', variables[v]) = Found(heap, bufs, variables[v])
    BY <2>2, FindsElsewhere
  <2> QED
    BY <2>1, <2>3 DEF Stored
<1> QED
  BY <1>1, <1>2, Before DEF SInv

\* A step that changes the variable v.
LEMMA ChangeStep ==
    ASSUME SInv, Running, NEW v \in Names, NEW x,
           UNCHANGED <<prog, bufs, strbuf1_used, astray>>, mode' \in {"run", "error"},
           variables' \in Variables, heap' \in Heaps,
           Untouched(v, heap, heap', variables, variables'),
           mode' = "run" => Owned(variables', heap'),
           stack' \in Seq(Word), params' \in Seq(Word),
           Len(stack') + Len(params') <= prog.words,
           AllAlive(stack', heap', bufs, NextBuf, variables'),
           AllAlive(params', heap', bufs, NextBuf, variables'),
           store' = [store EXCEPT ![v] = x], v \in Strings => x \in Text \cup {Lost},
           Stored(v, heap', bufs, variables', x),
           v \in Arrays /\ mode' = "run" => x # Lost
    PROVE SInv'
<1>1. store' = [u \in Names |-> store'[u]] /\ store'[v] = x
      /\ \A u \in Names : u # v => store'[u] = store[u]
  BY Before
<1>2. \A s \in Strings : store'[s] \in Text \cup {Lost}
  <2>1. \A s \in Strings : s \in Names
    BY DEF Names
  <2> QED
    BY <1>1, <2>1, Before
<1>3. TypeOK'
  BY <1>2, Before DEF SInv, TypeOK, Variables, Heaps
<1>4. ASSUME NEW u \in Names PROVE Stored(u, heap', bufs, variables', store'[u])
  <2>1. CASE u = v
    BY <1>1, <2>1
  <2>2. CASE u # v
    <3>1. Stored(u, heap, bufs, variables, store[u]) /\ variables \in Variables
      BY Before
    <3>2. Stored(u, heap', bufs, variables', store[u])
      BY <2>2, <3>1, StoredElsewhere
    <3> QED
      BY <1>1, <2>2, <3>2
  <2> QED
    BY <2>1, <2>2
<1>5. mode' = "run" => \A a \in Arrays : store'[a] # Lost
  <2>1. \A a \in Arrays : a \in Names
    BY DEF Names
  <2> QED
    BY <1>1, <2>1, Before
<1>6. NextBuf' = NextBuf
  BY DEF NextBuf
<1> QED
  BY <1>1, <1>3, <1>4, <1>5, <1>6 DEF SInv

\* The k words on top of the stack give way to a text in the next buffer.
LEMMA YieldStep ==
    ASSUME SInv, Running, UNCHANGED prog, NEW k \in 0 .. Len(stack),
           NEW text \in Seq(Character), NEW known \in BOOLEAN, NEW meant,
           Yield(k, text, known, meant), astray' \in BOOLEAN,
           known /\ meant \in Text => text = meant
    PROVE SInv'
<1> DEFINE w == IF known /\ meant \in Text THEN [addr |-> NextBuf, meant |-> meant, life |-> 2]
                ELSE Dead(NextBuf)
           bg == [bufs EXCEPT ![NextBuf] = text]
<1>1. /\ bufs' = bg /\ strbuf1_used' = ~strbuf1_used
      /\ stack' = Append(Aged(SubSeq(stack, 1, Len(stack) - k)), w)
      /\ params' = Aged(params)
      /\ UNCHANGED <<variables, heap, mode, store>>
      /\ k > 0 \/ RoomForWord
  BY DEF Yield, Below, Depth
<1>2. NextBuf \in Temps /\ NextBuf' \in Temps /\ NextBuf' # NextBuf
  BY <1>1, NextBuffers, Before
<1>3. bg \in Buffers
  BY <1>2, Before DEF Buffers
<1>4. w \in Word /\ Alive(w, heap, bg, NextBuf', variables)
  <2>1. NextBuf \in Addr /\ NextBuf \notin HeapAddr
    BY <1>2, Addresses DEF Addr, Named
  <2>2. CASE known /\ meant \in Text
    <3>1. w = [addr |-> NextBuf, meant |-> meant, life |-> 2]
      BY <2>2
    <3>2. bg[NextBuf] = text
      BY <1>2, Before DEF Buffers
    <3>3. Found(heap, bg, NextBuf) = meant
      <4>1. text = meant
        BY <2>2
      <4> HIDE DEF bg
      <4>2. Found(heap, bg, NextBuf) = bg[NextBuf]
        BY <1>2, FindsBuffer
      <4> QED
        BY <1>2, <3>2, <4>1, <4>2
    <3>4. w \in Word /\ w.addr = NextBuf /\ w.meant = meant /\ w.life = 2
      BY <2>1, <2>2, <3>1 DEF Word, Addr
    <3> HIDE DEF w, bg
    <3> QED
      BY <1>2, <2>1, <3>3, <3>4 DEF Alive
  <2>3. CASE ~(known /\ meant \in Text)
    <3>1. w = Dead(NextBuf)
      BY <2>3
    <3> QED
      BY <2>1, <3>1, DeadWord
  <2> QED
    BY <2>2, <2>3
<1> HIDE DEF w, bg
<1>5. /\ SubSeq(stack, 1, Len(stack) - k) \in Seq(Word)
      /\ Len(SubSeq(stack, 1, Len(stack) - k)) = Len(stack) - k
      /\ AllAlive(SubSeq(stack, 1, Len(stack) - k), heap, bufs, NextBuf, variables)
  <2>1. Len(stack) - k \in 0 .. Len(stack)
    BY Before
  <2>2. stack \in Seq(Word) /\ AllAlive(stack, heap, bufs, NextBuf, variables)
    BY Before
  <2>3. /\ SubSeq(stack, 1, Len(stack) - k) \in Seq(Word)
        /\ Len(SubSeq(stack, 1, Len(stack) - k)) = Len(stack) - k
    BY <2>1, <2>2, WordsBelow
  <2>4. AllAlive(SubSeq(stack, 1, Len(stack) - k), heap, bufs, NextBuf, variables)
    BY <2>1, <2>2, AliveBelow
  <2> QED
    BY <2>3, <2>4
<1>6. /\ Aged(SubSeq(stack, 1, Len(stack) - k)) \in Seq(Word)
      /\ Len(Aged(SubSeq(stack, 1, Len(stack) - k))) = Len(stack) - k
      /\ AllAlive(Aged(SubSeq(stack, 1, Len(stack) - k)), heap, bg, NextBuf', variables)
  BY <1>2, <1>5, Before, AliveAged DEF bg
<1>7. params' \in Seq(Word) /\ Len(params') = Len(params) /\ AllAlive(params', heap, bg, NextBuf', variables)
  BY <1>1, <1>2, Before, AliveAged DEF bg
<1>8. stack' \in Seq(Word) /\ Len(stack') = Len(stack) - k + 1 /\ AllAlive(stack', heap, bg, NextBuf', variables)
  BY <1>1, <1>4, <1>6, AliveAppend
<1>9. Len(stack') + Len(params') <= prog.words
  BY <1>1, <1>7, <1>8, Before DEF RoomForWord
<1>10. mode' \in {"run", "error"} /\ strbuf1_used' \in BOOLEAN
  BY <1>1, Before
<1> QED
  BY <1>1, <1>3, <1>7, <1>8, <1>9, <1>10, WordsStep

-----------------------------------------------------------------------------
\* The word j on top of the stack, and what get_string finds for it.
LEMMA Tops ==
    ASSUME SInv, Running, NEW j \in Nat, j >= 1, j <= Len(stack)
    PROVE /\ Top(j) \in Word /\ Top(j).addr \in Addr /\ Top(j).meant \in Text /\ Top(j).life \in 0 .. 2
          /\ Alive(Top(j), heap, bufs, NextBuf, variables)
          /\ Read(Top(j).addr) = Found(heap, bufs, Top(j).addr)
          /\ Read(Top(j).addr) \in Seq(Character) /\ Len(Read(Top(j).addr)) \in Nat
          /\ Top(j).life > 0 => Read(Top(j).addr) = Top(j).meant
<1>1. Len(stack) - j + 1 \in 1 .. Len(stack)
  BY Before
<1>2. Top(j) \in Word /\ Alive(Top(j), heap, bufs, NextBuf, variables)
  BY <1>1, Before, ElementOfSeq DEF Top, AllAlive
<1>3. Read(Top(j).addr) = Found(heap, bufs, Top(j).addr)
  BY DEF Read, Found
<1>4. Read(Top(j).addr) \in Seq(Character)
  BY <1>3, Before, FoundType
<1>5. Len(Read(Top(j).addr)) \in Nat
  BY <1>4, LenProperties
<1>6. Top(j).addr \in Addr /\ Top(j).meant \in Text /\ Top(j).life \in 0 .. 2
  BY <1>2 DEF Word, Addr
<1> QED
  BY <1>2, <1>3, <1>4, <1>5, <1>6 DEF Alive

\* A word is pushed.
LEMMA PushStep ==
    ASSUME SInv, Running, RoomForWord, NEW w \in Word, Alive(w, heap, bufs, NextBuf, variables),
           stack' = Append(stack, w),
           UNCHANGED <<prog, variables, heap, bufs, strbuf1_used, params, mode, astray, store>>
    PROVE SInv'
<1>1. /\ stack' \in Seq(Word) /\ Len(stack') = Len(stack) + 1
      /\ AllAlive(stack', heap, bufs, NextBuf, variables)
  BY AliveAppend, Before
<1>2. Len(stack') + Len(params') <= prog.words
  BY <1>1, Before DEF RoomForWord
<1>3. NextBuf' = NextBuf
  BY DEF NextBuf
<1> QED
  BY <1>1, <1>2, <1>3, Before, WordsStep

\* Words are taken from the stack.
LEMMA TakeStep ==
    ASSUME SInv, Running, NEW k \in 0 .. Len(stack), stack' = Below(k), astray' \in BOOLEAN,
           UNCHANGED <<prog, variables, heap, bufs, strbuf1_used, params, mode, store>>
    PROVE SInv'
<1>1. Len(stack) - k \in 0 .. Len(stack) /\ stack' = SubSeq(stack, 1, Len(stack) - k)
  BY Before DEF Below, Depth
<1>2. /\ stack' \in Seq(Word) /\ Len(stack') = Len(stack) - k
      /\ AllAlive(stack', heap, bufs, NextBuf, variables)
  <2>1. stack \in Seq(Word) /\ AllAlive(stack, heap, bufs, NextBuf, variables)
    BY Before
  <2>2. stack' \in Seq(Word) /\ Len(stack') = Len(stack) - k
    BY <1>1, <2>1, WordsBelow
  <2>3. AllAlive(stack', heap, bufs, NextBuf, variables)
    BY <1>1, <2>1, AliveBelow
  <2> QED
    BY <2>2, <2>3
<1>3. Len(stack') + Len(params') <= prog.words
  BY <1>1, <1>2, Before
<1>4. NextBuf' = NextBuf
  BY DEF NextBuf
<1> QED
  BY <1>2, <1>3, <1>4, Before, WordsStep

\* k_PUSH_STR_Nx pushes the address of the text behind it, which is never written.
LEMMA PushStrStep ==
    ASSUME SInv, NEW a \in DOMAIN Literals, PushStr(a), UNCHANGED prog PROVE SInv'
<1> DEFINE w == [addr |-> a, meant |-> Literals[a], life |-> 1]
<1>1. a \in Named /\ a \notin Temps /\ a \notin HeapAddr
  BY Addresses DEF Named
<1>2. Literals[a] \in Text
  BY LiteralsAssumption
<1>3. w \in Word /\ w.addr = a /\ w.meant = Literals[a] /\ w.life = 1
  BY <1>1, <1>2 DEF Word
<1> HIDE DEF w
<1>4. NextBuf \in Temps
  BY Addresses DEF NextBuf
<1>5. Alive(w, heap, bufs, NextBuf, variables)
  BY <1>1, <1>3, <1>4, Finds DEF Alive
<1>6. stack' = Append(stack, w)
  BY DEF PushStr, w
<1> QED
  BY <1>3, <1>5, <1>6, PushStep DEF PushStr

\* k_PUSH_VAR_N2 pushes what the variable holds.
LEMMA PushVarStep ==
    ASSUME SInv, NEW s \in Strings, PushVar(s), UNCHANGED prog PROVE SInv'
<1> DEFINE w == [addr |-> variables[s], meant |-> store[s], life |-> 1]
<1>1. Running /\ RoomForWord /\ s \in Names
  BY DEF PushVar, Names
<1>2. /\ variables[s] \in Named /\ variables[s] \notin Temps /\ variables[s] \in Addr
      /\ NextBuf \in Temps
      /\ store[s] \in Text \cup {Lost} /\ Stored(s, heap, bufs, variables, store[s])
  BY <1>1, Before, Addresses DEF Variables, Addr
<1>3. CASE store[s] = Lost
  <2>1. stack' = Append(stack, Dead(variables[s]))
    BY <1>3 DEF PushVar
  <2> QED
    BY <1>1, <1>2, <2>1, DeadWord, PushStep DEF PushVar
<1>4. CASE store[s] # Lost
  <2>1. w \in Word /\ w.addr = variables[s] /\ w.meant = store[s] /\ w.life = 1
    BY <1>2, <1>4 DEF Word
  <2>2. stack' = Append(stack, w)
    BY <1>4 DEF PushVar
  <2>3. Found(heap, bufs, variables[s]) = store[s]
    BY <1>2, <1>4 DEF Stored
  <2> HIDE DEF w
  <2>4. Alive(w, heap, bufs, NextBuf, variables)
    BY <1>2, <2>1, <2>3 DEF Alive
  <2> QED
    BY <1>1, <2>1, <2>2, <2>4, PushStep DEF PushVar
<1> QED
  BY <1>3, <1>4

\* LEN, VAL, PRINT and the comparisons take their texts.
LEMMA ConsumeStep ==
    ASSUME SInv, NEW k \in 1 .. 2, Consume(k), UNCHANGED prog PROVE SInv'
<1>1. Running /\ Len(stack) >= k /\ stack' = Below(k)
  BY DEF Consume
<1>2. k \in 0 .. Len(stack) /\ astray' \in BOOLEAN
  BY <1>1, Before DEF Consume
<1> QED
  BY <1>1, <1>2, TakeStep DEF Consume

\* INSTR takes its texts.
LEMMA InstrStep == ASSUME SInv, Instr, UNCHANGED prog PROVE SInv'
<1>1. Running /\ Len(stack) >= 2 /\ stack' = Below(2) /\ astray' \in BOOLEAN
  BY DEF Instr
<1>2. 2 \in 0 .. Len(stack)
  BY <1>1, Before
<1> QED
  BY <1>1, <1>2, TakeStep DEF Instr

\* STR_GREATER takes a word too many, and is astray.
LEMMA GreaterStep == ASSUME SInv, Greater, UNCHANGED prog PROVE SInv'
<1>1. Running /\ stack' = Below(Lesser(3, Len(stack))) /\ astray' \in BOOLEAN
  BY DEF Greater
<1>2. Lesser(3, Len(stack)) \in 0 .. Len(stack)
  BY <1>1, Before DEF Lesser
<1> QED
  BY <1>1, <1>2, TakeStep DEF Greater

-----------------------------------------------------------------------------
\* The string functions.
LEMMA Texts == ASSUME NEW t \in Seq(Character), NEW m \in Nat, m >= 1, NEW n \in Int, n <= Len(t)
               PROVE SubSeq(t, m, n) \in Seq(Character)
<1>1. \A i \in m .. n : t[i] \in Character
  BY ElementOfSeq, LenProperties
<1> QED
  BY <1>1, SubSeqProperties

\* k_ADD_STR_N1: the sum of two live texts, unless it is too long or its right
\* operand is in the buffer it is written to.
LEMMA AddStrStep == ASSUME SInv, AddStr, UNCHANGED prog PROVE SInv'
<1> DEFINE left == Read(Top(2).addr)
           right == IF Top(1).addr = NextBuf THEN left ELSE Read(Top(1).addr)
           text == IF Len(left \o right) > MaxText THEN Junk ELSE left \o right
           known == Top(1).life > 0 /\ Top(2).life > 0 /\ Top(1).addr # NextBuf
           meant == Top(2).meant \o Top(1).meant
<1>1. Running /\ Len(stack) >= 2
  BY DEF AddStr
<1>2. Yield(2, text, known, meant) /\ astray' \in BOOLEAN
  <2>1. Yield(2, text, known, meant)
    BY DEF AddStr
  <2> DEFINE far == Len(left \o right) > MaxText
  <2>2. astray' = far
    BY DEF AddStr
  <2>3. far \in BOOLEAN
    OBVIOUS
  <2> HIDE DEF far
  <2> QED
    BY <2>1, <2>2, <2>3
<1>3. 2 \in 0 .. Len(stack)
  BY <1>1, Before
<1>4. left \in Seq(Character) /\ (Top(2).life > 0 => left = Top(2).meant)
  BY <1>1, <1>3, Tops
<1>5. /\ Read(Top(1).addr) \in Seq(Character)
      /\ Top(1).life > 0 => Read(Top(1).addr) = Top(1).meant
  BY <1>1, <1>3, Tops
<1>6. left \o right \in Seq(Character)
  BY <1>4, <1>5, ConcatProperties
<1>7. text \in Seq(Character)
  BY <1>6, TextFacts
<1>8. known /\ meant \in Text => text = meant
  <2>1. SUFFICES ASSUME known, meant \in Text PROVE text = meant
    OBVIOUS
  <2>2. left \o right = meant
    BY <1>4, <1>5, <2>1
  <2> HIDE DEF left, right, meant
  <2>3. Len(meant) <= MaxText /\ Len(meant) \in Nat
    <3>1. meant \in Seq(Chars) /\ Len(meant) <= MaxText
      BY <2>1, TextFacts
    <3> QED
      BY <3>1, LenProperties
  <2> QED
    BY <2>2, <2>3, SizeAssumption
<1>9. known \in BOOLEAN
  OBVIOUS
<1> HIDE DEF text, known, meant
<1> QED
  BY <1>1, <1>2, <1>3, <1>7, <1>8, <1>9, YieldStep

\* k_LEFT_STR_N1: a prefix of a live text, also of the buffer it is written to.
LEMMA LeftStrStep == ASSUME SInv, NEW n \in Counts, LeftStr(n), UNCHANGED prog PROVE SInv'
<1> DEFINE t == Read(Top(1).addr)
           count == Lesser(MaxText, n)
           text == IF count < 0 THEN Junk ELSE LeftOf(t, Lesser(count, Len(t)))
           known == Top(1).life > 0 /\ count >= 0
           meant == LeftOf(Top(1).meant, Lesser(n, Len(Top(1).meant)))
<1>1. /\ Running /\ Len(stack) >= 1 /\ Yield(1, text, known, meant)
      /\ astray' \in BOOLEAN
  BY DEF LeftStr
<1>2. 1 \in 0 .. Len(stack) /\ n \in Int /\ MaxText \in Nat
  BY <1>1, Before, DataAssumption, SizeAssumption
<1>3. /\ t \in Seq(Character) /\ Len(t) \in Nat /\ Top(1).meant \in Text
      /\ Top(1).life > 0 => t = Top(1).meant
  BY <1>1, Before, Tops
<1>4. text \in Seq(Character)
  <2>1. CASE count < 0
    BY <2>1, TextFacts
  <2>2. CASE ~(count < 0)
    <3>1. Lesser(count, Len(t)) \in Int /\ Lesser(count, Len(t)) <= Len(t)
      BY <1>2, <1>3 DEF Lesser
    <3> HIDE DEF count, t
    <3>2. LeftOf(t, Lesser(count, Len(t))) \in Seq(Character)
      BY <1>3, <3>1, Texts DEF LeftOf
    <3> QED
      BY <2>2, <3>2
  <2> QED
    BY <2>1, <2>2
<1>5. known /\ meant \in Text => text = meant
  <2>1. SUFFICES ASSUME known PROVE text = meant
    OBVIOUS
  <2>2. t = Top(1).meant /\ Len(t) <= MaxText
    BY <1>3, <2>1, TextFacts
  <2>3. Lesser(count, Len(t)) = Lesser(n, Len(t))
    BY <1>2, <1>3, <2>2 DEF Lesser
  <2>4. ~(count < 0)
    BY <1>2, <2>1 DEF Lesser
  <2> QED
    BY <2>2, <2>3, <2>4
<1>6. known \in BOOLEAN
  OBVIOUS
<1> HIDE DEF text, known, meant
<1> QED
  BY <1>1, <1>2, <1>4, <1>5, <1>6, YieldStep

\* k_RIGHT_STR_N1: a suffix of a live text.
LEMMA RightStrStep == ASSUME SInv, NEW n \in Counts, RightStr(n), UNCHANGED prog PROVE SInv'
<1> DEFINE t == Read(Top(1).addr)
           count == Lesser(Len(t), n)
           good == count >= 0 /\ ~Overlap(Len(t) - count, count)
           text == IF good THEN RightOf(t, count) ELSE Junk
           known == Top(1).life > 0 /\ good
           meant == RightOf(Top(1).meant, Lesser(n, Len(Top(1).meant)))
<1>1. Running /\ Len(stack) >= 1
  BY DEF RightStr
<1>2. Yield(1, text, known, meant) /\ astray' \in BOOLEAN
  <2>1. Yield(1, text, known, meant)
    BY DEF RightStr
  <2> DEFINE far == count < 0
  <2>2. astray' = far
    BY DEF RightStr
  <2>3. far \in BOOLEAN
    OBVIOUS
  <2> HIDE DEF far
  <2> QED
    BY <2>1, <2>2, <2>3
<1>3. 1 \in 0 .. Len(stack) /\ n \in Int
  BY <1>1, Before, DataAssumption
<1>4. /\ t \in Seq(Character) /\ Len(t) \in Nat
      /\ Top(1).life > 0 => t = Top(1).meant
  BY <1>1, <1>3, Tops
<1>5. text \in Seq(Character)
  <2>1. CASE ~good
    BY <2>1, TextFacts
  <2>2. CASE good
    <3>1. count \in Nat /\ count <= Len(t)
      BY <1>3, <1>4, <2>2 DEF Lesser
    <3> HIDE DEF count, t
    <3>2. RightOf(t, count) \in Seq(Character)
      <4>1. Len(t) - count + 1 \in Nat /\ Len(t) - count + 1 >= 1 /\ Len(t) \in Int /\ Len(t) <= Len(t)
        BY <1>4, <3>1
      <4> QED
        BY <1>4, <4>1, Texts DEF RightOf
    <3> HIDE DEF good
    <3> QED
      BY <2>2, <3>2
  <2> HIDE DEF good
  <2> QED
    BY <2>1, <2>2
<1>6. known /\ meant \in Text => text = meant
  <2>1. SUFFICES ASSUME known PROVE text = meant
    OBVIOUS
  <2>2. t = Top(1).meant
    BY <1>4, <2>1
  <2>3. count = Lesser(n, Len(t))
    BY <1>3, <1>4 DEF Lesser
  <2> HIDE DEF good, t, count
  <2> QED
    BY <2>1, <2>2, <2>3
<1>7. known \in BOOLEAN
  OBVIOUS
<1> HIDE DEF text, known, meant
<1> QED
  BY <1>1, <1>2, <1>3, <1>5, <1>6, <1>7, YieldStep

\* The part that MID$ takes: from behind the first characters, at most the rest.
Skipped(len, start) == Lesser(len, start - 1)
Taken(len, start, n) == Lesser(len - Skipped(len, start), n)
UpTo(len, start, n) == start + Lesser(n, len - start + 1) - 1

\* Where the part of MID$ begins and ends, as k_MID_STR_N1 computes it and as the
\* reference does.
LEMMA Slice ==
    ASSUME NEW len \in Nat, NEW start \in Int, NEW n \in Int
    PROVE /\ Skipped(len, start) \in Int /\ Taken(len, start, n) \in Int
          /\ Skipped(len, start) + Taken(len, start, n) <= len
          /\ start - 1 <= len => /\ Skipped(len, start) + 1 = start
                                /\ Skipped(len, start) + Taken(len, start, n) = UpTo(len, start, n)
          /\ start - 1 > len => /\ Taken(len, start, n) <= 0
                               /\ UpTo(len, start, n) \in Int /\ UpTo(len, start, n) < start
<1> DEFINE from == Skipped(len, start)
           count == Taken(len, start, n)
           upper == UpTo(len, start, n)
<1>1. from \in Int /\ from <= len /\ (from = len \/ from = start - 1) /\ from <= start - 1
  BY DEF Skipped, Lesser
<1> HIDE DEF from
<1>2. count = Lesser(len - from, n)
  BY DEF Taken, from
<1>3. upper = start + Lesser(n, len - start + 1) - 1
  BY DEF UpTo
<1> HIDE DEF count, upper
<1>4. count \in Int /\ count <= len - from
  BY <1>1, <1>2 DEF Lesser
<1>5. start - 1 <= len => from + 1 = start /\ from + count = upper
  BY <1>1, <1>2, <1>3 DEF Lesser
<1>6. start - 1 > len => count <= 0 /\ upper \in Int /\ upper < start
  BY <1>1, <1>2, <1>3 DEF Lesser
<1> QED
  BY <1>1, <1>4, <1>5, <1>6 DEF from, count, upper

\* k_MID_STR_N1: a slice of a live text, as long as the text has one.
LEMMA MidStrStep ==
    ASSUME SInv, NEW start \in Counts, NEW n \in Counts, MidStr(start, n), UNCHANGED prog PROVE SInv'
<1> DEFINE t == Read(Top(1).addr)
           from == Lesser(Len(t), start - 1)
           count == Lesser(Len(t) - from, n)
           good == from >= 0 /\ count >= 0 /\ ~Overlap(from, count)
           text == IF good THEN SubSeq(t, from + 1, from + count) ELSE Junk
           known == Top(1).life > 0 /\ good
           meant == MidOf(Top(1).meant, start, n)
<1>1. Running /\ Len(stack) >= 1
  BY DEF MidStr
<1>2. Yield(1, text, known, meant) /\ astray' \in BOOLEAN
  <2>1. Yield(1, text, known, meant)
    BY DEF MidStr
  <2> DEFINE far == from < 0 \/ count < 0
  <2>2. astray' = far
    BY DEF MidStr
  <2>3. far \in BOOLEAN
    OBVIOUS
  <2> HIDE DEF far
  <2> QED
    BY <2>1, <2>2, <2>3
<1>3. 1 \in 0 .. Len(stack) /\ n \in Int /\ start \in Int
  BY <1>1, Before, DataAssumption
<1>4. /\ t \in Seq(Character) /\ Len(t) \in Nat
      /\ Top(1).life > 0 => t = Top(1).meant
  BY <1>1, <1>3, Tops
<1> DEFINE upper == start + Lesser(n, Len(t) - start + 1) - 1
<1>5. /\ from \in Int /\ count \in Int /\ from + count <= Len(t)
      /\ start - 1 <= Len(t) => from + 1 = start /\ from + count = upper
      /\ start - 1 > Len(t) => from + count < from + 1 /\ upper < start /\ upper \in Int
  <2>1. /\ from = Skipped(Len(t), start) /\ count = Taken(Len(t), start, n)
        /\ upper = UpTo(Len(t), start, n)
    BY DEF Skipped, Taken, UpTo
  <2>2. Len(t) \in Nat
    BY <1>4
  <2> HIDE DEF t, from, count, upper
  <2>3. /\ Skipped(Len(t), start) \in Int /\ Taken(Len(t), start, n) \in Int
        /\ Skipped(Len(t), start) + Taken(Len(t), start, n) <= Len(t)
        /\ start - 1 <= Len(t) =>
              /\ Skipped(Len(t), start) + 1 = start
              /\ Skipped(Len(t), start) + Taken(Len(t), start, n) = UpTo(Len(t), start, n)
        /\ start - 1 > Len(t) => /\ Taken(Len(t), start, n) <= 0
                                 /\ UpTo(Len(t), start, n) \in Int /\ UpTo(Len(t), start, n) < start
    BY <1>3, <2>2, Slice
  <2> QED
    BY <2>1, <2>3
<1>6. text \in Seq(Character)
  <2>1. CASE ~good
    BY <2>1, TextFacts
  <2>2. CASE good
    <3>1. from \in Nat /\ count \in Nat /\ from + count <= Len(t)
      BY <1>5, <2>2
    <3> HIDE DEF from, count, t
    <3>2. SubSeq(t, from + 1, from + count) \in Seq(Character)
      <4>1. from + 1 \in Nat /\ from + 1 >= 1 /\ from + count \in Int
        BY <3>1
      <4> QED
        BY <1>4, <3>1, <4>1, Texts
    <3> HIDE DEF good
    <3> QED
      BY <2>2, <3>2
  <2> HIDE DEF good
  <2> QED
    BY <2>1, <2>2
<1>7. known /\ meant \in Text => text = meant
  <2>1. SUFFICES ASSUME known PROVE text = meant
    OBVIOUS
  <2>2. t = Top(1).meant
    BY <1>4, <2>1
  <2>3. text = SubSeq(t, from + 1, from + count)
    BY <2>1
  <2>4. meant = SubSeq(t, start, upper)
    BY <2>2 DEF MidOf
  <2> HIDE DEF text, meant, from, count, t, upper
  <2>5. CASE start - 1 <= Len(t)
    BY <1>5, <2>3, <2>4, <2>5
  <2>6. CASE start - 1 > Len(t)
    <3>1. from + 1 \in Int /\ from + count \in Int
      BY <1>5
    <3>2. SubSeq(t, from + 1, from + count) = <<>>
      BY <1>5, <2>6, <3>1, SubSeqEmpty
    <3>3. SubSeq(t, start, upper) = <<>>
      BY <1>3, <1>5, <2>6, SubSeqEmpty
    <3> QED
      BY <2>3, <2>4, <3>2, <3>3
  <2> QED
    BY <1>3, <1>4, <2>5, <2>6
<1>8. known \in BOOLEAN
  OBVIOUS
<1> HIDE DEF text, known, meant
<1> QED
  BY <1>1, <1>2, <1>3, <1>6, <1>7, <1>8, YieldStep

\* STR$ and HEX$ make a text of a number.
LEMMA NumberStrStep == ASSUME SInv, NEW t \in Numerals, NumberStr(t), UNCHANGED prog PROVE SInv'
<1>1. Running /\ Yield(0, t, TRUE, t)
  BY DEF NumberStr
<1>2. 0 \in 0 .. Len(stack) /\ astray' \in BOOLEAN
  BY <1>1, Before DEF NumberStr
<1>3. t \in Seq(Character)
  BY DataAssumption, TextFacts
<1> QED
  BY <1>1, <1>2, <1>3, YieldStep

\* k_ALLOC_STR_N1: as many of the first character of a live text.
LEMMA AllocStrStep == ASSUME SInv, NEW n \in Counts, AllocStr(n), UNCHANGED prog PROVE SInv'
<1> DEFINE t == Read(Top(1).addr)
           count == Lesser(MaxText, n)
           filled(x) == [k \in 1 .. count |-> x[1]]
           text == IF count < 0 THEN Junk ELSE IF t = <<>> THEN <<>> ELSE filled(t)
           known == Top(1).life > 0 /\ count >= 0
           meant == IF Top(1).meant = <<>> THEN <<>> ELSE filled(Top(1).meant)
<1>1. Running /\ Len(stack) >= 1
  BY DEF AllocStr
<1>2. Yield(1, text, known, meant) /\ astray' \in BOOLEAN
  <2>1. Yield(1, text, known, meant)
    BY DEF AllocStr
  <2> DEFINE far == count < 0
  <2>2. astray' = far
    BY DEF AllocStr
  <2>3. far \in BOOLEAN
    OBVIOUS
  <2> HIDE DEF far
  <2> QED
    BY <2>1, <2>2, <2>3
<1>3. 1 \in 0 .. Len(stack) /\ n \in Int /\ count \in Int
  BY <1>1, Before, DataAssumption, SizeAssumption DEF Lesser
<1>4. /\ t \in Seq(Character) /\ Len(t) \in Nat
      /\ Top(1).life > 0 => t = Top(1).meant
  BY <1>1, <1>3, Tops
<1>5. text \in Seq(Character)
  <2>1. CASE count < 0
    BY <2>1, TextFacts
  <2>2. CASE ~(count < 0) /\ t = <<>>
    BY <2>2, EmptySeq
  <2>3. CASE ~(count < 0) /\ t # <<>>
    <3>1. t[1] \in Character
      <4>1. Len(t) # 0
        BY <1>4, <2>3, EmptySeq
      <4>2. 1 \in 1 .. Len(t)
        BY <1>4, <4>1
      <4> HIDE DEF t
      <4> QED
        BY <1>4, <4>2, ElementOfSeq
    <3>2. count \in Nat
      BY <1>3, <2>3
    <3> HIDE DEF count, t
    <3>3. filled(t) \in Seq(Character)
      BY <3>1, <3>2
    <3> QED
      BY <2>3, <3>3
  <2> QED
    BY <2>1, <2>2, <2>3
<1>6. known /\ meant \in Text => text = meant
  <2>1. SUFFICES ASSUME known PROVE text = meant
    OBVIOUS
  <2>2. t = Top(1).meant
    BY <1>4, <2>1
  <2>3. ~(count < 0)
    BY <1>3, <2>1
  <2> HIDE DEF count, t
  <2> QED
    BY <2>2, <2>3
<1>7. known \in BOOLEAN
  OBVIOUS
<1> HIDE DEF text, known, meant
<1> QED
  BY <1>1, <1>2, <1>3, <1>5, <1>6, <1>7, YieldStep

-----------------------------------------------------------------------------
\* The variables.  What is left of the stacks when a variable is changed.
LEMMA Kept ==
    ASSUME SInv, Running, NEW v \in Names, NEW n \in 0 .. Len(stack),
           Untouched(v, heap, heap', variables, variables'),
           stack' = Expired(SubSeq(stack, 1, n), variables[v]),
           params' = Expired(params, variables[v])
    PROVE /\ stack' \in Seq(Word) /\ params' \in Seq(Word)
          /\ Len(stack') + Len(params') <= prog.words
          /\ AllAlive(stack', heap', bufs, NextBuf, variables')
          /\ AllAlive(params', heap', bufs, NextBuf, variables')
<1>1. variables \in Variables /\ Owned(variables, heap)
  BY Before
<1>2. /\ SubSeq(stack, 1, n) \in Seq(Word) /\ Len(SubSeq(stack, 1, n)) = n
      /\ AllAlive(SubSeq(stack, 1, n), heap, bufs, NextBuf, variables)
  <2>1. stack \in Seq(Word) /\ AllAlive(stack, heap, bufs, NextBuf, variables)
    BY Before
  <2>2. SubSeq(stack, 1, n) \in Seq(Word) /\ Len(SubSeq(stack, 1, n)) = n
    BY <2>1, WordsBelow
  <2>3. AllAlive(SubSeq(stack, 1, n), heap, bufs, NextBuf, variables)
    BY <2>1, AliveBelow
  <2> QED
    BY <2>2, <2>3
<1>3. /\ stack' \in Seq(Word) /\ Len(stack') = n
      /\ AllAlive(stack', heap', bufs, NextBuf, variables')
  <2> DEFINE q == SubSeq(stack, 1, n)
  <2>1. q \in Seq(Word) /\ AllAlive(q, heap, bufs, NextBuf, variables) /\ Len(q) = n
    BY <1>2
  <2>2. stack' = Expired(q, variables[v])
    OBVIOUS
  <2> HIDE DEF q
  <2>3. /\ Expired(q, variables[v]) \in Seq(Word) /\ Len(Expired(q, variables[v])) = Len(q)
        /\ AllAlive(Expired(q, variables[v]), heap', bufs, NextBuf, variables')
    BY <1>1, <2>1, AliveExpired
  <2> QED
    BY <2>1, <2>2, <2>3
<1>4. /\ params' \in Seq(Word) /\ Len(params') = Len(params)
      /\ AllAlive(params', heap', bufs, NextBuf, variables')
  BY <1>1, Before, AliveExpired
<1>5. Len(stack') + Len(params') <= prog.words
  BY <1>3, <1>4, Before
<1> QED
  BY <1>3, <1>4, <1>5

\* The value that a variable is given is the text of the word on top.
LEMMA Given ==
    ASSUME SInv, Running, Len(stack) >= 1, NEW s \in Strings, NEW hq, NEW vt,
           Found(hq, bufs, vt[s]) = Found(heap, bufs, Top(1).addr)
    PROVE /\ s \in Names /\ s \notin Arrays
          /\ Stored(s, hq, bufs, vt, IF Top(1).life > 0 THEN Top(1).meant ELSE Lost)
          /\ (IF Top(1).life > 0 THEN Top(1).meant ELSE Lost) \in Text \cup {Lost}
<1>1. s \in Names /\ s \notin Arrays
  BY NamesAssumption DEF Names
<1>2. /\ Top(1).meant \in Text
      /\ Top(1).life > 0 => Found(heap, bufs, Top(1).addr) = Top(1).meant
  BY Before, Tops
<1>3. CASE Top(1).life > 0
  BY <1>1, <1>2, <1>3 DEF Stored
<1>4. CASE ~(Top(1).life > 0)
  BY <1>1, <1>4 DEF Stored
<1> QED
  BY <1>1, <1>3, <1>4

\* realloc_string of a constant, which the variable then shares with the code.
LEMMA AssignStaticStep ==
    ASSUME SInv, NEW s \in Strings, AssignStatic(s), UNCHANGED prog PROVE SInv'
<1> DEFINE a == Top(1).addr
           x == IF Top(1).life > 0 THEN Top(1).meant ELSE Lost
<1>1. /\ Running /\ Len(stack) >= 1 /\ StaticAddr(a)
      /\ heap' = Without(variables[s]) /\ variables' = [variables EXCEPT ![s] = a]
      /\ stack' = Expired(SubSeq(stack, 1, Len(stack) - 1), variables[s])
      /\ params' = Expired(params, variables[s])
      /\ store' = [store EXCEPT ![s] = x]
      /\ UNCHANGED <<bufs, strbuf1_used, mode, astray>>
  BY DEF AssignStatic, Pop, Below, Depth, Settled
<1>2. s \in Names /\ Len(stack) - 1 \in 0 .. Len(stack)
  BY <1>1, Before DEF Names
<1>3. a \in Named /\ a \notin HeapAddr /\ a \notin Temps
  <2>1. a \in Addr
    BY <1>1, Before, Tops
  <2> QED
    BY <1>1, <2>1, Addresses DEF Addr
<1>4. /\ heap' \in Heaps /\ Untouched(s, heap, heap', variables, variables')
      /\ Owned(variables', heap')
  BY <1>1, <1>2, <1>3, Before, Releases DEF Without
<1>5. variables' \in Variables /\ variables'[s] = a
  BY <1>1, <1>2, <1>3, Before DEF Variables
<1>6. Found(heap', bufs, variables'[s]) = Found(heap, bufs, a)
  BY <1>3, <1>5, FindsElsewhere
<1>7. s \notin Arrays /\ Stored(s, heap', bufs, variables', x) /\ x \in Text \cup {Lost}
  BY <1>1, <1>6, Given
<1>8. /\ stack' \in Seq(Word) /\ params' \in Seq(Word) /\ Len(stack') + Len(params') <= prog.words
      /\ AllAlive(stack', heap', bufs, NextBuf, variables')
      /\ AllAlive(params', heap', bufs, NextBuf, variables')
  BY <1>1, <1>2, <1>4, Kept
<1>9. mode' \in {"run", "error"}
  BY <1>1, Before
<1> HIDE DEF x
<1> QED
  BY <1>1, <1>2, <1>4, <1>5, <1>7, <1>8, <1>9, ChangeStep

\* realloc_string into the allocation the variable has.
LEMMA AssignInPlaceStep ==
    ASSUME SInv, NEW s \in Strings, AssignInPlace(s), UNCHANGED prog PROVE SInv'
<1> DEFINE a == variables[s]
           t == Read(Top(1).addr)
           x == IF Top(1).life > 0 THEN Top(1).meant ELSE Lost
<1>1. /\ Running /\ Len(stack) >= 1 /\ IsHeap(a)
      /\ heap' = [heap EXCEPT ![a].text = t] /\ variables' = variables
      /\ stack' = Expired(SubSeq(stack, 1, Len(stack) - 1), variables[s])
      /\ params' = Expired(params, variables[s])
      /\ store' = [store EXCEPT ![s] = x]
      /\ UNCHANGED <<bufs, strbuf1_used, mode, astray>>
  BY DEF AssignInPlace, Pop, Below, Depth, Settled
<1>2. s \in Names /\ Len(stack) - 1 \in 0 .. Len(stack)
  BY <1>1, Before DEF Names
<1>3. a \in HeapAddr
  BY <1>1, <1>2, Before, Addresses DEF Variables, Addr
<1>4. t \in Seq(Character) /\ t = Found(heap, bufs, Top(1).addr)
  BY <1>1, Before, Tops
<1>5. /\ heap' \in Heaps /\ heap'[a].text = t /\ heap'[a].blocks = heap[a].blocks
      /\ \A h \in HeapAddr : h # a => heap'[h] = heap[h]
  <2> HIDE DEF a, t
  <2>1. heap \in Heaps
    BY <1>1, Before
  <2>2. heap[a] \in Allocation
    BY <1>3, <2>1 DEF Heaps
  <2>3. [heap[a] EXCEPT !.text = t] \in Allocation
    BY <1>4, <2>2 DEF Allocation
  <2>4. heap' = [heap EXCEPT ![a] = [heap[a] EXCEPT !.text = t]]
    BY <1>1
  <2> QED
    BY <1>3, <2>1, <2>2, <2>3, <2>4 DEF Heaps, Allocation
<1>6. Owned(variables, heap)
  BY <1>1, Before
<1> HIDE DEF t
<1>7. Untouched(s, heap, heap', variables, variables') /\ Owned(variables', heap')
  BY <1>1, <1>2, <1>3, <1>5, <1>6 DEF Untouched, Owned
<1>8. Found(heap', bufs, variables'[s]) = Found(heap, bufs, Top(1).addr)
  <2>1. variables'[s] = a
    BY <1>1
  <2> HIDE DEF a
  <2>2. Found(heap', bufs, a) = heap'[a].text
    BY <1>3, FindsAllocation
  <2> QED
    BY <1>4, <1>5, <2>1, <2>2
<1>9. s \notin Arrays /\ Stored(s, heap', bufs, variables', x) /\ x \in Text \cup {Lost}
  BY <1>1, <1>8, Given
<1>10. /\ stack' \in Seq(Word) /\ params' \in Seq(Word) /\ Len(stack') + Len(params') <= prog.words
       /\ AllAlive(stack', heap', bufs, NextBuf, variables')
       /\ AllAlive(params', heap', bufs, NextBuf, variables')
  BY <1>1, <1>2, <1>7, Kept
<1>11. mode' \in {"run", "error"} /\ variables' \in Variables
  BY <1>1, Before
<1> HIDE DEF x
<1> QED
  BY <1>1, <1>2, <1>5, <1>7, <1>9, <1>10, <1>11, ChangeStep

\* realloc_string into a new allocation.
LEMMA AssignCopyStep ==
    ASSUME SInv, NEW s \in Strings, AssignCopy(s), UNCHANGED prog PROVE SInv'
<1> DEFINE t == Read(Top(1).addr)
           x == IF Top(1).life > 0 THEN Top(1).meant ELSE Lost
           rest == Without(variables[s])
           c == TextAlloc(t)
<1>1. /\ Running /\ Len(stack) >= 1
      /\ stack' = Expired(SubSeq(stack, 1, Len(stack) - 1), variables[s])
      /\ params' = Expired(params, variables[s])
      /\ store' = [store EXCEPT ![s] = x]
      /\ UNCHANGED <<bufs, strbuf1_used, mode, astray>>
  BY DEF AssignCopy, NeedsRoom, Pop, Below, Depth, Settled
<1>2. PICK h \in FreeAddr(rest) : /\ heap' = [rest EXCEPT ![h] = c]
                                  /\ variables' = [variables EXCEPT ![s] = h]
  BY DEF AssignCopy
<1>3. h \in HeapAddr /\ rest[h].blocks = 0 /\ h \in Named
  BY <1>2 DEF FreeAddr, Named
<1>4. s \in Names /\ Len(stack) - 1 \in 0 .. Len(stack)
  BY <1>1, Before DEF Names
<1>5. t \in Seq(Character) /\ t = Found(heap, bufs, Top(1).addr)
  BY <1>1, Before, Tops
<1> HIDE DEF t
<1>6. c \in Allocation /\ c.blocks > 0 /\ c.text = t
  <2>1. /\ Blocks(TextBytes(t)) \in Nat /\ Blocks(TextBytes(t)) > 0
        /\ Words(TextBytes(t)) \in Nat
    BY <1>5, TextBlocks
  <2>2. <<>> \in Seq(Element)
    BY EmptySeq
  <2> QED
    BY <1>5, <2>1, <2>2 DEF TextAlloc, Allocation
<1>7. rest = IF IsHeap(variables[s]) THEN [heap EXCEPT ![variables[s]] = Nothing] ELSE heap
  BY DEF Without
<1> HIDE DEF rest, c
<1>8. /\ heap' \in Heaps /\ Untouched(s, heap, heap', variables, variables')
      /\ Owned(variables', heap')
  <2>1. heap \in Heaps /\ variables \in Variables /\ Owned(variables, heap)
    BY <1>1, Before
  <2> QED
    BY <1>2, <1>3, <1>4, <1>6, <1>7, <2>1, Allocates
<1>9. variables' \in Variables /\ variables'[s] = h
  BY <1>1, <1>2, <1>3, <1>4, Before DEF Variables
<1>10. heap'[h].text = t
  <2>1. rest \in Heaps
    BY <1>1, <1>3, <1>4, <1>7, Before, Releases
  <2> QED
    BY <1>2, <1>3, <1>6, <2>1 DEF Heaps
<1>11. Found(heap', bufs, variables'[s]) = Found(heap, bufs, Top(1).addr)
  <2>1. Found(heap', bufs, h) = heap'[h].text
    BY <1>3, FindsAllocation
  <2> QED
    BY <1>5, <1>9, <1>10, <2>1
<1>12. s \notin Arrays /\ Stored(s, heap', bufs, variables', x) /\ x \in Text \cup {Lost}
  BY <1>1, <1>11, Given
<1>13. /\ stack' \in Seq(Word) /\ params' \in Seq(Word) /\ Len(stack') + Len(params') <= prog.words
       /\ AllAlive(stack', heap', bufs, NextBuf, variables')
       /\ AllAlive(params', heap', bufs, NextBuf, variables')
  BY <1>1, <1>4, <1>8, Kept
<1>14. mode' \in {"run", "error"}
  BY <1>1, Before
<1> HIDE DEF x
<1> QED
  BY <1>1, <1>4, <1>8, <1>9, <1>12, <1>13, <1>14, ChangeStep

\* realloc_string that the heap refuses: what the variable had is released.
LEMMA AssignRefusedStep ==
    ASSUME SInv, NEW s \in Strings, AssignRefused(s), UNCHANGED prog PROVE SInv'
<1>1. /\ Running /\ Len(stack) >= 1
      /\ heap' = Without(variables[s]) /\ variables' = [variables EXCEPT ![s] = NbError]
      /\ stack' = Expired(SubSeq(stack, 1, Len(stack) - 1), variables[s])
      /\ params' = Expired(params, variables[s])
      /\ store' = [store EXCEPT ![s] = Lost]
      /\ UNCHANGED <<bufs, strbuf1_used, mode, astray>>
  BY DEF AssignRefused, NeedsRoom, Pop, Below, Depth
<1>2. s \in Names /\ s \notin Arrays /\ Len(stack) - 1 \in 0 .. Len(stack)
  BY <1>1, Before, NamesAssumption DEF Names
<1>3. NbError \in Named /\ NbError \notin HeapAddr
  BY Addresses
<1>4. /\ heap' \in Heaps /\ Untouched(s, heap, heap', variables, variables')
      /\ Owned(variables', heap')
  BY <1>1, <1>2, <1>3, Before, Releases DEF Without
<1>5. variables' \in Variables
  BY <1>1, <1>2, <1>3, Before DEF Variables
<1>6. Stored(s, heap', bufs, variables', Lost)
  BY DEF Stored
<1>7. /\ stack' \in Seq(Word) /\ params' \in Seq(Word) /\ Len(stack') + Len(params') <= prog.words
      /\ AllAlive(stack', heap', bufs, NextBuf, variables')
      /\ AllAlive(params', heap', bufs, NextBuf, variables')
  BY <1>1, <1>2, <1>4, Kept
<1>8. mode' \in {"run", "error"}
  BY <1>1, Before
<1> QED
  BY <1>1, <1>2, <1>4, <1>5, <1>6, <1>7, <1>8, ChangeStep

\* k_ERASE_ARR_N2 releases the allocation of a variable, which is empty then.
LEMMA EraseStep == ASSUME SInv, NEW v \in prog.names, Erase(v), UNCHANGED prog PROVE SInv'
<1>1. /\ Running
      /\ heap' = Without(variables[v]) /\ variables' = [variables EXCEPT ![v] = 0]
      /\ stack' = Expired(stack, variables[v]) /\ params' = Expired(params, variables[v])
      /\ store' = [store EXCEPT ![v] = <<>>]
      /\ UNCHANGED <<bufs, strbuf1_used, mode, astray>>
  BY DEF Erase
<1>2. v \in Names
  BY <1>1, Before, ProgramsAssumption
<1>3. 0 \in Named /\ 0 \notin HeapAddr
  BY Addresses
<1>4. /\ heap' \in Heaps /\ Untouched(v, heap, heap', variables, variables')
      /\ Owned(variables', heap')
  BY <1>1, <1>2, <1>3, Before, Releases DEF Without
<1>5. variables' \in Variables /\ variables'[v] = 0
  BY <1>1, <1>2, <1>3, Before DEF Variables
<1>6. Stored(v, heap', bufs, variables', <<>>)
  <2>1. Found(heap', bufs, 0) = <<>>
    BY Finds
  <2>2. <<>> \in Seq(Elems \cup {0})
    BY EmptySeq
  <2> QED
    BY <1>5, <2>1, <2>2 DEF Stored
<1>7. <<>> \in Text /\ <<>> # Lost
  BY TextFacts
<1>8. Len(stack) \in 0 .. Len(stack) /\ stack = SubSeq(stack, 1, Len(stack))
  BY <1>1, Before, SubSeqFull
<1>9. /\ stack' \in Seq(Word) /\ params' \in Seq(Word) /\ Len(stack') + Len(params') <= prog.words
      /\ AllAlive(stack', heap', bufs, NextBuf, variables')
      /\ AllAlive(params', heap', bufs, NextBuf, variables')
  BY <1>1, <1>2, <1>4, <1>8, Kept
<1>10. mode' \in {"run", "error"}
  BY <1>1, Before
<1> QED
  BY <1>1, <1>2, <1>4, <1>5, <1>6, <1>7, <1>9, <1>10, ChangeStep

-----------------------------------------------------------------------------
\* The arrays.
LEMMA ArrayFacts ==
    /\ Lost \notin Seq(Elems \cup {0})
    /\ \A m \in Nat : /\ ArrayAlloc(4 * m) \in Allocation /\ ArrayAlloc(4 * m).blocks > 0
                      /\ [k \in 1 .. m |-> 0] \in Seq(Elems \cup {0})
                      /\ Len(ArrayAlloc(4 * m).elems) >= m
                      /\ \A k \in 1 .. m : ArrayAlloc(4 * m).elems[k] = 0
<1>1. Lost \notin Seq(Elems \cup {0})
  <2>1. SUFFICES ASSUME Lost \in Seq(Elems \cup {0}) PROVE FALSE
    OBVIOUS
  <2>2. Lost[1] \in Elems \cup {0}
    BY <2>1, ElementOfSeq DEF Lost
  <2> QED
    BY <2>2, DataAssumption DEF Lost, Unknown
<1>2. ASSUME NEW m \in Nat
      PROVE /\ ArrayAlloc(4 * m) \in Allocation /\ ArrayAlloc(4 * m).blocks > 0
            /\ [k \in 1 .. m |-> 0] \in Seq(Elems \cup {0})
            /\ Len(ArrayAlloc(4 * m).elems) >= m
            /\ \A k \in 1 .. m : ArrayAlloc(4 * m).elems[k] = 0
  <2> DEFINE blocks == Blocks(4 * m)
             words == Words(4 * m)
             elems == [k \in 1 .. Room(blocks) |-> IF 4 * k <= 4 * m THEN 0 ELSE Unknown]
  <2>1. blocks \in Nat /\ blocks > 0 /\ words \in Nat /\ Room(blocks) \in Nat /\ Room(blocks) >= m
    BY ArrayRoom
  <2>2. ArrayAlloc(4 * m) = [blocks |-> blocks, words |-> words, text |-> Junk, elems |-> elems]
    BY DEF ArrayAlloc
  <2> HIDE DEF blocks, words
  <2>3. elems \in Seq(Element) /\ Len(elems) = Room(blocks)
    BY <2>1 DEF Element
  <2>4. \A k \in 1 .. m : elems[k] = 0
    BY <2>1
  <2>5. [k \in 1 .. m |-> 0] \in Seq(Elems \cup {0})
    OBVIOUS
  <2> HIDE DEF elems
  <2>6. ArrayAlloc(4 * m) \in Allocation
    BY <2>1, <2>2, <2>3, TextFacts DEF Allocation
  <2> QED
    BY <2>1, <2>2, <2>3, <2>4, <2>5, <2>6
<1> QED
  BY <1>1, <1>2

\* DIM gives the array zeros, where the heap gives it room, or the size has
\* overflown and the step is astray.
LEMMA DimStep ==
    ASSUME SInv, NEW v \in Arrays, NEW n \in Dims, Dim(v, n), UNCHANGED prog PROVE SInv'
<1> DEFINE m == Count(n)
           x == [k \in 1 .. m |-> 0]
           rest == Without(variables[v])
           c == ArrayAlloc(4 * m)
<1>a. /\ Running /\ n \in Int /\ astray' = (4 * m > Asked(n))
      /\ UNCHANGED <<bufs, strbuf1_used, stack, params, mode>>
  BY DataAssumption DEF Dim
<1>b. CASE astray'
  <2>1. astray' \in BOOLEAN
    <3> DEFINE far == 4 * m > Asked(n)
    <3>1. far \in BOOLEAN /\ astray' = far
      BY <1>a
    <3> HIDE DEF far
    <3> QED
      BY <3>1
  <2> QED
    BY <1>b, <2>1, Astray
<1>c. SUFFICES ASSUME ~astray' PROVE SInv'
  BY <1>b
<1>d. m \in Nat /\ Asked(n) = 4 * m
  BY <1>a, <1>c, AskedFor
<1>e. astray' = astray
  <2>1. ~(4 * m > Asked(n))
    BY <1>a, <1>c
  <2>2. (4 * m > Asked(n)) = FALSE
    BY <2>1
  <2> QED
    BY <1>a, <2>2, Before
<1>1. /\ Running /\ store' = [store EXCEPT ![v] = x]
      /\ UNCHANGED <<bufs, strbuf1_used, stack, params, mode, astray>>
  BY <1>a, <1>c, <1>e DEF Dim
<1>2. PICK h \in FreeAddr(rest) : /\ heap' = [rest EXCEPT ![h] = c]
                                  /\ variables' = [variables EXCEPT ![v] = h]
  BY <1>d DEF Dim
<1> HIDE DEF m
<1>3. h \in HeapAddr /\ rest[h].blocks = 0 /\ h \in Named
  BY <1>2 DEF FreeAddr, Named
<1>4. v \in Names /\ v \notin Strings /\ m \in Nat
  BY <1>d, NamesAssumption DEF Names
<1>5. /\ c \in Allocation /\ c.blocks > 0 /\ x \in Seq(Elems \cup {0}) /\ x # Lost
      /\ Len(c.elems) >= m /\ \A k \in 1 .. m : c.elems[k] = 0
  BY <1>4, ArrayFacts
<1>6. Len(x) = m /\ \A k \in 1 .. m : x[k] = 0
  BY <1>4
<1>7. rest = IF IsHeap(variables[v]) THEN [heap EXCEPT ![variables[v]] = Nothing] ELSE heap
  BY DEF Without
<1> HIDE DEF rest, c, x
<1>8. /\ heap' \in Heaps /\ Untouched(v, heap, heap', variables, variables')
      /\ Owned(variables', heap')
  <2>1. heap \in Heaps /\ variables \in Variables /\ Owned(variables, heap)
    BY <1>1, Before
  <2>2. /\ [rest EXCEPT ![h] = c] \in Heaps
        /\ Untouched(v, heap, [rest EXCEPT ![h] = c], variables, [variables EXCEPT ![v] = h])
        /\ Owned([variables EXCEPT ![v] = h], [rest EXCEPT ![h] = c])
    BY <1>3, <1>4, <1>5, <1>7, <2>1, Allocates
  <2> QED
    BY <1>2, <2>2
<1>9. variables' \in Variables /\ variables'[v] = h
  BY <1>1, <1>2, <1>3, <1>4, Before DEF Variables
<1>10. heap'[h] = c
  <2>1. rest \in Heaps
    BY <1>1, <1>3, <1>4, <1>7, Before, Releases
  <2> QED
    BY <1>2, <1>3, <2>1 DEF Heaps
<1>11. Stored(v, heap', bufs, variables', x)
  BY <1>3, <1>4, <1>5, <1>6, <1>9, <1>10 DEF Stored, Elements
<1>12. /\ AllAlive(stack', heap', bufs, NextBuf, variables')
       /\ AllAlive(params', heap', bufs, NextBuf, variables')
  <2>1. /\ variables \in Variables /\ Owned(variables, heap)
        /\ stack \in Seq(Word) /\ params \in Seq(Word)
        /\ AllAlive(stack, heap, bufs, NextBuf, variables)
        /\ AllAlive(params, heap, bufs, NextBuf, variables)
    BY <1>1, Before
  <2>2. /\ AllAlive(stack, heap', bufs, NextBuf, variables')
        /\ AllAlive(params, heap', bufs, NextBuf, variables')
    BY <1>4, <1>8, <2>1, AliveExpired
  <2> QED
    BY <1>1, <2>2
<1>13. /\ stack' \in Seq(Word) /\ params' \in Seq(Word) /\ Len(stack') + Len(params') <= prog.words
       /\ mode' \in {"run", "error"}
  BY <1>1, Before
<1> QED
  BY <1>1, <1>4, <1>5, <1>8, <1>9, <1>11, <1>12, <1>13, ChangeStep

\* DIM that the heap refuses stops the program.
LEMMA DimRefusedStep ==
    ASSUME SInv, NEW v \in Arrays, DimRefused(v), UNCHANGED prog PROVE SInv'
<1>1. /\ Running /\ store' = [store EXCEPT ![v] = Lost] /\ mode' = "error"
      /\ heap' = Without(variables[v])
      /\ UNCHANGED <<variables, bufs, strbuf1_used, stack, params, astray>>
  BY DEF DimRefused
<1>2. v \in Names /\ v \notin Strings
  BY NamesAssumption DEF Names
<1>3. /\ variables \in Variables /\ Owned(variables, heap) /\ heap \in Heaps
      /\ stack \in Seq(Word) /\ params \in Seq(Word)
      /\ AllAlive(stack, heap, bufs, NextBuf, variables)
      /\ AllAlive(params, heap, bufs, NextBuf, variables)
  BY <1>1, Before
<1>4. variables[v] \in Named /\ [variables EXCEPT ![v] = variables[v]] = variables
  BY <1>2, <1>3 DEF Variables
<1>5. heap' \in Heaps /\ Untouched(v, heap, heap', variables, variables)
  <2>1. heap' \in Heaps /\ Untouched(v, heap, heap', variables, [variables EXCEPT ![v] = variables[v]])
    BY <1>1, <1>2, <1>3, <1>4, Releases DEF Without
  <2> QED
    BY <1>4, <2>1
<1>6. Stored(v, heap', bufs, variables, Lost)
  BY DEF Stored
<1>7. /\ AllAlive(stack, heap', bufs, NextBuf, variables)
      /\ AllAlive(params, heap', bufs, NextBuf, variables)
  BY <1>2, <1>3, <1>5, AliveExpired
<1>8. Len(stack') + Len(params') <= prog.words
  BY <1>1, Before
<1> QED
  BY <1>1, <1>2, <1>3, <1>5, <1>6, <1>7, <1>8, ChangeStep

\* An element is written.
LEMMA ElementKept ==
    ASSUME NEW S, NEW q \in Seq(S), NEW j \in Int, NEW x \in S
    PROVE /\ [q EXCEPT ![j] = x] \in Seq(S) /\ Len([q EXCEPT ![j] = x]) = Len(q)
          /\ \A k \in 1 .. Len(q) : [q EXCEPT ![j] = x][k] = IF k = j THEN x ELSE q[k]
          /\ j \notin DOMAIN q => [q EXCEPT ![j] = x] = q
<1>1. Len(q) \in Nat /\ DOMAIN q = 1 .. Len(q) /\ q \in [1 .. Len(q) -> S]
  BY LenProperties
<1>2. CASE j \in 1 .. Len(q)
  BY <1>1, <1>2, ExceptSeq
<1>3. CASE j \notin 1 .. Len(q)
  <2>1. [q EXCEPT ![j] = x] = q
    BY <1>1, <1>3
  <2> QED
    BY <1>1, <1>3, <2>1
<1> QED
  BY <1>1, <1>2, <1>3

\* Writing an element that the array has changes this element and no other, of
\* the allocation and of what was stored.
LEMMA ElementStep ==
    ASSUME SInv, Running, NEW v \in Arrays, NEW j \in Int, NEW x \in Elems,
           IsHeap(variables[v]),
           heap' = [heap EXCEPT ![variables[v]].elems[j] = x],
           store' = [store EXCEPT ![v][j] = x],
           UNCHANGED <<prog, variables, bufs, strbuf1_used, stack, params, mode, astray>>
    PROVE SInv'
<1> DEFINE a == variables[v]
           e == heap[a].elems
           f == [e EXCEPT ![j] = x]
           y == [store[v] EXCEPT ![j] = x]
<1>1. v \in Names /\ v \notin Strings
  BY NamesAssumption DEF Names
<1>2. /\ variables \in Variables /\ Owned(variables, heap) /\ heap \in Heaps
      /\ stack \in Seq(Word) /\ params \in Seq(Word)
      /\ AllAlive(stack, heap, bufs, NextBuf, variables)
      /\ AllAlive(params, heap, bufs, NextBuf, variables)
      /\ Stored(v, heap, bufs, variables, store[v]) /\ store[v] # Lost
  BY <1>1, Before
<1>3. a \in HeapAddr
  BY <1>1, <1>2, Addresses DEF Variables, Addr
<1>4. heap[a] \in Allocation /\ e \in Seq(Element)
  BY <1>2, <1>3 DEF Heaps, Allocation
<1>5. f \in Seq(Element) /\ Len(f) = Len(e)
      /\ \A k \in 1 .. Len(e) : f[k] = IF k = j THEN x ELSE e[k]
  <2>1. x \in Element
    BY DEF Element
  <2> HIDE DEF e
  <2> QED
    BY <1>4, <2>1, ElementKept
<1>6. /\ store[v] \in Seq(Elems \cup {0}) /\ Len(store[v]) \in Nat
      /\ Len(store[v]) <= Len(e) \/ store[v] = <<>>
      /\ \A k \in 1 .. Len(store[v]) : e[k] = store[v][k]
      /\ Len(store[v]) <= Len(e)
  <2>1. a # 0
    BY <1>3, Addresses
  <2>2. store[v] \in Seq(Elems \cup {0}) /\ Elements(heap, a, store[v])
    BY <1>2, <2>1 DEF Stored
  <2>3. Len(store[v]) \in Nat
    BY <2>2, LenProperties
  <2> QED
    BY <2>2, <2>3 DEF Elements
<1>7. /\ y \in Seq(Elems \cup {0}) /\ Len(y) = Len(store[v])
      /\ \A k \in 1 .. Len(store[v]) : y[k] = IF k = j THEN x ELSE store[v][k]
  BY <1>6, ElementKept
<1>8. Len(e) \in Nat
  BY <1>4, LenProperties
<1>9. heap' = [heap EXCEPT ![a] = [heap[a] EXCEPT !.elems = f]]
  BY <1>2, <1>3, <1>4
<1>10. store' = [store EXCEPT ![v] = y]
  BY <1>1, Before
<1> HIDE DEF f, y
<1>11. [heap[a] EXCEPT !.elems = f] \in Allocation
  BY <1>4, <1>5 DEF Allocation
<1>12. /\ heap' \in Heaps /\ heap'[a].elems = f /\ heap'[a].blocks = heap[a].blocks
       /\ \A h \in HeapAddr : h # a => heap'[h] = heap[h]
  <2> DEFINE b == [heap[a] EXCEPT !.elems = f]
  <2>1. b.elems = f /\ b.blocks = heap[a].blocks
    BY <1>4 DEF Allocation
  <2> HIDE DEF a, b
  <2>2. heap' = [heap EXCEPT ![a] = b] /\ b \in Allocation
    BY <1>9, <1>11 DEF b
  <2> QED
    BY <1>2, <1>3, <2>1, <2>2 DEF Heaps
<1>13. Untouched(v, heap, heap', variables, variables) /\ Owned(variables, heap')
  BY <1>1, <1>2, <1>3, <1>12 DEF Untouched, Owned
<1>14. Stored(v, heap', bufs, variables, y)
  <2>1. Elements(heap', a, y)
    BY <1>5, <1>6, <1>7, <1>8, <1>12 DEF Elements
  <2> QED
    BY <1>1, <1>3, <1>7, <2>1 DEF Stored
<1>15. y # Lost
  BY <1>7, ArrayFacts
<1>16. /\ AllAlive(stack, heap', bufs, NextBuf, variables)
       /\ AllAlive(params, heap', bufs, NextBuf, variables)
  BY <1>1, <1>2, <1>13, AliveExpired
<1>17. Len(stack') + Len(params') <= prog.words /\ mode' \in {"run", "error"}
  BY Before
<1> QED
  BY <1>1, <1>2, <1>10, <1>12, <1>13, <1>14, <1>15, <1>16, <1>17, ChangeStep

\* k_SET_ARR_ELEM_N2: an index that is accepted is the array's, or the step is
\* astray.
LEMMA SetArrStep ==
    ASSUME SInv, NEW v \in Arrays, NEW i \in Indexes, NEW x \in Elems, SetArr(v, i, x),
           UNCHANGED prog
    PROVE SInv'
<1>1. Running /\ IsHeap(variables[v]) /\ v \in Names /\ i \in Int
  BY DataAssumption DEF SetArr, Names
<1>2. UNCHANGED <<variables, bufs, strbuf1_used, stack, params, mode>>
  BY DEF SetArr
<1>3. store' = [store EXCEPT ![v][i + 1] = x]
  <2>1. CASE i + 1 \in DOMAIN store[v]
    BY <2>1 DEF SetArr
  <2>2. CASE i + 1 \notin DOMAIN store[v]
    <3>1. store' = store
      BY <2>2 DEF SetArr
    <3>2. [store[v] EXCEPT ![i + 1] = x] = store[v]
      <4>1. variables[v] # 0 /\ v \notin Strings
        <5>1. variables[v] \in Addr
          BY <1>1, Before DEF Variables, Addr
        <5> QED
          BY <1>1, <5>1, Addresses, NamesAssumption
      <4>2. Stored(v, heap, bufs, variables, store[v]) /\ store[v] # Lost
        BY <1>1, Before
      <4>3. store[v] \in Seq(Elems \cup {0})
        BY <4>1, <4>2 DEF Stored
      <4>4. i + 1 \in Int /\ x \in Elems \cup {0}
        BY <1>1
      <4> QED
        BY <2>2, <4>3, <4>4, ElementKept
    <3> QED
      BY <1>1, <3>1, <3>2, Before
  <2> QED
    BY <2>1, <2>2
<1>4. CASE Inside(v, i) /\ Reached(i) = i
  <2>1. astray' = FALSE /\ heap' = [heap EXCEPT ![variables[v]].elems[i + 1] = x]
    BY <1>4 DEF SetArr
  <2>2. astray' = astray
    <3>1. astray = FALSE
      BY <1>1, Before
    <3> QED
      BY <2>1, <3>1
  <2>3. i + 1 \in Int
    BY <1>1
  <2> QED
    BY <1>1, <1>2, <1>3, <2>1, <2>2, <2>3, ElementStep
<1>5. CASE ~(Inside(v, i) /\ Reached(i) = i)
  <2>1. astray' = TRUE
    BY <1>5 DEF SetArr
  <2> QED
    BY <2>1, Astray
<1> QED
  BY <1>4, <1>5

\* k_GET_ARR_ELEM_N2, and the index that is not accepted.
LEMMA GetArrStep ==
    ASSUME SInv, NEW v \in Arrays, NEW i \in Indexes, GetArr(v, i) \/ OutOfBounds(v, i),
           UNCHANGED prog
    PROVE SInv'
<1>1. /\ Running /\ UNCHANGED <<variables, heap, bufs, strbuf1_used, stack, params, store>>
      /\ mode' \in {"run", "error"} /\ astray' \in BOOLEAN
  BY Before DEF GetArr, OutOfBounds
<1>2. NextBuf' = NextBuf
  BY <1>1 DEF NextBuf
<1> QED
  BY <1>1, <1>2, Before, WordsStep

\* An array without a DIM.
LEMMA NeverDimensionedStep ==
    ASSUME SInv, NEW v \in Arrays, NeverDimensioned(v), UNCHANGED prog
    PROVE SInv'
<1>1. /\ Running /\ UNCHANGED <<variables, heap, bufs, strbuf1_used, stack, params, store>>
      /\ mode' \in {"run", "error"} /\ astray' \in BOOLEAN
  BY Before DEF NeverDimensioned
<1>2. NextBuf' = NextBuf
  BY <1>1 DEF NextBuf
<1> QED
  BY <1>1, <1>2, Before, WordsStep

\* nb_write_arr.
LEMMA HostWriteStep ==
    ASSUME SInv, NEW v \in Arrays, NEW x \in Elems, HostWrite(v, x), UNCHANGED prog
    PROVE SInv'
<1>1. /\ Running /\ IsHeap(variables[v]) /\ 1 \in Int
      /\ heap' = [heap EXCEPT ![variables[v]].elems[1] = x]
      /\ store' = [store EXCEPT ![v][1] = x]
      /\ UNCHANGED <<variables, bufs, strbuf1_used, stack, params, mode, astray>>
  BY DEF HostWrite
<1> QED
  BY <1>1, ElementStep

-----------------------------------------------------------------------------
\* The host.

\* The word on top is given to an external function (k_PUSH_PARAM_N1), or that
\* of the parameter stack is taken.
LEMMA PushParamStep == ASSUME SInv, PushParam, UNCHANGED prog PROVE SInv'
<1>1. /\ Running /\ Len(stack) >= 1 /\ params' = Append(params, Top(1))
      /\ stack' = Below(1)
      /\ UNCHANGED <<variables, heap, bufs, strbuf1_used, mode, astray, store>>
  BY DEF PushParam
<1>2. Len(stack) - 1 \in 0 .. Len(stack) /\ stack' = SubSeq(stack, 1, Len(stack) - 1)
  BY <1>1, Before DEF Below, Depth
<1>3. /\ stack' \in Seq(Word) /\ Len(stack') = Len(stack) - 1
      /\ AllAlive(stack', heap, bufs, NextBuf, variables)
  <2>1. stack \in Seq(Word) /\ AllAlive(stack, heap, bufs, NextBuf, variables)
    BY <1>1, Before
  <2>2. stack' \in Seq(Word) /\ Len(stack') = Len(stack) - 1
    BY <1>2, <2>1, WordsBelow
  <2>3. AllAlive(stack', heap, bufs, NextBuf, variables)
    BY <1>2, <2>1, AliveBelow
  <2> QED
    BY <2>2, <2>3
<1>4. Top(1) \in Word /\ Alive(Top(1), heap, bufs, NextBuf, variables)
  BY <1>1, Tops
<1>5. /\ params' \in Seq(Word) /\ Len(params') = Len(params) + 1
      /\ AllAlive(params', heap, bufs, NextBuf, variables)
  BY <1>1, <1>4, Before, AliveAppend
<1>6. Len(stack') + Len(params') <= prog.words
  BY <1>1, <1>3, <1>5, Before
<1>7. NextBuf' = NextBuf
  BY <1>1 DEF NextBuf
<1> QED
  BY <1>1, <1>3, <1>5, <1>6, <1>7, Before, WordsStep

\* The last parameter, and those below it.
LEMMA LastParam ==
    ASSUME SInv, Running, params # <<>>
    PROVE /\ SubSeq(params, 1, Len(params) - 1) \in Seq(Word)
          /\ Len(SubSeq(params, 1, Len(params) - 1)) = Len(params) - 1
          /\ AllAlive(SubSeq(params, 1, Len(params) - 1), heap, bufs, NextBuf, variables)
          /\ params[Len(params)] \in Word
          /\ Alive(params[Len(params)], heap, bufs, NextBuf, variables)
<1>1. Len(params) \in Nat /\ Len(params) >= 1
  BY Before, EmptySeq, LenProperties
<1>2. Len(params) - 1 \in 0 .. Len(params) /\ Len(params) \in 1 .. Len(params)
  BY <1>1
<1>3. /\ SubSeq(params, 1, Len(params) - 1) \in Seq(Word)
      /\ Len(SubSeq(params, 1, Len(params) - 1)) = Len(params) - 1
      /\ AllAlive(SubSeq(params, 1, Len(params) - 1), heap, bufs, NextBuf, variables)
  <2>1. params \in Seq(Word) /\ AllAlive(params, heap, bufs, NextBuf, variables)
    BY Before
  <2>2. /\ SubSeq(params, 1, Len(params) - 1) \in Seq(Word)
        /\ Len(SubSeq(params, 1, Len(params) - 1)) = Len(params) - 1
    BY <1>2, <2>1, WordsBelow
  <2>3. AllAlive(SubSeq(params, 1, Len(params) - 1), heap, bufs, NextBuf, variables)
    BY <1>2, <2>1, AliveBelow
  <2> QED
    BY <2>2, <2>3
<1>4. params[Len(params)] \in Word /\ Alive(params[Len(params)], heap, bufs, NextBuf, variables)
  BY <1>2, Before, ElementOfSeq DEF AllAlive
<1> QED
  BY <1>3, <1>4

\* nb_pop_str.
LEMMA HostPopStep == ASSUME SInv, HostPop, UNCHANGED prog PROVE SInv'
<1>1. /\ Running /\ params # <<>> /\ params' = SubSeq(params, 1, Len(params) - 1)
      /\ UNCHANGED <<variables, heap, bufs, strbuf1_used, stack, mode, astray, store>>
  BY DEF HostPop
<1>2. /\ params' \in Seq(Word) /\ Len(params') = Len(params) - 1
      /\ AllAlive(params', heap, bufs, NextBuf, variables)
  BY <1>1, LastParam
<1>3. Len(stack') + Len(params') <= prog.words
  BY <1>1, <1>2, Before
<1>4. NextBuf' = NextBuf
  BY <1>1 DEF NextBuf
<1> QED
  BY <1>1, <1>2, <1>3, <1>4, Before, WordsStep

\* k_PARAMS_N1: the last parameter goes back to the stack, or where there is none
\* the empty text.
LEMMA ParamStep == ASSUME SInv, Param, UNCHANGED prog PROVE SInv'
<1> DEFINE w == [addr |-> 0, meant |-> <<>>, life |-> 1]
<1>1. Running /\ UNCHANGED <<variables, heap, bufs, strbuf1_used, mode, astray, store>>
  BY DEF Param
<1>2. CASE params # <<>>
  <2>1. /\ Running /\ params # <<>> /\ params' = SubSeq(params, 1, Len(params) - 1)
        /\ stack' = Append(stack, params[Len(params)])
        /\ UNCHANGED <<variables, heap, bufs, strbuf1_used, mode, astray, store>>
    BY <1>2 DEF Param
  <2>2. /\ params' \in Seq(Word) /\ Len(params') = Len(params) - 1
        /\ AllAlive(params', heap, bufs, NextBuf, variables)
        /\ params[Len(params)] \in Word
        /\ Alive(params[Len(params)], heap, bufs, NextBuf, variables)
    BY <2>1, LastParam
  <2>3. /\ stack' \in Seq(Word) /\ Len(stack') = Len(stack) + 1
        /\ AllAlive(stack', heap, bufs, NextBuf, variables)
    BY <2>1, <2>2, Before, AliveAppend
  <2>4. Len(stack') + Len(params') <= prog.words
    <3>1. /\ Len(stack) \in Nat /\ Len(params) \in Nat /\ prog.words \in Nat
          /\ Len(stack) + Len(params) <= prog.words
      BY <2>1, Before
    <3> QED
      BY <2>2, <2>3, <3>1
  <2>5. NextBuf' = NextBuf
    BY <2>1 DEF NextBuf
  <2> QED
    BY <2>1, <2>2, <2>3, <2>4, <2>5, Before, WordsStep
<1>3. CASE params = <<>>
  <2>1. RoomForWord /\ stack' = Append(stack, w) /\ UNCHANGED params
    BY <1>3 DEF Param
  <2>2. 0 \in Named /\ 0 \notin Temps /\ 0 \notin HeapAddr /\ <<>> \in Text
    BY Addresses, TextFacts
  <2>3. w \in Word /\ w.addr = 0 /\ w.meant = <<>> /\ w.life = 1
    BY <2>2 DEF Word
  <2> HIDE DEF w
  <2>4. Found(heap, bufs, 0) = <<>>
    BY Finds
  <2>5. NextBuf \in Temps
    BY <1>1, Before
  <2>6. Alive(w, heap, bufs, NextBuf, variables)
    BY <2>2, <2>3, <2>4, <2>5 DEF Alive
  <2> QED
    BY <1>1, <2>1, <2>3, <2>6, PushStep
<1> QED
  BY <1>2, <1>3

\* nb_push_str: the text takes a buffer, as a result of the program would.
LEMMA HostPushStep ==
    ASSUME SInv, NEW t \in HostTexts, HostPush(t), UNCHANGED prog PROVE SInv'
<1> DEFINE w == [addr |-> NextBuf, meant |-> t, life |-> 2]
           bg == [bufs EXCEPT ![NextBuf] = t]
<1>1. /\ Running /\ RoomForWord /\ bufs' = bg /\ strbuf1_used' = ~strbuf1_used
      /\ params' = Append(Aged(params), w) /\ stack' = Aged(stack)
      /\ UNCHANGED <<variables, heap, mode, astray, store>>
  BY DEF HostPush
<1>2. NextBuf \in Temps /\ NextBuf' \in Temps /\ NextBuf' # NextBuf
  BY <1>1, NextBuffers, Before
<1>3. t \in Text /\ t \in Seq(Character)
  BY DataAssumption, TextFacts
<1>4. bg \in Buffers /\ bg[NextBuf] = t
  BY <1>1, <1>2, <1>3, Before DEF Buffers
<1>5. NextBuf \in Addr /\ NextBuf \notin HeapAddr
  BY <1>2, Addresses DEF Addr, Named
<1>6. w \in Word /\ w.addr = NextBuf /\ w.meant = t /\ w.life = 2
  BY <1>3, <1>5 DEF Word, Addr
<1> HIDE DEF w, bg
<1>7. Alive(w, heap, bg, NextBuf', variables)
  <2>1. Found(heap, bg, NextBuf) = t
    BY <1>2, <1>4, FindsBuffer
  <2> QED
    BY <1>2, <1>5, <1>6, <2>1 DEF Alive
<1>8. /\ stack' \in Seq(Word) /\ Len(stack') = Len(stack)
      /\ AllAlive(stack', heap, bg, NextBuf', variables)
  BY <1>1, <1>2, Before, AliveAged DEF bg
<1>9. /\ Aged(params) \in Seq(Word) /\ Len(Aged(params)) = Len(params)
      /\ AllAlive(Aged(params), heap, bg, NextBuf', variables)
  BY <1>1, <1>2, Before, AliveAged DEF bg
<1>10. /\ params' \in Seq(Word) /\ Len(params') = Len(params) + 1
       /\ AllAlive(params', heap, bg, NextBuf', variables)
  BY <1>1, <1>6, <1>7, <1>9, AliveAppend
<1>11. Len(stack') + Len(params') <= prog.words
  BY <1>1, <1>8, <1>10, Before DEF RoomForWord
<1>12. mode' \in {"run", "error"} /\ strbuf1_used' \in BOOLEAN /\ astray' \in BOOLEAN
  BY <1>1, Before
<1> QED
  BY <1>1, <1>4, <1>8, <1>10, <1>11, <1>12, WordsStep

\* The state nb_init and nb_reset leave, whatever is in the buffers.
Fresh == /\ prog \in Programs /\ bufs \in Buffers /\ strbuf1_used \in BOOLEAN
         /\ variables = [v \in Names |-> 0] /\ heap = [h \in HeapAddr |-> Nothing]
         /\ stack = <<>> /\ params = <<>> /\ mode = "run" /\ astray = FALSE
         /\ store = [v \in Names |-> <<>>]

\* Nobody has anything then.
LEMMA Cleared == Fresh => SInv
<1> SUFFICES ASSUME Fresh PROVE SInv
  OBVIOUS
<1>0. /\ prog \in Programs /\ bufs \in Buffers /\ strbuf1_used \in BOOLEAN
      /\ variables = [v \in Names |-> 0] /\ heap = [h \in HeapAddr |-> Nothing]
      /\ stack = <<>> /\ params = <<>> /\ mode = "run" /\ astray = FALSE
      /\ store = [v \in Names |-> <<>>]
  BY DEF Fresh
<1>1. prog.words \in Nat
  BY <1>0, ProgramsAssumption
<1>2. 0 \in Named /\ 0 \notin HeapAddr
  BY Addresses DEF Named
<1>3. Nothing \in Allocation /\ Nothing.blocks = 0
  BY TextFacts, EmptySeq DEF Nothing, Allocation
<1>4. <<>> \in Seq(Word) /\ Len(<<>>) = 0 /\ <<>> \in Text /\ <<>> \in Seq(Elems \cup {0})
  BY EmptySeq, TextFacts
<1>5. TypeOK
  <2>1. \A s \in Strings : store[s] \in Text \cup {Lost}
    BY <1>0, <1>4 DEF Names
  <2>2. /\ variables \in [Names -> Named] /\ heap \in [HeapAddr -> Allocation]
        /\ bufs \in [Temps -> Seq(Character)]
    BY <1>0, <1>2, <1>3 DEF Buffers
  <2>3. Len(stack) + Len(params) <= prog.words
    BY <1>0, <1>1, <1>4
  <2> QED
    BY <1>0, <1>4, <2>1, <2>2, <2>3 DEF TypeOK
<1>6. Owned(variables, heap)
  BY <1>0, <1>2, <1>3 DEF Owned
<1>7. \A hp, bf, nb, vs : AllAlive(<<>>, hp, bf, nb, vs)
  BY <1>4 DEF AllAlive
<1>8. ASSUME NEW v \in Names PROVE Stored(v, heap, bufs, variables, store[v])
  <2>1. Found(heap, bufs, 0) = <<>>
    BY Finds
  <2>2. variables[v] = 0 /\ store[v] = <<>>
    BY <1>0
  <2> QED
    BY <1>4, <2>1, <2>2 DEF Stored
<1>9. \A a \in Arrays : store[a] # Lost
  <2>1. \A a \in Arrays : store[a] = <<>>
    BY <1>0 DEF Names
  <2> QED
    BY <2>1, <1>4, ArrayFacts
<1> QED
  BY <1>0, <1>5, <1>6, <1>7, <1>8, <1>9 DEF SInv

\* nb_reset; it leaves the buffers and the flag as they are.
LEMMA ResetStep == SInv /\ Reset /\ UNCHANGED prog => SInv'
<1>1. SInv /\ Reset /\ UNCHANGED prog => Fresh'
  <2> SUFFICES ASSUME SInv, Reset, UNCHANGED prog PROVE Fresh'
    OBVIOUS
  <2>1. prog' \in Programs /\ bufs' \in Buffers /\ strbuf1_used' \in BOOLEAN
    BY DEF SInv, TypeOK, Reset, Buffers
  <2>2. /\ variables' = [v \in Names |-> 0] /\ heap' = [h \in HeapAddr |-> Nothing]
        /\ stack' = <<>> /\ params' = <<>> /\ mode' = "run" /\ astray' = FALSE
        /\ store' = [v \in Names |-> <<>>]
    BY DEF Reset, SInv
  <2> QED
    BY <2>1, <2>2 DEF Fresh
<1> QED
  BY <1>1, Cleared, PTL

-----------------------------------------------------------------------------
\* Every instruction, every call of the host and nb_reset preserve the invariant.
LEMMA StepHolds == SInv /\ [Next]_vars => SInv'
<1> SUFFICES ASSUME SInv, [Next]_vars PROVE SInv'
  OBVIOUS
<1>1. CASE UNCHANGED vars
  <2>1. UNCHANGED <<prog, variables, heap, bufs, strbuf1_used, stack, params, mode, astray, store>>
    BY <1>1 DEF vars
  <2>2. NextBuf' = NextBuf
    BY <2>1 DEF NextBuf
  <2>3. TypeOK'
    BY <2>1 DEF SInv, TypeOK
  <2> QED
    BY <2>1, <2>2, <2>3 DEF SInv
<1>2. ASSUME Operand, UNCHANGED prog PROVE SInv'
  <2>1. CASE \E a \in DOMAIN Literals : PushStr(a)
    BY <1>2, <2>1, PushStrStep
  <2>2. CASE \E s \in Strings \cap prog.names : PushVar(s)
    BY <1>2, <2>2, PushVarStep
  <2>3. CASE AddStr
    BY <1>2, <2>3, AddStrStep
  <2>4. ASSUME NEW n \in Counts, LeftStr(n) \/ RightStr(n) \/ AllocStr(n) PROVE SInv'
    BY <1>2, <2>4, LeftStrStep, RightStrStep, AllocStrStep
  <2>5. ASSUME NEW n \in Counts, NEW m \in Counts, MidStr(n, m) PROVE SInv'
    BY <1>2, <2>5, MidStrStep
  <2>6. CASE \E t \in Numerals : NumberStr(t)
    BY <1>2, <2>6, NumberStrStep
  <2>7. CASE \E k \in 1 .. 2 : Consume(k)
    BY <1>2, <2>7, ConsumeStep
  <2>8. CASE Instr
    BY <1>2, <2>8, InstrStep
  <2>9. CASE Greater
    BY <1>2, <2>9, GreaterStep
  <2> QED
    BY <1>2, <2>1, <2>2, <2>3, <2>4, <2>5, <2>6, <2>7, <2>8, <2>9 DEF Operand
<1>3. ASSUME Variable, UNCHANGED prog PROVE SInv'
  <2>1. ASSUME NEW s \in Strings,
               AssignStatic(s) \/ AssignInPlace(s) \/ AssignCopy(s) \/ AssignRefused(s)
        PROVE SInv'
    BY <1>3, <2>1, AssignStaticStep, AssignInPlaceStep, AssignCopyStep, AssignRefusedStep
  <2>2. ASSUME NEW v \in prog.names, Erase(v) PROVE SInv'
    BY <1>3, <2>2, EraseStep
  <2> QED
    BY <1>3, <2>1, <2>2 DEF Variable
<1>4. ASSUME Array, UNCHANGED prog PROVE SInv'
  <2>1. PICK a \in Arrays : \/ \E n \in Dims : Dim(a, n)
                            \/ DimRefused(a)
                            \/ \E i \in Indexes : \/ \E x \in Elems : SetArr(a, i, x)
                                                  \/ GetArr(a, i)
                                                  \/ OutOfBounds(a, i)
                            \/ NeverDimensioned(a)
    BY <1>4 DEF Array
  <2>2. CASE \E n \in Dims : Dim(a, n)
    BY <1>4, <2>2, DimStep
  <2>3. CASE DimRefused(a)
    BY <1>4, <2>3, DimRefusedStep
  <2>4. ASSUME NEW i \in Indexes, NEW x \in Elems, SetArr(a, i, x) PROVE SInv'
    BY <1>4, <2>4, SetArrStep
  <2>5. ASSUME NEW i \in Indexes, GetArr(a, i) \/ OutOfBounds(a, i) PROVE SInv'
    BY <1>4, <2>5, GetArrStep
  <2>6. CASE NeverDimensioned(a)
    BY <1>4, <2>6, NeverDimensionedStep
  <2> QED
    BY <2>1, <2>2, <2>3, <2>4, <2>5, <2>6
<1>5. ASSUME Host, UNCHANGED prog PROVE SInv'
  <2>1. CASE PushParam
    BY <1>5, <2>1, PushParamStep
  <2>2. CASE HostPop
    BY <1>5, <2>2, HostPopStep
  <2>3. CASE \E t \in HostTexts : HostPush(t)
    BY <1>5, <2>3, HostPushStep
  <2>4. CASE Param
    BY <1>5, <2>4, ParamStep
  <2>5. ASSUME NEW a \in Arrays, NEW x \in Elems, HostWrite(a, x) PROVE SInv'
    BY <1>5, <2>5, HostWriteStep
  <2> QED
    BY <1>5, <2>1, <2>2, <2>3, <2>4, <2>5 DEF Host
<1>6. ASSUME Reset, UNCHANGED prog PROVE SInv'
  BY <1>6, ResetStep
<1> QED
  BY <1>1, <1>2, <1>3, <1>4, <1>5, <1>6 DEF Next

\* It holds of every behaviour.
THEOREM SInvHolds == Spec => []SInv
<1>1. Init => SInv
  <2> SUFFICES ASSUME Init PROVE Fresh
    BY Cleared
  <2>1. <<>> \in Seq(Character)
    BY EmptySeq
  <2> QED
    BY <2>1 DEF Init, Fresh, Buffers
<1> QED
  BY <1>1, StepHolds, PTL DEF Spec

-----------------------------------------------------------------------------
\* The types of the machine (t_VM) hold in every state of every program.
THEOREM TypeCorrect == Spec => []TypeOK
<1>1. SInv => TypeOK
  BY DEF SInv
<1> QED
  BY <1>1, SInvHolds, PTL

\* Every allocation has exactly one variable that names it, for any number of
\* variables and any size of the heap: realloc_string, DIM and ERASE release what
\* they replace, and nothing else, also when the heap refuses a text.  This ends
\* with the first step that goes astray: a DIM whose size does not fit 16 bits,
\* an index that is accepted but does not lead to the element it names, and the
\* string functions that write or read beside their texts.
THEOREM AllocationsOwned == Spec => []NamesOwnAllocations
<1>1. SInv => NamesOwnAllocations
  <2> SUFFICES ASSUME SInv, mode = "run", ~astray PROVE NamesOwnAllocations
    BY DEF NamesOwnAllocations
  <2>1. Owned(variables, heap) /\ variables \in [Names -> Named]
    BY DEF SInv, TypeOK
  <2>2. \A v \in Names : IsHeap(variables[v]) <=> variables[v] \in HeapAddr
    BY <2>1, Addresses DEF Addr
  <2> QED
    BY <2>1, <2>2 DEF NamesOwnAllocations, Owned
<1> QED
  BY <1>1, SInvHolds, PTL

\* A variable reads back what was last stored in it, for all texts and for all
\* arrays that the heap can hold, whatever the buffers and the heap went through
\* since, until a step goes astray: a DIM for which the heap is asked too little
\* wipes out what others stored, and so do elements written beside an array.
THEOREM StoredIsRead == Spec => []ReadsBack
<1>1. SInv => ReadsBack
  <2> SUFFICES ASSUME SInv, ~astray, NEW v \in Names, store[v] # Lost
               PROVE Reading(v) = store[v]
    BY DEF ReadsBack
  <2>1. /\ Stored(v, heap, bufs, variables, store[v]) /\ variables[v] \in Named
        /\ heap \in Heaps
    BY DEF SInv, TypeOK, Heaps
  <2>2. CASE v \in Strings
    <3>1. Found(heap, bufs, variables[v]) = store[v]
      BY <2>1, <2>2 DEF Stored
    <3>2. Read(variables[v]) = Found(heap, bufs, variables[v])
      BY DEF Read, Found
    <3> QED
      BY <2>2, <3>1, <3>2 DEF Reading
  <2>3. CASE v \notin Strings
    <3>1. v \in Arrays
      BY <2>3 DEF Names
    <3>2. /\ store[v] \in Seq(Elems \cup {0})
          /\ \/ variables[v] = 0 /\ store[v] = <<>>
             \/ variables[v] \in HeapAddr /\ Elements(heap, variables[v], store[v])
      BY <2>1, <3>1 DEF Stored
    <3>3. CASE variables[v] = 0 /\ store[v] = <<>>
      BY <2>3, <3>3 DEF Reading
    <3>4. CASE variables[v] \in HeapAddr /\ Elements(heap, variables[v], store[v])
      <4> DEFINE e == heap[variables[v]].elems
                 x == store[v]
      <4>1. variables[v] # 0
        BY <3>4, Addresses
      <4>2. e \in Seq(Element) /\ Len(e) \in Nat /\ Len(x) \in Nat
        BY <2>1, <3>2, <3>4, LenProperties DEF Heaps, Allocation
      <4>3. x \in Seq(Element)
        <5>1. Elems \cup {0} \subseteq Element
          BY DEF Element
        <5> QED
          BY <3>2, <5>1
      <4>4. Len(x) <= Len(e) /\ \A k \in 1 .. Len(x) : e[k] = x[k]
        BY <3>4 DEF Elements
      <4> HIDE DEF e, x
      <4>5. \A k \in 1 .. Len(x) : e[k] \in Element
        BY <4>2, <4>4, ElementOfSeq
      <4>6. /\ SubSeq(e, 1, Len(x)) \in Seq(Element) /\ Len(SubSeq(e, 1, Len(x))) = Len(x)
            /\ \A k \in 1 .. Len(x) : SubSeq(e, 1, Len(x))[k] = e[k]
        BY <4>2, <4>5, SubSeqProperties
      <4>7. SubSeq(e, 1, Len(x)) = x
        BY <4>3, <4>4, <4>6, SeqEqual
      <4> QED
        BY <2>3, <4>1, <4>7 DEF Reading, e, x
    <3> QED
      BY <3>2, <3>3, <3>4
  <2> QED
    BY <2>2, <2>3
<1> QED
  BY <1>1, SInvHolds, PTL

\* An operand is what it was pushed for as long as no second text is made after
\* it and its variable is not assigned, for stacks of any depth.
THEOREM OperandsLive == Spec => []OperandsKept
<1>1. SInv => OperandsKept
  <2> SUFFICES ASSUME SInv, ~astray PROVE OperandsKept
    BY DEF OperandsKept
  <2>1. /\ AllAlive(stack, heap, bufs, NextBuf, variables)
        /\ AllAlive(params, heap, bufs, NextBuf, variables)
        /\ DOMAIN stack = 1 .. Len(stack) /\ DOMAIN params = 1 .. Len(params)
    BY LenProperties DEF SInv, TypeOK
  <2>2. \A a : Read(a) = Found(heap, bufs, a)
    BY DEF Read, Found
  <2> QED
    BY <2>1, <2>2 DEF OperandsKept, AllAlive, Alive
<1> QED
  BY <1>1, SInvHolds, PTL
=============================================================================
