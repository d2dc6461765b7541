--------------------------- MODULE NbFramesProofs ---------------------------
(***************************************************************************)
(* What holds of the interpreter when it runs compiled code, whose places  *)
(* are known (NbFrames): the ring of untyped words does the work of the    *)
(* typed stack.                                                            *)
(***************************************************************************)
EXTENDS NbFrames, NbVMProofs, SequenceTheorems, FiniteSetTheorems

\* A sequence without its last k elements.
LEMMA Shorter == ASSUME NEW S, NEW f \in Seq(S), NEW k \in 0 .. Len(f)
                 PROVE /\ Without(f, k) \in Seq(S) /\ Len(Without(f, k)) = Len(f) - k
                       /\ \A j \in 1 .. Len(f) - k : Without(f, k)[j] = f[j]
<1> DEFINE r == SubSeq(f, 1, Len(f) - k)
           n == Len(f) - k
<1>1. n \in Nat /\ \A j \in 1 .. n : f[j] \in S
  OBVIOUS
<1>2. r \in Seq(S) /\ Len(r) = (IF 1 <= n THEN n - 1 + 1 ELSE 0) /\ \A j \in 1 .. n - 1 + 1 : r[j] = f[1 + j - 1]
  BY <1>1, SubSeqProperties
<1>3. r = Without(f, k)
  BY DEF Without
<1> HIDE DEF r, n
<1>4. Len(r) = n /\ \A j \in 1 .. n : r[j] = f[j]
  BY <1>1, <1>2
<1> QED
  BY <1>2, <1>3, <1>4 DEF n

\* One element more.
LEMMA Longer == ASSUME NEW S, NEW f \in Seq(S), NEW x \in S
                PROVE /\ Append(f, x) \in Seq(S) /\ Len(Append(f, x)) = Len(f) + 1
                      /\ \A j \in 1 .. Len(f) : Append(f, x)[j] = f[j]
                      /\ Append(f, x)[Len(f) + 1] = x
  OBVIOUS

\* Two sequences with the same elements.
LEMMA SameElements == ASSUME NEW S, NEW f \in Seq(S), NEW g \in Seq(S), Len(f) = Len(g),
                             \A j \in 1 .. Len(f) : f[j] = g[j]
                      PROVE f = g
  BY SeqEqual

-----------------------------------------------------------------------------
\* A stack of items; the elements of a sequence are read as far as m.
Alike(f, g, m) == /\ m \in 0 .. Len(f) /\ m <= Len(g)
                  /\ \A j \in 1 .. m : f[j] = g[j]

\* Frames that wait depend on what is below them only.
LEMMA StillStands ==
    ASSUME NEW S, NEW items \in Seq(S), NEW items2 \in Seq(S), NEW a, NEW a2, NEW m \in Nat,
           Alike(items, items2, m), NEW n \in 1 .. m, NEW s, s.frame \in Seq(Kinds), Stands(items, a, n, s)
    PROVE  Stands(items2, a2, n, s)
<1> DEFINE F == Len(s.frame)
           base == Base(n, s)
<1>1. /\ s.at = AddressAt(items, a, n) /\ base >= 0
      /\ \A j \in 1 .. F : items[base + j].kind = s.frame[j]
      /\ s.level = IF base = 0 THEN "main" ELSE "sub"
      /\ base > 0 => items[base].kind = ReturnTo
  BY Zenon DEF Stands
<1>a. base = n - 1 - F
  BY DEF Base
<1>2. F \in Nat /\ Len(items) \in Nat /\ Len(items2) \in Nat
  OBVIOUS
<1> HIDE DEF F
<1>3. n <= Len(items) /\ n <= Len(items2)
  BY <1>2 DEF Alike
<1>4. AddressAt(items2, a2, n) = AddressAt(items, a, n)
  BY <1>2, <1>3 DEF AddressAt, Alike
<1>5. (\A j \in 1 .. F : base + j \in 1 .. m) /\ (base > 0 => base \in 1 .. m)
  BY <1>1, <1>2, <1>a
<1> HIDE DEF base
<1>6. \A j \in 1 .. m : items2[j] = items[j]
  BY DEF Alike
<1>7. /\ s.at = AddressAt(items2, a2, n) /\ base >= 0
      /\ \A j \in 1 .. F : items2[base + j].kind = s.frame[j]
      /\ s.level = IF base = 0 THEN "main" ELSE "sub"
      /\ base > 0 => items2[base].kind = ReturnTo
  BY <1>1, <1>4, <1>5, <1>6
<1> QED
  BY <1>7 DEF Stands, base, F

\* After a step all frames wait that waited, if no return address came in.
LEMMA StillWaiting ==
    ASSUME NEW S, NEW items \in Seq(S), NEW items2 \in Seq(S), NEW a, NEW a2, NEW m \in Nat,
           Alike(items, items2, m), NEW P, P \subseteq AllPlaces,
           \A n \in m + 1 .. Len(items2) : items2[n].kind # ReturnTo,
           Waiting(items, a, P)
    PROVE  Waiting(items2, a2, P)
<1> SUFFICES ASSUME NEW n \in Returns(items2) PROVE \E s \in P : Stands(items2, a2, n, s)
  BY DEF Waiting
<1>1. n \in 1 .. Len(items2) /\ items2[n].kind = ReturnTo
  BY DEF Returns
<1>2. n \in 1 .. m
  BY <1>1
<1>3. items2[n] = items[n] /\ n \in 1 .. Len(items)
  BY <1>2 DEF Alike
<1>4. n \in Returns(items)
  BY <1>1, <1>3 DEF Returns
<1>5. PICK s \in P : Stands(items, a, n, s)
  BY <1>4 DEF Waiting
<1>6. s.frame \in Seq(Kinds)
  BY DEF AllPlaces
<1> QED
  BY <1>2, <1>5, <1>6, StillStands

\* A call: the frame that called waits for its return.
LEMMA CallerWaits ==
    ASSUME NEW S, NEW items \in Seq(S), NEW items2 \in Seq(S), NEW a, NEW a2, NEW m \in Nat,
           Alike(items, items2, m), NEW P, P \subseteq AllPlaces, Len(items2) = m + 1,
           \E s \in P : Stands(items2, a2, m + 1, s),
           Waiting(items, a, P)
    PROVE  Waiting(items2, a2, P)
<1> SUFFICES ASSUME NEW n \in Returns(items2), n # m + 1 PROVE \E s \in P : Stands(items2, a2, n, s)
  BY DEF Waiting
<1>1. n \in 1 .. Len(items2) /\ items2[n].kind = ReturnTo
  BY DEF Returns
<1>2. n \in 1 .. m
  BY <1>1
<1>3. items2[n] = items[n] /\ n \in 1 .. Len(items)
  BY <1>2 DEF Alike
<1>4. n \in Returns(items)
  BY <1>1, <1>3 DEF Returns
<1>5. PICK s \in P : Stands(items, a, n, s)
  BY <1>4 DEF Waiting
<1>6. s.frame \in Seq(Kinds)
  BY DEF AllPlaces
<1> QED
  BY <1>2, <1>5, <1>6, StillStands

\* The running frame: k words are dropped from it and one may be pushed; then it
\* runs on, or it waits below a return address.
LEMMA FrameMoves ==
    ASSUME NEW S, NEW items \in Seq(S), NEW items2 \in Seq(S), NEW a, NEW a2, NEW s, NEW k \in Nat, NEW t, NEW n2,
           Stands(items, a, Len(items) + 1, s), s.frame \in Seq(Kinds), k <= Len(s.frame),
           t.level = s.level, t.frame \in Seq(Kinds), t.at = AddressAt(items2, a2, n2),
           Base(n2, t) = Len(items) - Len(s.frame), n2 \in Nat,
           Alike(items, items2, Len(items) - k), Len(t.frame) >= Len(s.frame) - k,
           \A j \in 1 .. Len(s.frame) - k : t.frame[j] = s.frame[j],
           \A j \in Len(s.frame) - k + 1 .. Len(t.frame) :
               items2[Len(items) - Len(s.frame) + j].kind = t.frame[j]
    PROVE  Stands(items2, a2, n2, t)
<1> DEFINE L == Len(items)
           F == Len(s.frame)
           T == Len(t.frame)
           base == Base(L + 1, s)
           m == L - k
<1>1. L \in Nat /\ F \in Nat /\ T \in Nat
  OBVIOUS
<1>2. k <= F /\ Base(n2, t) = L - F /\ T >= F - k
  OBVIOUS
<1>3. \A j \in F - k + 1 .. T : items2[L - F + j].kind = t.frame[j]
  OBVIOUS
<1>4. \A j \in 1 .. F - k : t.frame[j] = s.frame[j]
  OBVIOUS
<1>5. \A j \in 1 .. m : items[j] = items2[j]
  BY DEF Alike
<1>6. /\ base >= 0
      /\ \A j \in 1 .. F : items[base + j].kind = s.frame[j]
      /\ s.level = IF base = 0 THEN "main" ELSE "sub"
      /\ base > 0 => items[base].kind = ReturnTo
  BY Zenon DEF Stands
<1>7. base = L + 1 - 1 - F
  BY DEF Base
<1> HIDE DEF L, F, T, base
<1>8. base = L - F /\ base \in Int /\ Base(n2, t) = base
  <2>1. L + 1 - 1 - F = L - F /\ L - F \in Int
    BY <1>1
  <2> QED
    BY <1>2, <1>7, <2>1, Zenon
<1>9. ASSUME NEW j \in 1 .. T PROVE items2[base + j].kind = t.frame[j]
  <2>1. CASE j <= F - k
    <3>1. base >= 0
      BY <1>6
    <3>2. j \in 1 .. F - k /\ base + j \in 1 .. m /\ j \in 1 .. F
      BY <1>1, <1>2, <1>8, <2>1, <3>1
    <3>3. items2[base + j] = items[base + j] /\ items[base + j].kind = s.frame[j] /\ t.frame[j] = s.frame[j]
      <4>1. \A h \in 1 .. F : items[base + h].kind = s.frame[h]
        BY <1>6
      <4> QED
        BY <1>4, <1>5, <3>2, <4>1
    <3> QED
      BY <3>3
  <2>2. CASE j > F - k
    <3>1. j \in F - k + 1 .. T /\ L - F = base
      BY <1>1, <1>8, <2>2
    <3>2. \A h \in F - k + 1 .. T : items2[base + h].kind = t.frame[h]
      BY <1>3, <3>1
    <3> QED
      BY <3>1, <3>2
  <2>3. j <= F - k \/ j > F - k
    BY <1>1
  <2> QED
    BY <2>1, <2>2, <2>3, Zenon
<1>10. base > 0 => items2[base].kind = ReturnTo
  <2>1. ASSUME base > 0 PROVE base \in 1 .. m
    <3>1. L - F <= L - k /\ L - k \in Int
      BY <1>1, <1>2
    <3>2. base \in Int /\ base <= m /\ m \in Int
      BY <1>8, <3>1
    <3> HIDE DEF m
    <3> QED
      BY <2>1, <3>2
  <2> QED
    BY <1>5, <1>6, <2>1
<1>11. t.level = IF base = 0 THEN "main" ELSE "sub"
  BY <1>6
<1>12. \A j \in 1 .. Len(t.frame) : items2[base + j].kind = t.frame[j]
  BY <1>9 DEF T
<1> QED
  BY <1>6, <1>8, <1>10, <1>11, <1>12, Zenon DEF Stands

\* A routine at its end: a return address is on top.
LEMMA ReturnOnTop ==
    ASSUME NEW S, NEW items \in Seq(S), NEW a, NEW s, s.frame = <<>>, s.level = "sub",
           Stands(items, a, Len(items) + 1, s)
    PROVE  Len(items) >= 1 /\ Len(items) \in Returns(items)
<1> DEFINE L == Len(items)
           base == Base(L + 1, s)
<1>1. L \in Nat /\ Len(s.frame) = 0
  OBVIOUS
<1>2. s.level = (IF base = 0 THEN "main" ELSE "sub") /\ base >= 0 /\ (base > 0 => items[base].kind = ReturnTo)
  BY Zenon DEF Stands
<1>3. base = L + 1 - 1 - Len(s.frame)
  BY DEF Base
<1> HIDE DEF base, L
<1>4. base = L
  BY <1>1, <1>3
<1>5. L >= 1 /\ items[L].kind = ReturnTo
  BY <1>1, <1>2, <1>4
<1> QED
  BY <1>1, <1>5 DEF L, Returns

\* The frame that waited runs again.
LEMMA FrameRunsAgain ==
    ASSUME NEW S, NEW items \in Seq(S), NEW a, NEW t, t.frame \in Seq(Kinds), Len(items) >= 1,
           Stands(items, a, Len(items), t)
    PROVE  /\ t.at = items[Len(items)].v
           /\ \A items2 \in Seq(S) : Len(items2) = Len(items) - 1 /\ Alike(items, items2, Len(items) - 1)
                => Stands(items2, t.at, Len(items2) + 1, t)
<1> DEFINE L == Len(items)
           F == Len(t.frame)
           base == Base(L, t)
<1>1. L \in Nat /\ F \in Nat /\ L >= 1
  OBVIOUS
<1>2. /\ t.at = AddressAt(items, a, L) /\ base >= 0
      /\ \A j \in 1 .. F : items[base + j].kind = t.frame[j]
      /\ t.level = IF base = 0 THEN "main" ELSE "sub"
      /\ base > 0 => items[base].kind = ReturnTo
  BY Zenon DEF Stands
<1>3. base = L - 1 - F
  BY DEF Base
<1>4. t.at = items[L].v
  BY <1>1, <1>2 DEF AddressAt
<1>5. ASSUME NEW items2 \in Seq(S), Len(items2) = L - 1, Alike(items, items2, L - 1)
      PROVE  Stands(items2, t.at, Len(items2) + 1, t)
  <2>1. Base(Len(items2) + 1, t) = base
    <3>1. Base(Len(items2) + 1, t) = Len(items2) + 1 - 1 - F
      BY DEF Base
    <3> QED
      BY <1>1, <1>3, <1>5, <3>1
  <2>2. \A j \in 1 .. L - 1 : items[j] = items2[j]
    BY <1>5 DEF Alike
  <2>3. AddressAt(items2, t.at, Len(items2) + 1) = t.at
    BY DEF AddressAt
  <2> HIDE DEF L, F, base
  <2>4. (\A j \in 1 .. F : base + j \in 1 .. L - 1) /\ (base > 0 => base \in 1 .. L - 1)
    BY <1>1, <1>2, <1>3
  <2>5. (\A j \in 1 .. F : items2[base + j].kind = t.frame[j]) /\ (base > 0 => items2[base].kind = ReturnTo)
    BY <1>2, <2>2, <2>4
  <2> QED
    BY <1>2, <2>1, <2>3, <2>5, Zenon DEF Stands, F
<1> QED
  BY <1>4, <1>5 DEF L

-----------------------------------------------------------------------------
\* The words as items: as long as they fit into the ring, they have a slot each.
AllKinds == Kinds \cup {ReturnTo}
Items == [kind : AllKinds, v : Num]
Counted == sp = Len(kinds) /\ kinds \in Seq(AllKinds)
Fits == Len(kinds) <= StackSize

\* The size of the ring is a number.
LEMMA RingSize == StackSize \in Nat /\ StackSize \in Word16
<1>1. StackSize \in Word16
  BY StackAssumption
<1> QED
  BY <1>1, CountersAreNumbers

\* Their slot is their number.
LEMMA InRing == ASSUME NEW n \in Nat, n < StackSize PROVE Slot(n) = n
<1>1. StackSize \in Nat
  BY RingSize
<1> QED
  BY <1>1 DEF Slot

\* Small numbers do not wrap.
LEMMA SmallWord == ASSUME NEW m \in Word16, NEW n \in Nat, n <= m PROVE n \in Word16 /\ Wrap16(n) = n
<1>1. PICK w \in Nat : w >= 1 /\ Word16 = 0 .. w - 1
  BY SixteenBits
<1>2. n \in Word16
  BY <1>1
<1> QED
  BY <1>2, NoWrap

\* What the items are, of any stack,
ItemsOf(ks, st) == [j \in 1 .. Len(ks) |-> [kind |-> ks[j], v |-> st[Slot(j - 1)]]]

\* their number and their types.
LEMMA AnyItems ==
    ASSUME NEW ks \in Seq(AllKinds), NEW st \in [0 .. StackSize - 1 -> Num], Len(ks) <= StackSize
    PROVE  /\ ItemsOf(ks, st) \in Seq(Items) /\ Len(ItemsOf(ks, st)) = Len(ks) /\ Len(ks) \in Nat
           /\ \A j \in 1 .. Len(ks) : ItemsOf(ks, st)[j] = [kind |-> ks[j], v |-> st[j - 1]]
<1> DEFINE L == Len(ks)
           f == [j \in 1 .. L |-> [kind |-> ks[j], v |-> st[Slot(j - 1)]]]
<1>1. L \in Nat /\ L <= StackSize /\ StackSize \in Nat /\ \A j \in 1 .. L : ks[j] \in AllKinds
  BY RingSize
<1>2. ItemsOf(ks, st) = f
  BY DEF ItemsOf
<1> HIDE DEF L
<1>3. \A j \in 1 .. L : Slot(j - 1) = j - 1 /\ j - 1 \in 0 .. StackSize - 1
  BY <1>1, InRing
<1>4. \A j \in 1 .. L : st[j - 1] \in Num
  BY <1>3
<1>5. \A j \in 1 .. L : f[j] = [kind |-> ks[j], v |-> st[j - 1]]
  BY <1>3
<1>6. \A j \in 1 .. L : f[j] \in Items
  BY <1>1, <1>4, <1>5 DEF Items
<1>7. f \in [1 .. L -> Items]
  BY <1>6
<1> HIDE DEF f
<1>8. f \in Seq(Items) /\ Len(f) = L
  BY <1>1, <1>7, IsASeq, LenProperties
<1> QED
  BY <1>1, <1>2, <1>5, <1>8 DEF L

\* and of the machine's.
LEMMA TheItems == ASSUME VType, Counted, Fits
                  PROVE /\ TypedItems \in Seq(Items) /\ Len(TypedItems) = Len(kinds)
                        /\ Len(kinds) \in Nat /\ sp = Len(kinds)
                        /\ \A j \in 1 .. Len(kinds) : TypedItems[j] = [kind |-> kinds[j], v |-> stack[j - 1]]
<1>1. TypedItems = ItemsOf(kinds, stack)
  BY DEF TypedItems, ItemsOf
<1> QED
  BY <1>1, AnyItems DEF VType, StackTyped, Counted, Fits

\* After a step, too.
LEMMA TheNextItems == ASSUME VType', Counted', Fits'
                  PROVE /\ TypedItems' \in Seq(Items) /\ Len(TypedItems') = Len(kinds')
                        /\ \A j \in 1 .. Len(kinds') : TypedItems'[j] = [kind |-> kinds'[j], v |-> stack'[j - 1]]
<1>1. TypedItems' = ItemsOf(kinds', stack')
  BY DEF TypedItems, ItemsOf
<1>2. kinds' \in Seq(AllKinds) /\ stack' \in [0 .. StackSize - 1 -> Num] /\ Len(kinds') <= StackSize
  BY DEF VType, StackTyped, Counted, Fits
<1> QED
  BY <1>1, <1>2, AnyItems

\* A word of the stack is the item at its place.
LEMMA WordIsItem == ASSUME VType, Counted, Fits, NEW k \in 1 .. Len(kinds)
                    PROVE Word(k) = TypedItems[Len(TypedItems) - k + 1].v
<1> DEFINE L == Len(kinds)
<1>1. L \in Nat /\ Len(TypedItems) = L /\ sp = L /\ L <= StackSize /\ StackSize \in Nat
      /\ \A j \in 1 .. L : TypedItems[j] = [kind |-> kinds[j], v |-> stack[j - 1]]
  BY TheItems, RingSize DEF Fits
<1>2. k \in 1 .. L
  OBVIOUS
<1> HIDE DEF L
<1>3. L - k + 1 \in 1 .. L /\ L - k + 1 - 1 = L - k /\ L - k \in Nat /\ L - k < StackSize
  BY <1>1, <1>2
<1>4. Word(k) = stack[L - k]
  BY <1>1, <1>3, InRing DEF Word
<1>5. TypedItems[L - k + 1] = [kind |-> kinds[L - k + 1], v |-> stack[L - k]]
  BY <1>1, <1>3
<1> QED
  BY <1>1, <1>4, <1>5

\* What is popped leaves the items below.
LEMMA PoppedItems == ASSUME VType, VType', Counted, Fits, NEW k \in 0 .. Len(kinds), Pop(k)
                     PROVE Counted' /\ Fits' /\ TypedItems' = Without(TypedItems, k)
<1> DEFINE L == Len(kinds)
<1>1. L \in Nat /\ Len(TypedItems) = L /\ sp = L /\ L <= StackSize /\ StackSize \in Nat /\ sp \in Word16
      /\ kinds \in Seq(AllKinds) /\ TypedItems \in Seq(Items) /\ k \in 0 .. L
      /\ \A j \in 1 .. L : TypedItems[j] = [kind |-> kinds[j], v |-> stack[j - 1]]
  BY TheItems, RingSize DEF Fits, Counted, VType, CountersTyped
<1>2. kinds' = Without(kinds, k) /\ stack' = stack /\ sp' = Wrap16(L - k)
  BY <1>1 DEF Pop, Below, Without
<1>3. kinds' \in Seq(AllKinds) /\ Len(kinds') = L - k /\ \A j \in 1 .. L - k : kinds'[j] = kinds[j]
  BY <1>1, <1>2, Shorter
<1>4. sp' = L - k
  <2> HIDE DEF L
  <2>1. L - k \in Nat /\ L - k <= L
    BY <1>1
  <2> QED
    BY <1>1, <1>2, <2>1, SmallWord
<1>5. Counted' /\ Fits'
  <2>1. L - k <= StackSize
    BY <1>1
  <2> QED
    BY <1>3, <1>4, <2>1 DEF Counted, Fits
<1>6. /\ TypedItems' \in Seq(Items) /\ Len(TypedItems') = L - k
      /\ \A j \in 1 .. L - k : TypedItems'[j] = [kind |-> kinds'[j], v |-> stack'[j - 1]]
  <2>1. /\ TypedItems' \in Seq(Items) /\ Len(TypedItems') = Len(kinds')
        /\ \A j \in 1 .. Len(kinds') : TypedItems'[j] = [kind |-> kinds'[j], v |-> stack'[j - 1]]
    BY <1>5, TheNextItems
  <2> QED
    BY <1>3, <2>1
<1>7. Without(TypedItems, k) \in Seq(Items) /\ Len(Without(TypedItems, k)) = L - k
      /\ \A j \in 1 .. L - k : Without(TypedItems, k)[j] = TypedItems[j]
  <2>1. TypedItems \in Seq(Items) /\ k \in 0 .. Len(TypedItems) /\ Len(TypedItems) = L
    BY <1>1
  <2> HIDE DEF L
  <2> QED
    BY <2>1, Shorter
<1>8. \A j \in 1 .. L - k : TypedItems'[j] = TypedItems[j]
  <2> SUFFICES ASSUME NEW j \in 1 .. L - k PROVE TypedItems'[j] = TypedItems[j]
    OBVIOUS
  <2>1. j \in 1 .. L
    BY <1>1
  <2> QED
    BY <1>1, <1>2, <1>3, <1>6, <2>1
<1> QED
  BY <1>5, <1>6, <1>7, <1>8, SeqEqual

\* What is pushed comes on top of them.
LEMMA PushedItems == ASSUME VType, VType', Counted, Fits, Fits', NEW k \in 0 .. Len(kinds),
                            NEW n \in Num, NEW kind \in AllKinds, PopPush(k, n, kind)
                     PROVE Counted' /\ TypedItems' = Append(Without(TypedItems, k), [kind |-> kind, v |-> n])
<1> DEFINE L == Len(kinds)
           item == [kind |-> kind, v |-> n]
<1>1. L \in Nat /\ Len(TypedItems) = L /\ sp = L /\ L <= StackSize /\ StackSize \in Nat /\ sp \in Word16
      /\ StackSize \in Word16 /\ kinds \in Seq(AllKinds) /\ TypedItems \in Seq(Items) /\ k \in 0 .. L
      /\ stack \in [0 .. StackSize - 1 -> Num]
      /\ \A j \in 1 .. L : TypedItems[j] = [kind |-> kinds[j], v |-> stack[j - 1]]
  BY TheItems, RingSize DEF Fits, Counted, VType, CountersTyped, StackTyped
<1>2. kinds' = Append(Without(kinds, k), kind) /\ stack' = [stack EXCEPT ![Slot(L - k)] = n] /\ sp' = Wrap16(L - k + 1)
  BY <1>1 DEF PopPush, Below, Without
<1>3. Without(kinds, k) \in Seq(AllKinds) /\ Len(Without(kinds, k)) = L - k
      /\ \A j \in 1 .. L - k : Without(kinds, k)[j] = kinds[j]
  BY <1>1, Shorter
<1>4. kinds' \in Seq(AllKinds) /\ Len(kinds') = L - k + 1 /\ (\A j \in 1 .. L - k : kinds'[j] = kinds[j])
      /\ kinds'[L - k + 1] = kind
  BY <1>2, <1>3, Longer
<1>5. L - k + 1 <= StackSize
  BY <1>4 DEF Fits
<1>6. Without(TypedItems, k) \in Seq(Items) /\ Len(Without(TypedItems, k)) = L - k
      /\ \A j \in 1 .. L - k : Without(TypedItems, k)[j] = TypedItems[j]
  BY <1>1, Shorter
<1>7. item \in Items
  BY DEF Items
<1> DEFINE pushed == Append(Without(TypedItems, k), item)
<1>8. pushed \in Seq(Items) /\ Len(pushed) = L - k + 1 /\ (\A j \in 1 .. L - k : pushed[j] = TypedItems[j])
      /\ pushed[L - k + 1] = item
  BY <1>6, <1>7, Longer
<1> HIDE DEF L, pushed
<1>9. sp' = L - k + 1
  <2>1. L - k + 1 \in Nat
    BY <1>1
  <2> QED
    BY <1>1, <1>2, <1>5, <2>1, SmallWord
<1>10. Counted'
  BY <1>4, <1>9 DEF Counted
<1>11. L - k \in Nat /\ L - k < StackSize /\ L - k \in 0 .. StackSize - 1
  BY <1>1, <1>5
<1>12. stack' = [stack EXCEPT ![L - k] = n]
  BY <1>2, <1>11, InRing
<1>13. /\ TypedItems' \in Seq(Items) /\ Len(TypedItems') = L - k + 1
       /\ \A j \in 1 .. L - k + 1 : TypedItems'[j] = [kind |-> kinds'[j], v |-> stack'[j - 1]]
  <2>1. /\ TypedItems' \in Seq(Items) /\ Len(TypedItems') = Len(kinds')
        /\ \A j \in 1 .. Len(kinds') : TypedItems'[j] = [kind |-> kinds'[j], v |-> stack'[j - 1]]
    BY <1>10, TheNextItems
  <2> QED
    BY <1>4, <2>1
<1>14. ASSUME NEW j \in 1 .. L - k + 1 PROVE TypedItems'[j] = pushed[j]
  <2>1. CASE j = L - k + 1
    <3>1. j - 1 = L - k
      BY <1>11, <2>1
    <3>2. stack'[j - 1] = n
      BY <1>1, <1>11, <1>12, <3>1
    <3> QED
      BY <1>4, <1>8, <1>13, <2>1, <3>2
  <2>2. CASE j # L - k + 1
    <3>1. j \in 1 .. L - k /\ j \in 1 .. L /\ j - 1 \in 0 .. StackSize - 1 /\ j - 1 # L - k
      BY <1>1, <1>11, <2>2
    <3>2. stack'[j - 1] = stack[j - 1]
      BY <1>1, <1>12, <3>1
    <3> QED
      BY <1>1, <1>4, <1>8, <1>13, <3>1, <3>2
  <2> QED
    BY <2>1, <2>2
<1>15. TypedItems' = pushed
  BY <1>8, <1>13, <1>14, SeqEqual
<1> QED
  BY <1>10, <1>15 DEF pushed

\* A step that leaves the stack alone.
LEMMA KeptItems == ASSUME SameStack, Counted, Fits PROVE Counted' /\ Fits' /\ TypedItems' = TypedItems
  BY DEF SameStack, Counted, Fits, TypedItems, Slot

-----------------------------------------------------------------------------
\* The words of the running frame are the topmost ones.
OnTop(items, f) == /\ Len(f) <= Len(items)
                   /\ \A j \in 1 .. Len(f) : items[Len(items) - j + 1].kind = f[Len(f) - j + 1]

\* The frame that runs is the topmost.
LEMMA FrameOnTop ==
    ASSUME NEW S, NEW items \in Seq(S), NEW a, NEW s, s.frame \in Seq(Kinds),
           Stands(items, a, Len(items) + 1, s)
    PROVE  OnTop(items, s.frame)
<1> DEFINE L == Len(items)
           F == Len(s.frame)
           base == Base(L + 1, s)
<1>1. L \in Nat /\ F \in Nat
  OBVIOUS
<1>2. base >= 0 /\ \A j \in 1 .. F : items[base + j].kind = s.frame[j]
  BY Zenon DEF Stands
<1>3. base = L + 1 - 1 - F
  BY DEF Base
<1> HIDE DEF L, F, base
<1>4. base = L - F /\ F <= L
  BY <1>1, <1>2, <1>3
<1>5. ASSUME NEW j \in 1 .. F PROVE items[L - j + 1].kind = s.frame[F - j + 1]
  <2>1. F - j + 1 \in 1 .. F /\ base + (F - j + 1) = L - j + 1
    BY <1>1, <1>4
  <2> QED
    BY <1>2, <2>1
<1> QED
  BY <1>4, <1>5 DEF L, F, OnTop

\* Operands are the topmost items.
LEMMA OperandsOnTop ==
    ASSUME NEW S, NEW items \in Seq(S), NEW a, NEW s, s.frame \in Seq(Kinds),
           Stands(items, a, Len(items) + 1, s), NEW k \in Nat, Temps(s.frame, k)
    PROVE  /\ k <= Len(s.frame) /\ k <= Len(items) /\ Len(s.frame) <= Len(items)
           /\ \A j \in 1 .. k : items[Len(items) - j + 1].kind = Temp
<1>1. /\ Len(s.frame) <= Len(items)
      /\ \A j \in 1 .. Len(s.frame) : items[Len(items) - j + 1].kind = s.frame[Len(s.frame) - j + 1]
  BY FrameOnTop DEF OnTop
<1>2. k <= Len(s.frame) /\ \A j \in 1 .. k : s.frame[Len(s.frame) - j + 1] = Temp
  BY DEF Temps
<1>3. Len(s.frame) \in Nat /\ Len(items) \in Nat
  OBVIOUS
<1>4. k <= Len(items)
  BY <1>1, <1>2, <1>3
<1>5. \A j \in 1 .. k : j \in 1 .. Len(s.frame)
  BY <1>2, <1>3
<1> QED
  BY <1>1, <1>2, <1>4, <1>5

\* The invariant; what the host may do depends on how nb_run came back.
Halted == /\ mode = "run" => result \notin {"END", "ERROR"}
          /\ result \in {"END", "ERROR"} => mode = "host" /\ owed = <<>>
VInv == VType /\ Counted /\ Halted /\ Framed

\* The place where the running routine is.
Working(s) == /\ s \in Places[prog] /\ s \in AllPlaces /\ s.at = pc /\ s.frame \in Seq(Kinds)
              /\ Stands(TypedItems, pc, Len(TypedItems) + 1, s)
              /\ ins.op # "END" => Fitting(s, ins) /\ NextPlaces(s, ins) \subseteq Places[prog]

\* Unless there was an error, there is one.
LEMMA AtPlace == ASSUME VInv, result # "ERROR" PROVE \E s : Working(s)
<1>1. prog \in Programs /\ Described(prog, Places[prog])
  BY PlacesAssumption DEF VInv, VType
<1>2. PICK s \in Places[prog] : Stands(TypedItems, pc, Len(TypedItems) + 1, s)
  BY DEF VInv, Framed, Running
<1>3. s \in AllPlaces
  BY <1>1 DEF Described
<1>4. s.at = pc
  BY <1>2 DEF Stands, AddressAt
<1>5. s.frame \in Seq(Kinds)
  BY <1>3 DEF AllPlaces
<1>6. ASSUME ins.op # "END" PROVE Fitting(s, ins) /\ NextPlaces(s, ins) \subseteq Places[prog]
  <2>1. pc \in DOMAIN prog.code /\ ins = prog.code[pc]
    BY <1>6 DEF ins, Fetch, EndInstr
  <2> QED
    BY <1>1, <1>2, <1>4, <2>1 DEF Described
<1> QED
  BY <1>2, <1>3, <1>4, <1>5, <1>6 DEF Working

\* The addresses of places are not wrapped, nor are they negative as words.
LEMMA PlaceAddress == ASSUME NEW p \in Programs, NEW s \in Places[p]
                      PROVE s.at \in Nat /\ Wrap16(s.at) = s.at /\ ReturnWord(s.at) = s.at
<1> DEFINE m == Len(p.code) + 1
<1>1. m < Half /\ m \in Word16 /\ s.at \in 1 .. m
  BY PlacesAssumption DEF Described
<1>2. m \in Nat
  BY <1>1, CountersAreNumbers
<1> HIDE DEF m
<1>3. s.at \in Nat /\ s.at <= m
  BY <1>1, <1>2
<1>4. Wrap16(s.at) = s.at
  BY <1>1, <1>3, SmallWord
<1>5. s.at % (2 * Half) = s.at
  BY <1>1, <1>2, <1>3, WordAssumption
<1>6. s.at < Half
  BY <1>1, <1>2, <1>3, WordAssumption
<1>7. ReturnWord(s.at) = s.at
  BY <1>5, <1>6 DEF ReturnWord, ToSigned, ToUnsigned
<1> QED
  BY <1>3, <1>4, <1>7

-----------------------------------------------------------------------------
\* Counting loops: what is a step and what is not.
LEMMA CountedKinds ==
    ASSUME NEW item, NEW P
    PROVE  /\ item.kind = Temp \/ (\E x \in Var : item.kind = EndOf(x)) => ~Counts(item, P)
           /\ (\E x \in Var : item.kind = StepOf(x)) => Counts(item, P)
           /\ item.kind = ReturnTo => (Counts(item, P) <=> EnteringAt(item.v, P))
<1>1. /\ Temp[1] = "val" /\ ReturnTo[1] = "ret"
      /\ \A x \in Var : EndOf(x)[1] = "end" /\ StepOf(x)[1] = "step"
  BY DEF Temp, ReturnTo, EndOf, StepOf
<1>2. \A x \in Var : Temp # StepOf(x) /\ ReturnTo # StepOf(x) /\ ReturnTo # EndOf(x)
                     /\ \A y \in Var : EndOf(y) # StepOf(x)
  BY <1>1
<1>3. Temp # ReturnTo
  BY <1>1
<1> QED
  BY <1>2, <1>3 DEF Counts

\* Their number is one.
LEMMA CountingNumber == ASSUME NEW S, NEW items \in Seq(S), NEW P
                        PROVE  IsFiniteSet(Counting(items, P)) /\ Cardinality(Counting(items, P)) \in Nat
<1>1. Len(items) \in Nat /\ DOMAIN items = 1 .. Len(items)
  OBVIOUS
<1>2. IsFiniteSet(1 .. Len(items))
  BY <1>1, FS_Interval
<1>3. Counting(items, P) \in SUBSET (1 .. Len(items))
  BY <1>1 DEF Counting
<1>4. IsFiniteSet(Counting(items, P))
  BY <1>2, <1>3, FS_Subset
<1> QED
  BY <1>4, FS_CardinalityType

\* Words that are no loops come and go.
LEMMA SameCounting ==
    ASSUME NEW S, NEW items \in Seq(S), NEW items2 \in Seq(S), NEW m \in Nat, Alike(items, items2, m), NEW P,
           \A n \in m + 1 .. Len(items) : ~Counts(items[n], P),
           \A n \in m + 1 .. Len(items2) : ~Counts(items2[n], P)
    PROVE  Counting(items2, P) = Counting(items, P)
<1>1. /\ Len(items) \in Nat /\ DOMAIN items = 1 .. Len(items)
      /\ Len(items2) \in Nat /\ DOMAIN items2 = 1 .. Len(items2)
      /\ m <= Len(items) /\ m <= Len(items2) /\ \A j \in 1 .. m : items[j] = items2[j]
  BY DEF Alike
<1>2. \A n \in DOMAIN items : n \in 1 .. m \/ n \in m + 1 .. Len(items)
  BY <1>1
<1>3. \A n \in DOMAIN items2 : n \in 1 .. m \/ n \in m + 1 .. Len(items2)
  BY <1>1
<1>4. \A n \in 1 .. m : n \in DOMAIN items /\ n \in DOMAIN items2
  BY <1>1
<1> QED
  BY <1>1, <1>2, <1>3, <1>4 DEF Counting

\* One word comes that may be a loop.
LEMMA MoreCounting ==
    ASSUME NEW S, NEW items \in Seq(S), NEW items2 \in Seq(S), NEW m \in Nat, Alike(items, items2, m), NEW P,
           \A n \in m + 1 .. Len(items) : ~Counts(items[n], P),
           NEW k \in m + 1 .. Len(items2),
           \A n \in m + 1 .. Len(items2) : n # k => ~Counts(items2[n], P)
    PROVE  Cardinality(Counting(items2, P)) = Cardinality(Counting(items, P)) + Bool(Counts(items2[k], P))
<1>1. /\ Len(items) \in Nat /\ DOMAIN items = 1 .. Len(items)
      /\ Len(items2) \in Nat /\ DOMAIN items2 = 1 .. Len(items2)
      /\ m <= Len(items) /\ m <= Len(items2) /\ \A j \in 1 .. m : items[j] = items2[j]
  BY DEF Alike
<1> DEFINE C == Counting(items, P)
           C2 == Counting(items2, P)
<1>2. \A n \in DOMAIN items : n \in 1 .. m \/ n \in m + 1 .. Len(items)
  BY <1>1
<1>3. \A n \in DOMAIN items2 : n \in 1 .. m \/ n \in m + 1 .. Len(items2)
  BY <1>1
<1>4. \A n \in 1 .. m : n \in DOMAIN items /\ n \in DOMAIN items2 /\ n # k
  BY <1>1
<1>5. k \in DOMAIN items2
  BY <1>1
<1>6. C \subseteq 1 .. m
  BY <1>2 DEF Counting
<1>7. C2 = IF Counts(items2[k], P) THEN C \cup {k} ELSE C
  BY <1>1, <1>2, <1>3, <1>4, <1>5 DEF Counting
<1>8. k \notin C
  BY <1>4, <1>6
<1>9. IsFiniteSet(C) /\ Cardinality(C) \in Nat
  BY CountingNumber
<1> HIDE DEF C, C2
<1>10. Cardinality(C \cup {k}) = Cardinality(C) + 1
  BY <1>8, <1>9, FS_AddElement
<1>11. Cardinality(C2) = IF Counts(items2[k], P) THEN Cardinality(C) + 1 ELSE Cardinality(C)
  BY <1>7, <1>10
<1>12. Cardinality(C2) = Cardinality(C) + Bool(Counts(items2[k], P))
  <2> DEFINE c == Cardinality(C)
  <2> HIDE DEF c
  <2>1. c \in Nat /\ c + 0 = c
    BY <1>9 DEF c
  <2>2. Cardinality(C2) = IF Counts(items2[k], P) THEN c + 1 ELSE c
    BY <1>11 DEF c
  <2> QED
    BY <2>1, <2>2 DEF Bool, c
<1> QED
  BY <1>12 DEF C, C2

\* The words that are steps and the return addresses enclose the loops that are
\* counted.
LEMMA CountingBounds ==
    ASSUME NEW P, kinds \in Seq(Kinds \cup {ReturnTo})
    PROVE  /\ OpenLoops \in Nat /\ PendingCalls \in Nat
           /\ OpenLoops <= Cardinality(Counting(TypedItems, P))
           /\ Cardinality(Counting(TypedItems, P)) <= OpenLoops + PendingCalls
           /\ PendingCalls <= Len(kinds)
<1> DEFINE C == Counting(TypedItems, P)
           D == 1 .. Len(kinds)
           A == Words("step")
           R == Words("ret")
<1>1. /\ Len(kinds) \in Nat /\ DOMAIN kinds = D /\ DOMAIN TypedItems = D
      /\ \A n \in D : kinds[n] \in Kinds \cup {ReturnTo} /\ TypedItems[n].kind = kinds[n]
  BY DEF TypedItems
<1>2. IsFiniteSet(D) /\ Cardinality(D) = Len(kinds)
  <2> DEFINE n == Len(kinds)
  <2>1. n \in Int /\ 1 \in Int /\ n \in Nat
    BY <1>1
  <2> HIDE DEF n
  <2>2. IsFiniteSet(1 .. n) /\ Cardinality(1 .. n) = IF 1 > n THEN 0 ELSE n - 1 + 1
    BY <2>1, FS_Interval
  <2>3. Cardinality(1 .. n) = n
    BY <2>1, <2>2
  <2> QED
    BY <2>2, <2>3 DEF n
<1>3. ASSUME NEW kind \in Kinds \cup {ReturnTo}
      PROVE  /\ kind[1] = "step" <=> \E x \in Var : kind = StepOf(x)
             /\ kind[1] = "ret" <=> kind = ReturnTo
  <2>1. /\ Temp[1] = "val" /\ ReturnTo[1] = "ret"
        /\ \A x \in Var : EndOf(x)[1] = "end" /\ StepOf(x)[1] = "step"
    BY DEF Temp, ReturnTo, EndOf, StepOf
  <2>2. kind = Temp \/ kind = ReturnTo \/ (\E x \in Var : kind = EndOf(x)) \/ (\E x \in Var : kind = StepOf(x))
    BY DEF Kinds
  <2> QED
    BY <2>1, <2>2
<1>4. A \subseteq C /\ C \subseteq A \cup R /\ A \subseteq D /\ R \subseteq D
  BY <1>1, <1>3 DEF Words, Counting, Counts
<1> HIDE DEF C, D, A, R
<1>5. IsFiniteSet(A) /\ IsFiniteSet(R) /\ IsFiniteSet(A \cup R) /\ Cardinality(R) <= Len(kinds)
  BY <1>2, <1>4, FS_Subset, FS_Union
<1>6. Cardinality(A) \in Nat /\ Cardinality(R) \in Nat /\ Cardinality(A \cap R) \in Nat
  <2>1. IsFiniteSet(A \cap R)
    <3>1. A \cap R \in SUBSET A
      OBVIOUS
    <3> QED
      BY <1>5, <3>1, FS_Subset
  <2> QED
    BY <1>5, <2>1, FS_CardinalityType
<1>7. Cardinality(A \cup R) = Cardinality(A) + Cardinality(R) - Cardinality(A \cap R)
  BY <1>5, FS_Union
<1>8. IsFiniteSet(C) /\ Cardinality(C) <= Cardinality(A \cup R) /\ Cardinality(A) <= Cardinality(C)
  <2>1. C \in SUBSET (A \cup R) /\ A \in SUBSET C
    BY <1>4
  <2>2. IsFiniteSet(C) /\ Cardinality(C) <= Cardinality(A \cup R)
    BY <1>5, <2>1, FS_Subset
  <2> QED
    BY <2>1, <2>2, FS_Subset
<1>9. Cardinality(C) \in Nat
  BY <1>8, FS_CardinalityType
<1>10. Cardinality(C) <= Cardinality(A) + Cardinality(R)
  BY <1>6, <1>7, <1>8, <1>9
<1> QED
  BY <1>5, <1>6, <1>8, <1>10 DEF OpenLoops, PendingCalls, A, R, C

\* Operands are no loops: their number stays when they are dropped,
LEMMA DroppedCounting ==
    ASSUME NEW S, NEW items \in Seq(S), NEW k \in 0 .. Len(items), NEW P,
           \A j \in 1 .. k : items[Len(items) - j + 1].kind = Temp
    PROVE  Counting(Without(items, k), P) = Counting(items, P)
<1> DEFINE L == Len(items)
           r == Without(items, k)
<1>1. L \in Nat /\ k \in 0 .. L
  OBVIOUS
<1>2. r \in Seq(S) /\ Len(r) = L - k /\ \A j \in 1 .. L - k : r[j] = items[j]
  BY Shorter
<1> HIDE DEF r, L
<1>3. Alike(items, r, L - k) /\ L - k \in Nat
  BY <1>1, <1>2 DEF Alike, L
<1>4. ASSUME NEW n \in L - k + 1 .. L PROVE ~Counts(items[n], P)
  <2>1. L - n + 1 \in 1 .. k /\ L - (L - n + 1) + 1 = n
    BY <1>1
  <2>2. items[n].kind = Temp
    BY <2>1 DEF L
  <2> QED
    BY <2>2, CountedKinds
<1>5. L - k + 1 .. Len(r) = {}
  BY <1>1, <1>2
<1>6. Counting(r, P) = Counting(items, P)
  <2> DEFINE m == L - k
  <2>1. /\ r \in Seq(S) /\ m \in Nat /\ Alike(items, r, m)
        /\ \A n \in m + 1 .. Len(items) : ~Counts(items[n], P)
        /\ \A n \in m + 1 .. Len(r) : ~Counts(r[n], P)
    BY <1>2, <1>3, <1>4, <1>5 DEF L
  <2> HIDE DEF m
  <2> QED
    BY <2>1, SameCounting
<1> QED
  BY <1>6 DEF r

\* and it grows by one when a loop comes instead.
LEMMA PushedCounting ==
    ASSUME NEW S, NEW items \in Seq(S), NEW k \in 0 .. Len(items), NEW P, NEW item \in S,
           \A j \in 1 .. k : items[Len(items) - j + 1].kind = Temp
    PROVE  Cardinality(Counting(Append(Without(items, k), item), P))
             = Cardinality(Counting(items, P)) + Bool(Counts(item, P))
<1> DEFINE r == Without(items, k)
           m == Len(r)
           t == Append(r, item)
<1>1. r \in Seq(S) /\ Counting(r, P) = Counting(items, P)
  BY Shorter, DroppedCounting
<1> HIDE DEF r
<1>2. m \in Nat /\ t \in Seq(S) /\ Len(t) = m + 1 /\ (\A j \in 1 .. m : t[j] = r[j]) /\ t[m + 1] = item
  BY <1>1, Longer
<1> HIDE DEF t
<1>3. Alike(r, t, m)
  BY <1>2 DEF Alike
<1> HIDE DEF m
<1>4. m + 1 .. Len(t) = {m + 1} /\ m + 1 .. m = {} /\ m + 1 \in m + 1 .. Len(t)
  BY <1>2
<1>5. Cardinality(Counting(t, P)) = Cardinality(Counting(r, P)) + Bool(Counts(t[m + 1], P))
  <2>1. \A n \in m + 1 .. Len(r) : ~Counts(r[n], P)
    BY <1>4 DEF m
  <2>2. \A n \in m + 1 .. Len(t) : n # m + 1 => ~Counts(t[n], P)
    BY <1>4
  <2> QED
    <3> DEFINE q == m + 1
    <3>1. q \in m + 1 .. Len(t) /\ (\A n \in m + 1 .. Len(t) : n # q => ~Counts(t[n], P)) /\ q = m + 1
      BY <1>4, <2>2
    <3> HIDE DEF q
    <3>2. r \in Seq(S) /\ t \in Seq(S) /\ m \in Nat
      BY <1>1, <1>2
    <3>3. Cardinality(Counting(t, P)) = Cardinality(Counting(r, P)) + Bool(Counts(t[q], P))
      <4>1. /\ r \in Seq(S) /\ t \in Seq(S) /\ m \in Nat /\ Alike(r, t, m) /\ q \in m + 1 .. Len(t)
            /\ \A n \in m + 1 .. Len(r) : ~Counts(r[n], P)
            /\ \A n \in m + 1 .. Len(t) : n # q => ~Counts(t[n], P)
        BY <1>3, <2>1, <3>1, <3>2
      <4> QED
        BY ONLY <4>1, MoreCounting
    <3> QED
      BY <3>1, <3>3
<1> QED
  BY <1>1, <1>2, <1>5 DEF t, r

\* A place is one where a loop is being entered, whatever it is reached with.
LEMMA EnteringPlace == ASSUME NEW p \in Programs, NEW t \in Places[p]
                       PROVE t.entering \in BOOLEAN /\ (EnteringAt(t.at, Places[p]) <=> t.entering)
<1>1. Described(p, Places[p])
  BY PlacesAssumption
<1>2. t \in AllPlaces /\ \A u \in Places[p] : u.at = t.at => u.entering = t.entering
  BY <1>1 DEF Described
<1> QED
  BY <1>2 DEF AllPlaces, EnteringAt

\* The parameters of the frames that wait: their number is one.
LEMMA CellsNumber == ASSUME NEW S, NEW items \in Seq(S), NEW pars
                     PROVE  IsFiniteSet(Cells(items, pars)) /\ Cardinality(Cells(items, pars)) \in Nat
<1> DEFINE n == Len(items)
           C == Cells(items, pars)
<1>1. n \in Nat /\ ParamSize \in Nat
  BY ParamAssumption
<1> HIDE DEF n
<1>2. IsFiniteSet(1 .. n) /\ IsFiniteSet(1 .. ParamSize)
  BY <1>1, FS_Interval
<1>3. IsFiniteSet((1 .. n) \X (1 .. ParamSize))
  BY <1>2, FS_Product
<1>4. C \in SUBSET ((1 .. n) \X (1 .. ParamSize))
  BY DEF Cells, n
<1> HIDE DEF C
<1>5. IsFiniteSet(C)
  BY <1>3, <1>4, FS_Subset
<1> QED
  BY <1>5, FS_CardinalityType DEF C

\* Words that are no return addresses come and go.
LEMMA SameCells ==
    ASSUME NEW S, NEW items \in Seq(S), NEW items2 \in Seq(S), NEW m \in Nat, Alike(items, items2, m), NEW pars,
           \A n \in m + 1 .. Len(items) : items[n].kind # ReturnTo,
           \A n \in m + 1 .. Len(items2) : items2[n].kind # ReturnTo
    PROVE  Cells(items2, pars) = Cells(items, pars)
<1> DEFINE L == Len(items)
           L2 == Len(items2)
<1>1. L \in Nat /\ L2 \in Nat /\ m <= L /\ m <= L2 /\ \A j \in 1 .. m : items[j] = items2[j]
  BY DEF Alike
<1>2. \A n \in 1 .. L : items[n].kind = ReturnTo => n \in 1 .. m
  <2>1. \A n \in 1 .. L : n \in 1 .. m \/ n \in m + 1 .. L
    BY <1>1
  <2> QED
    BY <2>1
<1>3. \A n \in 1 .. L2 : items2[n].kind = ReturnTo => n \in 1 .. m
  <2>1. \A n \in 1 .. L2 : n \in 1 .. m \/ n \in m + 1 .. L2
    BY <1>1
  <2> QED
    BY <2>1
<1>4. \A n \in 1 .. m : n \in 1 .. L /\ n \in 1 .. L2
  BY <1>1
<1> HIDE DEF L, L2
<1>5. \A c \in (1 .. L) \X (1 .. ParamSize) :
         items[c[1]].kind = ReturnTo => c \in (1 .. L2) \X (1 .. ParamSize) /\ items2[c[1]] = items[c[1]]
  BY <1>1, <1>2, <1>4
<1>6. \A c \in (1 .. L2) \X (1 .. ParamSize) :
         items2[c[1]].kind = ReturnTo => c \in (1 .. L) \X (1 .. ParamSize) /\ items2[c[1]] = items[c[1]]
  BY <1>1, <1>3, <1>4
<1> QED
  BY <1>5, <1>6, Zenon DEF Cells, L, L2

\* A return address comes; the frame below waits with its parameters.
LEMMA MoreCells ==
    ASSUME NEW S, NEW items \in Seq(S), NEW items2 \in Seq(S), NEW m \in Nat, Alike(items, items2, m), NEW pars,
           \A n \in m + 1 .. Len(items) : items[n].kind # ReturnTo,
           Len(items2) = m + 1, items2[m + 1].kind = ReturnTo, pars[items2[m + 1].v] \in 0 .. ParamSize
    PROVE  Cardinality(Cells(items2, pars)) = Cardinality(Cells(items, pars)) + pars[items2[m + 1].v]
<1> DEFINE L == Len(items)
           k == m + 1
           w == pars[items2[k].v]
           C == Cells(items, pars)
           D == {k} \X (1 .. w)
<1>1. L \in Nat /\ m <= L /\ (\A j \in 1 .. m : items[j] = items2[j]) /\ ParamSize \in Nat /\ w \in 0 .. ParamSize
  BY ParamAssumption DEF Alike
<1>2. \A n \in 1 .. L : items[n].kind = ReturnTo => n \in 1 .. m
  <2>1. \A n \in 1 .. L : n \in 1 .. m \/ n \in m + 1 .. L
    BY <1>1
  <2> QED
    BY <2>1
<1>3. \A n \in 1 .. m : n \in 1 .. L /\ n \in 1 .. k /\ n # k
  BY <1>1
<1>4. \A n \in 1 .. k : n \in 1 .. m \/ n = k
  OBVIOUS
<1>5. k \in 1 .. k /\ \A j : (j \in 1 .. w <=> j \in 1 .. ParamSize /\ j <= w)
  BY <1>1
<1>6. IsFiniteSet(C) /\ Cardinality(C) \in Nat
  BY CellsNumber
<1> HIDE DEF L, k, w
<1>7. Cells(items2, pars) = C \cup D
  <2>1. ASSUME NEW c \in C PROVE c \in Cells(items2, pars)
    BY <1>1, <1>2, <1>3 DEF Cells, L, k
  <2>2. ASSUME NEW c \in D PROVE c \in Cells(items2, pars)
    BY <1>5 DEF Cells, k, w
  <2>3. ASSUME NEW c \in Cells(items2, pars) PROVE c \in C \cup D
    <3>1. c \in (1 .. k) \X (1 .. ParamSize) /\ items2[c[1]].kind = ReturnTo /\ c[2] <= pars[items2[c[1]].v]
      BY DEF Cells, k
    <3>2. CASE c[1] = k
      BY <1>5, <3>1, <3>2 DEF w
    <3>3. CASE c[1] \in 1 .. m
      BY <1>1, <1>3, <3>1, <3>3 DEF Cells, L
    <3> QED
      BY <1>4, <3>1, <3>2, <3>3
  <2> QED
    BY <2>1, <2>2, <2>3
<1>8. C \cap D = {}
  <2>1. \A c \in C : c[1] \in 1 .. m
    BY <1>2 DEF Cells, L
  <2> QED
    BY <1>3, <2>1
<1>9. IsFiniteSet(D) /\ Cardinality(D) = w
  <2>1. w \in Int /\ w \in Nat /\ 1 \in Int
    BY <1>1
  <2> DEFINE W == 1 .. w
             K == {k}
  <2>2. IsFiniteSet(W) /\ Cardinality(W) = IF 1 > w THEN 0 ELSE w - 1 + 1
    BY <2>1, FS_Interval
  <2>3. IsFiniteSet(K) /\ Cardinality(K) = 1
    BY FS_Singleton
  <2> HIDE DEF W, K
  <2>4. Cardinality(W) = w
    BY <2>1, <2>2
  <2>5. IsFiniteSet(K \X W) /\ Cardinality(K \X W) = Cardinality(K) * Cardinality(W)
    BY <2>2, <2>3, FS_Product
  <2>6. Cardinality(K) * Cardinality(W) = w
    BY <2>1, <2>3, <2>4
  <2>7. D = K \X W
    BY DEF K, W
  <2> QED
    BY <2>5, <2>6, <2>7
<1> HIDE DEF C, D
<1>10. Cardinality(C \cup D) = Cardinality(C) + Cardinality(D) - Cardinality(C \cap D)
  BY <1>6, <1>9, FS_Union
<1>11. Cardinality(C \cap D) = 0
  BY <1>8, FS_EmptySet
<1>12. Cardinality(C \cup D) = Cardinality(C) + w
  BY <1>1, <1>6, <1>9, <1>10, <1>11
<1> QED
  BY <1>7, <1>12 DEF C, w, k

\* Operands are no return addresses: they are dropped,
LEMMA DroppedCells ==
    ASSUME NEW S, NEW items \in Seq(S), NEW k \in 0 .. Len(items), NEW pars,
           \A j \in 1 .. k : items[Len(items) - j + 1].kind # ReturnTo
    PROVE  Cells(Without(items, k), pars) = Cells(items, pars)
<1> DEFINE L == Len(items)
           r == Without(items, k)
<1>1. L \in Nat /\ k \in 0 .. L
  OBVIOUS
<1>2. r \in Seq(S) /\ Len(r) = L - k /\ \A j \in 1 .. L - k : r[j] = items[j]
  BY Shorter
<1> HIDE DEF r, L
<1>3. Alike(items, r, L - k) /\ L - k \in Nat
  BY <1>1, <1>2 DEF Alike, L
<1>4. ASSUME NEW n \in L - k + 1 .. L PROVE items[n].kind # ReturnTo
  <2>1. L - n + 1 \in 1 .. k /\ L - (L - n + 1) + 1 = n
    BY <1>1
  <2> QED
    BY <2>1 DEF L
<1>5. L - k + 1 .. Len(r) = {}
  BY <1>1, <1>2
<1>6. Cells(r, pars) = Cells(items, pars)
  BY <1>2, <1>3, <1>4, <1>5, SameCells DEF L
<1> QED
  BY <1>6 DEF r

\* and another word may come instead.
LEMMA PushedCells ==
    ASSUME NEW S, NEW items \in Seq(S), NEW k \in 0 .. Len(items), NEW pars, NEW item \in S,
           \A j \in 1 .. k : items[Len(items) - j + 1].kind # ReturnTo
    PROVE  LET t == Append(Without(items, k), item)
           IN  /\ item.kind # ReturnTo => Cells(t, pars) = Cells(items, pars)
               /\ item.kind = ReturnTo /\ pars[item.v] \in 0 .. ParamSize =>
                     Cardinality(Cells(t, pars)) = Cardinality(Cells(items, pars)) + pars[item.v]
<1> DEFINE r == Without(items, k)
           m == Len(r)
           t == Append(r, item)
<1>1. r \in Seq(S) /\ Cells(r, pars) = Cells(items, pars)
  BY Shorter, DroppedCells
<1> HIDE DEF r
<1>2. m \in Nat /\ t \in Seq(S) /\ Len(t) = m + 1 /\ (\A j \in 1 .. m : t[j] = r[j]) /\ t[m + 1] = item
  BY <1>1, Longer
<1> HIDE DEF t
<1>3. Alike(r, t, m)
  BY <1>2 DEF Alike
<1> HIDE DEF m
<1>4. m + 1 .. Len(t) = {m + 1} /\ m + 1 .. m = {}
  BY <1>2
<1>5. \A n \in m + 1 .. Len(r) : r[n].kind # ReturnTo
  BY <1>4 DEF m
<1>6. ASSUME item.kind # ReturnTo PROVE Cells(t, pars) = Cells(items, pars)
  <2>1. \A n \in m + 1 .. Len(t) : t[n].kind # ReturnTo
    BY <1>2, <1>4, <1>6
  <2> QED
    BY <1>1, <1>2, <1>3, <1>5, <2>1, SameCells
<1>7. ASSUME item.kind = ReturnTo, pars[item.v] \in 0 .. ParamSize
      PROVE  Cardinality(Cells(t, pars)) = Cardinality(Cells(items, pars)) + pars[item.v]
  <2>1. t[m + 1].kind = ReturnTo /\ pars[t[m + 1].v] \in 0 .. ParamSize /\ t[m + 1].v = item.v
    BY <1>2, <1>7
  <2>2. Cardinality(Cells(t, pars)) = Cardinality(Cells(r, pars)) + pars[t[m + 1].v]
    BY <1>1, <1>2, <1>3, <1>5, <2>1, MoreCells
  <2> QED
    BY <1>1, <2>1, <2>2
<1> QED
  BY <1>6, <1>7 DEF t, r

\* At the places of a program the parameters of the running routine are a number.
LEMMA ParsType == ASSUME ProgramsBalanced, NEW p \in Programs, NEW s \in Places[p]
                  PROVE Pars[p][s.at] \in 0 .. ParamSize /\ Pars[p][s.at] \in Nat
<1>1. Pars[p] \in [1 .. Len(p.code) + 1 -> 0 .. ParamSize] /\ s.at \in 1 .. Len(p.code) + 1
  BY PlacesAssumption DEF ProgramsBalanced, Balanced, Described
<1>2. ParamSize \in Nat
  BY ParamAssumption
<1> QED
  BY <1>1, <1>2

\* What nested_loop_idx is to be.
Entered == EnteringAt(pc, Places[prog])
Tally == InFrames + Bool(Entered)

-----------------------------------------------------------------------------
\* What the abstract machine does, on the items.
LEMMA AbstractUse ==
    ASSUME NEW k \in Nat, k <= Len(TypedItems),
           \A j \in 1 .. k : TypedItems[Len(TypedItems) - j + 1].kind = Temp,
           TypedItems' = Without(TypedItems, k)
    PROVE  TS!Use(k)
  BY DEF TS!Use, TS!TempsOnTop, TS!Top, TS!Temp, Temp, TS!Rest, Without

\* The same with a new item in their place, a result or a return address.
LEMMA AbstractPush ==
    ASSUME TypedItems \in Seq(Items), NEW k \in Nat, k <= Len(TypedItems), NEW item \in Items,
           \A j \in 1 .. k : TypedItems[Len(TypedItems) - j + 1].kind = Temp,
           TypedItems' = Append(Without(TypedItems, k), item), variables' = variables
    PROVE  /\ item.kind # ReturnTo => TS!Compute(k)
           /\ item.kind = ReturnTo /\ item.v >= pc => TS!Call(k)
<1> DEFINE L == Len(TypedItems)
           rest == Without(TypedItems, k)
           vs == [x \in Var |-> ToSigned(variables[x])]
<1>1. L \in Nat /\ k \in 0 .. L
  OBVIOUS
<1>2. rest \in Seq(Items) /\ Len(rest) = L - k
  BY <1>1, Shorter
<1>3. Len(TypedItems') = L - k + 1 /\ TypedItems'[L - k + 1] = item
  BY <1>2, Longer
<1>4. TypedItems' = Append(SubSeq(TypedItems, 1, L - k), item)
  BY DEF Without
<1>5. vs' = vs
  OBVIOUS
<1>6. TS!TempsOnTop(k)
  BY DEF TS!TempsOnTop, TS!Top, TS!Temp, Temp
<1> QED
  BY <1>3, <1>4, <1>5, <1>6 DEF TS!Compute, TS!Call, TS!Rest, TS!ReturnTo, ReturnTo

\* Where the abstract machine finds a NEXT, there is one, and what it does elsewhere.
LEMMA AbstractSteps ==
    ASSUME prog' = prog
    PROVE  /\ ins.op # "NEXT" /\ TS!Instruction => TS!ANext
           /\ ins.op = "NEXT" /\ TS!LoopBack(ins.x, ins.to) => TS!ANext
           /\ TS!Interrupt => TS!ANext
           /\ TS!Clear => TS!ANext
<1> DEFINE nexts == [a \in LoopEnds |-> [over |-> prog.code[a].x, back |-> prog.code[a].to]]
<1>1. DOMAIN nexts = LoopEnds /\ nexts' = nexts
  BY DEF LoopEnds
<1>2. pc \in LoopEnds <=> ins.op = "NEXT"
  BY DEF LoopEnds, ins, Fetch, EndInstr
<1>3. ins.op = "NEXT" => nexts[pc].over = ins.x /\ nexts[pc].back = ins.to
  BY <1>2 DEF LoopEnds, ins, Fetch, EndInstr
<1> HIDE DEF nexts
<1> QED
  BY <1>1, <1>2, <1>3 DEF TS!ANext, nexts

\* What is done to the variables on the way to an address: nothing, or one of them gets
\* a number and the address is the next.
Noted(a) == \/ variables' = variables
            \/ a = pc + 1 /\ \E x \in Var, n \in 0 .. 2 * Half - 1 : variables' = [variables EXCEPT ![x] = n]

LEMMA AbstractWrite ==
    ASSUME VType, Noted(pc')
    PROVE  UNCHANGED [x \in Var |-> ToSigned(variables[x])] \/ TS!Assign
<1> DEFINE vs == [x \in Var |-> ToSigned(variables[x])]
<1>1. CASE variables' = variables
  BY <1>1
<1>2. CASE pc' = pc + 1 /\ \E x \in Var, n \in 0 .. 2 * Half - 1 : variables' = [variables EXCEPT ![x] = n]
  <2>1. PICK x \in Var, n \in 0 .. 2 * Half - 1 : variables' = [variables EXCEPT ![x] = n]
    BY <1>2
  <2>2. variables \in [Var -> 0 .. 2 * Half - 1]
    BY DEF VType, ValuesTyped
  <2>3. n \in Int
    BY <2>1, WordAssumption
  <2>4. ToSigned(n) \in -Half .. Half - 1
    BY <2>3, SignedType DEF Num
  <2>5. vs' = [vs EXCEPT ![x] = ToSigned(n)]
    BY <2>1, <2>2
  <2> QED
    BY <1>2, <2>1, <2>4, <2>5 DEF TS!Assign
<1> QED
  BY <1>1, <1>2 DEF Noted

\* Below a word the stacks are alike, and above it no return address came.
Tops(items, items2, m) == /\ m \in Nat /\ Alike(items, items2, m)
                          /\ \A n \in m + 1 .. Len(items2) : items2[n].kind # ReturnTo

\* Words are taken,
LEMMA UsedTops ==
    ASSUME NEW S, NEW items \in Seq(S), NEW k \in Nat, k <= Len(items)
    PROVE  /\ Without(items, k) \in Seq(S) /\ Len(Without(items, k)) + k = Len(items)
           /\ Tops(items, Without(items, k), Len(items) - k)
<1> DEFINE L == Len(items)
           r == Without(items, k)
<1>1. L \in Nat /\ k \in 0 .. L
  OBVIOUS
<1>2. r \in Seq(S) /\ Len(r) = L - k /\ \A j \in 1 .. L - k : r[j] = items[j]
  BY <1>1, Shorter
<1> HIDE DEF r, L
<1>3. L - k \in Nat /\ L - k \in 0 .. L /\ L - k <= Len(r) /\ Len(r) + k = L /\ L - k + 1 .. Len(r) = {}
  BY <1>1, <1>2
<1>4. Tops(items, r, L - k)
  BY <1>2, <1>3 DEF Tops, Alike, L
<1> QED
  BY <1>2, <1>3, <1>4 DEF r, L

\* and another one may come.
LEMMA ComputedTops ==
    ASSUME NEW S, NEW items \in Seq(S), NEW k \in Nat, k <= Len(items), NEW x \in S
    PROVE  LET t == Append(Without(items, k), x)
               m == Len(items) - k
           IN  /\ t \in Seq(S) /\ Len(t) + k = Len(items) + 1 /\ Len(t) = m + 1
               /\ m \in Nat /\ Alike(items, t, m) /\ t[m + 1] = x
               /\ x.kind # ReturnTo => Tops(items, t, m)
<1> DEFINE L == Len(items)
           r == Without(items, k)
           t == Append(r, x)
           m == L - k
<1>1. L \in Nat /\ r \in Seq(S) /\ Len(r) + k = L /\ m \in Nat /\ Alike(items, r, m)
  BY UsedTops DEF Tops
<1> HIDE DEF r, L
<1>2. Len(r) = m /\ (\A j \in 1 .. m : items[j] = r[j]) /\ m \in 0 .. Len(items)
  BY <1>1 DEF Alike
<1>3. t \in Seq(S) /\ Len(t) = m + 1 /\ (\A j \in 1 .. m : t[j] = r[j]) /\ t[m + 1] = x
  BY <1>1, <1>2, Longer
<1> HIDE DEF t
<1>4. Len(t) + k = L + 1 /\ m <= Len(t) /\ m + 1 .. Len(t) = {m + 1}
  BY <1>1, <1>3
<1> HIDE DEF m
<1>5. Alike(items, t, m)
  BY <1>2, <1>3, <1>4 DEF Alike
<1>6. x.kind # ReturnTo => Tops(items, t, m)
  BY <1>1, <1>3, <1>4, <1>5 DEF Tops
<1> QED
  BY <1>1, <1>3, <1>4, <1>5, <1>6 DEF t, r, m, L

\* A return address is nothing else.
LEMMA KindsApart == ReturnTo \notin Kinds
<1>1. Temp[1] # ReturnTo[1] /\ \A x \in Var : EndOf(x)[1] # ReturnTo[1] /\ StepOf(x)[1] # ReturnTo[1]
  BY DEF Temp, ReturnTo, EndOf, StepOf
<1> QED
  BY <1>1 DEF Kinds

\* The frame of the next place is on the stack: k words of the old one are gone,
\* there may be others instead.
LEMMA FramedAgain ==
    ASSUME VInv, Fits, prog' = prog, NEW s, Working(s), NEW t \in Places[prog], t.at = pc', t.level = s.level,
           NEW k \in Nat, k <= Len(s.frame), TypedItems' \in Seq(Items),
           Alike(TypedItems, TypedItems', Len(TypedItems) - k),
           Len(TypedItems') - Len(t.frame) = Len(TypedItems) - Len(s.frame),
           Len(t.frame) >= Len(s.frame) - k,
           \A j \in 1 .. Len(s.frame) - k : t.frame[j] = s.frame[j],
           \A j \in Len(s.frame) - k + 1 .. Len(t.frame) :
               TypedItems'[Len(TypedItems) - Len(s.frame) + j].kind = t.frame[j]
    PROVE  Framed'
<1> DEFINE P == Places[prog]
           L == Len(TypedItems)
           F == Len(s.frame)
           T == Len(t.frame)
           L2 == Len(TypedItems')
<1>0. P \subseteq AllPlaces /\ TypedItems \in Seq(Items)
  BY TheItems, PlacesAssumption DEF VInv, VType, Described
<1>1. s.frame \in Seq(Kinds) /\ Stands(TypedItems, pc, L + 1, s)
  BY DEF Working
<1>2. t.frame \in Seq(Kinds)
  BY <1>0 DEF AllPlaces
<1>3. L \in Nat /\ F \in Nat /\ T \in Nat /\ L2 \in Nat /\ F <= L
  BY <1>0, <1>1, <1>2, FrameOnTop DEF OnTop
<1>4. k <= F /\ L2 - T = L - F /\ T >= F - k
  OBVIOUS
<1>5. \A j \in F - k + 1 .. T : TypedItems'[L - F + j].kind = t.frame[j]
  OBVIOUS
<1>6. Stands(TypedItems', pc', L2 + 1, t)
  <2> DEFINE n2 == L2 + 1
  <2>1. t.at = AddressAt(TypedItems', pc', n2)
    BY DEF AddressAt
  <2>2. Base(n2, t) = L - F /\ n2 \in Nat
    <3>1. Base(n2, t) = L2 + 1 - 1 - T
      BY DEF Base
    <3> HIDE DEF L, L2, F, T
    <3>2. L2 + 1 - 1 - T = L - F /\ L2 + 1 \in Nat
      BY <1>3, <1>4
    <3> QED
      BY <3>1, <3>2
  <2> HIDE DEF n2
  <2> QED
    BY <1>0, <1>1, <1>2, <2>1, <2>2, FrameMoves, ZenonT(60) DEF n2
<1>7. Waiting(TypedItems', pc', P)
  <2>1. Waiting(TypedItems, pc, P)
    BY DEF VInv, Framed
  <2>2. ASSUME NEW n \in L - k + 1 .. L2 PROVE TypedItems'[n].kind # ReturnTo
    <3> DEFINE j == n - (L - F)
    <3> HIDE DEF L, L2, F, T
    <3>1. j \in F - k + 1 .. T /\ L - F + j = n /\ j \in 1 .. T
      BY <1>3, <1>4, <2>2
    <3> HIDE DEF j
    <3>2. TypedItems'[n].kind = t.frame[j]
      BY <1>5, <3>1
    <3>3. t.frame[j] \in Kinds
      BY <1>2, <3>1, ElementOfSeq DEF T
    <3> QED
      BY <3>2, <3>3, KindsApart
  <2>3. L - k \in Nat
    BY <1>3, <1>4
  <2> HIDE DEF P
  <2> QED
    BY <1>0, <2>1, <2>2, <2>3, StillWaiting
<1> QED
  BY <1>6, <1>7 DEF Framed, Running

\* An instruction that takes its operands and goes on.
LEMMA PoppedRuns ==
    ASSUME VInv, VType', Fits, prog' = prog, NEW s, Working(s),
           ins.op \notin Leaving \cup {"NEXT", "END"}, Taken(ins) \in Nat, Pop(Taken(ins)),
           NEW a \in GoesOn(ins, pc), GoTo(a)
    PROVE  /\ Counted' /\ Fits' /\ Framed' /\ TS!Use(Taken(ins))
           /\ InFrames' = InFrames /\ (Entered' <=> Entering(s, ins))
           /\ pc' = a /\ ParsWaiting' = ParsWaiting
<1> DEFINE k == Taken(ins)
           P == Places[prog]
           t == Place(a, Without(s.frame, k), s.level, Entering(s, ins))
<1>0. /\ P \subseteq AllPlaces /\ TypedItems \in Seq(Items) /\ Len(TypedItems) = Len(kinds) /\ Len(TypedItems) \in Nat
      /\ Counted /\ VType /\ prog \in Programs
  BY TheItems, PlacesAssumption DEF VInv, VType, Described
<1>1. /\ s.frame \in Seq(Kinds) /\ Stands(TypedItems, pc, Len(TypedItems) + 1, s) /\ s.at = pc
      /\ Temps(s.frame, k) /\ NextPlaces(s, ins) \subseteq P
  BY DEF Working, Fitting
<1>2. t \in P
  <2>1. After(s.frame, ins) = Without(s.frame, k)
    BY DEF After
  <2>2. t \in NextPlaces(s, ins)
    BY <1>1, <2>1 DEF NextPlaces
  <2> QED
    BY <1>1, <2>2
<1>3. t.at = a /\ t.frame = Without(s.frame, k) /\ t.level = s.level
  BY DEF Place
<1>b. t.entering = Entering(s, ins)
  BY DEF Place
<1> HIDE DEF t, k
<1>4. pc' = a
  BY <1>0, <1>2, <1>3, PlaceAddress DEF GoTo
<1>5. /\ k \in Nat /\ k <= Len(s.frame) /\ k <= Len(TypedItems) /\ Len(s.frame) <= Len(TypedItems)
      /\ \A j \in 1 .. k : TypedItems[Len(TypedItems) - j + 1].kind = Temp
  <2>1. k \in Nat
    BY DEF k
  <2> QED
    BY <1>0, <1>1, <2>1, OperandsOnTop
<1>6. k \in 0 .. Len(kinds) /\ k \in 0 .. Len(TypedItems) /\ k \in 0 .. Len(s.frame)
  BY <1>0, <1>1, <1>5
<1>7. Counted' /\ Fits' /\ TypedItems' = Without(TypedItems, k)
  BY <1>0, <1>6, PoppedItems DEF k
<1>8. TS!Use(k)
  BY <1>5, <1>7, AbstractUse
<1>9. TypedItems' \in Seq(Items) /\ Len(TypedItems') = Len(TypedItems) - k
      /\ Alike(TypedItems, TypedItems', Len(TypedItems) - k)
  <2>1. TypedItems' \in Seq(Items) /\ Len(TypedItems') = Len(TypedItems) - k
        /\ \A j \in 1 .. Len(TypedItems) - k : TypedItems'[j] = TypedItems[j]
    BY <1>0, <1>6, <1>7, Shorter
  <2> QED
    BY <1>0, <1>6, <2>1 DEF Alike
<1>10. /\ t.frame \in Seq(Kinds) /\ Len(t.frame) = Len(s.frame) - k
       /\ \A j \in 1 .. Len(s.frame) - k : t.frame[j] = s.frame[j]
  <2> DEFINE f == s.frame
  <2>1. f \in Seq(Kinds) /\ k \in 0 .. Len(f)
    BY <1>1, <1>6
  <2> HIDE DEF f
  <2>2. /\ Without(f, k) \in Seq(Kinds) /\ Len(Without(f, k)) = Len(f) - k
        /\ \A j \in 1 .. Len(f) - k : Without(f, k)[j] = f[j]
    BY <2>1, Shorter
  <2>3. t.frame = Without(f, k) /\ s.frame = f
    BY <1>3 DEF f
  <2> QED
    BY <2>2, <2>3
<1>11. /\ Len(TypedItems') - Len(t.frame) = Len(TypedItems) - Len(s.frame)
       /\ Len(t.frame) >= Len(s.frame) - k
       /\ \A j \in Len(s.frame) - k + 1 .. Len(t.frame) :
             TypedItems'[Len(TypedItems) - Len(s.frame) + j].kind = t.frame[j]
  <2> DEFINE F == Len(s.frame)
             T == Len(t.frame)
             L == Len(TypedItems)
             L2 == Len(TypedItems')
  <2>1. F \in Nat /\ L \in Nat /\ k \in 0 .. F /\ T = F - k /\ L2 = L - k
    BY <1>0, <1>1, <1>6, <1>9, <1>10
  <2> HIDE DEF F, T, L, L2
  <2>2. L2 - T = L - F /\ T >= F - k /\ F - k + 1 .. T = {}
    BY <2>1
  <2> QED
    BY <2>2 DEF F, T, L, L2
<1>12. Framed'
  BY <1>2, <1>3, <1>4, <1>5, <1>9, <1>10, <1>11, FramedAgain
<1>13. Entered' <=> Entering(s, ins)
  BY <1>0, <1>2, <1>3, <1>4, <1>b, EnteringPlace DEF Entered
<1>14. InFrames' = InFrames
  <2>1. Counting(TypedItems', P) = Counting(TypedItems, P)
    BY <1>0, <1>5, <1>6, <1>7, DroppedCounting
  <2> QED
    BY <2>1 DEF InFrames
<1>15. ParsWaiting' = ParsWaiting
  <2>1. \A j \in 1 .. k : TypedItems[Len(TypedItems) - j + 1].kind # ReturnTo
    BY <1>5, CountedKinds, KindsApart DEF Kinds
  <2>2. Cells(TypedItems', Pars[prog]) = Cells(TypedItems, Pars[prog])
    BY <1>0, <1>6, <1>7, <2>1, DroppedCells
  <2> QED
    BY <2>2 DEF ParsWaiting
<1> QED
  BY <1>4, <1>15, <1>7, <1>8, <1>12, <1>13, <1>14 DEF k

\* An instruction that has a result, too.
LEMMA PushedRuns ==
    ASSUME VInv, VType', Fits, Fits', prog' = prog, variables' = variables, NEW s, Working(s),
           ins.op \in Leaving, Taken(ins) \in Nat, NEW v \in Num, PopPush(Taken(ins), v, Kind),
           NEW a \in GoesOn(ins, pc), GoTo(a)
    PROVE  /\ Counted' /\ Framed' /\ TS!Compute(Taken(ins)) /\ Tally' = Tally
           /\ pc' = a /\ ParsWaiting' = ParsWaiting
<1> DEFINE k == Taken(ins)
           P == Places[prog]
           f == Without(s.frame, k)
           t == Place(a, Append(f, Kind), s.level, Entering(s, ins))
           item == [kind |-> Kind, v |-> v]
           rest == Without(TypedItems, k)
<1>0. /\ TypedItems \in Seq(Items) /\ Len(TypedItems) = Len(kinds) /\ Len(TypedItems) \in Nat
      /\ Counted /\ VType /\ prog \in Programs
  BY TheItems DEF VInv, VType
<1>1. /\ s.frame \in Seq(Kinds) /\ Stands(TypedItems, pc, Len(TypedItems) + 1, s) /\ s.at = pc
      /\ Temps(s.frame, k) /\ NextPlaces(s, ins) \subseteq P /\ Kind \in Kinds
      /\ ((\E x \in Var : Kind = StepOf(x)) => s.entering) /\ s \in Places[prog]
  BY DEF Working, Fitting, Leaving, Pushing, Kind
<1>2. t \in P
  <2>1. After(s.frame, ins) = Append(f, Kind)
    BY DEF After, Kind
  <2>2. t \in NextPlaces(s, ins)
    BY <1>1, <2>1 DEF NextPlaces, Leaving, Pushing
  <2> QED
    BY <1>1, <2>2
<1>3. t.at = a /\ t.frame = Append(f, Kind) /\ t.level = s.level
  BY DEF Place
<1>b. t.entering <=> s.entering /\ ~\E x \in Var : Kind = StepOf(x)
  BY <1>0, <1>1, EnteringPlace DEF Place, Entering, Leaving, Pushing, Kind
<1> HIDE DEF t
<1>4. pc' = a
  BY <1>0, <1>2, <1>3, PlaceAddress DEF GoTo
<1>5. /\ k \in Nat /\ k <= Len(s.frame) /\ k <= Len(TypedItems) /\ Len(s.frame) <= Len(TypedItems)
      /\ \A j \in 1 .. k : TypedItems[Len(TypedItems) - j + 1].kind = Temp
  BY <1>0, <1>1, OperandsOnTop
<1> HIDE DEF k, f, rest, item
<1>6. k \in 0 .. Len(kinds) /\ k \in 0 .. Len(TypedItems) /\ k \in 0 .. Len(s.frame)
  BY <1>0, <1>1, <1>5
<1>7. Kind \in AllKinds /\ item \in Items
  BY <1>1 DEF AllKinds, Items, item
<1>8. Counted' /\ TypedItems' = Append(rest, item)
  BY <1>0, <1>6, <1>7, PushedItems DEF k, rest, item
<1>9. TS!Compute(k)
  <2>1. item.kind # ReturnTo
    BY <1>1, KindsApart DEF item
  <2> QED
    BY <1>0, <1>5, <1>7, <1>8, <2>1, AbstractPush DEF rest
<1>10. /\ rest \in Seq(Items) /\ Len(rest) = Len(TypedItems) - k
       /\ \A j \in 1 .. Len(TypedItems) - k : rest[j] = TypedItems[j]
  BY <1>0, <1>6, Shorter DEF rest
<1>11. /\ TypedItems' \in Seq(Items) /\ Len(TypedItems') = Len(TypedItems) - k + 1
       /\ (\A j \in 1 .. Len(TypedItems) - k : TypedItems'[j] = TypedItems[j])
       /\ TypedItems'[Len(TypedItems) - k + 1] = item
  BY <1>7, <1>8, <1>10, Longer
<1>12. Alike(TypedItems, TypedItems', Len(TypedItems) - k)
  <2> DEFINE n == Len(TypedItems) - k
  <2>1. n \in Nat /\ n <= Len(TypedItems) /\ n <= Len(TypedItems') /\ \A j \in 1 .. n : TypedItems[j] = TypedItems'[j]
    BY <1>0, <1>6, <1>11
  <2> HIDE DEF n
  <2>2. Alike(TypedItems, TypedItems', n)
    BY <2>1 DEF Alike
  <2> QED
    BY <2>2 DEF n
<1>13. /\ f \in Seq(Kinds) /\ Len(f) = Len(s.frame) - k
       /\ \A j \in 1 .. Len(s.frame) - k : f[j] = s.frame[j]
  <2> DEFINE g == s.frame
  <2>1. g \in Seq(Kinds) /\ k \in 0 .. Len(g)
    BY <1>1, <1>6
  <2> HIDE DEF g
  <2>2. /\ Without(g, k) \in Seq(Kinds) /\ Len(Without(g, k)) = Len(g) - k
        /\ \A j \in 1 .. Len(g) - k : Without(g, k)[j] = g[j]
    BY <2>1, Shorter
  <2>3. f = Without(g, k) /\ s.frame = g
    BY DEF f, g
  <2> QED
    BY <2>2, <2>3
<1>14. /\ Len(t.frame) = Len(s.frame) - k + 1 /\ t.frame[Len(s.frame) - k + 1] = Kind
       /\ \A j \in 1 .. Len(s.frame) - k : t.frame[j] = s.frame[j]
  <2>1. /\ Len(Append(f, Kind)) = Len(f) + 1 /\ Append(f, Kind)[Len(f) + 1] = Kind
        /\ \A j \in 1 .. Len(f) : Append(f, Kind)[j] = f[j]
    BY <1>1, <1>13, Longer
  <2> QED
    BY <1>3, <1>13, <2>1
<1>15. /\ Len(TypedItems') - Len(t.frame) = Len(TypedItems) - Len(s.frame)
       /\ Len(t.frame) >= Len(s.frame) - k
       /\ \A j \in Len(s.frame) - k + 1 .. Len(t.frame) :
             TypedItems'[Len(TypedItems) - Len(s.frame) + j].kind = t.frame[j]
  <2> DEFINE F == Len(s.frame)
             T == Len(t.frame)
             L == Len(TypedItems)
             L2 == Len(TypedItems')
  <2>1. F \in Nat /\ L \in Nat /\ k \in 0 .. F /\ T = F - k + 1 /\ L2 = L - k + 1
    BY <1>0, <1>1, <1>6, <1>11, <1>14
  <2>2. TypedItems'[L - k + 1].kind = t.frame[F - k + 1]
    BY <1>11, <1>14 DEF item
  <2> HIDE DEF F, T, L, L2
  <2>3. L2 - T = L - F /\ T >= F - k
    BY <2>1
  <2>4. \A j \in F - k + 1 .. T : j = F - k + 1 /\ L - F + j = L - k + 1
    BY <2>1
  <2>5. \A j \in F - k + 1 .. T : TypedItems'[L - F + j].kind = t.frame[j]
    BY <2>2, <2>4
  <2> QED
    BY <2>3, <2>5 DEF F, T, L, L2
<1>16. Framed'
  BY <1>2, <1>3, <1>4, <1>5, <1>11, <1>12, <1>14, <1>15, FramedAgain
<1>17. Tally' = Tally
  <2>1. (Entered' <=> t.entering) /\ (Entered <=> s.entering)
    BY <1>0, <1>1, <1>2, <1>3, <1>4, EnteringPlace DEF Entered
  <2>2. Counts(item, P) <=> \E x \in Var : Kind = StepOf(x)
    <3>1. Kind # ReturnTo /\ item.kind = Kind
      BY <1>1, KindsApart DEF item
    <3> QED
      BY <3>1 DEF Counts
  <2>3. InFrames' = InFrames + Bool(Counts(item, P))
    <3>1. Cardinality(Counting(TypedItems', P)) = Cardinality(Counting(TypedItems, P)) + Bool(Counts(item, P))
      BY <1>0, <1>5, <1>6, <1>7, <1>8, PushedCounting DEF rest
    <3> QED
      BY <3>1 DEF InFrames
  <2> DEFINE c == InFrames
             b == Counts(item, P)
  <2>4. c \in Nat
    BY <1>0, CountingNumber DEF InFrames
  <2>5. (Entered' <=> Entered /\ ~b) /\ (b => Entered)
    BY <1>1, <1>b, <2>1, <2>2
  <2> HIDE DEF c, b
  <2>6. c + Bool(b) + Bool(Entered') = c + Bool(Entered)
    <3>1. CASE b
      BY <2>4, <2>5, <3>1 DEF Bool
    <3>2. CASE ~b
      BY <2>4, <2>5, <3>2 DEF Bool
    <3> QED
      BY <3>1, <3>2
  <2> QED
    BY <2>3, <2>6 DEF Tally, c, b
<1>18. ParsWaiting' = ParsWaiting
  <2>1. \A j \in 1 .. k : TypedItems[Len(TypedItems) - j + 1].kind # ReturnTo
    BY <1>5, KindsApart DEF Kinds
  <2>2. item.kind # ReturnTo
    BY <1>1, KindsApart DEF item
  <2>3. Cells(TypedItems', Pars[prog]) = Cells(TypedItems, Pars[prog])
    BY <1>0, <1>6, <1>7, <1>8, <2>1, <2>2, PushedCells DEF rest
  <2> QED
    BY <2>3 DEF ParsWaiting
<1> QED
  BY <1>4, <1>18, <1>8, <1>9, <1>16, <1>17 DEF k

\* A call, also the one of an interrupt: the place where the caller goes on, r,
\* waits below its address, and the routine starts at its place, u.
LEMMA CalledRuns ==
    ASSUME VInv, VType', Fits, Fits', prog' = prog, variables' = variables, NEW s, Working(s),
           NEW k \in Nat, Temps(s.frame, k),
           NEW r \in Places[prog], r.frame = Without(s.frame, k), r.level = s.level, r.at >= pc,
           r.entering = s.entering,
           PopPush(k, ReturnWord(r.at), ReturnTo),
           NEW u \in Places[prog], u.frame = <<>>, u.level = "sub", ~u.entering, pc' = u.at
    PROVE  /\ Counted' /\ Framed' /\ TS!Call(k) /\ Tally' = Tally
           /\ ProgramsBalanced => ParsWaiting' = ParsWaiting + Pars[prog][r.at]
<1> DEFINE P == Places[prog]
           L == Len(TypedItems)
           F == Len(s.frame)
           item == [kind |-> ReturnTo, v |-> r.at]
           rest == Without(TypedItems, k)
<1>0. /\ TypedItems \in Seq(Items) /\ Len(kinds) = L /\ L \in Nat /\ P \subseteq AllPlaces
      /\ Counted /\ VType /\ prog \in Programs
  BY TheItems, PlacesAssumption DEF VInv, VType, Described
<1>1. s.frame \in Seq(Kinds) /\ F \in Nat /\ Stands(TypedItems, pc, L + 1, s)
  BY DEF Working
<1>2. /\ k <= F /\ k <= L /\ F <= L
      /\ \A j \in 1 .. k : TypedItems[L - j + 1].kind = Temp
  BY <1>0, <1>1, OperandsOnTop
<1> HIDE DEF L, F, item, rest
<1>3. k \in 0 .. L /\ k \in 0 .. F /\ L - k \in Nat
  BY <1>0, <1>1, <1>2
<1>4. r.at \in Int /\ ReturnWord(r.at) = r.at /\ ReturnWord(r.at) \in Num
  <2>1. r.at \in Int /\ ReturnWord(r.at) = r.at
    BY <1>0, PlaceAddress
  <2> QED
    BY <2>1, SignedType DEF ReturnWord
<1>5. ReturnTo \in AllKinds /\ item \in Items
  BY <1>4 DEF AllKinds, Items, item
<1>6. Counted' /\ TypedItems' = Append(rest, item)
  <2>1. k \in 0 .. Len(kinds)
    BY <1>0, <1>3
  <2> QED
    BY <1>0, <1>4, <1>5, <2>1, PushedItems DEF rest, item
<1>7. TS!Call(k)
  <2>1. item.kind = ReturnTo /\ item.v >= pc
    BY DEF item
  <2> QED
    BY <1>0, <1>2, <1>5, <1>6, <2>1, AbstractPush DEF rest, L
<1>8. /\ rest \in Seq(Items) /\ Len(rest) = L - k
      /\ \A j \in 1 .. L - k : rest[j] = TypedItems[j]
  BY <1>0, <1>3, Shorter DEF rest, L
<1>9. /\ TypedItems' \in Seq(Items) /\ Len(TypedItems') = L - k + 1
      /\ (\A j \in 1 .. L - k : TypedItems'[j] = TypedItems[j])
      /\ TypedItems'[L - k + 1] = item
  BY <1>5, <1>6, <1>8, Longer
<1>10. Alike(TypedItems, TypedItems', L - k)
  <2>1. L - k \in 0 .. L /\ L - k <= L - k + 1
    BY <1>0, <1>3
  <2> QED
    BY <1>9, <2>1 DEF Alike, L
<1>11. /\ r.frame \in Seq(Kinds) /\ Len(r.frame) = F - k
       /\ \A j \in 1 .. F - k : r.frame[j] = s.frame[j]
  <2> DEFINE g == s.frame
  <2>1. g \in Seq(Kinds) /\ k \in 0 .. Len(g) /\ Len(g) = F
    BY <1>1, <1>3 DEF F
  <2> HIDE DEF g
  <2>2. /\ Without(g, k) \in Seq(Kinds) /\ Len(Without(g, k)) = Len(g) - k
        /\ \A j \in 1 .. Len(g) - k : Without(g, k)[j] = g[j]
    BY <2>1, Shorter
  <2>3. r.frame = Without(g, k) /\ s.frame = g
    BY DEF g
  <2> QED
    BY <2>1, <2>2, <2>3
<1>12. Stands(TypedItems', pc', L - k + 1, r)
  <2> DEFINE n2 == L - k + 1
  <2>1. n2 \in Nat /\ n2 # Len(TypedItems') + 1
    BY <1>3, <1>9
  <2>2. r.at = AddressAt(TypedItems', pc', n2)
    BY <1>9, <2>1 DEF AddressAt, item
  <2>3. Base(n2, r) = L - F
    <3>1. Base(n2, r) = n2 - 1 - Len(r.frame)
      BY DEF Base
    <3> QED
      BY <1>0, <1>1, <1>3, <1>11, <3>1
  <2>4. Len(r.frame) >= F - k /\ F - k + 1 .. Len(r.frame) = {}
    BY <1>1, <1>3, <1>11
  <2> HIDE DEF n2
  <2>5. /\ Stands(TypedItems, pc, Len(TypedItems) + 1, s) /\ k <= Len(s.frame)
        /\ Base(n2, r) = Len(TypedItems) - Len(s.frame)
        /\ Alike(TypedItems, TypedItems', Len(TypedItems) - k) /\ Len(r.frame) >= Len(s.frame) - k
        /\ \A j \in 1 .. Len(s.frame) - k : r.frame[j] = s.frame[j]
    BY <1>1, <1>2, <1>10, <1>11, <2>3, <2>4 DEF L, F
  <2>6. \A j \in Len(s.frame) - k + 1 .. Len(r.frame) :
           TypedItems'[Len(TypedItems) - Len(s.frame) + j].kind = r.frame[j]
    BY <2>4 DEF F
  <2>7. r.frame \in Seq(Kinds) /\ s.frame \in Seq(Kinds) /\ r.level = s.level /\ TypedItems \in Seq(Items)
        /\ TypedItems' \in Seq(Items)
    BY <1>0, <1>1, <1>9, <1>11
  <2>8. Stands(TypedItems', pc', n2, r)
    BY <2>1, <2>2, <2>5, <2>6, <2>7, FrameMoves
  <2> QED
    BY <2>8 DEF n2
<1>13. Waiting(TypedItems', pc', P)
  <2>1. Waiting(TypedItems, pc, P)
    BY DEF VInv, Framed
  <2> HIDE DEF P
  <2>2. \E x \in P : Stands(TypedItems', pc', L - k + 1, x)
    BY <1>12 DEF P
  <2> QED
    BY <1>0, <1>3, <1>9, <1>10, <2>1, <2>2, CallerWaits
<1>14. Stands(TypedItems', pc', Len(TypedItems') + 1, u)
  <2> DEFINE b == Base(Len(TypedItems') + 1, u)
  <2>1. b = L - k + 1
    <3>1. b = L - k + 1 + 1 - 1 - 0
      BY <1>9 DEF Base
    <3> QED
      BY <1>3, <3>1
  <2>2. u.at = AddressAt(TypedItems', pc', Len(TypedItems') + 1)
    BY DEF AddressAt
  <2>3. TypedItems'[b].kind = ReturnTo
    BY <1>9, <2>1 DEF item
  <2>4. Len(u.frame) = 0
    OBVIOUS
  <2> HIDE DEF b
  <2>5. b >= 0 /\ b # 0
    BY <1>3, <2>1
  <2>6. \A j \in 1 .. Len(u.frame) : FALSE
    BY <2>4
  <2> QED
    BY <2>2, <2>3, <2>5, <2>6 DEF Stands, b
<1>15. Tally' = Tally
  <2>1. s \in P /\ s.at = pc
    BY DEF Working
  <2>2. ~Entered' /\ (Entered <=> s.entering) /\ (EnteringAt(r.at, P) <=> r.entering)
    BY <1>0, <2>1, EnteringPlace DEF Entered
  <2>3. Counts(item, P) <=> Entered
    <3>1. item.kind = ReturnTo /\ item.v = r.at
      BY DEF item
    <3> QED
      BY <2>2, <3>1, CountedKinds
  <2>4. Cardinality(Counting(TypedItems', P)) = Cardinality(Counting(TypedItems, P)) + Bool(Counts(item, P))
    <3>1. /\ k \in 0 .. Len(TypedItems) /\ \A j \in 1 .. k : TypedItems[Len(TypedItems) - j + 1].kind = Temp
          /\ TypedItems' = Append(Without(TypedItems, k), item)
      BY <1>2, <1>3, <1>6 DEF rest, L
    <3> QED
      BY <1>0, <1>5, <3>1, PushedCounting
  <2>5. InFrames' = InFrames + Bool(Entered)
    BY <2>3, <2>4 DEF InFrames, Bool
  <2> DEFINE c == InFrames + Bool(Entered)
  <2>6. c \in Nat
    BY <1>0, CountingNumber DEF InFrames, Bool
  <2>7. Tally' = InFrames' + 0
    BY <2>2 DEF Tally, Bool
  <2> HIDE DEF c
  <2>8. Tally' = c + 0 /\ Tally = c
    BY <2>5, <2>7 DEF Tally, c
  <2> QED
    BY <2>6, <2>8
<1>16. ASSUME ProgramsBalanced PROVE ParsWaiting' = ParsWaiting + Pars[prog][r.at]
  <2>1. Pars[prog][r.at] \in 0 .. ParamSize
    BY <1>0, <1>16, ParsType
  <2>2. item.kind = ReturnTo /\ item.v = r.at
    BY DEF item
  <2>3. \A j \in 1 .. k : TypedItems[Len(TypedItems) - j + 1].kind # ReturnTo
    BY <1>2, KindsApart DEF Kinds, L
  <2>4. k \in 0 .. Len(TypedItems) /\ TypedItems' = Append(Without(TypedItems, k), item)
    BY <1>3, <1>6 DEF rest, L
  <2>5. Cardinality(Cells(TypedItems', Pars[prog])) = Cardinality(Cells(TypedItems, Pars[prog])) + Pars[prog][r.at]
    BY <1>0, <1>5, <2>1, <2>2, <2>3, <2>4, PushedCells
  <2> QED
    BY <2>5 DEF ParsWaiting
<1> QED
  BY <1>6, <1>7, <1>13, <1>14, <1>15, <1>16 DEF Framed, Running

-----------------------------------------------------------------------------
\* There is one remainder.
LEMMA OneRemainder == ASSUME NEW d \in Nat, d >= 1, NEW q \in Int, NEW r \in 0 .. d - 1, NEW n \in Int, n = d * q + r
                      PROVE n % d = r
<1>1. PICK q2 \in Int, r2 \in 0 .. d - 1 : n = d * q2 + r2 /\ r2 = n % d
  <2>1. n \div d \in Int /\ n % d \in 0 .. d - 1 /\ n = d * (n \div d) + (n % d)
    OBVIOUS
  <2> QED
    BY <2>1
<1>2. d * (q - q2) = r2 - r /\ d * (q2 - q) = r - r2
  <2>1. d * (q - q2) = d * q - d * q2 /\ d * (q2 - q) = d * q2 - d * q
    OBVIOUS
  <2> DEFINE a == d * q
             b == d * q2
  <2>2. a \in Int /\ b \in Int /\ n = a + r /\ n = b + r2
    BY <1>1
  <2> HIDE DEF a, b
  <2>3. a - b = r2 - r /\ b - a = r - r2
    BY <2>2
  <2> QED
    BY <2>1, <2>3 DEF a, b
<1>3. q - q2 >= 1 => d * (q - q2) >= d
  OBVIOUS
<1>4. q2 - q >= 1 => d * (q2 - q) >= d
  OBVIOUS
<1>5. q = q2
  BY <1>1, <1>2, <1>3, <1>4
<1> QED
  <2> DEFINE a == d * q
  <2>1. a \in Int /\ n = a + r /\ n = a + r2
    BY <1>1, <1>5
  <2>2. r2 \in Int /\ r2 = n % d
    <3>1. r2 = n % d
      BY <1>1, Zenon
    <3> QED
      BY <3>1
  <2> HIDE DEF a
  <2>3. r = r2
    BY <2>1, <2>2
  <2> QED
    BY <2>2, <2>3

\* Words, once around.
LEMMA Around == ASSUME NEW n \in Int, -(2 * Half) <= n, n < 4 * Half
                PROVE n % (2 * Half) = IF n < 0 THEN n + 2 * Half ELSE IF n < 2 * Half THEN n ELSE n - 2 * Half
<1> DEFINE d == 2 * Half
<1>1. d \in Nat /\ d >= 1 /\ -d <= n /\ n < 2 * d
  BY WordAssumption
<1> HIDE DEF d
<1>2. CASE n < 0
  <2>1. n = d * (-1) + (n + d) /\ n + d \in 0 .. d - 1
    BY <1>1, <1>2
  <2>2. n % d = n + d
    BY <1>1, <2>1, OneRemainder
  <2> QED
    BY <1>2, <2>2 DEF d
<1>3. CASE n >= 0 /\ n < d
  <2>1. n = d * 0 + n /\ n \in 0 .. d - 1
    BY <1>1, <1>3
  <2>2. n % d = n
    BY <1>1, <2>1, OneRemainder
  <2> QED
    BY <1>3, <2>2 DEF d
<1>4. CASE n >= d
  <2>1. n = d * 1 + (n - d) /\ n - d \in 0 .. d - 1
    BY <1>1, <1>4
  <2>2. n % d = n - d
    BY <1>1, <2>1, OneRemainder
  <2>3. ~(n < 0) /\ ~(n < d)
    BY <1>1, <1>4
  <2> QED
    BY <2>2, <2>3 DEF d
<1> QED
  BY <1>1, <1>2, <1>3, <1>4

\* The sum of an unsigned variable and a signed word, taken as a signed number, is
\* the sum of the signed numbers; a word and its sign.
LEMMA SignedSum == ASSUME NEW u \in 0 .. 2 * Half - 1, NEW w \in Num
                   PROVE /\ ToSigned(ToUnsigned(u + w)) = TS!WrapNum(ToSigned(u) + w)
                         /\ ToSigned(u + w) = ToSigned(ToUnsigned(u + w))
<1> DEFINE h == Half
           n == u + w
           m == n % (2 * h)
           su == IF u < h THEN u ELSE u - 2 * h
<1>1. h \in Nat /\ h > 1 /\ u \in 0 .. 2 * h - 1 /\ w \in -h .. h - 1
  BY WordAssumption DEF Num
<1>2. n \in Int /\ -(2 * h) <= n /\ n < 4 * h
  BY <1>1
<1>3. m = IF n < 0 THEN n + 2 * h ELSE IF n < 2 * h THEN n ELSE n - 2 * h
  BY <1>2, Around
<1>4. u % (2 * h) = u
  <2>1. u \in Int /\ -(2 * h) <= u /\ u < 4 * h /\ u < 2 * h /\ ~(u < 0)
    BY <1>1
  <2> QED
    BY <2>1, Around
<1>5. m % (2 * h) = m /\ m \in 0 .. 2 * h - 1
  <2>1. m \in Int /\ -(2 * h) <= m /\ m < 4 * h /\ m < 2 * h /\ ~(m < 0) /\ m \in 0 .. 2 * h - 1
    <3> HIDE DEF m
    <3> QED
      BY <1>1, <1>3
  <2> QED
    BY <2>1, Around
<1> DEFINE t == su + w + h
           z == t % (2 * h)
<1>6. t \in Int /\ -(2 * h) <= t /\ t < 4 * h
  BY <1>1
<1>7. z = IF t < 0 THEN t + 2 * h ELSE IF t < 2 * h THEN t ELSE t - 2 * h
  BY <1>6, Around
<1>8. ToSigned(u) = su /\ ToUnsigned(u + w) = m
  BY <1>4 DEF ToSigned, ToUnsigned
<1>9. ToSigned(m) = (IF m < h THEN m ELSE m - 2 * h) /\ ToSigned(u + w) = (IF m < h THEN m ELSE m - 2 * h)
  BY <1>5 DEF ToSigned, ToUnsigned
<1>10. TS!WrapNum(ToSigned(u) + w) = -h + z
  <2>1. h - 1 - (-h) + 1 = 2 * h
    BY <1>1
  <2>a. su \in Int /\ w \in Int /\ h \in Int
    BY <1>1
  <2>2. \A y : TS!WrapNum(y) = -Half + ((y - (-Half)) % (Half - 1 - (-Half) + 1))
    BY DEF TS!WrapNum
  <2> DEFINE y == su + w
  <2> HIDE DEF y, su, t
  <2>3. TS!WrapNum(y) = -h + ((y - (-h)) % (h - 1 - (-h) + 1))
    BY <2>2
  <2>b. y = su + w
    BY DEF y
  <2>c. y - (-h) = t
    BY <2>a, <2>b DEF t
  <2>d. ToSigned(u) + w = y
    BY <1>8, <2>b
  <2>4. y - (-h) = t /\ ToSigned(u) + w = y
    BY <2>c, <2>d
  <2> QED
    BY <2>1, <2>3, <2>4, Zenon
<1> HIDE DEF m, z
<1>11. (IF m < h THEN m ELSE m - 2 * h) = -h + z
  BY <1>1, <1>3, <1>7
<1> QED
  BY <1>8, <1>9, <1>10, <1>11

\* On one side of zero signed and unsigned numbers have the same order.
LEMMA SameSide == ASSUME NEW w \in Num, NEW n \in 0 .. 2 * Half - 1, NEW e \in Num, ToSigned(n) < 0 <=> e < 0
                  PROVE Ahead(w, n, e) <=> IF w < 0 THEN ToSigned(n) >= e ELSE ToSigned(n) <= e
<1> DEFINE h == Half
           sn == IF n < h THEN n ELSE n - 2 * h
           ue == IF e < 0 THEN e + 2 * h ELSE e
<1>1. h \in Nat /\ h > 1 /\ n \in 0 .. 2 * h - 1 /\ e \in -h .. h - 1 /\ w \in Int
  BY WordAssumption, Numbers DEF Num
<1>2. ToSigned(n) = sn
  <2>1. n \in Int /\ -(2 * h) <= n /\ n < 4 * h /\ n < 2 * h /\ ~(n < 0)
    BY <1>1
  <2>2. n % (2 * h) = n
    BY <2>1, Around
  <2> QED
    BY <2>2 DEF ToSigned, ToUnsigned
<1>3. ToUnsigned(e) = ue
  <2>1. e \in Int /\ -(2 * h) <= e /\ e < 4 * h /\ e < 2 * h
    BY <1>1
  <2>2. e % (2 * h) = IF e < 0 THEN e + 2 * h ELSE e
    BY <2>1, Around
  <2> QED
    BY <2>2 DEF ToUnsigned
<1>4. (sn < 0 <=> e < 0) => ((n >= ue <=> sn >= e) /\ (n <= ue <=> sn <= e))
  BY <1>1
<1>5. Ahead(w, n, e) <=> IF w < 0 THEN n >= ue ELSE n <= ue
  BY <1>3 DEF Ahead
<1> HIDE DEF sn, ue
<1> QED
  BY <1>2, <1>4, <1>5

\* NEXT finds the end and step of its own loop, and counts and compares as the
\* abstract machine does.
LEMMA LoopIsOwn ==
    ASSUME VInv, Fits, Next, NEW s, Working(s)
    PROVE  /\ ins.x \in Var /\ ins.to \in Nat /\ prog' = prog /\ ins.op = "NEXT"
           /\ Len(s.frame) >= 2 /\ Len(TypedItems) >= 2 /\ Len(TypedItems) \in Nat
           /\ TS!InLoop(ins.x)
           /\ LET n == ToUnsigned(variables[ins.x] + Word(1))
                  vs == [x \in Var |-> ToSigned(variables[x])]
              IN /\ vs' = [vs EXCEPT ![ins.x] = TS!WrapNum(vs[ins.x] + TS!Top(1).v)]
                 /\ OneSide => (TS!Ahead(ins.x, vs'[ins.x]) <=> Ahead(Word(1), n, Word(2)))
<1> DEFINE n == ToUnsigned(variables[ins.x] + Word(1))
           vs == [x \in Var |-> ToSigned(variables[x])]
           L == Len(TypedItems)
           F == Len(s.frame)
           x0 == ins.x
<1>1. /\ mode = "run" /\ ins.op = "NEXT" /\ prog' = prog
      /\ variables' = [variables EXCEPT ![x0] = n]
  BY DEF Next, Executing
<1>2. x0 \in Var /\ ins.to \in Nat
  BY <1>1, Instruction DEF VInv, VType, Operands
<1>3. /\ TypedItems \in Seq(Items) /\ L \in Nat /\ L = Len(kinds) /\ VType /\ Counted
  BY TheItems DEF VInv
<1>4. s.frame \in Seq(Kinds) /\ F \in Nat /\ Stands(TypedItems, pc, L + 1, s) /\ Loop(s.frame, x0)
  BY <1>1 DEF Working, Fitting
<1>5. /\ F <= L
      /\ \A j \in 1 .. F : TypedItems[L - j + 1].kind = s.frame[F - j + 1]
  <2>1. OnTop(TypedItems, s.frame)
    BY <1>3, <1>4, FrameOnTop
  <2> QED
    BY <2>1, Zenon DEF OnTop
<1>6. F > 1 /\ s.frame[F] = StepOf(x0) /\ s.frame[F - 1] = EndOf(x0)
  BY <1>4 DEF Loop
<1>7. /\ 1 \in 1 .. F /\ 2 \in 1 .. F /\ F - 1 + 1 = F /\ F - 2 + 1 = F - 1 /\ L >= 2
      /\ 1 \in 1 .. Len(kinds) /\ 2 \in 1 .. Len(kinds)
  <2> HIDE DEF F, L
  <2> QED
    BY <1>3, <1>4, <1>5, <1>6
<1>8. TypedItems[L - 1 + 1].kind = StepOf(x0) /\ TypedItems[L - 2 + 1].kind = EndOf(x0)
  <2> HIDE DEF F, L
  <2> QED
    BY <1>5, <1>6, <1>7
<1>9. Word(1) = TypedItems[L - 1 + 1].v /\ Word(2) = TypedItems[L - 2 + 1].v
  BY <1>3, <1>7, WordIsItem
<1>10. TS!InLoop(x0) /\ TS!Top(1).v = Word(1) /\ TS!Top(2).v = Word(2)
  BY <1>7, <1>8, <1>9 DEF TS!InLoop, TS!Top, TS!StepOf, TS!EndOf, StepOf, EndOf
<1>11. /\ variables[x0] \in 0 .. 2 * Half - 1 /\ Word(1) \in Num /\ Word(2) \in Num
       /\ variables \in [Var -> 0 .. 2 * Half - 1]
  BY <1>2, <1>3, WordType DEF VType, ValuesTyped
<1>12. /\ ToSigned(n) = TS!WrapNum(ToSigned(variables[x0]) + Word(1))
       /\ ToSigned(variables[x0] + Word(1)) = ToSigned(n)
  BY <1>11, SignedSum
<1>13. n \in 0 .. 2 * Half - 1
  <2>1. variables[x0] \in Int
    BY <1>11, WordAssumption
  <2>2. Word(1) \in Int
    BY <1>11, Numbers
  <2>3. variables[x0] + Word(1) \in Int
    BY <2>1, <2>2
  <2> QED
    BY <2>3, UnsignedType
<1>14. OneSide => (ToSigned(n) < 0 <=> Word(2) < 0)
  BY <1>1, <1>12 DEF OneSide
<1>15. OneSide => (Ahead(Word(1), n, Word(2)) <=> IF Word(1) < 0 THEN ToSigned(n) >= Word(2) ELSE ToSigned(n) <= Word(2))
  BY <1>11, <1>13, <1>14, SameSide
<1> HIDE DEF n
<1>16. /\ vs' = [x \in Var |-> ToSigned(variables'[x])]
       /\ \A x \in Var : variables'[x] = IF x = x0 THEN n ELSE variables[x]
  BY <1>1, <1>2, <1>11
<1>17. vs' = [vs EXCEPT ![x0] = ToSigned(n)] /\ vs'[x0] = ToSigned(n)
  BY <1>2, <1>16
<1>18. vs[x0] = ToSigned(variables[x0])
  BY <1>2
<1> HIDE DEF vs
<1>19. vs' = [vs EXCEPT ![x0] = TS!WrapNum(vs[x0] + TS!Top(1).v)]
  BY <1>10, <1>12, <1>17, <1>18
<1>20. OneSide => (TS!Ahead(x0, vs'[x0]) <=> Ahead(Word(1), n, Word(2)))
  BY <1>10, <1>15, <1>17 DEF TS!Ahead
<1> QED
  BY <1>1, <1>2, <1>3, <1>4, <1>6, <1>7, <1>10, <1>19, <1>20 DEF n, vs

\* NEXT, the loop goes on or is left.
LEMMA NextRuns ==
    ASSUME VInv, VType', Fits, Next, NEW s, Working(s)
    PROVE  /\ Counted' /\ Fits' /\ Framed' /\ (OneSide => TS!LoopBack(ins.x, ins.to))
           /\ Len(TypedItems) >= 2 /\ ParsWaiting' = ParsWaiting
           /\ \/ pc' = ins.to /\ TypedItems' = TypedItems
              \/ pc' = pc + 1 /\ TypedItems' = Without(TypedItems, 2)
<1> DEFINE n == ToUnsigned(variables[ins.x] + Word(1))
           vs == [x \in Var |-> ToSigned(variables[x])]
           L == Len(TypedItems)
           P == Places[prog]
<1>0. /\ TypedItems \in Seq(Items) /\ L \in Nat /\ L = Len(kinds) /\ VType /\ Counted /\ prog \in Programs
  BY TheItems DEF VInv, VType
<1>1. /\ ins.x \in Var /\ ins.to \in Nat /\ prog' = prog /\ ins.op = "NEXT"
      /\ Len(s.frame) >= 2 /\ L >= 2 /\ TS!InLoop(ins.x)
      /\ vs' = [vs EXCEPT ![ins.x] = TS!WrapNum(vs[ins.x] + TS!Top(1).v)]
      /\ OneSide => (TS!Ahead(ins.x, vs'[ins.x]) <=> Ahead(Word(1), n, Word(2)))
  BY LoopIsOwn
<1>2. s \in AllPlaces /\ s.at = pc /\ s.frame \in Seq(Kinds) /\ NextPlaces(s, ins) \subseteq P
  BY <1>1 DEF Working
<1>3. \/ Ahead(Word(1), n, Word(2)) /\ GoTo(ins.to) /\ SameStack
      \/ ~Ahead(Word(1), n, Word(2)) /\ Step1 /\ Pop(2)
  BY DEF Next
<1> HIDE DEF n
<1>4. CASE Ahead(Word(1), n, Word(2)) /\ GoTo(ins.to) /\ SameStack
  <2> DEFINE t == [s EXCEPT !.at = ins.to]
  <2>1. t \in P
    BY <1>1, <1>2 DEF NextPlaces
  <2>2. t.at = ins.to /\ t.frame = s.frame /\ t.level = s.level
    BY <1>2 DEF AllPlaces
  <2> HIDE DEF t
  <2>3. pc' = t.at
    BY <1>0, <1>4, <2>1, <2>2, PlaceAddress DEF GoTo
  <2>4. Counted' /\ Fits' /\ TypedItems' = TypedItems
    BY <1>0, <1>4, KeptItems
  <2>5. Len(s.frame) \in Nat
    BY <1>2
  <2>6. Alike(TypedItems, TypedItems', L - 0)
    BY <1>0, <2>4 DEF Alike
  <2>7. Framed'
    <3>1. /\ 0 \in Nat /\ 0 <= Len(s.frame) /\ TypedItems' \in Seq(Items)
          /\ Len(TypedItems') - Len(t.frame) = Len(TypedItems) - Len(s.frame)
          /\ Len(t.frame) >= Len(s.frame) - 0
          /\ \A j \in 1 .. Len(s.frame) - 0 : t.frame[j] = s.frame[j]
      BY <1>0, <2>2, <2>4, <2>5
    <3>2. Len(s.frame) - 0 + 1 .. Len(t.frame) = {}
      BY <2>2, <2>5
    <3> QED
      BY <1>1, <2>1, <2>2, <2>3, <2>6, <3>1, <3>2, FramedAgain
  <2>8. OneSide => TS!LoopBack(ins.x, ins.to)
    BY <1>1, <1>4, <2>2, <2>3, <2>4 DEF TS!LoopBack
  <2> QED
    BY <1>1, <2>2, <2>3, <2>4, <2>7, <2>8 DEF ParsWaiting
<1>5. CASE ~Ahead(Word(1), n, Word(2)) /\ Step1 /\ Pop(2)
  <2> DEFINE t == [s EXCEPT !.at = s.at + 1, !.frame = Without(@, 2)]
             F == Len(s.frame)
  <2>1. t \in P
    BY <1>1, <1>2 DEF NextPlaces
  <2>2. t.at = pc + 1 /\ t.frame = Without(s.frame, 2) /\ t.level = s.level
    BY <1>2 DEF AllPlaces
  <2> HIDE DEF t
  <2>3. pc' = t.at
    BY <1>0, <1>5, <2>1, <2>2, PlaceAddress DEF GoTo, Step1
  <2>4. 2 \in 0 .. L /\ 2 \in 0 .. Len(kinds) /\ F \in Nat /\ 2 \in 0 .. F
    BY <1>0, <1>1, <1>2
  <2>5. Counted' /\ Fits' /\ TypedItems' = Without(TypedItems, 2)
    BY <1>0, <1>5, <2>4, PoppedItems
  <2>6. /\ TypedItems' \in Seq(Items) /\ Len(TypedItems') = L - 2
        /\ \A j \in 1 .. L - 2 : TypedItems'[j] = TypedItems[j]
    BY <1>0, <2>4, <2>5, Shorter
  <2>7. Alike(TypedItems, TypedItems', L - 2)
    BY <1>0, <2>4, <2>6 DEF Alike
  <2>8. /\ Len(t.frame) = F - 2
        /\ \A j \in 1 .. F - 2 : t.frame[j] = s.frame[j]
    <3> DEFINE g == s.frame
    <3>1. g \in Seq(Kinds) /\ 2 \in 0 .. Len(g) /\ Len(g) = F
      BY <1>2, <2>4
    <3> HIDE DEF g, F
    <3>2. Len(Without(g, 2)) = Len(g) - 2 /\ \A j \in 1 .. Len(g) - 2 : Without(g, 2)[j] = g[j]
      BY <3>1, Shorter
    <3>3. t.frame = Without(g, 2) /\ s.frame = g
      BY <2>2 DEF g
    <3> QED
      BY <3>1, <3>2, <3>3
  <2>9. Framed'
    <3> HIDE DEF L, F
    <3>1. /\ 2 \in Nat /\ 2 <= F
          /\ Len(TypedItems') - Len(t.frame) = L - F /\ Len(t.frame) >= F - 2
          /\ F - 2 + 1 .. Len(t.frame) = {}
      BY <1>0, <2>4, <2>6, <2>8
    <3> QED
      BY <1>1, <2>1, <2>2, <2>3, <2>6, <2>7, <2>8, <3>1, FramedAgain DEF L, F
  <2>10. OneSide => TS!LoopBack(ins.x, ins.to)
    BY <1>1, <1>5, <2>2, <2>3, <2>5 DEF TS!LoopBack, TS!Rest, Without
  <2>11. ParsWaiting' = ParsWaiting
    <3>1. TypedItems[L].kind = StepOf(ins.x) /\ TypedItems[L - 1].kind = EndOf(ins.x)
      <4>1. L - 1 + 1 = L /\ L - 2 + 1 = L - 1
        BY <1>0
      <4> QED
        BY <1>1, <4>1 DEF TS!InLoop, TS!Top, TS!StepOf, TS!EndOf, StepOf, EndOf
    <3>2. \A j \in 1 .. 2 : L - j + 1 = L \/ L - j + 1 = L - 1
      BY <1>0
    <3>3. \A j \in 1 .. 2 : TypedItems[Len(TypedItems) - j + 1].kind # ReturnTo
      BY <1>1, <3>1, <3>2, KindsApart DEF Kinds
    <3>4. Cells(TypedItems', Pars[prog]) = Cells(TypedItems, Pars[prog])
      BY <1>0, <2>4, <2>5, <3>3, DroppedCells
    <3> QED
      BY <1>1, <3>4 DEF ParsWaiting
  <2> QED
    BY <1>1, <2>2, <2>3, <2>5, <2>9, <2>10, <2>11
<1> QED
  BY <1>3, <1>4, <1>5

\* RETURN and RETI go back to where the call on top came from.
LEMMA ReturnedRuns ==
    ASSUME VInv, VType', Fits, prog' = prog, variables' = variables, NEW s, Working(s),
           ins.op \in {"RETURN", "RETI"}, GoTo(Word(1)), Pop(1)
    PROVE  /\ Counted' /\ Fits' /\ Framed' /\ TS!Return /\ Tally' = Tally
           /\ ProgramsBalanced => ParsWaiting = ParsWaiting' + Pars[prog][pc']
           /\ \E t \in Places[prog] : t.at = pc'
<1> DEFINE L == Len(TypedItems)
           P == Places[prog]
<1>0. /\ TypedItems \in Seq(Items) /\ L \in Nat /\ L = Len(kinds) /\ VType /\ Counted /\ prog \in Programs
      /\ P \subseteq AllPlaces
  BY TheItems, PlacesAssumption DEF VInv, VType, Described
<1>1. /\ s.frame = <<>> /\ s.level = "sub" /\ Stands(TypedItems, pc, L + 1, s)
      /\ ~s.entering /\ s \in P /\ s.at = pc
  BY DEF Working, Fitting
<1>2. L >= 1 /\ L \in Returns(TypedItems)
  BY <1>0, <1>1, ReturnOnTop
<1>3. Waiting(TypedItems, pc, P)
  BY DEF VInv, Framed
<1>4. PICK t \in P : Stands(TypedItems, pc, L, t)
  BY <1>2, <1>3 DEF Waiting
<1>5. t.frame \in Seq(Kinds)
  BY <1>0, <1>4 DEF AllPlaces
<1>6. /\ t.at = TypedItems[L].v
      /\ \A items2 \in Seq(Items) : Len(items2) = L - 1 /\ Alike(TypedItems, items2, L - 1)
             => Stands(items2, t.at, Len(items2) + 1, t)
  BY <1>0, <1>2, <1>4, <1>5, FrameRunsAgain
<1>7. L - 1 + 1 = L /\ 1 \in 0 .. Len(kinds) /\ 1 \in 0 .. L /\ 1 \in 1 .. Len(kinds) /\ L - 1 \in Nat
  BY <1>0, <1>2
<1>8. Word(1) = TypedItems[L].v
  <2>1. Word(1) = TypedItems[L - 1 + 1].v
    BY <1>0, <1>7, WordIsItem
  <2> QED
    BY <1>7, <2>1
<1>9. pc' = t.at
  BY <1>0, <1>4, <1>6, <1>8, PlaceAddress DEF GoTo
<1>10. Counted' /\ Fits' /\ TypedItems' = Without(TypedItems, 1)
  BY <1>0, <1>7, PoppedItems
<1>11. /\ TypedItems' \in Seq(Items) /\ Len(TypedItems') = L - 1
       /\ \A j \in 1 .. L - 1 : TypedItems'[j] = TypedItems[j]
  BY <1>0, <1>7, <1>10, Shorter
<1>12. Alike(TypedItems, TypedItems', L - 1)
  BY <1>0, <1>7, <1>11 DEF Alike
<1>13. Stands(TypedItems', pc', Len(TypedItems') + 1, t)
  BY <1>6, <1>9, <1>11, <1>12
<1>14. Waiting(TypedItems', pc', P)
  <2>1. L - 1 + 1 .. Len(TypedItems') = {}
    BY <1>0, <1>11
  <2> HIDE DEF P
  <2> QED
    BY <1>0, <1>3, <1>7, <1>11, <1>12, <2>1, StillWaiting
<1>15. Framed'
  BY <1>4, <1>13, <1>14 DEF Framed, Running
<1>16. TS!Return
  <2> DEFINE vs == [x \in Var |-> ToSigned(variables[x])]
  <2>1. TypedItems # <<>>
    BY <1>0, <1>2
  <2>2. TypedItems[L].kind = ReturnTo
    BY <1>2 DEF Returns
  <2>3. vs' = vs
    OBVIOUS
  <2>4. TS!Top(1) = TypedItems[L]
    BY <1>7 DEF TS!Top
  <2>5. TypedItems' = TS!Rest(1)
    BY <1>10 DEF TS!Rest, Without
  <2> QED
    BY <1>6, <1>9, <2>1, <2>2, <2>3, <2>4, <2>5 DEF TS!Return, TS!ReturnTo, ReturnTo
<1>17. Tally' = Tally
  <2>1. ~Entered
    BY <1>0, <1>1, EnteringPlace DEF Entered
  <2>2. TypedItems[L].kind = ReturnTo
    BY <1>2 DEF Returns
  <2>3. Counts(TypedItems[L], P) <=> Entered'
    BY <1>6, <1>9, <2>2, CountedKinds DEF Entered
  <2>4. Cardinality(Counting(TypedItems, P)) = Cardinality(Counting(TypedItems', P)) + Bool(Counts(TypedItems[L], P))
    <3> DEFINE m == L - 1
    <3>1. m \in Nat /\ m + 1 .. Len(TypedItems') = {} /\ L \in m + 1 .. L /\ \A n \in m + 1 .. L : n = L
      BY <1>0, <1>7, <1>11
    <3>2. Alike(TypedItems', TypedItems, m)
      BY <1>0, <1>7, <1>11 DEF Alike
    <3> HIDE DEF m
    <3> QED
      BY <1>0, <1>11, <3>1, <3>2, MoreCounting
  <2>5. InFrames = InFrames' + Bool(Entered')
    BY <2>3, <2>4 DEF InFrames, Bool
  <2> DEFINE c == InFrames
  <2>6. c \in Nat
    BY <1>0, CountingNumber DEF InFrames
  <2>7. Tally = InFrames + 0 /\ Tally' = InFrames' + Bool(Entered')
    BY <2>1 DEF Tally, Bool
  <2> HIDE DEF c
  <2>8. Tally = c + 0 /\ Tally' = c
    BY <2>5, <2>7 DEF c
  <2> QED
    BY <2>6, <2>8
<1>18. ASSUME ProgramsBalanced PROVE ParsWaiting = ParsWaiting' + Pars[prog][pc']
  <2> DEFINE m == L - 1
             f == TypedItems
             g == TypedItems'
  <2>1. m \in Nat /\ m + 1 .. Len(g) = {} /\ m + 1 = L /\ Len(f) = m + 1
    BY <1>0, <1>7, <1>11
  <2>2. Alike(g, f, m)
    BY <1>0, <1>7, <1>11 DEF Alike
  <2>3. f[m + 1].kind = ReturnTo /\ f[m + 1].v = pc'
    BY <1>2, <1>6, <1>9, <2>1 DEF Returns
  <2>4. Pars[prog][pc'] \in 0 .. ParamSize
    BY <1>0, <1>4, <1>9, <1>18, ParsType
  <2>5. f \in Seq(Items) /\ g \in Seq(Items) /\ \A n \in m + 1 .. Len(g) : g[n].kind # ReturnTo
    BY <1>0, <1>11, <2>1
  <2> HIDE DEF m, f, g
  <2>6. Cardinality(Cells(f, Pars[prog])) = Cardinality(Cells(g, Pars[prog])) + Pars[prog][f[m + 1].v]
    BY <2>1, <2>2, <2>3, <2>4, <2>5, MoreCells
  <2> QED
    BY <2>3, <2>6 DEF ParsWaiting, f, g
<1> QED
  BY <1>4, <1>9, <1>10, <1>15, <1>16, <1>17, <1>18

\* An instruction that fails has taken its operands, and nothing runs after it.
LEMMA FailedRuns ==
    ASSUME VInv, VType', Fits, prog' = prog, NEW s, Working(s), NEW k \in Nat, Temps(s.frame, k),
           Pop(k), result' = "ERROR"
    PROVE  Counted' /\ Fits' /\ Framed' /\ TS!Use(k) /\ InFrames' = InFrames
<1> DEFINE L == Len(TypedItems)
           P == Places[prog]
<1>0. /\ TypedItems \in Seq(Items) /\ L \in Nat /\ L = Len(kinds) /\ VType /\ Counted
      /\ P \subseteq AllPlaces
  BY TheItems, PlacesAssumption DEF VInv, VType, Described
<1>1. s.frame \in Seq(Kinds) /\ Stands(TypedItems, pc, L + 1, s)
  BY DEF Working
<1>2. k <= L /\ \A j \in 1 .. k : TypedItems[L - j + 1].kind = Temp
  BY <1>0, <1>1, OperandsOnTop
<1>3. k \in 0 .. Len(kinds) /\ k \in 0 .. L /\ L - k \in Nat
  BY <1>0, <1>2
<1>4. Counted' /\ Fits' /\ TypedItems' = Without(TypedItems, k)
  BY <1>0, <1>3, PoppedItems
<1>5. TS!Use(k)
  BY <1>2, <1>4, AbstractUse
<1>6. /\ TypedItems' \in Seq(Items) /\ Len(TypedItems') = L - k
      /\ \A j \in 1 .. L - k : TypedItems'[j] = TypedItems[j]
  BY <1>0, <1>3, <1>4, Shorter
<1>7. Alike(TypedItems, TypedItems', L - k)
  BY <1>0, <1>3, <1>6 DEF Alike
<1>8. Waiting(TypedItems', pc', P)
  <2>1. Waiting(TypedItems, pc, P)
    BY DEF VInv, Framed
  <2>2. L - k + 1 .. Len(TypedItems') = {}
    BY <1>0, <1>3, <1>6
  <2> HIDE DEF P
  <2> QED
    BY <1>0, <1>3, <1>6, <1>7, <2>1, <2>2, StillWaiting
<1>9. InFrames' = InFrames
  <2>1. Counting(TypedItems', P) = Counting(TypedItems, P)
    BY <1>0, <1>2, <1>3, <1>4, DroppedCounting
  <2> QED
    BY <2>1 DEF InFrames
<1> QED
  BY <1>4, <1>5, <1>8, <1>9 DEF Framed

\* A step that leaves the stack alone is as good as one that takes nothing from it;
LEMMA KeptIsPop == ASSUME VType, Counted, SameStack PROVE Pop(0)
<1>1. sp \in Nat /\ Wrap16(sp) = sp /\ sp - 0 = sp
  <2>1. sp \in Word16
    BY DEF VType, CountersTyped
  <2> QED
    BY <2>1, NoWrap, CountersAreNumbers
<1>2. SubSeq(kinds, 1, Len(kinds) - 0) = kinds
  <2>1. kinds \in Seq(AllKinds) /\ Len(kinds) - 0 = Len(kinds)
    BY DEF Counted
  <2> QED
    BY <2>1, SubSeqFull
<1> QED
  BY <1>1, <1>2 DEF Pop, Below, SameStack

\* and one that leaves the address alone, too, changes no frame.
LEMMA QuietRuns == ASSUME VInv, Fits, prog' = prog, pc' = pc, SameStack, result = "ERROR" => result' = "ERROR"
                   PROVE  Counted' /\ Fits' /\ Framed' /\ TS!Use(0) /\ Tally' = Tally /\ ParsWaiting' = ParsWaiting
<1>1. Counted' /\ Fits' /\ TypedItems' = TypedItems
  BY KeptItems DEF VInv
<1>2. Framed'
  BY <1>1 DEF VInv, Framed
<1>3. TypedItems \in Seq(Items)
  BY TheItems DEF VInv
<1>4. TypedItems' = Without(TypedItems, 0) /\ 0 <= Len(TypedItems)
  <2>1. Len(TypedItems) - 0 = Len(TypedItems) /\ 0 <= Len(TypedItems)
    BY <1>3
  <2> QED
    BY <1>1, <1>3, <2>1, SubSeqFull DEF Without
<1>5. TS!Use(0)
  BY <1>4, AbstractUse
<1>6. Tally' = Tally
  BY <1>1 DEF Tally, InFrames, Entered
<1>7. ParsWaiting' = ParsWaiting
  BY <1>1 DEF ParsWaiting
<1> QED
  BY <1>1, <1>2, <1>5, <1>6, <1>7

\* FREE leaves a number where the topmost temporary was, or nothing.
LEMMA FreeRuns ==
    ASSUME VInv, VType', Fits, Fits', Free, NEW s, Working(s)
    PROVE  /\ Counted' /\ Framed' /\ (TS!Compute(1) \/ TS!Use(0)) /\ Tally' = Tally
           /\ pc' = pc + 1 /\ ParsWaiting' = ParsWaiting
<1> DEFINE L == Len(TypedItems)
           P == Places[prog]
           F == Len(s.frame)
           t == Place(pc + 1, After(s.frame, ins), s.level, Entering(s, ins))
<1>0. /\ TypedItems \in Seq(Items) /\ L \in Nat /\ L = Len(kinds) /\ VType /\ Counted /\ prog \in Programs
      /\ kinds \in Seq(AllKinds) /\ sp = L
  BY TheItems DEF VInv, VType, Counted
<1>1. /\ mode = "run" /\ ins.op = "FREE" /\ prog' = prog /\ GoTo(pc + 1) /\ sp' = sp /\ variables' = variables
      /\ kinds' = IF kinds = <<>> THEN <<>> ELSE Append(Below(1), Temp)
  BY DEF Free, Executing, Step1
<1>2. PICK n \in Random(Word(1)) : stack' = [stack EXCEPT ![Slot(sp - 1)] = n]
  BY DEF Free
<1>3. n \in Num
  BY <1>0, WordType, RandomType
<1>4. /\ s.frame \in Seq(Kinds) /\ F \in Nat /\ Stands(TypedItems, pc, L + 1, s) /\ s.at = pc
      /\ Temps(s.frame, 1) \/ (s.frame = <<>> /\ s.level = "main")
      /\ NextPlaces(s, ins) \subseteq P
  BY <1>1 DEF Working, Fitting
<1>5. t.at = pc + 1 /\ t.frame = s.frame /\ t.level = s.level
  <2>1. After(s.frame, ins) = SubSeq(s.frame, 1, F - 0)
    BY <1>1 DEF After, Leaving, Pushing, Taken, Without
  <2>2. F - 0 = F
    BY <1>4
  <2>3. After(s.frame, ins) = s.frame
    BY <1>4, <2>1, <2>2, SubSeqFull
  <2> QED
    BY <2>3 DEF Place
<1>b. t.entering <=> s.entering
  <2>1. s \in AllPlaces
    BY DEF Working
  <2> QED
    BY <1>1, <2>1 DEF Place, AllPlaces, Entering, Leaving, Pushing
<1>6. t \in P
  <2>1. t \in NextPlaces(s, ins)
    BY <1>1, <1>4 DEF NextPlaces, GoesOn
  <2> QED
    BY <1>4, <2>1
<1> HIDE DEF t
<1>7. pc' = t.at
  BY <1>0, <1>1, <1>5, <1>6, PlaceAddress DEF GoTo
<1>a. (Entered' <=> Entered) /\ InFrames + 0 = InFrames
  <2>1. s \in P
    BY DEF Working
  <2>2. InFrames \in Nat
    BY <1>0, CountingNumber DEF InFrames
  <2> QED
    BY <1>0, <1>1, <1>4, <1>b, <1>6, <1>7, <2>1, <2>2, EnteringPlace DEF Entered
<1>8. CASE Temps(s.frame, 1)
  <2>1. /\ 1 <= F /\ 1 <= L /\ F <= L
        /\ \A j \in 1 .. 1 : TypedItems[L - j + 1].kind = Temp
    BY <1>0, <1>4, <1>8, OperandsOnTop
  <2>2. 1 \in 0 .. Len(kinds) /\ 1 \in 0 .. L /\ kinds # <<>> /\ L - 1 + 1 = L /\ L - 1 \in Nat /\ F - 1 + 1 = F
    BY <1>0, <1>4, <2>1
  <2>3. PopPush(1, n, Temp)
    <3>1. sp \in Word16
      BY <1>0 DEF VType, CountersTyped
    <3>2. Wrap16(sp - 1 + 1) = sp
      BY <1>0, <2>2, <3>1, NoWrap
    <3> QED
      BY <1>1, <1>2, <2>2, <3>2 DEF PopPush
  <2> DEFINE item == [kind |-> Temp, v |-> n]
             rest == Without(TypedItems, 1)
  <2>4. Temp \in AllKinds /\ Temp # ReturnTo /\ item \in Items
    BY <1>3, KindsApart DEF AllKinds, Kinds, Items
  <2>5. Counted' /\ TypedItems' = Append(rest, item)
    BY <1>0, <1>3, <2>2, <2>3, <2>4, PushedItems
  <2>6. rest \in Seq(Items) /\ Len(rest) = L - 1 /\ \A j \in 1 .. L - 1 : rest[j] = TypedItems[j]
    BY <1>0, <2>2, Shorter
  <2>7. item.kind = Temp
    OBVIOUS
  <2> HIDE DEF rest, item
  <2>8. /\ TypedItems' \in Seq(Items) /\ Len(TypedItems') = L /\ (\A j \in 1 .. L - 1 : TypedItems'[j] = TypedItems[j])
        /\ TypedItems'[L] = item
    <3>1. /\ TypedItems' \in Seq(Items) /\ Len(TypedItems') = Len(rest) + 1
          /\ (\A j \in 1 .. Len(rest) : TypedItems'[j] = rest[j]) /\ TypedItems'[Len(rest) + 1] = item
      BY <2>4, <2>5, <2>6, Longer
    <3> QED
      BY <2>2, <2>6, <3>1
  <2>9. Alike(TypedItems, TypedItems', L - 1)
    BY <1>0, <2>2, <2>8 DEF Alike
  <2>10. s.frame[F] = Temp
    BY <1>8, <2>2 DEF Temps
  <2>11. Framed'
    <3> HIDE DEF L, F
    <3>1. /\ 1 \in Nat /\ 1 <= F /\ Len(TypedItems') - F = L - F /\ F >= F - 1
          /\ \A j \in F - 1 + 1 .. F : L - F + j = L /\ j = F
      BY <1>0, <1>4, <2>1, <2>8
    <3>2. \A j \in F - 1 + 1 .. F : TypedItems'[L - F + j].kind = s.frame[j]
      BY <2>7, <2>8, <2>10, <3>1
    <3> QED
      BY <1>1, <1>5, <1>6, <1>7, <2>8, <2>9, <3>1, <3>2, FramedAgain, ZenonT(60) DEF L, F
  <2>12. TS!Compute(1)
    BY <1>0, <1>1, <2>1, <2>4, <2>5, <2>7, AbstractPush DEF rest
  <2>13. InFrames' = InFrames + 0
    <3>1. Cardinality(Counting(TypedItems', P)) = Cardinality(Counting(TypedItems, P)) + Bool(Counts(item, P))
      BY <1>0, <2>1, <2>2, <2>4, <2>5, PushedCounting DEF rest
    <3>2. ~Counts(item, P)
      BY <2>7, CountedKinds
    <3> QED
      BY <1>1, <3>1, <3>2 DEF InFrames, Bool
  <2>14. ParsWaiting' = ParsWaiting
    <3>1. \A j \in 1 .. 1 : TypedItems[L - j + 1].kind # ReturnTo
      BY <2>1, KindsApart DEF Kinds
    <3>2. Cells(TypedItems', Pars[prog]) = Cells(TypedItems, Pars[prog])
      BY <1>0, <2>2, <2>4, <2>5, <2>7, <3>1, PushedCells DEF rest
    <3> QED
      BY <1>1, <3>2 DEF ParsWaiting
  <2> QED
    BY <1>a, <1>5, <1>7, <2>5, <2>11, <2>12, <2>13, <2>14 DEF Tally
<1>9. CASE s.frame = <<>> /\ s.level = "main"
  <2>1. L = 0
    <3> DEFINE b == Base(L + 1, s)
    <3>1. b = L + 1 - 1 - 0
      BY <1>9 DEF Base
    <3>2. s.level = (IF b = 0 THEN "main" ELSE "sub")
      BY <1>4 DEF Stands
    <3> HIDE DEF b
    <3> QED
      BY <1>0, <1>9, <3>1, <3>2
  <2>2. kinds = <<>> /\ kinds' = <<>>
    <3>1. kinds = <<>>
      BY <1>0, <2>1, EmptySeq
    <3> QED
      BY <1>1, <3>1
  <2>3. Counted'
    BY <1>0, <1>1, <2>2 DEF Counted
  <2>4. TypedItems' = <<>> /\ TypedItems = <<>>
    BY <2>2 DEF TypedItems
  <2>5. F = 0 /\ L = 0 /\ Len(TypedItems') = 0 /\ TypedItems' \in Seq(Items)
    BY <1>9, <2>4
  <2>6. Framed'
    <3>1. Alike(TypedItems, TypedItems', L - 0)
      BY <2>4 DEF Alike
    <3>2. /\ 0 \in Nat /\ 0 <= F /\ Len(TypedItems') - F = L - F /\ F >= F - 0 /\ F - 0 + 1 .. F = {}
      BY <2>5
    <3> QED
      BY <1>1, <1>5, <1>6, <1>7, <2>5, <3>1, <3>2, FramedAgain
  <2>7. TS!Use(0)
    <3>1. Without(TypedItems, 0) = <<>>
      BY <2>4, <2>5, SubSeqEmpty DEF Without
    <3> QED
      BY <2>4, <2>5, <3>1, AbstractUse
  <2>8. InFrames' = InFrames /\ ParsWaiting' = ParsWaiting
    BY <1>1, <2>4 DEF InFrames, ParsWaiting
  <2> QED
    BY <1>a, <1>5, <1>7, <2>3, <2>6, <2>7, <2>8 DEF Tally
<1> QED
  BY <1>4, <1>8, <1>9

\* An interrupt comes in wherever nb_run has stopped; its parameter fits.
LEMMA InterruptRuns ==
    ASSUME VInv, VType', Fits, Fits', psp <= ParamSize, psp' <= ParamSize,
           NEW e \in prog.routines, NEW n \in Opaque, Interrupt(e, n)
    PROVE  /\ Counted' /\ Framed' /\ TS!Interrupt /\ Tally' = Tally
           /\ ProgramsBalanced => ParsWaiting' = ParsWaiting + Pars[prog][pc]
<1>1. /\ result \in {"BUSY", "RETI", "XFUNC"} /\ prog' = prog /\ PopPush(0, ReturnWord(pc), ReturnTo) /\ pc' = e.at
      /\ (e.par /\ psp < StackSize /\ PPush(n)) \/ UNCHANGED <<psp, params, variables>>
  BY DEF Interrupt
<1>2. PICK s : Working(s)
  BY <1>1, AtPlace
<1>3. s \in Places[prog] /\ s.at = pc /\ s.frame \in Seq(Kinds)
  BY <1>2 DEF Working
<1>4. prog \in Programs /\ pc \in Int /\ psp \in Byte /\ psp \in Int
  BY CountersAreNumbers DEF VInv, VType, CountersTyped
<1> DEFINE u == Place(e.at, <<>>, "sub", FALSE)
<1>5. u \in Places[prog] /\ u.frame = <<>> /\ u.level = "sub" /\ u.at = e.at /\ ~u.entering
  BY <1>4, PlacesAssumption DEF Described, Place
<1>6. variables' = variables
  <2>1. CASE psp < StackSize /\ PPush(n)
    <3>1. psp' = (psp + 1) % 256 /\ (Slot(psp) < ParamSize => variables' = variables)
      BY <2>1 DEF PPush
    <3>2. psp \in 0 .. 255 /\ ParamSize \in Nat /\ ParamSize < 255
      BY <1>4, ParamAssumption DEF Byte
    <3>3. psp' = psp + 1
      BY <3>1, <3>2
    <3>4. psp < ParamSize
      BY <3>2, <3>3
    <3>5. Slot(psp) = psp
      BY <2>1, <3>2, InRing
    <3> QED
      BY <3>1, <3>4, <3>5
  <2> QED
    BY <1>1, <2>1
<1>7. Without(s.frame, 0) = s.frame /\ Temps(s.frame, 0)
  <2>1. Len(s.frame) - 0 = Len(s.frame) /\ 0 <= Len(s.frame) /\ 1 .. 0 = {}
    BY <1>3
  <2> QED
    BY <1>3, <2>1, SubSeqFull DEF Without, Temps
<1> HIDE DEF u
<1>8. s.at >= pc /\ 0 \in Nat /\ pc' = u.at
  BY <1>1, <1>3, <1>4, <1>5
<1>9. /\ Counted' /\ Framed' /\ TS!Call(0) /\ Tally' = Tally
      /\ ProgramsBalanced => ParsWaiting' = ParsWaiting + Pars[prog][pc]
  BY <1>1, <1>2, <1>3, <1>5, <1>6, <1>7, <1>8, CalledRuns
<1>10. TS!Interrupt
  <2> DEFINE item == [kind |-> ReturnTo, v |-> ReturnWord(pc)]
  <2>1. TypedItems \in Seq(Items) /\ 0 \in 0 .. Len(kinds) /\ ReturnTo \in AllKinds /\ Counted /\ VType
    BY TheItems DEF VInv, AllKinds
  <2>2. ReturnWord(pc) = pc /\ ReturnWord(pc) \in Num
    BY <1>3, <1>4, PlaceAddress, SignedType DEF ReturnWord
  <2>3. TypedItems' = Append(Without(TypedItems, 0), item)
    BY <1>1, <2>1, <2>2, PushedItems
  <2>4. Without(TypedItems, 0) = TypedItems /\ item \in Items
    BY <2>1, <2>2, SubSeqFull DEF Without, Items
  <2>5. TypedItems'[Len(TypedItems')] = item
    BY <2>1, <2>3, <2>4
  <2> QED
    BY <1>9, <2>2, <2>5 DEF TS!Interrupt
<1> QED
  BY <1>9, <1>10

\* The beginning of a program.
LEMMA StartFramed == ASSUME NEW p \in Programs PROVE /\ Waiting(<<>>, 1, Places[p]) /\ Running(<<>>, 1, Places[p])
                         /\ ~EnteringAt(1, Places[p]) /\ Cardinality(Counting(<<>>, Places[p])) = 0
                         /\ Cardinality(Cells(<<>>, Pars[p])) = 0
<1> DEFINE t == Place(1, <<>>, "main", FALSE)
           items == <<>>
<1>1. t \in Places[p] /\ t.at = 1 /\ t.frame = <<>> /\ t.level = "main"
  BY PlacesAssumption DEF Described, Place
<1>a. ~EnteringAt(1, Places[p])
  <2>1. ~t.entering
    BY DEF Place
  <2> QED
    BY <1>1, <2>1, EnteringPlace
<1>b. Cardinality(Counting(<<>>, Places[p])) = 0
  <2>1. Counting(<<>>, Places[p]) = {}
    BY DEF Counting
  <2> QED
    BY <2>1, FS_EmptySet
<1>c. Cardinality(Cells(<<>>, Pars[p])) = 0
  <2>1. Cells(<<>>, Pars[p]) = {}
    BY DEF Cells
  <2> QED
    BY <2>1, FS_EmptySet
<1>2. Len(items) = 0 /\ DOMAIN items = {}
  OBVIOUS
<1> HIDE DEF t, items
<1>3. Waiting(items, 1, Places[p])
  BY <1>2 DEF Waiting, Returns
<1>4. Stands(items, 1, Len(items) + 1, t)
  <2> DEFINE b == Base(Len(items) + 1, t)
  <2>1. b = Len(items) + 1 - 1 - Len(t.frame) /\ Len(t.frame) = 0
    BY <1>1 DEF Base
  <2>2. t.at = AddressAt(items, 1, Len(items) + 1)
    BY <1>1 DEF AddressAt
  <2>3. \A j \in 1 .. Len(t.frame) : FALSE
    BY <1>1
  <2> HIDE DEF b
  <2>4. b = 0
    BY <1>2, <2>1
  <2> QED
    BY <1>1, <2>2, <2>3, <2>4 DEF Stands, b
<1> QED
  BY <1>1, <1>a, <1>b, <1>c, <1>3, <1>4 DEF Running, items

\* An empty stack,
LEMMA EmptyStack == <<>> \in Seq(AllKinds) /\ Len(<<>>) = 0 /\ 0 <= StackSize /\ 1 .. 0 = {}
  BY EmptySeq, RingSize

\* at the start
LEMMA InitRuns == ASSUME Init PROVE VInv /\ TS!AInit /\ LoopsTallied
<1>1. VType
  BY InitTyped
<1>2. prog \in Programs /\ pc = 1 /\ sp = 0 /\ kinds = <<>> /\ mode = "host" /\ result = "none"
      /\ variables = [x \in Var |-> 0]
  BY DEF Init, Fresh
<1>3. TypedItems = <<>>
  BY <1>2, EmptyStack DEF TypedItems
<1>4. Counted /\ Halted /\ Framed
  BY <1>2, <1>3, EmptyStack, StartFramed DEF Counted, Halted, Framed
<1>5. ToSigned(0) = 0
  BY WordAssumption DEF ToSigned, ToUnsigned
<1>6. TS!AInit
  BY <1>2, <1>3, <1>5 DEF TS!AInit
<1>7. LoopsTallied
  <2>1. loops = 0 /\ MaxForLoops \in Nat
    BY LoopAssumption DEF Init, Fresh
  <2>2. InFrames = 0 /\ ~Entered
    BY <1>2, <1>3, StartFramed DEF InFrames, Entered
  <2> QED
    BY <2>1, <2>2 DEF LoopsTallied, Entered, Bool
<1> QED
  BY <1>1, <1>4, <1>6, <1>7 DEF VInv

\* (nobody has parameters)
LEMMA InitParams == ASSUME Init, ProgramsBalanced PROVE ParsTallied
<1>1. prog \in Programs /\ pc = 1 /\ psp = 0 /\ owed = <<>> /\ TypedItems = <<>>
  BY EmptyStack DEF Init, Fresh, TypedItems
<1>2. ParsWaiting = 0 /\ Unanswered = 0
  BY <1>1, StartFramed DEF ParsWaiting, Unanswered
<1>3. Pars[prog][pc] = 0
  BY <1>1 DEF ProgramsBalanced, Balanced
<1> QED
  BY <1>1, <1>2, <1>3 DEF ParsTallied

\* and after a reset.
LEMMA ResetRuns == ASSUME VInv, Reset PROVE Counted' /\ Halted' /\ Framed' /\ TS!Clear /\ InFrames' = 0 /\ ~Entered' /\ ParsWaiting' = 0
<1>1. prog \in Programs /\ prog' = prog /\ pc' = 1 /\ sp' = 0 /\ kinds' = <<>> /\ mode' = "host" /\ result' = "none"
      /\ variables' = [x \in Var |-> 0]
  BY DEF Reset, VInv, VType
<1>2. TypedItems' = <<>>
  BY <1>1, EmptyStack DEF TypedItems
<1>3. Counted' /\ Halted' /\ Framed'
  BY <1>1, <1>2, EmptyStack, StartFramed DEF Counted, Halted, Framed
<1>4. ToSigned(0) = 0
  BY WordAssumption DEF ToSigned, ToUnsigned
<1>5. TS!Clear
  BY <1>1, <1>2, <1>4 DEF TS!Clear
<1>6. InFrames' = 0 /\ ~Entered' /\ ParsWaiting' = 0
  BY <1>1, <1>2, StartFramed DEF InFrames, Entered, ParsWaiting
<1> QED
  BY <1>3, <1>5, <1>6

-----------------------------------------------------------------------------
\* What is to be shown of a step: it is one of the typed machine and, but for FOR and
\* NEXT, the loops on the stack are as many as before; the parameters of frames that
\* wait are only changed by calls and returns.
Tallied == For \/ Next \/ Tally' = Tally \/ (result' = "ERROR" /\ InFrames' = InFrames)
ParsMoved ==
    ProgramsBalanced =>
       \/ result' = "ERROR"
       \/ pc' = pc /\ ParsWaiting' = ParsWaiting /\ (mode = "host" \/ (psp' = psp /\ owed' = <<>>))
       \/ pc' \in Onward(ins, pc) /\ ParsWaiting' = ParsWaiting
       \/ pc' \in Called(ins, pc) /\ \E b \in Onward(ins, pc) : ParsWaiting' = ParsWaiting + Pars[prog][b]
       \/ /\ ins.op \in {"RETURN", "RETI"} /\ ParsWaiting = ParsWaiting' + Pars[prog][pc']
          /\ \E t \in Places[prog] : t.at = pc'
\* The words of frames that wait are never touched, and the running routine takes and
\* leaves what the instruction says.
Staying == pc' = pc /\ TypedItems' = TypedItems
Failing == result' = "ERROR" /\ \E m : Tops(TypedItems, TypedItems', m)
Going == /\ ParsWaiting' = ParsWaiting /\ \E m : Tops(TypedItems, TypedItems', m)
         /\ \/ /\ pc' \in GoesOn(ins, pc)
               /\ Len(TypedItems') + Dropped(ins) = Len(TypedItems) + Bool(ins.op \in Leaving)
            \/ ins.op = "NEXT" /\ pc' = ins.to /\ Len(TypedItems') = Len(TypedItems)
Calling == /\ pc' \in Called(ins, pc) /\ Taken(ins) \in 0 .. 3 /\ Taken(ins) <= Len(TypedItems)
           /\ \A j \in 1 .. Taken(ins) : TypedItems[Len(TypedItems) - j + 1].kind = Temp
           /\ \E b \in GoesOn(ins, pc) :
                 TypedItems' = Append(Without(TypedItems, Taken(ins)), [kind |-> ReturnTo, v |-> b])
Returning == /\ ins.op \in {"RETURN", "RETI"} /\ Len(TypedItems) \in Returns(TypedItems)
             /\ pc' = TypedItems[Len(TypedItems)].v /\ TypedItems' = Without(TypedItems, 1)
Moved == Staying \/ Failing \/ Going \/ Calling \/ Returning

Refined == OneSide => [TS!ANext]_(TS!avars)
Implemented == Counted' /\ Framed' /\ Halted' /\ Refined /\ Tallied /\ ParsMoved /\ Moved

\* A step that uses temporaries, whether or not it leaves a result.
LEMMA Used ==
    ASSUME VType, Counted', Framed', Halted', Tallied, ParsMoved, Moved, prog' = prog, ins.op # "NEXT", NEW k \in 0 .. 3,
           (TS!Use(k) /\ Noted(pc')) \/ (TS!Compute(k) /\ pc' = pc + 1)
    PROVE  Implemented
<1>1. TS!Instruction
  BY AbstractWrite DEF TS!Instruction
<1> QED
  BY <1>1, AbstractSteps DEF Implemented, Refined

\* An instruction goes on, or nb_run returns.
LEMMA HaltedAgain == ASSUME VInv, mode = "run"
                     PROVE /\ result # "ERROR"
                           /\ GoOn => Halted'
                           /\ \A r : Leave(r) => Halted'
                           /\ mode' = "host" /\ result' \notin {"END", "ERROR"} => Halted'
  BY DEF VInv, Halted, GoOn, Leave

\* What that does to the items.
LEMMA UseOfItems ==
    ASSUME VInv, Fits, NEW k \in 0 .. 3
    PROVE  /\ TypedItems \in Seq(Items)
           /\ TS!Use(k) => TypedItems' = Without(TypedItems, k) /\ k <= Len(TypedItems)
<1>1. TypedItems \in Seq(Items)
  BY TheItems DEF VInv
<1> QED
  BY <1>1 DEF TS!Use, TS!TempsOnTop, TS!Rest, Without

\* The same when there is a result.
LEMMA ComputeOfItems ==
    ASSUME VInv, VType', Counted', Fits, Fits', NEW k \in 0 .. 3, TS!Compute(k)
    PROVE  /\ \E m : Tops(TypedItems, TypedItems', m)
           /\ Len(TypedItems') + k = Len(TypedItems) + 1 /\ Len(TypedItems) \in Nat
<1> DEFINE L2 == Len(TypedItems')
           x == TypedItems'[L2]
<1>1. TypedItems \in Seq(Items) /\ TypedItems' \in Seq(Items)
  BY TheItems, TheNextItems DEF VInv
<1>2. k <= Len(TypedItems) /\ L2 = Len(TypedItems) - k + 1 /\ x.kind # ReturnTo
      /\ TypedItems' = Append(SubSeq(TypedItems, 1, Len(TypedItems) - k), x)
  BY DEF TS!Compute, TS!TempsOnTop, TS!Rest, TS!ReturnTo, ReturnTo
<1>3. k \in Nat /\ L2 \in 1 .. L2 /\ Len(TypedItems) \in Nat
  BY <1>1, <1>2
<1>4. x \in Items
  BY <1>1, <1>3
<1>5. TypedItems' = Append(Without(TypedItems, k), x)
  BY <1>2 DEF Without
<1> DEFINE f == TypedItems
           g == TypedItems'
           y == x
<1>6. f \in Seq(Items) /\ k \in Nat /\ k <= Len(f) /\ y \in Items /\ g = Append(Without(f, k), y) /\ y.kind # ReturnTo
  BY <1>1, <1>2, <1>3, <1>4, <1>5
<1> HIDE DEF f, g, y
<1>7. Tops(f, g, Len(f) - k) /\ Len(g) + k = Len(f) + 1
  BY <1>6, ComputedTops
<1>8. (\E m : Tops(f, g, m)) /\ Len(g) + k = Len(f) + 1
  BY <1>7
<1> QED
  BY <1>3, <1>8 DEF f, g

\* The three ways of an instruction that neither calls nor returns: it takes its operands,
LEMMA PoppedStep ==
    ASSUME VInv, VType', Fits, Halted', NEW op, Executing(op), op \notin Leaving \cup {"NEXT", "END"},
           Taken(ins) \in 0 .. 3, Pop(Taken(ins)), op = "FOR" => For, NEW a \in GoesOn(ins, pc), GoTo(a), Noted(a)
    PROVE  Implemented
<1>1. mode = "run" /\ ins.op = op /\ prog' = prog
  BY DEF Executing
<1>2. PICK s : Working(s)
  BY <1>1, AtPlace, HaltedAgain
<1>3. Taken(ins) \in Nat
  OBVIOUS
<1>4. /\ Counted' /\ Framed' /\ TS!Use(Taken(ins))
      /\ InFrames' = InFrames /\ (Entered' <=> Entering(s, ins))
      /\ pc' = a /\ ParsWaiting' = ParsWaiting
  BY <1>1, <1>2, <1>3, PoppedRuns
<1>5. Tallied
  <2>1. s \in Places[prog] /\ s.at = pc /\ prog \in Programs
    BY <1>2 DEF Working, VInv, VType
  <2>2. Entered <=> s.entering
    BY <2>1, EnteringPlace DEF Entered
  <2>3. op # "FOR" => (Entered' <=> Entered)
    BY <1>1, <1>4, <2>2 DEF Entering
  <2> QED
    BY <1>4, <2>3 DEF Tallied, Tally, Bool
<1>6. ParsMoved
  BY <1>4 DEF ParsMoved, Onward
<1>7. Moved
  <2>1. TypedItems \in Seq(Items) /\ TypedItems' = Without(TypedItems, Taken(ins)) /\ Taken(ins) <= Len(TypedItems)
    BY <1>4, UseOfItems
  <2>2. /\ Tops(TypedItems, TypedItems', Len(TypedItems) - Taken(ins))
        /\ Len(TypedItems') + Taken(ins) = Len(TypedItems) /\ Len(TypedItems) \in Nat
    BY <1>3, <2>1, UsedTops
  <2>3. Dropped(ins) = Taken(ins) /\ Bool(ins.op \in Leaving) = 0
    BY <1>1 DEF Dropped, Bool
  <2>4. Len(TypedItems') + Dropped(ins) = Len(TypedItems) + Bool(ins.op \in Leaving)
    BY <2>2, <2>3
  <2> QED
    BY <1>4, <2>2, <2>4 DEF Moved, Going
<1>8. VType /\ Noted(pc')
  BY <1>4 DEF VInv
<1> QED
  BY <1>1, <1>4, <1>5, <1>6, <1>7, <1>8, Used

\* it has a result, too,
LEMMA PushedStep ==
    ASSUME VInv, VType', Fits, Fits', NEW op, Executing(op), op \in Leaving, variables' = variables,
           Taken(ins) \in 0 .. 3, NEW v \in Num, PopPush(Taken(ins), v, Kind), Step1, GoOn
    PROVE  Implemented
<1>1. mode = "run" /\ ins.op = op /\ prog' = prog
  BY DEF Executing
<1>2. PICK s : Working(s)
  BY <1>1, AtPlace, HaltedAgain
<1>3. Taken(ins) \in Nat
  OBVIOUS
<1>4. pc + 1 \in GoesOn(ins, pc) /\ GoTo(pc + 1)
  BY <1>1 DEF GoesOn, Leaving, Pushing, Step1
<1>5. /\ Counted' /\ Framed' /\ TS!Compute(Taken(ins)) /\ Tally' = Tally
      /\ pc' = pc + 1 /\ ParsWaiting' = ParsWaiting
  BY <1>1, <1>2, <1>3, <1>4, PushedRuns
<1>6. Halted'
  BY <1>1, HaltedAgain
<1>7. Moved
  <2>1. /\ \E m : Tops(TypedItems, TypedItems', m)
        /\ Len(TypedItems') + Taken(ins) = Len(TypedItems) + 1 /\ Len(TypedItems) \in Nat
    BY <1>5, ComputeOfItems
  <2>2. Dropped(ins) = Taken(ins) /\ Bool(ins.op \in Leaving) = 1
    BY <1>1 DEF Dropped, Bool, Leaving, Pushing
  <2> QED
    BY <1>4, <1>5, <2>1, <2>2 DEF Moved, Going
<1>8. Tallied /\ ParsMoved
  BY <1>4, <1>5 DEF Tallied, ParsMoved, Onward
<1>9. VType /\ ins.op # "NEXT"
  BY <1>1 DEF VInv, Leaving, Pushing
<1> QED
  BY <1>1, <1>5, <1>6, <1>7, <1>8, <1>9, Used

\* or it fails.
LEMMA FailedStep ==
    ASSUME VInv, VType', Fits, NEW op, Executing(op), op \notin {"END", "NEXT"}, Taken(ins) \in 0 .. 3,
           Pop(Taken(ins)), Leave("ERROR"), variables' = variables
    PROVE  Implemented
<1>1. mode = "run" /\ ins.op = op /\ prog' = prog /\ result' = "ERROR"
  BY DEF Executing, Leave
<1>2. PICK s : Working(s)
  BY <1>1, AtPlace, HaltedAgain
<1>3. Taken(ins) \in Nat
  OBVIOUS
<1>4. Temps(s.frame, Taken(ins))
  BY <1>1, <1>2 DEF Working, Fitting
<1>5. Counted' /\ Framed' /\ TS!Use(Taken(ins)) /\ InFrames' = InFrames
  BY <1>1, <1>2, <1>3, <1>4, FailedRuns
<1>6. Halted'
  BY <1>1, HaltedAgain
<1>7. Moved
  <2>1. TypedItems \in Seq(Items) /\ TypedItems' = Without(TypedItems, Taken(ins)) /\ Taken(ins) <= Len(TypedItems)
    BY <1>5, UseOfItems
  <2>2. Tops(TypedItems, TypedItems', Len(TypedItems) - Taken(ins))
    BY <1>3, <2>1, UsedTops
  <2> QED
    BY <1>1, <2>2 DEF Moved, Failing
<1>8. Tallied /\ ParsMoved
  BY <1>1, <1>5 DEF Tallied, ParsMoved
<1>9. VType /\ Noted(pc')
  BY DEF VInv, Noted
<1> QED
  BY <1>1, <1>5, <1>6, <1>7, <1>8, <1>9, Used

\* The operands are those of the compiled program.
LEMMA Operand == ASSUME VInv, mode = "run" PROVE Operands(ins) /\ prog \in Programs
  BY Instruction DEF VInv, VType

\* A parameter that fits is not written behind the parameter stack.
LEMMA ParamFits ==
    ASSUME VType, psp <= ParamSize, psp' <= ParamSize, NEW n, PPush(n)
    PROVE  variables' = variables
<1>1. psp \in 0 .. 255 /\ ParamSize \in Nat /\ ParamSize < 255 /\ ParamSize < StackSize /\ StackSize \in Nat
  BY ParamAssumption, RingSize DEF VType, CountersTyped, Byte
<1>2. psp' = (psp + 1) % 256 /\ (Slot(psp) < ParamSize => variables' = variables)
  BY DEF PPush
<1>3. psp' = psp + 1
  BY <1>1, <1>2
<1>4. psp < ParamSize /\ psp < StackSize
  BY <1>1, <1>3
<1>5. Slot(psp) = psp
  BY <1>1, <1>4, InRing
<1> QED
  BY <1>2, <1>4, <1>5

\* Output, assignments, parameters and the calls of the host.
LEMMA TakingRuns ==
    ASSUME VInv, VType', Fits, psp <= ParamSize, psp' <= ParamSize,
           Nop \/ Output \/ PopVar \/ Restore \/ PushParam \/ Xfunc \/ Break
    PROVE  Implemented
<1>1. VType /\ Counted
  BY DEF VInv
<1>2. ASSUME Nop \/ Output \/ PopVar \/ Restore \/ PushParam PROVE Implemented
  <2>1. PICK op \in {"NOP", "PRINT", "POP_VAR", "RESTORE", "PUSH_PARAM"} :
            Executing(op) /\ Step1 /\ GoOn /\ IF op = "NOP" THEN SameStack ELSE Pop(1)
    BY <1>2 DEF Nop, Output, PopVar, Restore, PushParam
  <2>2. ins.op = op /\ mode = "run"
    BY <2>1 DEF Executing
  <2>3. Taken(ins) \in 0 .. 3 /\ Taken(ins) = IF op = "NOP" THEN 0 ELSE 1
    BY <2>2 DEF Taken
  <2>4. Pop(Taken(ins))
    BY <1>1, <2>1, <2>3, KeptIsPop
  <2>5. pc + 1 \in GoesOn(ins, pc) /\ GoTo(pc + 1) /\ op \notin Leaving \cup {"NEXT", "END"}
    BY <2>1, <2>2 DEF GoesOn, Step1, Leaving, Pushing
  <2>6. Noted(pc + 1)
    <3>1. CASE Nop \/ Output \/ Restore
      BY <3>1 DEF Nop, Output, Restore, Noted
    <3>2. CASE PopVar
      <4>1. ins.x \in Var /\ ins.op = "POP_VAR"
        BY <2>2, <3>2, Operand DEF Operands, PopVar, Executing
      <4>2. ToUnsigned(Word(1)) \in 0 .. 2 * Half - 1
        BY <1>1, WordNumber, UnsignedType
      <4> QED
        BY <3>2, <4>1, <4>2 DEF PopVar, Noted
    <3>3. CASE PushParam
      BY <1>1, <3>3, ParamFits DEF PushParam, Noted
    <3> QED
      BY <1>2, <3>1, <3>2, <3>3
  <2> QED
    BY <2>1, <2>2, <2>3, <2>4, <2>5, <2>6, HaltedAgain, PoppedStep
<1>3. ASSUME Xfunc \/ Break PROVE Implemented
  <2>1. PICK op \in {"XFUNC", "BREAK"} : Executing(op) /\ Step1 /\ SameStack /\ mode' = "host" /\ result' = op
    BY <1>3 DEF Xfunc, Break
  <2>2. ins.op = op /\ mode = "run" /\ result' # "ERROR"
    BY <2>1 DEF Executing
  <2>3. Taken(ins) \in 0 .. 3 /\ Taken(ins) = 0
    BY <2>2 DEF Taken
  <2>4. Pop(Taken(ins))
    BY <1>1, <2>1, <2>3, KeptIsPop
  <2>5. pc + 1 \in GoesOn(ins, pc) /\ GoTo(pc + 1) /\ op \notin Leaving \cup {"NEXT", "END"}
    BY <2>1, <2>2 DEF GoesOn, Step1, Leaving, Pushing
  <2>6. Noted(pc + 1)
    BY <1>1, <1>3, ParamFits DEF Xfunc, Break, Noted
  <2> QED
    BY <2>1, <2>2, <2>3, <2>4, <2>5, <2>6, HaltedAgain, PoppedStep
<1> QED
  BY <1>2, <1>3

\* Numbers, variables, operators, random numbers, parameters.
LEMMA LeavingRuns ==
    ASSUME VInv, VType', Fits, Fits', PushNum \/ PushVar \/ Binary \/ Unary \/ Rnd \/ Param
    PROVE  Implemented
<1>1. VType
  BY DEF VInv
<1>2. mode = "run"
  BY DEF PushNum, PushVar, Binary, Unary, Rnd, Param, Executing
<1>3. Operands(ins)
  BY <1>2, Operand
<1>4. ASSUME PushNum \/ PushVar PROVE Implemented
  <2>1. PICK op \in {"PUSH_NUM", "PUSH_VAR"} : Executing(op) /\ Step1 /\ GoOn /\ variables' = variables
               /\ PopPush(0, IF op = "PUSH_NUM" THEN ins.n ELSE ToSigned(variables[ins.x]), Kind)
    BY <1>4 DEF PushNum, PushVar
  <2>2. ins.op = op
    BY <2>1 DEF Executing
  <2>3. Taken(ins) \in 0 .. 3 /\ Taken(ins) = 0 /\ op \in Leaving
    BY <2>2 DEF Taken, Leaving, Pushing
  <2>4. op = "PUSH_NUM" => ins.n \in Num
    BY <1>3, <2>2 DEF Operands
  <2>5. op = "PUSH_VAR" => ToSigned(variables[ins.x]) \in Num
    BY <1>1, <1>3, <2>2, VariableType DEF Operands
  <2> QED
    BY <2>1, <2>3, <2>4, <2>5, PushedStep
<1>5. ASSUME Binary PROVE Implemented
  <2>1. /\ Executing("BINARY") /\ Step1 /\ GoOn /\ variables' = variables /\ ins.op = "BINARY"
        /\ PopPush(2, Arith(ins.f, Word(2), Word(1)), Kind)
    BY <1>5 DEF Binary, Executing
  <2>2. Taken(ins) \in 0 .. 3 /\ Taken(ins) = 2 /\ "BINARY" \in Leaving
    BY <2>1 DEF Taken, Leaving, Pushing
  <2>3. Word(1) \in Num /\ Word(2) \in Num
    BY <1>1, WordType
  <2>4. Arith(ins.f, Word(2), Word(1)) \in Num
    BY <1>3, <2>1, <2>3, ArithType DEF Operands
  <2> QED
    BY <2>1, <2>2, <2>4, PushedStep
<1>6. ASSUME Unary PROVE Implemented
  <2>1. /\ Executing("UNARY") /\ Step1 /\ GoOn /\ variables' = variables /\ ins.op = "UNARY"
        /\ PopPush(1, IF ins.f = "NOT" THEN Bool(Word(1) = 0) ELSE ToSigned(-Word(1)), Kind)
    BY <1>6 DEF Unary, Executing
  <2>2. Taken(ins) \in 0 .. 3 /\ Taken(ins) = 1 /\ "UNARY" \in Leaving
    BY <2>1 DEF Taken, Leaving, Pushing
  <2>3. Word(1) \in Int
    BY <1>1, WordNumber
  <2>4. ToSigned(-Word(1)) \in Num /\ Bool(Word(1) = 0) \in Num
    BY <2>3, SignedType, Numbers DEF Bool
  <2> QED
    BY <2>1, <2>2, <2>4, PushedStep
<1>7. ASSUME Rnd PROVE Implemented
  <2>1. PICK n \in Random(Word(1)) :
          /\ Executing("RND") /\ Step1 /\ GoOn /\ variables' = variables /\ ins.op = "RND" /\ PopPush(1, n, Kind)
    BY <1>7 DEF Rnd, Executing
  <2>2. Taken(ins) \in 0 .. 3 /\ Taken(ins) = 1 /\ "RND" \in Leaving
    BY <2>1 DEF Taken, Leaving, Pushing
  <2>3. Word(1) \in Num
    BY <1>1, WordType
  <2>4. n \in Num
    BY <2>3, RandomType
  <2> QED
    BY <2>1, <2>2, <2>4, PushedStep
<1>8. ASSUME Param PROVE Implemented
  <2>1. /\ Executing("PARAM") /\ Step1 /\ GoOn /\ variables' = variables /\ ins.op = "PARAM"
        /\ PopPush(0, IF psp > 0 THEN PWord ELSE 0, Kind) \/ PopPush(0, 0, Kind)
    BY <1>8 DEF Param, Executing, PPop
  <2>2. Taken(ins) \in 0 .. 3 /\ Taken(ins) = 0 /\ "PARAM" \in Leaving
    BY <2>1 DEF Taken, Leaving, Pushing
  <2>3. PWord \in Num /\ 0 \in Num
    BY <1>1, ParamWordType, Numbers
  <2> QED
    BY <2>1, <2>2, <2>3, PushedStep
<1> QED
  BY <1>4, <1>5, <1>6, <1>7, <1>8

\* Strings, arrays and DATA: there is a result, or nb_run fails.
LEMMA HeapRuns == ASSUME VInv, VType', Fits, Fits', HeapValue \/ HeapStore \/ Read PROVE Implemented
<1>1. VType /\ Counted
  BY DEF VInv
<1>2. mode = "run"
  BY DEF HeapValue, HeapStore, Read, Executing
<1>3. Operands(ins) /\ prog \in Programs
  BY <1>2, Operand
<1>4. ASSUME HeapValue PROVE Implemented
  <2>1. Executing("HEAP_VALUE") /\ ins.op = "HEAP_VALUE" /\ variables' = variables
    BY <1>4 DEF HeapValue, Executing
  <2>2. Taken(ins) \in 0 .. 3 /\ Taken(ins) = ins.k /\ "HEAP_VALUE" \in Leaving
    BY <1>3, <2>1 DEF Taken, Leaving, Pushing, Operands
  <2>3. CASE Fail /\ Pop(ins.k)
    BY <2>1, <2>2, <2>3, FailedStep DEF Fail
  <2>4. CASE Step1 /\ GoOn /\ \E n \in Opaque : PopPush(ins.k, n, Kind)
    <3>1. PICK n \in Opaque : PopPush(ins.k, n, Kind)
      BY <2>4
    <3>2. n \in Num
      BY Numbers
    <3> QED
      BY <2>1, <2>2, <2>4, <3>1, <3>2, PushedStep
  <2> QED
    BY <1>4, <2>3, <2>4 DEF HeapValue
<1>5. ASSUME HeapStore PROVE Implemented
  <2>1. Executing("HEAP_STORE") /\ ins.op = "HEAP_STORE" /\ Pop(ins.k)
    BY <1>5 DEF HeapStore, Executing
  <2>2. Taken(ins) \in 0 .. 3 /\ Taken(ins) = ins.k /\ "HEAP_STORE" \notin Leaving \cup {"NEXT", "END"}
    BY <1>3, <2>1 DEF Taken, Leaving, Pushing, Operands
  <2>3. CASE Fail /\ variables' = variables
    BY <2>1, <2>2, <2>3, FailedStep DEF Fail
  <2>4. CASE Step1 /\ GoOn /\ \E n \in Opaque \cup {variables[ins.x]} : variables' = [variables EXCEPT ![ins.x] = n]
    <3>1. pc + 1 \in GoesOn(ins, pc) /\ GoTo(pc + 1)
      BY <2>1, <2>4 DEF GoesOn, Step1
    <3>2. ins.x \in Var
      BY <1>3, <2>1 DEF Operands
    <3>3. Opaque \cup {variables[ins.x]} \subseteq 0 .. 2 * Half - 1
      <4>1. \A m \in 0 .. Half - 1 : m \in 0 .. 2 * Half - 1
        BY WordAssumption
      <4>2. variables[ins.x] \in 0 .. 2 * Half - 1
        BY <1>1, <3>2 DEF VType, ValuesTyped
      <4> QED
        BY <4>1, <4>2, DataAssumption
    <3>4. Noted(pc + 1)
      BY <2>4, <3>2, <3>3 DEF Noted
    <3> QED
      BY <1>2, <2>1, <2>2, <2>4, <3>1, <3>4, HaltedAgain, PoppedStep
  <2> QED
    BY <1>5, <2>3, <2>4 DEF HeapStore
<1>6. ASSUME Read PROVE Implemented
  <2>1. Executing("READ") /\ ins.op = "READ" /\ variables' = variables
    BY <1>6 DEF Read, Executing
  <2>2. Taken(ins) \in 0 .. 3 /\ Taken(ins) = 0 /\ "READ" \in Leaving
    BY <2>1 DEF Taken, Leaving, Pushing
  <2>3. CASE Fail /\ SameStack
    <3>1. Pop(0)
      BY <1>1, <2>3, KeptIsPop
    <3> QED
      BY <2>1, <2>2, <2>3, <3>1, FailedStep DEF Fail
  <2>4. CASE DataLeft /\ PopPush(0, prog.data[dataOffs + 1].n, Kind) /\ Step1 /\ GoOn
    <3>1. prog.data[dataOffs + 1].n \in Num
      BY <1>1, <1>3, <2>4, DataType
    <3> QED
      BY <2>1, <2>2, <2>4, <3>1, PushedStep
  <2> QED
    BY <1>6, <2>3, <2>4 DEF Read
<1> QED
  BY <1>4, <1>5, <1>6

\* The places after a call: where the caller goes on and where the routine starts.
LEMMA CalledPlaces ==
    ASSUME VInv, NEW s, Working(s), NEW k, k = Taken(ins), ins.op \in {"GOSUB", "ON_GOSUB"},
           NEW b \in GoesOn(ins, pc), b >= pc, NEW a \in Called(ins, pc)
    PROVE  /\ Temps(s.frame, k)
           /\ \E r, u \in Places[prog] : /\ r.at = b /\ r.frame = Without(s.frame, k) /\ r.level = s.level
                                         /\ u.at = a /\ u.frame = <<>> /\ u.level = "sub"
                                         /\ Wrap16(a) = u.at /\ r.entering = s.entering /\ ~u.entering
<1>1. Temps(s.frame, k) /\ NextPlaces(s, ins) \subseteq Places[prog] /\ s.at = pc /\ prog \in Programs
  BY DEF Working, Fitting, VInv, VType
<1> DEFINE r == Place(b, After(s.frame, ins), s.level, Entering(s, ins))
           u == Place(a, <<>>, "sub", FALSE)
<1>2. r \in Places[prog] /\ u \in Places[prog]
  BY <1>1 DEF NextPlaces
<1>3. After(s.frame, ins) = Without(s.frame, k)
  BY DEF After, Leaving, Pushing
<1>4. /\ r.at = b /\ r.frame = Without(s.frame, k) /\ r.level = s.level
      /\ u.at = a /\ u.frame = <<>> /\ u.level = "sub"
  BY <1>3 DEF Place
<1>6. r.entering = s.entering /\ ~u.entering
  <2>1. s.entering \in BOOLEAN
    BY DEF Working, AllPlaces
  <2> QED
    BY <2>1 DEF Place, Entering, Leaving, Pushing
<1> HIDE DEF r, u
<1>5. Wrap16(a) = u.at
  BY <1>1, <1>2, <1>4, PlaceAddress
<1> QED
  BY <1>1, <1>2, <1>4, <1>5, <1>6

\* An instruction that calls.
LEMMA CalledStep ==
    ASSUME VInv, VType', Fits, Fits', NEW op \in {"GOSUB", "ON_GOSUB"}, Executing(op), GoOn, variables' = variables,
           NEW k \in 0 .. 1, k = Taken(ins), NEW b \in GoesOn(ins, pc), b >= pc, NEW a \in Called(ins, pc), GoTo(a),
           PopPush(k, ReturnWord(b), ReturnTo)
    PROVE  Implemented
<1>1. mode = "run" /\ ins.op = op /\ prog' = prog
  BY DEF Executing
<1>2. PICK s : Working(s)
  BY <1>1, AtPlace, HaltedAgain
<1>3. Temps(s.frame, k)
  BY <1>1, <1>2, CalledPlaces
<1>4. PICK r, u \in Places[prog] : /\ r.at = b /\ r.frame = Without(s.frame, k) /\ r.level = s.level
                                   /\ u.at = a /\ u.frame = <<>> /\ u.level = "sub"
                                   /\ Wrap16(a) = u.at /\ r.entering = s.entering /\ ~u.entering
  BY <1>1, <1>2, CalledPlaces
<1>5. pc' = u.at /\ k \in Nat
  BY <1>4 DEF GoTo
<1>6. /\ Counted' /\ Framed' /\ TS!Call(k) /\ Tally' = Tally
      /\ ProgramsBalanced => ParsWaiting' = ParsWaiting + Pars[prog][r.at]
  BY <1>1, <1>2, <1>3, <1>4, <1>5, CalledRuns
<1>7. Halted'
  BY <1>1, HaltedAgain
<1>8. ParsMoved
  BY <1>4, <1>5, <1>6 DEF ParsMoved, Onward
<1>9. Moved
  <2>1. /\ TypedItems \in Seq(Items) /\ VType /\ Counted /\ Len(TypedItems) = Len(kinds) /\ Len(kinds) \in Nat
        /\ prog \in Programs
    BY TheItems DEF VInv, VType
  <2>2. /\ k <= Len(TypedItems)
        /\ \A j \in 1 .. k : TypedItems[Len(TypedItems) - j + 1].kind = Temp
    BY <1>2, <1>3, <1>5, <2>1, OperandsOnTop DEF Working
  <2>3. ReturnWord(b) = b /\ u.at = a
    BY <1>4, <2>1, PlaceAddress
  <2>4. b \in Num /\ ReturnTo \in AllKinds
    <3>1. b \in Int
      BY <1>4, <2>1, PlaceAddress
    <3> QED
      BY <2>3, <3>1, SignedType DEF ReturnWord, AllKinds
  <2>5. k \in 0 .. Len(kinds)
    BY <1>5, <2>1, <2>2
  <2>6. TypedItems' = Append(Without(TypedItems, k), [kind |-> ReturnTo, v |-> b])
    BY <2>1, <2>3, <2>4, <2>5, PushedItems
  <2>7. pc' \in Called(ins, pc) /\ Taken(ins) \in 0 .. 3
    BY <1>5, <2>3
  <2> QED
    BY <2>2, <2>6, <2>7 DEF Moved, Calling
<1>10. Refined
  <2>1. TS!Instruction
    BY <1>6 DEF TS!Instruction
  <2> QED
    BY <1>1, <2>1, AbstractSteps DEF Refined
<1> QED
  BY <1>6, <1>7, <1>8, <1>9, <1>10 DEF Implemented, Tallied

\* GOTO, IF, ON ... GOTO, GOSUB and ON ... GOSUB.
LEMMA JumpingRuns ==
    ASSUME VInv, VType', Fits, Fits', Goto \/ If \/ Gosub \/ OnGoto \/ OnGosub PROVE Implemented
<1>1. VType /\ Counted /\ pc \in Int
  BY CountersAreNumbers DEF VInv, VType, CountersTyped
<1>2. mode = "run"
  BY DEF Goto, If, Gosub, OnGoto, OnGosub, Executing
<1>3. Operands(ins)
  BY <1>2, Operand
<1>4. Wrap16(Word(1)) \in Int
  BY <1>1, WordNumber
<1>5. ASSUME Goto PROVE Implemented
  <2>1. Executing("GOTO") /\ GoTo(ins.to) /\ GoOn /\ SameStack /\ ins.op = "GOTO"
    BY <1>5 DEF Goto, Executing
  <2>2. Taken(ins) \in 0 .. 3 /\ Taken(ins) = 0 /\ ins.to \in GoesOn(ins, pc) /\ "GOTO" \notin Leaving \cup {"NEXT", "END"}
    BY <2>1 DEF Taken, GoesOn, Leaving, Pushing
  <2>3. Pop(0)
    BY <1>1, <2>1, KeptIsPop
  <2>4. Noted(ins.to)
    BY <1>5 DEF Goto, Noted
  <2> QED
    BY <1>2, <2>1, <2>2, <2>3, <2>4, HaltedAgain, PoppedStep
<1>6. ASSUME If PROVE Implemented
  <2> DEFINE a == IF Word(1) = 0 THEN ins.to ELSE pc + 1
  <2>1. Executing("IF") /\ GoTo(a) /\ GoOn /\ Pop(1) /\ ins.op = "IF"
    BY <1>6 DEF If, Executing
  <2>2. Taken(ins) \in 0 .. 3 /\ Taken(ins) = 1 /\ a \in GoesOn(ins, pc) /\ "IF" \notin Leaving \cup {"NEXT", "END"}
    BY <2>1 DEF Taken, GoesOn, Leaving, Pushing
  <2>3. Noted(a)
    BY <1>6 DEF If, Noted
  <2> HIDE DEF a
  <2> QED
    BY <1>2, <2>1, <2>2, <2>3, HaltedAgain, PoppedStep
<1>7. ASSUME OnGoto PROVE Implemented
  <2> DEFINE a == Target(Wrap16(Word(1)))
  <2>1. Executing("ON_GOTO") /\ GoTo(a) /\ GoOn /\ Pop(1) /\ ins.op = "ON_GOTO"
    BY <1>7 DEF OnGoto, Executing
  <2>2. Taken(ins) \in 0 .. 3 /\ Taken(ins) = 1 /\ "ON_GOTO" \notin Leaving \cup {"NEXT", "END"} /\ ins.n \in Nat
    BY <1>3, <2>1 DEF Taken, Leaving, Pushing, Operands
  <2>3. a \in pc + 1 .. pc + 1 + ins.n
    BY <1>1, <1>4, <2>2 DEF Target
  <2>4. a \in GoesOn(ins, pc)
    BY <2>1, <2>3 DEF GoesOn
  <2>5. Noted(a)
    BY <1>7 DEF OnGoto, Noted
  <2> HIDE DEF a
  <2> QED
    BY <1>2, <2>1, <2>2, <2>4, <2>5, HaltedAgain, PoppedStep
<1>8. ASSUME Gosub PROVE Implemented
  <2>1. Executing("GOSUB") /\ ins.op = "GOSUB" /\ variables' = variables
    BY <1>8 DEF Gosub, Executing
  <2>2. Taken(ins) \in 0 .. 3 /\ Taken(ins) = 0 /\ 0 \in 0 .. 1
    BY <2>1 DEF Taken
  <2>3. ins.to \in Called(ins, pc) /\ pc + 1 \in GoesOn(ins, pc) /\ pc + 1 >= pc
    BY <1>1, <2>1 DEF Called, GoesOn
  <2>4. CASE GoTo(ins.to) /\ GoOn /\ PopPush(0, ReturnWord(pc + 1), ReturnTo)
    BY <2>1, <2>2, <2>3, <2>4, CalledStep
  <2>5. CASE Fail /\ SameStack
    <3>1. Pop(0)
      BY <1>1, <2>5, KeptIsPop
    <3> QED
      BY <2>1, <2>2, <2>5, <3>1, FailedStep DEF Fail
  <2> QED
    BY <1>8, <2>4, <2>5 DEF Gosub
<1>9. ASSUME OnGosub PROVE Implemented
  <2> DEFINE idx == Wrap16(Word(1))
             a == Target(idx)
  <2>1. Executing("ON_GOSUB") /\ ins.op = "ON_GOSUB" /\ variables' = variables
    BY <1>9 DEF OnGosub, Executing
  <2>2. Taken(ins) \in 0 .. 3 /\ Taken(ins) = 1 /\ 1 \in 0 .. 1 /\ "ON_GOSUB" \notin Leaving \cup {"NEXT", "END"} /\ ins.n \in Nat
    BY <1>3, <2>1 DEF Taken, Leaving, Pushing, Operands
  <2>3. pc + 1 + ins.n \in GoesOn(ins, pc) /\ pc + 1 + ins.n >= pc
    BY <1>1, <2>1, <2>2 DEF GoesOn
  <2>4. idx \in 1 .. ins.n => a \in pc + 1 .. pc + ins.n
    BY <1>1, <1>4, <2>2 DEF Target
  <2>5. idx \in 1 .. ins.n => a \in Called(ins, pc)
    BY <2>1, <2>4 DEF Called
  <2>6. idx \notin 1 .. ins.n => a = pc + 1 + ins.n
    BY DEF Target
  <2>7. \/ idx \notin 1 .. ins.n /\ GoTo(a) /\ GoOn /\ Pop(1)
        \/ idx \in 1 .. ins.n /\ GoTo(a) /\ GoOn /\ PopPush(1, ReturnWord(pc + 1 + ins.n), ReturnTo)
        \/ Leave("ERROR") /\ Pop(1)
    BY <1>9 DEF OnGosub, Leave
  <2> HIDE DEF a, idx
  <2>8. CASE idx \notin 1 .. ins.n /\ GoTo(a) /\ GoOn /\ Pop(1)
    <3>1. Noted(a)
      BY <2>1 DEF Noted
    <3> QED
      BY <1>2, <2>1, <2>2, <2>3, <2>6, <2>8, <3>1, HaltedAgain, PoppedStep
  <2>9. CASE idx \in 1 .. ins.n /\ GoTo(a) /\ GoOn /\ PopPush(1, ReturnWord(pc + 1 + ins.n), ReturnTo)
    BY <2>1, <2>2, <2>3, <2>5, <2>9, CalledStep
  <2>10. CASE Leave("ERROR") /\ Pop(1)
    BY <2>1, <2>2, <2>10, FailedStep
  <2> QED
    BY <2>7, <2>8, <2>9, <2>10
<1> QED
  BY <1>5, <1>6, <1>7, <1>8, <1>9

\* FOR, NEXT, RETURN and RETI, FREE.
LEMMA LoopingRuns ==
    ASSUME VInv, VType', Fits, Fits', For \/ Next \/ Return \/ Reti \/ Free PROVE Implemented
<1>1. VType /\ Counted
  BY DEF VInv
<1>2. mode = "run" /\ prog' = prog
  BY DEF For, Next, Return, Reti, Free, Executing
<1>3. PICK s : Working(s)
  BY <1>2, AtPlace, HaltedAgain
<1>4. ASSUME For PROVE Implemented
  <2>1. Executing("FOR") /\ ins.op = "FOR" /\ SameStack /\ (Fail \/ (Step1 /\ GoOn)) /\ variables' = variables
    BY <1>4 DEF For, Executing
  <2>2. Taken(ins) \in 0 .. 3 /\ Taken(ins) = 0 /\ "FOR" \notin Leaving \cup {"NEXT", "END"}
    BY <2>1 DEF Taken, Leaving, Pushing
  <2>3. Pop(0)
    BY <1>1, <2>1, KeptIsPop
  <2>4. CASE Fail
    BY <2>1, <2>2, <2>3, <2>4, FailedStep DEF Fail
  <2>5. CASE Step1 /\ GoOn
    <3>1. pc + 1 \in GoesOn(ins, pc) /\ GoTo(pc + 1) /\ Noted(pc + 1)
      BY <2>1, <2>5 DEF GoesOn, Step1, Noted
    <3> QED
      BY <1>2, <1>4, <2>1, <2>2, <2>3, <2>5, <3>1, HaltedAgain, PoppedStep
  <2> QED
    BY <2>1, <2>4, <2>5
<1>5. ASSUME Next PROVE Implemented
  <2>1. /\ Counted' /\ Framed' /\ (OneSide => TS!LoopBack(ins.x, ins.to)) /\ ins.x \in Var /\ ins.op = "NEXT"
        /\ ParsWaiting' = ParsWaiting /\ Len(TypedItems) >= 2
        /\ \/ pc' = ins.to /\ TypedItems' = TypedItems
           \/ pc' = pc + 1 /\ TypedItems' = Without(TypedItems, 2)
    BY <1>3, <1>5, NextRuns, LoopIsOwn
  <2>2. Halted'
    BY <1>2, <1>5, HaltedAgain DEF Next
  <2>3. ParsMoved
    BY <2>1 DEF ParsMoved, Onward, GoesOn
  <2>4. Moved
    <3>1. TypedItems \in Seq(Items) /\ 0 \in Nat /\ 2 \in Nat /\ 0 <= Len(TypedItems)
      BY <1>1, TheItems
    <3>2. CASE pc' = ins.to /\ TypedItems' = TypedItems
      <4>1. Without(TypedItems, 0) = TypedItems
        BY <3>1, SubSeqFull DEF Without
      <4>2. Tops(TypedItems, TypedItems', Len(TypedItems) - 0)
        BY <3>1, <3>2, <4>1, UsedTops
      <4> QED
        BY <2>1, <3>2, <4>2 DEF Moved, Going
    <3>3. CASE pc' = pc + 1 /\ TypedItems' = Without(TypedItems, 2)
      <4>1. Tops(TypedItems, TypedItems', Len(TypedItems) - 2) /\ Len(TypedItems') + 2 = Len(TypedItems)
        BY <2>1, <3>1, <3>3, UsedTops
      <4>2. Dropped(ins) = 2 /\ Bool(ins.op \in Leaving) = 0 /\ pc' \in GoesOn(ins, pc)
        BY <2>1, <3>3 DEF Dropped, Bool, Leaving, Pushing, GoesOn
      <4>3. Len(TypedItems') + Dropped(ins) = Len(TypedItems) + Bool(ins.op \in Leaving)
        BY <3>1, <4>1, <4>2
      <4> QED
        BY <2>1, <4>1, <4>2, <4>3 DEF Moved, Going
    <3> QED
      BY <2>1, <3>2, <3>3
  <2>5. Refined
    BY <1>2, <2>1, AbstractSteps DEF Refined
  <2> QED
    BY <1>5, <2>1, <2>2, <2>3, <2>4, <2>5 DEF Implemented, Tallied
<1>6. ASSUME Return \/ Reti PROVE Implemented
  <2>1. /\ GoTo(Word(1)) /\ Pop(1) /\ variables' = variables /\ ins.op \in {"RETURN", "RETI"}
        /\ GoOn \/ Leave("RETI")
    BY <1>6 DEF Return, Reti, Executing
  <2>2. /\ Counted' /\ Framed' /\ TS!Return /\ Tally' = Tally
        /\ ProgramsBalanced => ParsWaiting = ParsWaiting' + Pars[prog][pc']
        /\ \E t \in Places[prog] : t.at = pc'
    BY <1>2, <1>3, <2>1, ReturnedRuns
  <2>3. Halted'
    BY <1>2, <2>1, HaltedAgain
  <2>4. ParsMoved
    BY <2>1, <2>2 DEF ParsMoved
  <2>5. Moved
    <3>1. TypedItems \in Seq(Items)
      BY <1>1, TheItems
    <3>2. Len(TypedItems) \in DOMAIN TypedItems
      BY <2>2, <3>1 DEF TS!Return
    <3>3. Len(TypedItems) - 1 + 1 = Len(TypedItems)
      BY <3>1
    <3>4. /\ TypedItems[Len(TypedItems)].kind = ReturnTo /\ pc' = TypedItems[Len(TypedItems)].v
          /\ TypedItems' = Without(TypedItems, 1)
      BY <2>2, <3>3 DEF TS!Return, TS!Top, TS!Rest, TS!ReturnTo, ReturnTo, Without
    <3> QED
      BY <2>1, <3>2, <3>4 DEF Moved, Returning, Returns
  <2>6. Refined
    <3>1. TS!Instruction
      BY <2>2 DEF TS!Instruction
    <3> QED
      BY <1>2, <2>1, <3>1, AbstractSteps DEF Refined
  <2> QED
    BY <2>2, <2>3, <2>4, <2>5, <2>6 DEF Implemented, Tallied
<1>7. ASSUME Free PROVE Implemented
  <2>1. /\ Counted' /\ Framed' /\ (TS!Compute(1) \/ TS!Use(0)) /\ Tally' = Tally
        /\ pc' = pc + 1 /\ ParsWaiting' = ParsWaiting
    BY <1>3, <1>7, FreeRuns
  <2>2. Halted'
    BY <1>2, <1>7, HaltedAgain DEF Free
  <2>3. 0 \in 0 .. 3 /\ 1 \in 0 .. 3
    OBVIOUS
  <2>4. ParsMoved
    BY <1>7, <2>1 DEF ParsMoved, Onward, GoesOn, Free, Executing
  <2>5. Moved
    <3>1. ins.op = "FREE"
      BY <1>7 DEF Free, Executing
    <3>2. pc' \in GoesOn(ins, pc) /\ Dropped(ins) = 0 /\ Bool(ins.op \in Leaving) = 0
      BY <2>1, <3>1 DEF GoesOn, Dropped, Taken, Bool, Leaving, Pushing
    <3>3. (\E m : Tops(TypedItems, TypedItems', m)) /\ Len(TypedItems') = Len(TypedItems) /\ Len(TypedItems) \in Nat
      <4>1. CASE TS!Compute(1)
        <5>1. /\ \E m : Tops(TypedItems, TypedItems', m)
              /\ Len(TypedItems') + 1 = Len(TypedItems) + 1 /\ Len(TypedItems) \in Nat
          BY <2>1, <2>3, <4>1, ComputeOfItems
        <5>2. TypedItems' \in Seq(Items)
          BY <2>1, TheNextItems
        <5> QED
          BY <5>1, <5>2
      <4>2. CASE TS!Use(0)
        <5>1. TypedItems \in Seq(Items) /\ TypedItems' = Without(TypedItems, 0) /\ 0 <= Len(TypedItems)
          BY <2>3, <4>2, UseOfItems
        <5>2. /\ Tops(TypedItems, TypedItems', Len(TypedItems) - 0) /\ TypedItems' \in Seq(Items)
              /\ Len(TypedItems') + 0 = Len(TypedItems)
          BY <5>1, UsedTops
        <5> QED
          BY <5>1, <5>2
      <4> QED
        BY <2>1, <4>1, <4>2
    <3>4. Len(TypedItems') + Dropped(ins) = Len(TypedItems) + Bool(ins.op \in Leaving)
      BY <3>2, <3>3
    <3> QED
      BY <2>1, <3>2, <3>3, <3>4 DEF Moved, Going
  <2>6. ins.op # "NEXT" /\ Noted(pc')
    BY <1>7 DEF Free, Executing, Noted
  <2> QED
    BY <1>1, <1>2, <2>1, <2>2, <2>3, <2>4, <2>5, <2>6, Used DEF Tallied
<1> QED
  BY <1>4, <1>5, <1>6, <1>7

\* nb_run returns at the end and when the cycles are used up; the host goes on.
LEMMA WaitingRuns ==
    ASSUME VInv, Fits, psp <= ParamSize, psp' <= ParamSize,
           End \/ OutOfCycles \/ (\E budget \in Budgets : Run(budget)) \/ (\E n \in Opaque : Answer(n))
    PROVE  Implemented
<1>1. prog' = prog /\ pc' = pc /\ SameStack
  BY DEF End, OutOfCycles, Executing, Run, Answer, machine, SameStack
<1>2. (result = "ERROR" => result' = "ERROR") /\ Halted'
  <2>1. CASE End \/ OutOfCycles
    BY <2>1, HaltedAgain DEF End, OutOfCycles, Executing
  <2>2. CASE (\E budget \in Budgets : Run(budget)) \/ (\E n \in Opaque : Answer(n))
    BY <2>2 DEF VInv, Halted, Run, Answer
  <2> QED
    BY <2>1, <2>2
<1>3. Counted' /\ Framed' /\ TS!Use(0) /\ Tally' = Tally /\ ParsWaiting' = ParsWaiting
  BY <1>1, <1>2, QuietRuns
<1>4. Refined
  <2>1. variables' = variables
    <3>1. CASE End \/ OutOfCycles \/ (\E budget \in Budgets : Run(budget))
      BY <3>1 DEF End, OutOfCycles, Run, machine
    <3>2. ASSUME NEW n \in Opaque, Answer(n) PROVE variables' = variables
      <4> DEFINE left == IF psp < owed[1] THEN 0 ELSE psp - owed[1]
      <4>1. \/ UNCHANGED <<params, variables>>
            \/ psp' = (left + 1) % 256 /\ (left < ParamSize => variables' = variables)
        BY <3>2 DEF Answer
      <4>2. psp \in Nat /\ ParamSize \in Nat /\ ParamSize < 255
        BY ParamAssumption DEF VInv, VType, CountersTyped, Byte
      <4>3. owed[1] \in Nat
        BY <3>2 DEF Answer, VInv, VType
      <4>4. left \in Nat /\ left <= psp
        BY <4>2, <4>3
      <4> HIDE DEF left
      <4>5. (left + 1) % 256 = left + 1
        BY <4>2, <4>4
      <4> QED
        BY <4>1, <4>2, <4>4, <4>5
    <3> QED
      BY <3>1, <3>2
  <2>2. TypedItems' = TypedItems
    BY <1>1, KeptItems DEF VInv
  <2>3. TS!avars' = TS!avars
    BY <1>1, <2>1, <2>2 DEF TS!avars, LoopEnds
  <2> QED
    BY <2>3 DEF Refined
<1>5. mode = "host" \/ (psp' = psp /\ owed' = <<>>)
  BY DEF End, OutOfCycles, Run, Answer, Leave, machine
<1>6. Moved
  BY <1>1, KeptItems DEF VInv, Moved, Staying
<1> QED
  BY <1>1, <1>2, <1>3, <1>4, <1>5, <1>6 DEF Implemented, Tallied, ParsMoved

-----------------------------------------------------------------------------
\* FOR counts the loop that it enters, or fails.
LEMMA ForCounts == ASSUME VInv, VType', Fits, For
                   PROVE  InFrames' = InFrames /\ ~Entered /\ (result' = "ERROR" \/ Entered')
<1>1. /\ Executing("FOR") /\ ins.op = "FOR" /\ mode = "run" /\ prog' = prog /\ SameStack
      /\ (Leave("ERROR") \/ (GoTo(pc + 1) /\ GoOn))
  BY DEF For, Executing, Fail, Step1
<1>2. PICK s : Working(s)
  BY <1>1, AtPlace, HaltedAgain
<1>3. /\ s \in Places[prog] /\ s.at = pc /\ ~s.entering /\ prog \in Programs /\ Temps(s.frame, 0)
      /\ VType /\ Counted
  BY <1>1, <1>2 DEF Working, VInv, VType, Fitting, Taken
<1>4. ~Entered
  BY <1>3, EnteringPlace DEF Entered
<1>5. Pop(0) /\ Taken(ins) = 0 /\ 0 \in Nat
  BY <1>1, <1>3, KeptIsPop DEF Taken
<1>6. CASE Leave("ERROR")
  <2>1. result' = "ERROR"
    BY <1>6 DEF Leave
  <2> QED
    BY <1>1, <1>2, <1>3, <1>4, <1>5, <2>1, FailedRuns
<1>7. CASE GoTo(pc + 1) /\ GoOn
  <2>1. pc + 1 \in GoesOn(ins, pc) /\ ins.op \notin Leaving \cup {"NEXT", "END"}
    BY <1>1 DEF GoesOn, Leaving, Pushing
  <2>2. InFrames' = InFrames /\ (Entered' <=> Entering(s, ins))
    BY <1>1, <1>2, <1>5, <1>7, <2>1, PoppedRuns
  <2> QED
    BY <1>1, <1>4, <2>2 DEF Entering
<1> QED
  BY <1>1, <1>6, <1>7

\* NEXT takes back what FOR has counted when the loop is left.
LEMMA NextCounts ==
    ASSUME VInv, VType', Fits, Next
    PROVE  /\ ~Entered /\ ~Entered'
           /\ \/ loops' = loops /\ InFrames' = InFrames
              \/ loops' = (loops - 1) % 256 /\ InFrames = InFrames' + 1
<1> DEFINE n == ToUnsigned(variables[ins.x] + Word(1))
           L == Len(TypedItems)
           P == Places[prog]
<1>0. /\ TypedItems \in Seq(Items) /\ L \in Nat /\ L = Len(kinds) /\ VType /\ Counted /\ prog \in Programs
  BY TheItems DEF VInv, VType
<1>1. mode = "run" /\ ins.op = "NEXT" /\ prog' = prog
  BY DEF Next, Executing
<1>2. PICK s : Working(s)
  BY <1>1, AtPlace, HaltedAgain
<1>3. /\ s \in P /\ s \in AllPlaces /\ s.at = pc /\ ~s.entering /\ NextPlaces(s, ins) \subseteq P
  BY <1>1, <1>2 DEF Working, Fitting
<1>4. ins.x \in Var /\ L >= 2 /\ TS!InLoop(ins.x)
  BY <1>2, LoopIsOwn
<1>5. ~Entered
  BY <1>0, <1>3, EnteringPlace DEF Entered
<1>6. \/ GoTo(ins.to) /\ SameStack /\ loops' = loops
      \/ GoTo(pc + 1) /\ Pop(2) /\ loops' = (loops - 1) % 256
  BY DEF Next, Step1
<1> HIDE DEF n
<1>7. CASE GoTo(ins.to) /\ SameStack /\ loops' = loops
  <2> DEFINE t == [s EXCEPT !.at = ins.to]
  <2>1. t \in P /\ t.at = ins.to /\ t.entering = s.entering
    BY <1>1, <1>3 DEF NextPlaces, AllPlaces
  <2> HIDE DEF t
  <2>2. pc' = t.at
    BY <1>0, <1>7, <2>1, PlaceAddress DEF GoTo
  <2>3. ~Entered'
    BY <1>0, <1>1, <1>3, <2>1, <2>2, EnteringPlace DEF Entered
  <2>4. TypedItems' = TypedItems
    BY <1>0, <1>7, KeptItems
  <2> QED
    BY <1>1, <1>5, <1>7, <2>3, <2>4 DEF InFrames
<1>8. CASE GoTo(pc + 1) /\ Pop(2) /\ loops' = (loops - 1) % 256
  <2> DEFINE t == [s EXCEPT !.at = s.at + 1, !.frame = Without(@, 2)]
  <2>1. t \in P /\ t.at = pc + 1 /\ t.entering = s.entering
    BY <1>1, <1>3 DEF NextPlaces, AllPlaces
  <2> HIDE DEF t
  <2>2. pc' = t.at
    BY <1>0, <1>8, <2>1, PlaceAddress DEF GoTo
  <2>3. ~Entered'
    BY <1>0, <1>1, <1>3, <2>1, <2>2, EnteringPlace DEF Entered
  <2>4. 2 \in 0 .. L /\ 2 \in 0 .. Len(kinds) /\ L - 2 \in Nat
    BY <1>0, <1>4
  <2>5. TypedItems' = Without(TypedItems, 2)
    BY <1>0, <1>8, <2>4, PoppedItems
  <2>6. /\ TypedItems' \in Seq(Items) /\ Len(TypedItems') = L - 2
        /\ \A j \in 1 .. L - 2 : TypedItems'[j] = TypedItems[j]
    BY <1>0, <2>4, <2>5, Shorter
  <2>7. Alike(TypedItems', TypedItems, L - 2)
    BY <1>0, <2>4, <2>6 DEF Alike
  <2>8. TypedItems[L].kind = StepOf(ins.x) /\ TypedItems[L - 1].kind = EndOf(ins.x)
    <3>1. L - 1 + 1 = L /\ L - 2 + 1 = L - 1
      BY <1>0
    <3> QED
      BY <1>4, <3>1 DEF TS!InLoop, TS!Top, TS!StepOf, TS!EndOf, StepOf, EndOf
  <2>9. Counts(TypedItems[L], P) /\ ~Counts(TypedItems[L - 1], P)
    BY <1>4, <2>8, CountedKinds
  <2>10. Cardinality(Counting(TypedItems, P)) = Cardinality(Counting(TypedItems', P)) + Bool(Counts(TypedItems[L], P))
    <3> DEFINE m == L - 2
    <3>1. /\ m \in Nat /\ m + 1 .. Len(TypedItems') = {} /\ L \in m + 1 .. L
          /\ \A i \in m + 1 .. L : i # L => i = L - 1
      BY <1>0, <2>4, <2>6
    <3>2. Alike(TypedItems', TypedItems, m)
      BY <2>7
    <3>3. \A i \in m + 1 .. L : i # L => ~Counts(TypedItems[i], P)
      BY <2>9, <3>1
    <3> HIDE DEF m
    <3>4. \A i \in m + 1 .. Len(TypedItems') : ~Counts(TypedItems'[i], P)
      BY <3>1
    <3> DEFINE items == TypedItems
               items2 == TypedItems'
    <3>5. /\ items \in Seq(Items) /\ items2 \in Seq(Items) /\ Alike(items2, items, m) /\ L \in m + 1 .. Len(items)
          /\ (\A i \in m + 1 .. Len(items2) : ~Counts(items2[i], P))
          /\ (\A i \in m + 1 .. Len(items) : i # L => ~Counts(items[i], P))
      BY <1>0, <2>6, <3>1, <3>2, <3>3, <3>4
    <3> HIDE DEF items, items2, L, P
    <3>6. Cardinality(Counting(items, P)) = Cardinality(Counting(items2, P)) + Bool(Counts(items[L], P))
      BY <3>1, <3>5, MoreCounting
    <3> QED
      BY <3>6 DEF items, items2
  <2>11. InFrames = InFrames' + 1
    BY <1>1, <2>9, <2>10 DEF InFrames, Bool
  <2> QED
    BY <1>5, <1>8, <2>3, <2>11
<1> QED
  BY <1>6, <1>7, <1>8

\* Only FOR and NEXT count.
LEMMA OthersKeepLoops == ASSUME VInv, Steps
                         PROVE  (For \/ Next \/ loops' = loops) /\ (Reset \/ result # "ERROR")
<1> DEFINE Kept == loops' = loops
           Ran == mode = "run"
<1>1. Ran => result # "ERROR"
  BY DEF VInv, Halted
<1>2. ASSUME HostStep \/ \E e \in prog.routines, n \in Opaque : Interrupt(e, n) PROVE Kept /\ result # "ERROR"
  <2>1. result = "ERROR" => owed = <<>>
    BY DEF VInv, Halted
  <2> QED
    BY <1>2, <2>1 DEF HostStep, Run, Answer, Interrupt, machine
<1>3. Reset => Kept
  BY DEF Reset
<1>4. ASSUME OutOfCycles \/ End PROVE Kept /\ Ran
  BY <1>4 DEF OutOfCycles, End, Executing, machine
<1>5. ASSUME Nop \/ Output \/ PushNum \/ PushVar \/ PopVar \/ Binary \/ Unary \/ HeapValue \/ HeapStore \/ Rnd \/ Free
      PROVE  Kept /\ Ran
  BY <1>5 DEF Nop, Output, PushNum, PushVar, PopVar, Binary, Unary, HeapValue, HeapStore, Rnd, Free, Executing
<1>6. ASSUME Goto \/ If \/ Gosub \/ Return \/ Reti \/ OnGoto \/ OnGosub \/ Read \/ Restore \/ PushParam \/ Param
             \/ Xfunc \/ Break
      PROVE  Kept /\ Ran
  BY <1>6 DEF Goto, If, Gosub, Return, Reti, OnGoto, OnGosub, Read, Restore, PushParam, Param, Xfunc, Break, Executing
<1>7. For \/ Next => Ran
  BY DEF For, Next, Executing
<1> HIDE DEF Kept, Ran
<1>8. (For \/ Next \/ Kept) /\ (Reset \/ result # "ERROR")
  BY <1>1, <1>2, <1>3, <1>4, <1>5, <1>6, <1>7, Zenon DEF Steps, VMStep
<1> QED
  BY <1>8 DEF Kept

\* Nothing happens.
LEMMA NothingRuns == ASSUME VInv, UNCHANGED vars PROVE VInv' /\ TS!avars' = TS!avars
<1>1. /\ TypedItems' = TypedItems /\ prog' = prog /\ pc' = pc /\ variables' = variables /\ result' = result
      /\ sp' = sp /\ kinds' = kinds /\ mode' = mode /\ owed' = owed
  BY DEF vars, machine, TypedItems
<1>2. VType'
  BY StepsTyped DEF VInv
<1>3. Counted' /\ Halted' /\ Framed'
  BY <1>1 DEF VInv, Counted, Halted, Framed
<1> QED
  BY <1>1, <1>2, <1>3 DEF VInv, TS!avars, LoopEnds

\* A step of the interpreter or of the host is one of the typed machine.
LEMMA StepRuns ==
    ASSUME VInv, StacksFit, StacksFit', [Steps]_vars
    PROVE  /\ VInv' /\ (OneSide => [TS!ANext]_(TS!avars)) /\ (Steps => Tallied \/ Reset)
           /\ (VMStep => ParsMoved) /\ (VMStep \/ HostStep => Moved)
<1>1. CASE UNCHANGED vars /\ ~Steps
  BY <1>1, NothingRuns DEF Steps
<1>2. CASE Steps
  <2>1. VType'
    BY <1>2, StepsTyped DEF VInv
  <2>2. Fits /\ Fits' /\ psp <= ParamSize /\ psp' <= ParamSize
    BY DEF StacksFit, Fits
  <2>3. ASSUME VMStep PROVE Implemented
    <3>1. CASE OutOfCycles \/ End
      BY <2>2, <3>1, WaitingRuns
    <3>2. CASE Nop \/ Output \/ PopVar \/ Restore \/ PushParam \/ Xfunc \/ Break
      BY <2>1, <2>2, <3>2, TakingRuns
    <3>3. CASE PushNum \/ PushVar \/ Binary \/ Unary \/ Rnd \/ Param
      BY <2>1, <2>2, <3>3, LeavingRuns
    <3>4. CASE HeapValue \/ HeapStore \/ Read
      BY <2>1, <2>2, <3>4, HeapRuns
    <3>5. CASE Goto \/ If \/ Gosub \/ OnGoto \/ OnGosub
      BY <2>1, <2>2, <3>5, JumpingRuns
    <3>6. CASE For \/ Next \/ Return \/ Reti \/ Free
      BY <2>1, <2>2, <3>6, LoopingRuns
    <3> QED
      BY <2>3, <3>1, <3>2, <3>3, <3>4, <3>5, <3>6 DEF VMStep
  <2>4. ASSUME HostStep PROVE Implemented
    BY <2>2, <2>4, WaitingRuns DEF HostStep
  <2>5. ASSUME NEW e \in prog.routines, NEW n \in Opaque, Interrupt(e, n) PROVE VInv' /\ TS!ANext /\ Tallied
    <3>1. Counted' /\ Framed' /\ TS!Interrupt /\ Tally' = Tally
      BY <2>1, <2>2, <2>5, InterruptRuns
    <3>2. Halted' /\ prog' = prog
      BY <2>5 DEF VInv, Halted, Interrupt
    <3>3. TS!ANext
      BY <3>1, <3>2, AbstractSteps
    <3> QED
      BY <2>1, <3>1, <3>2, <3>3 DEF VInv, Tallied
  <2>6. ASSUME Reset PROVE VInv' /\ TS!ANext
    <3>1. prog' = prog
      BY <2>6 DEF Reset
    <3> QED
      BY <2>1, <2>6, <3>1, ResetRuns, AbstractSteps DEF VInv
  <2>7. Implemented => VInv' /\ Refined /\ Tallied /\ ParsMoved /\ Moved
    BY <2>1 DEF Implemented, VInv
  <2> QED
    <3>1. (VMStep => ParsMoved) /\ (VMStep \/ HostStep => Moved)
      BY <2>3, <2>4, <2>7
    <3>2. VInv' /\ Refined /\ (Tallied \/ Reset)
      BY <1>2, <2>3, <2>4, <2>5, <2>6, <2>7 DEF Steps, Refined
    <3> QED
      BY <3>1, <3>2 DEF Refined
<1> QED
  BY <1>1, <1>2

\* The loops stay counted.
LEMMA StepTallied ==
    ASSUME VInv, VInv', StacksFit, StacksFit', LoopsTallied, [Steps]_vars, Steps => Tallied \/ Reset,
           [Reset => loops = 0]_vars
    PROVE  LoopsTallied'
<1> DEFINE c == InFrames
           c2 == InFrames'
           m == MaxForLoops
           l == loops
           l2 == loops'
<1>1. /\ c \in Nat /\ c2 \in Nat /\ l \in Nat /\ m \in 0 .. 254
  <2>1. Fits /\ Fits'
    BY DEF StacksFit, Fits
  <2>2. TypedItems \in Seq(Items)
    BY <2>1, TheItems DEF VInv
  <2>3. TypedItems' \in Seq(Items)
    BY <2>1, TheNextItems DEF VInv
  <2>4. loops \in Nat
    BY CountersAreNumbers DEF VInv, VType, CountersTyped
  <2> QED
    BY <2>2, <2>3, <2>4, CountingNumber, LoopAssumption DEF InFrames
<1>2. c <= m /\ l \in c .. c + 1 /\ (result # "ERROR" => l = c + Bool(Entered) /\ l <= m)
  BY DEF LoopsTallied, Entered
<1>3. SUFFICES c2 <= m /\ l2 \in c2 .. c2 + 1 /\ (result' # "ERROR" => l2 = c2 + Bool(Entered') /\ l2 <= m)
  BY DEF LoopsTallied, Entered
<1>4. CASE UNCHANGED vars
  <2>1. c2 = c /\ l2 = l /\ result' = result /\ Entered' = Entered
    BY <1>4 DEF vars, machine, InFrames, TypedItems, Entered
  <2> QED
    BY <1>2, <2>1
<1>5. CASE Reset /\ ~UNCHANGED vars
  <2>1. c2 = 0 /\ ~Entered'
    BY <1>5, ResetRuns
  <2>2. l2 = 0
    BY <1>5 DEF Reset
  <2> QED
    BY <1>1, <2>1, <2>2 DEF Bool
<1>6. CASE Steps /\ ~Reset
  <2>1. result # "ERROR" /\ (For \/ Next \/ l2 = l)
    BY <1>6, OthersKeepLoops
  <2>2. l = c + Bool(Entered) /\ l <= m
    BY <1>2, <2>1
  <2>3. VType' /\ Fits
    BY DEF VInv, StacksFit, Fits
  <2>4. CASE For
    <3>1. c2 = c /\ ~Entered /\ (result' = "ERROR" \/ Entered')
      BY <2>3, <2>4, ForCounts
    <3>2. l2 = (l + 1) % 256 /\ (l2 > m => result' = "ERROR")
      BY <2>4 DEF For, Fail, Leave
    <3> HIDE DEF c, c2, m, l, l2
    <3>3. l = c /\ l2 = c + 1
      <4>1. l = c + 0
        BY <2>2, <3>1 DEF Bool
      <4> QED
        BY <1>1, <2>2, <3>2, <4>1
    <3>4. result' # "ERROR" => l2 <= m /\ Bool(Entered') = 1
      BY <1>1, <3>1, <3>2, <3>3 DEF Bool
    <3> QED
      BY <1>1, <1>2, <3>1, <3>3, <3>4
  <2>5. CASE Next
    <3>1. /\ ~Entered /\ ~Entered'
          /\ \/ l2 = l /\ c2 = c
             \/ l2 = (l - 1) % 256 /\ c = c2 + 1
      BY <2>3, <2>5, NextCounts
    <3>2. Bool(Entered) = 0 /\ Bool(Entered') = 0
      BY <3>1 DEF Bool
    <3> HIDE DEF c, c2, m, l, l2
    <3> QED
      BY <1>1, <2>2, <3>1, <3>2
  <2>6. CASE l2 = l /\ ~For /\ ~Next
    <3>1. \/ c2 + Bool(Entered') = c + Bool(Entered)
          \/ result' = "ERROR" /\ c2 = c
      BY <1>6, <2>6 DEF Tallied, Tally
    <3>2. Bool(Entered') \in 0 .. 1
      BY DEF Bool
    <3> HIDE DEF c, c2, m, l, l2
    <3> QED
      BY <1>1, <1>2, <2>2, <2>6, <3>1, <3>2
  <2> QED
    BY <2>1, <2>4, <2>5, <2>6
<1> QED
  BY <1>4, <1>5, <1>6

-----------------------------------------------------------------------------
\* The index of the parameter stack does not wrap around.
LEMMA ByteMoves == ASSUME NEW n \in Nat, n < 255 PROVE (n + 1) % 256 = n + 1 /\ (n > 0 => (n - 1) % 256 = n - 1)
  OBVIOUS

\* What an instruction does to the parameter stack: it takes and gives, or it leaves
\* that to the host.
LEMMA ParamsMove ==
    ASSUME VType, VType', owed = <<>>, psp <= ParamSize, psp' <= ParamSize, VMStep, ~End, ~OutOfCycles,
           Wanted(ins) <= psp
    PROVE  /\ mode = "run" /\ prog' = prog
           /\ mode' = "run" => owed' = <<>>
           /\ result' = "ERROR" => owed' = <<>>
           /\ owed' # <<>> => owed'[1] \in Nat /\ owed'[2] \in 0 .. 1 /\ owed'[2] <= Given(ins)
           /\ result' = "ERROR" \/ psp' = psp - Wanted(ins) + Given(ins) + Unanswered'
<1> DEFINE Owing == /\ mode' = "run" => owed' = <<>>
                    /\ result' = "ERROR" => owed' = <<>>
                    /\ owed' # <<>> => owed'[1] \in Nat /\ owed'[2] \in 0 .. 1 /\ owed'[2] <= Given(ins)
                    /\ result' = "ERROR" \/ psp' = psp - Wanted(ins) + Given(ins) + Unanswered'
           Ran == mode = "run" /\ prog' = prog
<1>1. psp \in Nat /\ psp' \in Nat /\ psp < 255
  BY ParamAssumption DEF VType, CountersTyped, Byte
<1>a. (psp + 1) % 256 = psp + 1 /\ (psp > 0 => (psp - 1) % 256 = psp - 1)
  BY <1>1, ByteMoves
<1>2. ASSUME psp' = psp, owed' = <<>>, Wanted(ins) = 0, Given(ins) = 0 PROVE Owing
  BY <1>1, <1>2 DEF Unanswered
<1>3. ASSUME Nop \/ Output \/ PushNum \/ PushVar \/ PopVar \/ Binary \/ Unary \/ HeapValue \/ HeapStore \/ Rnd \/ Free
      PROVE  Owing /\ Ran
  <2>1. PICK op \in {"NOP", "PRINT", "PUSH_NUM", "PUSH_VAR", "POP_VAR", "BINARY", "UNARY", "HEAP_VALUE", "HEAP_STORE",
                     "RND", "FREE"} : Executing(op) /\ psp' = psp /\ owed' = <<>>
    BY <1>3 DEF Nop, Output, PushNum, PushVar, PopVar, Binary, Unary, HeapValue, HeapStore, Rnd, Free, SameParams,
                GoOn, Fail, Leave
  <2>2. ins.op = op /\ Ran
    BY <2>1 DEF Executing
  <2>3. Wanted(ins) = 0 /\ Given(ins) = 0
    BY <2>2 DEF Wanted, Given
  <2> HIDE DEF Owing, Ran
  <2> QED
    BY <1>2, <2>1, <2>2, <2>3
<1>4. ASSUME Goto \/ If \/ Gosub \/ Return \/ Reti \/ OnGoto \/ OnGosub \/ For \/ Next \/ Read \/ Restore
      PROVE  Owing /\ Ran
  <2>1. PICK op \in {"GOTO", "IF", "GOSUB", "RETURN", "RETI", "ON_GOTO", "ON_GOSUB", "FOR", "NEXT", "READ", "RESTORE"} :
            Executing(op) /\ psp' = psp /\ owed' = <<>>
    BY <1>4 DEF Goto, If, Gosub, Return, Reti, OnGoto, OnGosub, For, Next, Read, Restore, SameParams, GoOn, Fail, Leave
  <2>2. ins.op = op /\ Ran
    BY <2>1 DEF Executing
  <2>3. Wanted(ins) = 0 /\ Given(ins) = 0
    BY <2>2 DEF Wanted, Given
  <2> HIDE DEF Owing, Ran
  <2> QED
    BY <1>2, <2>1, <2>2, <2>3
<1>5. ASSUME PushParam \/ Param PROVE Owing /\ Ran
  <2>1. Ran /\ owed' = <<>> /\ ins.op \in {"PUSH_PARAM", "PARAM"} /\ Unanswered' = 0
    BY <1>5 DEF PushParam, Param, Executing, GoOn, Unanswered
  <2>2. ASSUME PushParam PROVE psp' = psp + 1 /\ Wanted(ins) = 0 /\ Given(ins) = 1
    <3>1. psp' = (psp + 1) % 256 /\ ins.op = "PUSH_PARAM"
      BY <2>2 DEF PushParam, PPush, Executing
    <3>2. psp' = psp + 1
      BY <1>a, <3>1
    <3> QED
      BY <3>1, <3>2 DEF Wanted, Given
  <2>3. ASSUME Param PROVE psp' = psp - 1 /\ Wanted(ins) = 1 /\ Given(ins) = 0
    <3>1. ins.op = "PARAM" /\ ((psp > 0 /\ psp' = (psp - 1) % 256) \/ psp = 0)
      BY <2>3 DEF Param, PPop, Executing
    <3>2. Wanted(ins) = 1 /\ Given(ins) = 0
      BY <3>1 DEF Wanted, Given
    <3>3. psp # 0
      BY <1>1, <3>2
    <3> QED
      BY <1>a, <3>1, <3>2, <3>3
  <2>4. psp' = psp - Wanted(ins) + Given(ins) + Unanswered'
    BY <1>1, <1>5, <2>1, <2>2, <2>3
  <2> QED
    BY <2>1, <2>4
<1>6. ASSUME Xfunc PROVE Owing /\ Ran
  <2>1. /\ Ran /\ ins.op = "XFUNC" /\ mode' = "host" /\ result' = "XFUNC" /\ owed' = <<ins.pars, ins.res>>
        /\ psp' = psp
    BY <1>6 DEF Xfunc, Executing, SameParams
  <2>2. Operands(ins)
    BY <2>1, Instruction DEF VType
  <2>3. ins.pars \in Nat /\ ins.res \in 0 .. 1 /\ Wanted(ins) = ins.pars /\ Given(ins) = ins.res
    BY <2>1, <2>2 DEF Operands, Wanted, Given
  <2>4. owed'[1] = ins.pars /\ owed'[2] = ins.res /\ owed' # <<>>
    BY <2>1
  <2>5. Unanswered' = ins.pars - ins.res
    BY <2>4 DEF Unanswered
  <2>6. psp' = psp - Wanted(ins) + Given(ins) + Unanswered'
    BY <1>1, <2>1, <2>3, <2>5
  <2>7. owed'[1] \in Nat /\ owed'[2] \in 0 .. 1 /\ owed'[2] <= Given(ins)
    BY <2>3, <2>4
  <2> QED
    BY <2>1, <2>6, <2>7
<1>7. ASSUME Break PROVE Owing /\ Ran
  <2>1. /\ Ran /\ ins.op = "BREAK" /\ mode' = "host" /\ result' = "BREAK" /\ owed' = <<1, 0>>
        /\ psp' = (psp + 1) % 256
    BY <1>7 DEF Break, Executing, PPush
  <2>2. Wanted(ins) = 0 /\ Given(ins) = 0
    BY <2>1 DEF Wanted, Given
  <2>3. owed'[1] = 1 /\ owed'[2] = 0 /\ owed' # <<>>
    BY <2>1
  <2>4. Unanswered' = 1
    BY <2>3 DEF Unanswered
  <2>5. psp' = psp + 1
    BY <1>a, <2>1
  <2>6. psp' = psp - Wanted(ins) + Given(ins) + Unanswered'
    BY <1>1, <2>2, <2>4, <2>5
  <2>7. owed'[1] \in Nat /\ owed'[2] \in 0 .. 1 /\ owed'[2] <= Given(ins)
    BY <2>2, <2>3
  <2> QED
    BY <2>1, <2>6, <2>7
<1> HIDE DEF Owing, Ran
<1>8. Owing /\ Ran
  BY <1>3, <1>4, <1>5, <1>6, <1>7 DEF VMStep
<1> QED
  BY <1>8, Zenon DEF Owing, Ran

\* Nobody but End says that the program has ended, and then it is there.
LEMMA OnlyEndEnds == ASSUME VInv, Steps, result' = "END" PROVE End
<1> DEFINE Ran == mode = "run" /\ (GoOn \/ result' \in {"ERROR", "BUSY", "RETI", "XFUNC", "BREAK"})
<1>1. Ran => FALSE
  BY DEF VInv, Halted, GoOn
<1>2. ASSUME HostStep \/ (\E e \in prog.routines, n \in Opaque : Interrupt(e, n)) \/ Reset PROVE FALSE
  <2>1. result = "END" => owed = <<>>
    BY DEF VInv, Halted
  <2> QED
    BY <1>2, <2>1 DEF HostStep, Run, Answer, Interrupt, Reset
<1>3. ASSUME OutOfCycles \/ Nop \/ Output \/ PushNum \/ PushVar \/ PopVar \/ Binary \/ Unary \/ HeapValue \/ HeapStore
             \/ Rnd \/ Free
      PROVE  Ran
  BY <1>3 DEF OutOfCycles, Nop, Output, PushNum, PushVar, PopVar, Binary, Unary, HeapValue, HeapStore, Rnd, Free,
              Executing, Fail, Leave
<1>4. ASSUME Goto \/ If \/ Gosub \/ Return \/ Reti \/ OnGoto \/ OnGosub \/ For \/ Next \/ Read \/ Restore
      PROVE  Ran
  BY <1>4 DEF Goto, If, Gosub, Return, Reti, OnGoto, OnGosub, For, Next, Read, Restore, Executing, Fail, Leave
<1>5. ASSUME PushParam \/ Param \/ Xfunc \/ Break PROVE Ran
  BY <1>5 DEF PushParam, Param, Xfunc, Break, Executing
<1> HIDE DEF Ran
<1> QED
  BY <1>1, <1>2, <1>3, <1>4, <1>5, Zenon DEF Steps, VMStep

\* The parameters stay tallied.
LEMMA ParsStep ==
    ASSUME VInv, VInv', StacksFit, StacksFit', ProgramsBalanced, ParsTallied, [Steps]_vars, VMStep => ParsMoved
    PROVE  ParsTallied'
<1> DEFINE p == Pars[prog][pc]
           p2 == Pars[prog][pc']
           w == ParsWaiting
           w2 == ParsWaiting'
           i == ins
<1>1. /\ VType /\ VType' /\ psp <= ParamSize /\ psp' <= ParamSize /\ Fits /\ Fits' /\ prog \in Programs
      /\ psp \in Nat /\ ParamSize \in Nat /\ ParamSize < 255 /\ ParamSize < StackSize /\ StackSize \in Nat
  BY RingSize, ParamAssumption DEF VInv, VType, CountersTyped, Byte, StacksFit, Fits
<1>2. w \in Nat /\ w2 \in Nat
  <2>1. TypedItems \in Seq(Items)
    BY <1>1, TheItems DEF VInv
  <2>2. TypedItems' \in Seq(Items)
    BY <1>1, TheNextItems DEF VInv
  <2> QED
    BY <2>1, <2>2, CellsNumber DEF ParsWaiting
<1>3. mode = "run" => owed = <<>>
  BY DEF ParsTallied
<1>4. /\ owed # <<>> => owed[1] \in Nat /\ owed[2] \in 0 .. 1 /\ owed[2] <= p
      /\ result # "ERROR" => psp = w + p + Unanswered
  BY DEF ParsTallied
<1>5. SUFFICES ASSUME prog' = prog
               PROVE  /\ mode' = "run" => owed' = <<>>
                      /\ owed' # <<>> => owed'[1] \in Nat /\ owed'[2] \in 0 .. 1 /\ owed'[2] <= p2
                      /\ result' # "ERROR" => psp' = w2 + p2 + Unanswered'
  <2>1. prog' = prog
    <3>1. HostStep \/ (\E e \in prog.routines, n \in Opaque : Interrupt(e, n)) \/ Reset => prog' = prog
      BY DEF HostStep, Run, Answer, Interrupt, Reset
    <3>2. UNCHANGED vars \/ OutOfCycles => prog' = prog
      BY DEF vars, OutOfCycles
    <3>3. End => prog' = prog
      BY DEF End, Executing
    <3>4. VMStep /\ ~End /\ ~OutOfCycles => prog' = prog
      BY DEF VMStep, Executing, Nop, Output, PushNum, PushVar, PopVar, Binary, Unary, HeapValue, HeapStore, Rnd, Free,
             Goto, If, Gosub, Return, Reti, OnGoto, OnGosub, For, Next, Read, Restore, PushParam, Param, Xfunc, Break
    <3> QED
      BY <3>1, <3>2, <3>3, <3>4 DEF Steps
  <2> QED
    BY <2>1 DEF ParsTallied
<1>6. result # "ERROR" => /\ p \in Nat
                          /\ \E s \in Places[prog] : s.at = pc /\ (i.op # "END" => pc \in DOMAIN prog.code /\ i = prog.code[pc])
  <2>1. SUFFICES ASSUME result # "ERROR" PROVE /\ p \in Nat
                          /\ \E s \in Places[prog] : s.at = pc /\ (i.op # "END" => pc \in DOMAIN prog.code /\ i = prog.code[pc])
    OBVIOUS
  <2>2. PICK s : Working(s)
    BY <2>1, AtPlace
  <2>3. s \in Places[prog] /\ s.at = pc
    BY <2>2 DEF Working
  <2>4. i.op # "END" => pc \in DOMAIN prog.code /\ i = prog.code[pc]
    BY DEF ins, Fetch, EndInstr
  <2>5. p \in Nat
    BY <1>1, <2>3, ParsType
  <2> QED
    BY <2>3, <2>4, <2>5
<1>7. result # "ERROR" /\ i.op # "END" =>
         /\ Wanted(i) <= p
         /\ \A a \in Onward(i, pc) : Pars[prog][a] = p - Wanted(i) + Given(i)
         /\ \A a \in Called(i, pc) : Pars[prog][a] = 0
         /\ i.op \in {"RETURN", "RETI"} => p = 0
  BY <1>1, <1>6 DEF ProgramsBalanced, Balanced
<1>8. CASE UNCHANGED vars
  <2>1. /\ w2 = w /\ psp' = psp /\ owed' = owed /\ result' = result /\ mode' = mode /\ pc' = pc
        /\ Unanswered' = Unanswered
    BY <1>8 DEF vars, machine, ParsWaiting, TypedItems, Unanswered
  <2> HIDE DEF w, w2
  <2> QED
    BY <1>3, <1>4, <2>1
<1>9. CASE (End \/ OutOfCycles \/ \E budget \in Budgets : Run(budget)) \/ \E n \in Opaque : Answer(n)
  <2>1. prog' = prog /\ pc' = pc /\ SameStack /\ (result = "ERROR" => result' = "ERROR")
    <3>1. result = "ERROR" => mode = "host" /\ owed = <<>>
      BY DEF VInv, Halted
    <3> QED
      BY <1>5, <1>9, <3>1 DEF End, OutOfCycles, Executing, Run, Answer, machine, SameStack
  <2>2. w2 = w
    BY <1>1, <2>1, QuietRuns
  <2>3. CASE End \/ OutOfCycles \/ \E budget \in Budgets : Run(budget)
    <3>1. owed = <<>> /\ owed' = <<>> /\ psp' = psp
      BY <1>3, <2>3 DEF End, OutOfCycles, Executing, Run, Leave, machine
    <3>2. Unanswered = 0 /\ Unanswered' = 0
      BY <3>1 DEF Unanswered
    <3> HIDE DEF w, w2
    <3> QED
      BY <1>4, <2>1, <2>2, <3>1, <3>2
  <2>4. CASE \E n \in Opaque : Answer(n)
    <3> DEFINE left == IF psp < owed[1] THEN 0 ELSE psp - owed[1]
    <3>1. /\ owed # <<>> /\ owed' = <<>> /\ result' = result
          /\ IF owed[2] = 0 \/ left >= StackSize THEN psp' = left ELSE psp' = (left + 1) % 256
      BY <2>4 DEF Answer
    <3>2. Unanswered' = 0 /\ Unanswered = owed[1] - owed[2] /\ owed[1] \in Nat /\ owed[2] \in 0 .. 1 /\ owed[2] <= p
      BY <1>4, <3>1 DEF Unanswered
    <3>3. CASE result # "ERROR"
      <4>1. p \in Nat /\ psp = w + p + (owed[1] - owed[2])
        BY <1>4, <1>6, <3>2, <3>3
      <4> HIDE DEF p, w, w2
      <4>2. left = w + p - owed[2] /\ left \in Nat /\ left <= psp
        BY <1>1, <1>2, <3>2, <4>1
      <4> HIDE DEF left
      <4>3. left < 255 /\ left < StackSize
        BY <1>1, <4>2
      <4>4. (left + 1) % 256 = left + 1
        BY <4>2, <4>3, ByteMoves
      <4>5. psp' = w + p
        <5>1. CASE owed[2] = 0
          <6>1. psp' = left
            BY <3>1, <5>1
          <6> QED
            BY <1>2, <4>1, <4>2, <5>1, <6>1
        <5>2. CASE owed[2] = 1
          <6>1. psp' = left + 1
            BY <1>1, <3>1, <4>2, <4>3, <4>4, <5>2
          <6> QED
            BY <1>2, <4>1, <4>2, <5>2, <6>1
        <5> QED
          BY <3>2, <5>1, <5>2
      <4> QED
        BY <1>2, <2>1, <2>2, <3>1, <3>2, <4>1, <4>5 DEF p
    <3> QED
      BY <3>1, <3>3
  <2> QED
    BY <1>9, <2>3, <2>4
<1>10. ASSUME NEW e \in prog.routines, NEW n \in Opaque, Interrupt(e, n)
       PROVE  mode' = "host" /\ owed' = <<>> /\ (result' # "ERROR" => psp' = w2 + p2 + Unanswered')
  <2>1. /\ mode' = "host" /\ owed' = <<>> /\ owed = <<>> /\ pc' = e.at /\ result # "ERROR"
        /\ IF e.par /\ psp < StackSize THEN psp' = (psp + 1) % 256 ELSE psp' = psp
    BY <1>10 DEF Interrupt, PPush
  <2>2. Unanswered = 0 /\ Unanswered' = 0
    BY <2>1 DEF Unanswered
  <2>3. p2 = Bool(e.par)
    BY <1>1, <2>1 DEF ProgramsBalanced, Balanced
  <2>4. w2 = w + p
    BY <1>1, <1>10, InterruptRuns
  <2>5. psp' = psp + Bool(e.par)
    <3>1. psp < StackSize /\ psp < 255
      BY <1>1
    <3>2. (psp + 1) % 256 = psp + 1
      BY <1>1, <3>1, ByteMoves
    <3> QED
      BY <1>1, <2>1, <3>1, <3>2 DEF Bool
  <2>6. psp = w + p /\ p \in Nat
    BY <1>2, <1>4, <1>6, <2>1, <2>2
  <2> HIDE DEF p, p2, w, w2
  <2> QED
    BY <1>2, <2>1, <2>2, <2>3, <2>4, <2>5, <2>6
<1>11. ASSUME Reset PROVE mode' = "host" /\ owed' = <<>> /\ (result' # "ERROR" => psp' = w2 + p2 + Unanswered')
  <2>1. mode' = "host" /\ owed' = <<>> /\ psp' = 0 /\ pc' = 1
    BY <1>11 DEF Reset
  <2>2. Unanswered' = 0
    BY <2>1 DEF Unanswered
  <2>3. w2 = 0
    BY <1>11, ResetRuns
  <2>4. p2 = 0
    BY <1>1, <2>1 DEF ProgramsBalanced, Balanced
  <2> HIDE DEF p, p2, w, w2
  <2> QED
    BY <2>1, <2>2, <2>3, <2>4
<1>12. CASE VMStep /\ ~End /\ ~OutOfCycles
  <2>1. mode = "run" /\ owed = <<>> /\ i.op # "END" /\ result # "ERROR"
    <3>1. mode = "run" /\ i.op # "END"
      <4>1. Nop \/ Output \/ PushNum \/ PushVar \/ PopVar \/ Binary \/ Unary \/ HeapValue \/ HeapStore \/ Rnd \/ Free
            => mode = "run" /\ ins.op # "END"
        BY DEF Executing, Nop, Output, PushNum, PushVar, PopVar, Binary, Unary, HeapValue, HeapStore, Rnd, Free
      <4>2. Goto \/ If \/ Gosub \/ Return \/ Reti \/ OnGoto \/ OnGosub \/ For \/ Next \/ Read \/ Restore
            => mode = "run" /\ ins.op # "END"
        BY DEF Executing, Goto, If, Gosub, Return, Reti, OnGoto, OnGosub, For, Next, Read, Restore
      <4>3. PushParam \/ Param \/ Xfunc \/ Break => mode = "run" /\ ins.op # "END"
        BY DEF Executing, PushParam, Param, Xfunc, Break
      <4> QED
        BY <1>12, <4>1, <4>2, <4>3 DEF VMStep
    <3> QED
      BY <1>3, <3>1 DEF VInv, Halted
  <2>2. p \in Nat /\ psp = w + p /\ Wanted(i) <= p
    <3>1. Unanswered = 0
      BY <2>1 DEF Unanswered
    <3> QED
      BY <1>2, <1>4, <1>6, <1>7, <2>1, <3>1
  <2>3. Wanted(i) \in Nat /\ Given(i) \in Nat
    <3>1. Operands(ins)
      BY <2>1, Operand
    <3> QED
      BY <3>1 DEF Wanted, Given, Operands
  <2>4. Wanted(i) <= psp
    <3> HIDE DEF p, w, i
    <3> QED
      BY <1>2, <2>2, <2>3
  <2>5. /\ mode' = "run" => owed' = <<>>
        /\ result' = "ERROR" => owed' = <<>>
        /\ owed' # <<>> => owed'[1] \in Nat /\ owed'[2] \in 0 .. 1 /\ owed'[2] <= Given(i)
        /\ result' = "ERROR" \/ psp' = psp - Wanted(i) + Given(i) + Unanswered'
    BY <1>1, <1>12, <2>1, <2>4, ParamsMove
  <2>6. ASSUME result' # "ERROR", psp' = psp, owed' = <<>>, pc' = pc, w2 = w PROVE psp' = w2 + p2 + Unanswered'
    <3>1. Unanswered' = 0
      BY <2>6 DEF Unanswered
    <3> QED
      BY <1>2, <2>2, <2>6, <3>1
  <2> DEFINE W == Wanted(i)
             G == Given(i)
             u2 == Unanswered'
  <2>7. u2 \in Int
    BY <2>5 DEF Unanswered
  <2>8. result' = "ERROR" \/ (psp' = psp /\ owed' = <<>> /\ pc' = pc /\ w2 = w)
        \/ (w2 + p2 = w + p - W + G /\ p2 \in Int /\ p2 >= G)
    <3>1. SUFFICES ASSUME result' # "ERROR"
                   PROVE  \/ psp' = psp /\ owed' = <<>> /\ pc' = pc /\ w2 = w
                          \/ w2 + p2 = w + p - W + G /\ p2 \in Int /\ p2 >= G
      OBVIOUS
    <3>2. \/ pc' = pc /\ w2 = w /\ psp' = psp /\ owed' = <<>>
          \/ pc' \in Onward(i, pc) /\ w2 = w
          \/ pc' \in Called(i, pc) /\ \E b \in Onward(i, pc) : w2 = w + Pars[prog][b]
          \/ i.op \in {"RETURN", "RETI"} /\ w = w2 + p2 /\ \E t \in Places[prog] : t.at = pc'
      BY <1>12, <2>1, <3>1 DEF ParsMoved
    <3>3. CASE pc' \in Onward(i, pc) /\ w2 = w
      <4>1. p2 = p - W + G
        BY <1>7, <2>1, <3>3
      <4> HIDE DEF p, p2, w, w2, W, G
      <4> QED
        BY <1>2, <2>2, <2>3, <3>3, <4>1 DEF W, G
    <3>4. CASE pc' \in Called(i, pc) /\ \E b \in Onward(i, pc) : w2 = w + Pars[prog][b]
      <4>1. p2 = 0 /\ w2 = w + (p - W + G)
        BY <1>7, <2>1, <3>4
      <4>2. W = 0 /\ G = 0
        <5>1. i.op \in {"GOSUB", "ON_GOSUB"}
          BY <3>4 DEF Called
        <5> QED
          BY <5>1 DEF Wanted, Given
      <4> HIDE DEF p, p2, w, w2, W, G
      <4> QED
        BY <1>2, <2>2, <4>1, <4>2
    <3>5. CASE i.op \in {"RETURN", "RETI"} /\ w = w2 + p2 /\ \E t \in Places[prog] : t.at = pc'
      <4>1. p = 0 /\ p2 \in Nat
        BY <1>1, <1>7, <2>1, <3>5, ParsType
      <4>2. W = 0 /\ G = 0
        BY <3>5 DEF Wanted, Given
      <4> HIDE DEF p, p2, w, w2, W, G
      <4> QED
        BY <1>2, <3>5, <4>1, <4>2
    <3> QED
      BY <3>2, <3>3, <3>4, <3>5
  <2>9. CASE result' = "ERROR"
    BY <2>5, <2>9
  <2>10. CASE result' # "ERROR" /\ psp' = psp /\ owed' = <<>> /\ pc' = pc /\ w2 = w
    <3>1. u2 = 0
      BY <2>10 DEF Unanswered
    <3> QED
      BY <1>2, <2>2, <2>10, <3>1
  <2>11. CASE result' # "ERROR" /\ w2 + p2 = w + p - W + G /\ p2 \in Int /\ p2 >= G
    <3> HIDE DEF p, p2, w, w2, W, G, u2
    <3>1. psp' = psp - W + G + u2
      BY <2>5, <2>11 DEF W, G, u2
    <3>2. W \in Nat /\ G \in Nat
      BY <2>3 DEF W, G
    <3>3. psp' = w2 + p2 + u2
      BY <1>2, <2>2, <2>7, <2>11, <3>1, <3>2
    <3>4. owed' # <<>> => owed'[1] \in Nat /\ owed'[2] \in 0 .. 1 /\ owed'[2] <= p2
      <4>1. owed' # <<>> => owed'[1] \in Nat /\ owed'[2] \in 0 .. 1 /\ owed'[2] <= G
        BY <2>5 DEF G
      <4> QED
        BY <2>11, <3>2, <4>1
    <3> QED
      BY <2>5, <3>3, <3>4 DEF u2
  <2> QED
    BY <2>8, <2>9, <2>10, <2>11
<1> QED
  BY <1>8, <1>9, <1>10, <1>11, <1>12 DEF Steps, HostStep

-----------------------------------------------------------------------------
\* What a program needs is a number wherever it comes to.
LEMMA RoomType ==
    ASSUME ProgramsBalanced, ProgramsRoomy, NEW p \in Programs
    PROVE  /\ Room[p].intWords \in Nat /\ Room[p].intPars \in Nat
           /\ \A s \in Places[p] : Room[p].words[s.at] \in Nat /\ Room[p].pars[s.at] \in Nat /\ Pars[p][s.at] \in Nat
<1>1. /\ Room[p].words \in [1 .. Len(p.code) + 1 -> Nat] /\ Room[p].intWords \in Nat
      /\ Room[p].pars \in [1 .. Len(p.code) + 1 -> Nat] /\ Room[p].intPars \in Nat
  BY DEF ProgramsRoomy, Roomy
<1>2. \A s \in Places[p] : s.at \in 1 .. Len(p.code) + 1
  BY PlacesAssumption DEF Described
<1>3. \A s \in Places[p] : Pars[p][s.at] \in Nat
  BY ParsType
<1> QED
  BY <1>1, <1>2, <1>3

\* After an instruction there is a place.
LEMMA PlacesAfter ==
    ASSUME VInv, NEW s, Working(s), ins.op # "END", NEW a \in Onward(ins, pc) \cup Called(ins, pc)
    PROVE  \E t \in Places[prog] : t.at = a
<1>1. NextPlaces(s, ins) \subseteq Places[prog] /\ s.at = pc /\ s \in AllPlaces
  BY DEF Working
<1>2. CASE ins.op = "NEXT"
  <2> DEFINE t1 == [s EXCEPT !.at = ins.to]
             t2 == [s EXCEPT !.at = s.at + 1, !.frame = Without(@, 2)]
  <2>1. t1 \in Places[prog] /\ t2 \in Places[prog]
    BY <1>1, <1>2 DEF NextPlaces
  <2>2. t1.at = ins.to /\ t2.at = pc + 1
    BY <1>1 DEF AllPlaces
  <2>3. a = ins.to \/ a = pc + 1
    BY <1>2 DEF Onward, GoesOn, Called
  <2> HIDE DEF t1, t2
  <2> QED
    BY <2>1, <2>2, <2>3
<1>3. CASE ins.op # "NEXT"
  <2> DEFINE t1 == Place(a, After(s.frame, ins), s.level, Entering(s, ins))
             t2 == Place(a, <<>>, "sub", FALSE)
  <2>1. a \in GoesOn(ins, s.at) \/ a \in Called(ins, s.at)
    BY <1>1, <1>3 DEF Onward
  <2>2. t1 \in Places[prog] \/ t2 \in Places[prog]
    BY <1>1, <1>3, <2>1 DEF NextPlaces
  <2>3. t1.at = a /\ t2.at = a
    BY DEF Place
  <2> HIDE DEF t1, t2
  <2> QED
    BY <2>2, <2>3
<1> QED
  BY <1>2, <1>3

\* What is needed here, and there where the instruction goes on.
LEMMA RoomHere ==
    ASSUME ProgramsBalanced, ProgramsRoomy, VInv, result # "ERROR"
    PROVE  LET words == Room[prog].words
               room == Room[prog].pars
               pars == Pars[prog]
           IN /\ words[pc] \in Nat /\ room[pc] \in Nat /\ pars[pc] \in Nat
              /\ ins.op # "END" =>
                    /\ \A a \in Onward(ins, pc) \cup Called(ins, pc) :
                          words[a] \in Nat /\ room[a] \in Nat /\ pars[a] \in 0 .. ParamSize /\ pars[a] \in Nat
                    /\ \A a \in GoesOn(ins, pc) : words[a] + Bool(ins.op \in Leaving) <= words[pc] + Dropped(ins)
                    /\ \A a \in Called(ins, pc) :
                          words[a] + 1 <= words[pc] + Taken(ins) /\ room[a] <= room[pc] /\ pars[a] = 0
                    /\ \A a \in Onward(ins, pc) : /\ pars[a] + room[a] <= pars[pc] + room[pc]
                                                   /\ pars[a] = pars[pc] - Wanted(ins) + Given(ins)
                    /\ ins.op = "NEXT" => words[ins.to] <= words[pc]
                    /\ ins.op = "BREAK" => room[pc] >= 1
<1>1. PICK s : Working(s)
  BY AtPlace
<1>2. s \in Places[prog] /\ s.at = pc /\ prog \in Programs
  BY <1>1 DEF Working, VInv, VType
<1>3. Room[prog].words[pc] \in Nat /\ Room[prog].pars[pc] \in Nat /\ Pars[prog][pc] \in Nat
  BY <1>2, RoomType
<1>4. ins.op # "END" => pc \in DOMAIN prog.code /\ ins = prog.code[pc]
  BY DEF ins, Fetch, EndInstr
<1>5. ASSUME ins.op # "END", NEW a \in Onward(ins, pc) \cup Called(ins, pc)
      PROVE  /\ Room[prog].words[a] \in Nat /\ Room[prog].pars[a] \in Nat
             /\ Pars[prog][a] \in 0 .. ParamSize /\ Pars[prog][a] \in Nat
  <2>1. PICK t \in Places[prog] : t.at = a
    BY <1>1, <1>5, PlacesAfter
  <2> QED
    BY <1>2, <2>1, RoomType, ParsType
<1> DEFINE words == Room[prog].words
           room == Room[prog].pars
           pars == Pars[prog]
<1>6. ASSUME ins.op # "END"
      PROVE  /\ \A a \in GoesOn(ins, pc) : words[a] + Bool(ins.op \in Leaving) <= words[pc] + Dropped(ins)
             /\ \A a \in Called(ins, pc) : words[a] + 1 <= words[pc] + Taken(ins) /\ room[a] <= room[pc]
             /\ \A a \in Onward(ins, pc) : pars[a] + room[a] <= pars[pc] + room[pc]
             /\ ins.op = "NEXT" => words[ins.to] <= words[pc]
             /\ ins.op = "BREAK" => room[pc] >= 1
  BY <1>2, <1>4, <1>6 DEF ProgramsRoomy, Roomy
<1>7. ASSUME ins.op # "END"
      PROVE  /\ \A a \in Called(ins, pc) : pars[a] = 0
             /\ \A a \in Onward(ins, pc) : pars[a] = pars[pc] - Wanted(ins) + Given(ins)
  BY <1>2, <1>4, <1>7 DEF ProgramsBalanced, Balanced
<1> QED
  BY <1>3, <1>5, <1>6, <1>7

\* The room of the interrupts that may still come.
LEMMA RoomLater ==
    ASSUME NEW n \in 0 .. MaxInterrupts, NEW w \in Nat
    PROVE  /\ (MaxInterrupts - n) * w \in Nat
           /\ n < MaxInterrupts => /\ n + 1 \in 0 .. MaxInterrupts
                                  /\ (MaxInterrupts - n) * w = (MaxInterrupts - (n + 1)) * w + w
           /\ (MaxInterrupts - 0) * w = MaxInterrupts * w
<1>1. MaxInterrupts \in Nat
  BY InterruptAssumption
<1>2. ASSUME NEW m \in Nat PROVE m * w \in Nat /\ (m + 1) * w = m * w + w
  OBVIOUS
<1>3. MaxInterrupts - n \in Nat /\ MaxInterrupts - 0 = MaxInterrupts
  BY <1>1
<1>4. ASSUME n < MaxInterrupts
      PROVE  /\ n + 1 \in 0 .. MaxInterrupts /\ MaxInterrupts - (n + 1) \in Nat
             /\ MaxInterrupts - n = (MaxInterrupts - (n + 1)) + 1
  BY <1>1, <1>4
<1>5. n < MaxInterrupts => (MaxInterrupts - n) * w = (MaxInterrupts - (n + 1)) * w + w
  <2> SUFFICES ASSUME n < MaxInterrupts PROVE (MaxInterrupts - n) * w = (MaxInterrupts - (n + 1)) * w + w
    OBVIOUS
  <2> DEFINE m == MaxInterrupts - (n + 1)
  <2>1. m \in Nat /\ MaxInterrupts - n = m + 1
    BY <1>4
  <2> HIDE DEF m
  <2>2. (m + 1) * w = m * w + w
    BY <1>2, <2>1
  <2> QED
    BY <2>1, <2>2 DEF m
<1> QED
  BY <1>2, <1>3, <1>4, <1>5

\* What lies below is the same as far as the stacks are alike.
LEMMA SameLower ==
    ASSUME NEW S, NEW items \in Seq(S), NEW items2 \in Seq(S), NEW m \in Nat, Alike(items, items2, m),
           NEW n \in 1 .. m
    PROVE  Lower(items2, n) = Lower(items, n) /\ items2[n] = items[n] /\ n \in DOMAIN items
<1>1. m <= Len(items) /\ m <= Len(items2) /\ \A j \in 1 .. m : items[j] = items2[j]
  BY DEF Alike
<1>2. n - 1 \in Nat /\ n - 1 <= Len(items) /\ n - 1 <= Len(items2) /\ n - 1 < m + 1 /\ n \in DOMAIN items
  BY <1>1
<1> DEFINE k == n - 1
           f == SubSeq(items, 1, k)
           g == SubSeq(items2, 1, k)
<1>3. k \in Nat /\ k <= Len(items) /\ k <= Len(items2) /\ \A j \in 1 .. k : j \in 1 .. m
  BY <1>2
<1> HIDE DEF k
<1>4. f \in Seq(S) /\ Len(f) = k /\ \A j \in 1 .. k : f[j] = items[j]
  BY <1>3
<1>5. g \in Seq(S) /\ Len(g) = k /\ \A j \in 1 .. k : g[j] = items2[j]
  BY <1>3
<1> HIDE DEF f, g
<1>6. \A j \in 1 .. Len(f) : f[j] = g[j]
  BY <1>1, <1>3, <1>4, <1>5
<1>7. f = g
  BY <1>4, <1>5, <1>6, SameElements
<1> QED
  BY <1>1, <1>2, <1>7 DEF f, g, k, Lower

\* Frames that wait keep their room.
AllEnough(p, items, sent) == \A n \in Returns(items) : Enough(p, Lower(items, n), items[n].v, sent)
LEMMA WaitingRoom ==
    ASSUME NEW S, NEW items \in Seq(S), NEW items2 \in Seq(S), NEW m, Tops(items, items2, m), NEW p, NEW sent,
           AllEnough(p, items, sent)
    PROVE  AllEnough(p, items2, sent)
<1> SUFFICES ASSUME NEW n \in Returns(items2) PROVE Enough(p, Lower(items2, n), items2[n].v, sent)
  BY DEF AllEnough
<1>1. m \in Nat /\ Alike(items, items2, m) /\ \A j \in m + 1 .. Len(items2) : items2[j].kind # ReturnTo
  BY DEF Tops
<1>2. n \in 1 .. Len(items2) /\ items2[n].kind = ReturnTo
  BY DEF Returns
<1>3. n \in 1 .. m
  BY <1>1, <1>2
<1>4. Lower(items2, n) = Lower(items, n) /\ items2[n] = items[n] /\ n \in DOMAIN items
  BY <1>1, <1>3, SameLower
<1>5. n \in Returns(items)
  BY <1>2, <1>4 DEF Returns
<1> QED
  BY <1>4, <1>5 DEF AllEnough

\* A frame that is put on top of them, waiting.
LEMMA CalledRoom ==
    ASSUME NEW S, NEW items \in Seq(S), NEW k \in Nat, k <= Len(items), NEW x \in S, x.kind = ReturnTo,
           NEW p, NEW sent, AllEnough(p, items, sent), Enough(p, Without(items, k), x.v, sent)
    PROVE  AllEnough(p, Append(Without(items, k), x), sent)
<1> DEFINE r == Without(items, k)
           t == Append(r, x)
           m == Len(items) - k
<1>1. /\ t \in Seq(S) /\ Len(t) = m + 1 /\ m \in Nat /\ Alike(items, t, m) /\ t[m + 1] = x
  BY ComputedTops
<1>2. r \in Seq(S) /\ Len(r) + k = Len(items)
  BY UsedTops
<1>3. Lower(t, m + 1) = r
  <2>1. Len(r) = m /\ m + 1 - 1 = m
    BY <1>1, <1>2
  <2>2. SubSeq(t, 1, Len(r)) = r
    <3> HIDE DEF r, m
    <3>1. Len(r) \in Nat /\ Len(t) = Len(r) + 1 /\ \A j \in 1 .. Len(r) : t[j] = r[j]
      BY <1>2, <1>1, <2>1, Longer
    <3> DEFINE q == SubSeq(t, 1, Len(r))
    <3> HIDE DEF t
    <3>2. q \in Seq(S) /\ Len(q) = Len(r) /\ \A j \in 1 .. Len(r) : q[j] = t[j]
      BY <1>1, <3>1
    <3> HIDE DEF q
    <3>3. q = r
      BY <1>2, <3>1, <3>2, SameElements
    <3> QED
      BY <3>3 DEF q
  <2> QED
    BY <2>1, <2>2 DEF Lower
<1> HIDE DEF t, r
<1>4. ASSUME NEW n \in Returns(t) PROVE Enough(p, Lower(t, n), t[n].v, sent)
  <2>1. n \in 1 .. Len(t) /\ t[n].kind = ReturnTo
    BY DEF Returns
  <2>2. n \in 1 .. m \/ n = m + 1
    <3> HIDE DEF m
    <3> QED
      BY <1>1, <2>1
  <2>3. CASE n = m + 1
    BY <1>1, <1>3, <2>3 DEF r
  <2>4. CASE n \in 1 .. m
    <3>1. Lower(t, n) = Lower(items, n) /\ t[n] = items[n] /\ n \in DOMAIN items
      BY <1>1, <2>4, SameLower
    <3>2. n \in Returns(items)
      BY <2>1, <3>1 DEF Returns
    <3> QED
      BY <3>1, <3>2 DEF AllEnough
  <2> QED
    BY <2>2, <2>3, <2>4
<1> QED
  BY <1>4 DEF AllEnough, t, r

\* How an instruction moves the top of the stack, whether or not there is room.
LEMMA KindsMove ==
    ASSUME VInv, VMStep
    PROVE  /\ mode = "run"
           /\ \/ kinds' = kinds
              \/ kinds' = Below(Taken(ins)) /\ ins.op # "END"
              \/ /\ \E x : kinds' = Append(Below(Taken(ins)), x)
                 /\ (ins.op \in Leaving /\ pc + 1 \in GoesOn(ins, pc)) \/ \E a : a \in Called(ins, pc)
              \/ Next /\ kinds' = Below(2)
              \/ ins.op \in {"RETURN", "RETI"} /\ kinds' = Below(1)
              \/ ins.op = "FREE" /\ kinds # <<>> /\ \E x : kinds' = Append(Below(1), x)
<1> DEFINE Ran == mode = "run"
           Took == kinds' = Below(Taken(ins)) /\ ins.op # "END"
           Left == /\ \E x : kinds' = Append(Below(Taken(ins)), x)
                   /\ (ins.op \in Leaving /\ pc + 1 \in GoesOn(ins, pc)) \/ \E a : a \in Called(ins, pc)
<1>1. ASSUME OutOfCycles \/ End \/ Nop \/ Goto \/ For \/ Xfunc \/ Break PROVE Ran /\ kinds' = kinds
  BY <1>1 DEF OutOfCycles, End, Nop, Goto, For, Xfunc, Break, Executing, SameStack
<1>2. ASSUME Output \/ PopVar \/ HeapStore \/ If \/ OnGoto \/ Restore \/ PushParam PROVE Ran /\ Took
  BY <1>2 DEF Output, PopVar, HeapStore, If, OnGoto, Restore, PushParam, Executing, Pop, Taken
<1>3. ASSUME PushNum \/ PushVar \/ Binary \/ Unary \/ Rnd \/ Param PROVE Ran /\ Left
  <2>1. PICK op \in {"PUSH_NUM", "PUSH_VAR", "BINARY", "UNARY", "RND", "PARAM"} :
            /\ Executing(op)
            /\ \E x : kinds' = Append(Below(IF op \in {"UNARY", "RND"} THEN 1 ELSE IF op = "BINARY" THEN 2 ELSE 0), x)
    BY <1>3 DEF PushNum, PushVar, Binary, Unary, Rnd, Param, PopPush
  <2>2. ins.op = op /\ Ran
    BY <2>1 DEF Executing
  <2>3. /\ Taken(ins) = IF op \in {"UNARY", "RND"} THEN 1 ELSE IF op = "BINARY" THEN 2 ELSE 0
        /\ ins.op \in Leaving /\ pc + 1 \in GoesOn(ins, pc)
    BY <2>2 DEF Taken, Leaving, Pushing, GoesOn
  <2> QED
    BY <2>1, <2>2, <2>3
<1>4. ASSUME HeapValue PROVE Ran /\ (Took \/ Left)
  <2>1. ins.op = "HEAP_VALUE" /\ Ran
    BY <1>4 DEF HeapValue, Executing
  <2>2. Taken(ins) = ins.k /\ ins.op \in Leaving /\ pc + 1 \in GoesOn(ins, pc)
    BY <2>1 DEF Taken, Leaving, Pushing, GoesOn
  <2>3. kinds' = Below(ins.k) \/ \E x : kinds' = Append(Below(ins.k), x)
    BY <1>4 DEF HeapValue, Pop, PopPush
  <2> QED
    BY <2>1, <2>2, <2>3
<1>5. ASSUME Read PROVE Ran /\ (kinds' = kinds \/ Left)
  <2>1. ins.op = "READ" /\ Ran
    BY <1>5 DEF Read, Executing
  <2>2. Taken(ins) = 0 /\ ins.op \in Leaving /\ pc + 1 \in GoesOn(ins, pc)
    BY <2>1 DEF Taken, Leaving, Pushing, GoesOn
  <2>3. kinds' = kinds \/ \E x : kinds' = Append(Below(0), x)
    BY <1>5 DEF Read, SameStack, PopPush
  <2> QED
    BY <2>1, <2>2, <2>3
<1>6. ASSUME Gosub PROVE Ran /\ (kinds' = kinds \/ Left)
  <2>1. ins.op = "GOSUB" /\ Ran
    BY <1>6 DEF Gosub, Executing
  <2>2. Taken(ins) = 0 /\ ins.to \in Called(ins, pc)
    BY <2>1 DEF Taken, Called
  <2>3. kinds' = kinds \/ \E x : kinds' = Append(Below(0), x)
    BY <1>6 DEF Gosub, SameStack, PopPush
  <2> QED
    BY <2>1, <2>2, <2>3
<1>7. ASSUME OnGosub PROVE Ran /\ (Took \/ Left)
  <2>1. ins.op = "ON_GOSUB" /\ Ran
    BY <1>7 DEF OnGosub, Executing
  <2>2. Taken(ins) = 1 /\ Called(ins, pc) = pc + 1 .. pc + ins.n
    BY <2>1 DEF Taken, Called
  <2>3. kinds' = Below(1) \/ ((\E x : kinds' = Append(Below(1), x)) /\ Wrap16(Word(1)) \in 1 .. ins.n)
    BY <1>7 DEF OnGosub, Pop, PopPush
  <2>4. Operands(ins) /\ pc \in Int
    BY <2>1, Operand, CountersAreNumbers DEF VInv, VType, CountersTyped
  <2>5. Wrap16(Word(1)) \in 1 .. ins.n => pc + 1 \in pc + 1 .. pc + ins.n
    BY <2>1, <2>4 DEF Operands
  <2> QED
    BY <2>1, <2>2, <2>3, <2>5
<1>8. ASSUME Next PROVE Ran /\ (kinds' = kinds \/ (Next /\ kinds' = Below(2)))
  <2>1. Ran /\ (SameStack \/ Pop(2))
    BY <1>8 DEF Next, Executing
  <2> QED
    BY <1>8, <2>1 DEF Pop, SameStack
<1>9. ASSUME Return \/ Reti PROVE Ran /\ ins.op \in {"RETURN", "RETI"} /\ kinds' = Below(1)
  BY <1>9 DEF Return, Reti, Executing, Pop
<1>10. ASSUME Free PROVE Ran /\ (kinds' = kinds \/ (ins.op = "FREE" /\ kinds # <<>> /\ \E x : kinds' = Append(Below(1), x)))
  BY <1>10 DEF Free, Executing
<1> HIDE DEF Ran, Took, Left
<1>11. Ran /\ \/ kinds' = kinds \/ Took \/ Left \/ (Next /\ kinds' = Below(2))
              \/ (ins.op \in {"RETURN", "RETI"} /\ kinds' = Below(1))
              \/ (ins.op = "FREE" /\ kinds # <<>> /\ \E x : kinds' = Append(Below(1), x))
  BY <1>1, <1>2, <1>3, <1>4, <1>5, <1>6, <1>7, <1>8, <1>9, <1>10, Zenon DEF VMStep
<1> QED
  BY <1>11, Zenon DEF Ran, Took, Left

\* The stack grows by a result or a return address only,
LEMMA WordsGrow ==
    ASSUME VInv, Fits, VMStep
    PROVE  \/ Len(kinds') \in 0 .. Len(kinds)
           \/ /\ mode = "run" /\ ins.op # "END" /\ Taken(ins) \in 0 .. 3 /\ Taken(ins) <= Len(kinds)
              /\ Len(kinds') = Len(kinds) - Taken(ins) + 1
              /\ (ins.op \in Leaving /\ pc + 1 \in GoesOn(ins, pc)) \/ \E a : a \in Called(ins, pc)
<1> DEFINE L == Len(kinds)
<1>1. /\ TypedItems \in Seq(Items) /\ Len(TypedItems) = L /\ L \in Nat /\ kinds \in Seq(AllKinds)
  BY TheItems DEF VInv, Counted
<1>2. mode = "run" /\ result # "ERROR"
  BY KindsMove, HaltedAgain
<1>3. PICK s : Working(s)
  BY <1>2, AtPlace
<1>4. ASSUME NEW k \in Nat, k <= L
      PROVE  Len(Below(k)) = L - k /\ \A x : Len(Append(Below(k), x)) = L - k + 1
  <2>1. k \in 0 .. Len(kinds)
    BY <1>1, <1>4
  <2>2. Below(k) = Without(kinds, k)
    BY DEF Below, Without
  <2>3. Below(k) \in Seq(AllKinds) /\ Len(Below(k)) = Len(kinds) - k
    BY <1>1, <2>1, <2>2, Shorter
  <2> DEFINE g == Below(k)
  <2> HIDE DEF g
  <2>4. \A x : Len(Append(g, x)) = Len(g) + 1
    BY <2>3 DEF g
  <2> QED
    BY <2>3, <2>4 DEF g
<1>5. ins.op # "END" => Taken(ins) \in 0 .. 3 /\ Taken(ins) <= L
  <2> SUFFICES ASSUME ins.op # "END" PROVE Taken(ins) \in 0 .. 3 /\ Taken(ins) <= L
    OBVIOUS
  <2>1. Operands(ins)
    BY <1>2, Operand
  <2>2. Taken(ins) \in 0 .. 3
    BY <2>1 DEF Taken, Operands
  <2>3. Temps(s.frame, Taken(ins)) /\ s.frame \in Seq(Kinds) /\ Stands(TypedItems, pc, Len(TypedItems) + 1, s)
    BY <1>3 DEF Working, Fitting
  <2>4. Taken(ins) <= Len(TypedItems)
    BY <1>1, <2>2, <2>3, OperandsOnTop
  <2> QED
    BY <1>1, <2>2, <2>4
<1>6. CASE kinds' = kinds
  BY <1>1, <1>6
<1>7. CASE kinds' = Below(Taken(ins)) /\ ins.op # "END"
  <2> DEFINE k == Taken(ins)
  <2>1. k \in 0 .. 3 /\ k <= L /\ kinds' = Below(k)
    BY <1>5, <1>7
  <2> HIDE DEF k, L
  <2>2. k \in Nat
    BY <2>1
  <2>3. Len(kinds') = L - k
    BY <1>4, <2>1, <2>2
  <2>4. L - k \in 0 .. L
    BY <1>1, <2>1, <2>2
  <2> QED
    BY <2>3, <2>4 DEF L
<1>8. CASE /\ \E x : kinds' = Append(Below(Taken(ins)), x)
           /\ (ins.op \in Leaving /\ pc + 1 \in GoesOn(ins, pc)) \/ \E a : a \in Called(ins, pc)
  <2>1. ins.op # "END"
    BY <1>8 DEF Leaving, Pushing, Called
  <2>2. PICK x : kinds' = Append(Below(Taken(ins)), x)
    BY <1>8
  <2>3. Len(kinds') = L - Taken(ins) + 1
    BY <1>4, <1>5, <2>1, <2>2
  <2> QED
    BY <1>2, <1>5, <1>8, <2>1, <2>3
<1>9. CASE Next /\ kinds' = Below(2)
  <2>1. Len(TypedItems) >= 2
    BY <1>3, <1>9, LoopIsOwn
  <2>2. 2 \in Nat /\ 2 <= L
    BY <1>1, <2>1
  <2>3. Len(kinds') = L - 2
    BY <1>4, <1>9, <2>2
  <2> QED
    BY <1>1, <2>3
<1>10. CASE ins.op \in {"RETURN", "RETI"} /\ kinds' = Below(1)
  <2>1. s.frame = <<>> /\ s.level = "sub" /\ Stands(TypedItems, pc, Len(TypedItems) + 1, s)
    BY <1>3, <1>10 DEF Working, Fitting
  <2>2. 1 \in Nat /\ 1 <= L
    BY <1>1, <2>1, ReturnOnTop
  <2>3. Len(kinds') = L - 1
    BY <1>4, <1>10, <2>2
  <2> QED
    BY <1>1, <2>3
<1>11. CASE ins.op = "FREE" /\ kinds # <<>> /\ \E x : kinds' = Append(Below(1), x)
  <2>1. 1 \in Nat /\ 1 <= L
    BY <1>1, <1>11
  <2>2. Len(kinds') = L - 1 + 1
    BY <1>4, <1>11, <2>1
  <2> QED
    BY <1>1, <2>2
<1> QED
  BY <1>6, <1>7, <1>8, <1>9, <1>10, <1>11, KindsMove

\* and the parameter stack by PUSH_PARAM and BREAK.
LEMMA ParamsGrow ==
    ASSUME VInv, psp <= ParamSize, VMStep
    PROVE  psp' \in 0 .. psp \/ (psp' = psp + 1 /\ mode = "run" /\ ins.op \in {"PUSH_PARAM", "BREAK"})
<1>1. psp \in Nat /\ psp < 255
  BY ParamAssumption DEF VInv, VType, CountersTyped, Byte
<1>2. (psp + 1) % 256 = psp + 1 /\ (psp > 0 => (psp - 1) % 256 = psp - 1)
  BY <1>1, ByteMoves
<1>3. OutOfCycles \/ End \/ Nop \/ Output \/ PushNum \/ PushVar \/ PopVar \/ Binary \/ Unary \/ HeapValue
      \/ HeapStore \/ Rnd \/ Free => psp' = psp
  BY DEF OutOfCycles, End, machine, Nop, Output, PushNum, PushVar, PopVar, Binary, Unary, HeapValue, HeapStore, Rnd,
         Free, SameParams
<1>4. Goto \/ If \/ Gosub \/ Return \/ Reti \/ OnGoto \/ OnGosub \/ For \/ Next \/ Read \/ Restore \/ Xfunc
      => psp' = psp
  BY DEF Goto, If, Gosub, Return, Reti, OnGoto, OnGosub, For, Next, Read, Restore, Xfunc, SameParams
<1>5. PushParam \/ Break => psp' = psp + 1 /\ mode = "run" /\ ins.op \in {"PUSH_PARAM", "BREAK"}
  <2>1. PushParam \/ Break => psp' = (psp + 1) % 256 /\ mode = "run" /\ ins.op \in {"PUSH_PARAM", "BREAK"}
    BY DEF PushParam, Break, PPush, Executing
  <2> QED
    BY <1>2, <2>1
<1>6. Param => psp' \in 0 .. psp
  <2>1. Param => (psp > 0 /\ psp' = (psp - 1) % 256) \/ psp' = psp
    BY DEF Param, PPop, SameParams
  <2> QED
    BY <1>1, <1>2, <2>1
<1>7. psp \in 0 .. psp
  BY <1>1
<1> QED
  BY <1>3, <1>4, <1>5, <1>6, <1>7 DEF VMStep

\* The invariant of programs that have room, and what it says of the running routine.
RInv == VInv /\ StacksFit /\ ParsTallied /\ Roomed
LEMMA RoomNow ==
    ASSUME ProgramsBalanced, ProgramsRoomy, RInv
    PROVE  LET words == Room[prog].words[pc]
               room == Room[prog].pars[pc]
               pars == Pars[prog][pc]
               more == (MaxInterrupts - interrupts) * Room[prog].intWords
               morePars == (MaxInterrupts - interrupts) * Room[prog].intPars
           IN /\ Len(kinds) \in Nat /\ Len(TypedItems) = Len(kinds) /\ ParsWaiting \in Nat /\ psp \in Nat /\ psp <= ParamSize
              /\ StackSize \in Nat /\ ParamSize \in Nat /\ ParamSize < StackSize /\ ParamSize < 255
              /\ Len(kinds) <= StackSize /\ prog \in Programs
              /\ more \in Nat /\ morePars \in Nat
              /\ result # "ERROR" =>
                    /\ words \in Nat /\ room \in Nat /\ pars \in Nat
                    /\ Len(kinds) + words + more <= StackSize
                    /\ ParsWaiting + pars + room + morePars <= ParamSize
                    /\ psp = ParsWaiting + pars + Unanswered
<1>1. VInv /\ Fits /\ psp <= ParamSize /\ VType /\ Counted /\ prog \in Programs
  BY DEF RInv, StacksFit, Fits, VInv, VType
<1>2. TypedItems \in Seq(Items) /\ Len(kinds) \in Nat /\ Len(TypedItems) = Len(kinds) /\ Len(kinds) <= StackSize
  BY <1>1, TheItems DEF Fits
<1>3. ParsWaiting \in Nat
  BY <1>2, CellsNumber DEF ParsWaiting
<1>4. psp \in Nat /\ StackSize \in Nat /\ ParamSize \in Nat /\ ParamSize < StackSize /\ ParamSize < 255
  BY <1>1, RingSize, ParamAssumption DEF VType, CountersTyped, Byte
<1>5. interrupts \in 0 .. MaxInterrupts
  BY DEF RInv, Roomed
<1>6. Room[prog].intWords \in Nat /\ Room[prog].intPars \in Nat
  BY <1>1, RoomType
<1>7. /\ (MaxInterrupts - interrupts) * Room[prog].intWords \in Nat
      /\ (MaxInterrupts - interrupts) * Room[prog].intPars \in Nat
  BY <1>5, <1>6, RoomLater
<1>8. ASSUME result # "ERROR"
      PROVE  /\ Room[prog].words[pc] \in Nat /\ Room[prog].pars[pc] \in Nat /\ Pars[prog][pc] \in Nat
             /\ Enough(prog, TypedItems, pc, interrupts)
             /\ psp = ParsWaiting + Pars[prog][pc] + Unanswered
  BY <1>1, <1>8, RoomHere DEF RInv, Roomed, ParsTallied
<1> QED
  BY <1>1, <1>2, <1>3, <1>4, <1>7, <1>8 DEF Enough, ParsWaiting

\* An instruction finds room for what it leaves.
LEMMA StepFits ==
    ASSUME ProgramsBalanced, ProgramsRoomy, RInv, VMStep
    PROVE  StacksFit'
<1> DEFINE L == Len(kinds)
           L2 == Len(kinds')
           words == Room[prog].words[pc]
           room == Room[prog].pars[pc]
           pars == Pars[prog][pc]
           more == (MaxInterrupts - interrupts) * Room[prog].intWords
           morePars == (MaxInterrupts - interrupts) * Room[prog].intPars
           w == ParsWaiting
           k == Taken(ins)
<1>1. VInv /\ Fits /\ psp <= ParamSize /\ ParsTallied
  BY DEF RInv, StacksFit, Fits
<1>2. mode = "run" /\ result # "ERROR"
  BY <1>1, KindsMove, HaltedAgain
<1>3. /\ L \in Nat /\ w \in Nat /\ psp \in Nat /\ StackSize \in Nat /\ ParamSize \in Nat /\ L <= StackSize
      /\ more \in Nat /\ morePars \in Nat /\ words \in Nat /\ room \in Nat /\ pars \in Nat
      /\ L + words + more <= StackSize /\ w + pars + room + morePars <= ParamSize
      /\ psp = w + pars + Unanswered
  BY <1>2, RoomNow
<1>4. psp = w + pars
  <2>1. Unanswered = 0
    BY <1>1, <1>2 DEF ParsTallied, Unanswered
  <2> HIDE DEF w, pars
  <2> QED
    BY <1>3, <2>1
<1>5. L2 <= StackSize
  <2>1. CASE L2 \in 0 .. L
    <3> HIDE DEF L, L2
    <3> QED
      BY <1>3, <2>1
  <2>2. CASE /\ ins.op # "END" /\ k \in 0 .. 3 /\ k <= L /\ L2 = L - k + 1
             /\ (ins.op \in Leaving /\ pc + 1 \in GoesOn(ins, pc)) \/ \E a : a \in Called(ins, pc)
    <3>1. words + k >= 1
      <4>1. CASE ins.op \in Leaving /\ pc + 1 \in GoesOn(ins, pc)
        <5> DEFINE n == Room[prog].words[pc + 1]
        <5>1. n \in Nat /\ n + Bool(ins.op \in Leaving) <= words + Dropped(ins)
          BY <1>1, <1>2, <2>2, <4>1, RoomHere DEF Onward
        <5>2. Dropped(ins) = k /\ Bool(ins.op \in Leaving) = 1
          BY <4>1 DEF Dropped, Bool, Leaving, Pushing
        <5> HIDE DEF n, words, k
        <5> QED
          BY <1>3, <2>2, <5>1, <5>2
      <4>2. CASE \E a : a \in Called(ins, pc)
        <5>1. PICK a : a \in Called(ins, pc)
          BY <4>2
        <5> DEFINE n == Room[prog].words[a]
        <5>2. n \in Nat /\ n + 1 <= words + k
          BY <1>1, <1>2, <2>2, <5>1, RoomHere
        <5> HIDE DEF n, words, k
        <5> QED
          BY <1>3, <2>2, <5>2
      <4> QED
        BY <2>2, <4>1, <4>2
    <3> HIDE DEF L, L2, words, k, more
    <3> QED
      BY <1>3, <2>2, <3>1
  <2> QED
    BY <1>1, <2>1, <2>2, WordsGrow
<1>6. psp' <= ParamSize
  <2>1. CASE psp' \in 0 .. psp
    BY <1>1, <1>3, <2>1
  <2>2. CASE psp' = psp + 1 /\ ins.op \in {"PUSH_PARAM", "BREAK"}
    <3>1. room >= 1
      <4>1. CASE ins.op = "BREAK"
        BY <1>1, <1>2, <4>1, RoomHere
      <4>2. CASE ins.op = "PUSH_PARAM"
        <5> DEFINE q == Pars[prog][pc + 1]
                   n == Room[prog].pars[pc + 1]
        <5>1. pc + 1 \in Onward(ins, pc) /\ ins.op # "END" /\ Wanted(ins) = 0 /\ Given(ins) = 1
          BY <4>2 DEF Onward, GoesOn, Wanted, Given
        <5>2. n \in Nat /\ q \in Nat /\ q + n <= pars + room /\ q = pars - Wanted(ins) + Given(ins)
          BY <1>1, <1>2, <5>1, RoomHere
        <5>3. pars \in Nat /\ room \in Nat
          BY <1>3
        <5> HIDE DEF n, q, pars, room
        <5> QED
          BY <5>1, <5>2, <5>3
      <4> QED
        BY <2>2, <4>1, <4>2
    <3>2. /\ w \in Nat /\ pars \in Nat /\ room \in Nat /\ morePars \in Nat /\ ParamSize \in Nat
          /\ w + pars + room + morePars <= ParamSize /\ psp' = w + pars + 1
      BY <1>3, <1>4, <2>2
    <3> HIDE DEF w, pars, room, morePars
    <3> QED
      BY <3>1, <3>2
  <2> QED
    BY <1>1, <2>1, <2>2, ParamsGrow
<1> QED
  BY <1>5, <1>6 DEF StacksFit

\* The host finds room for its answers, and an interrupt for its routine.
LEMMA HostFits ==
    ASSUME ProgramsBalanced, ProgramsRoomy, RInv,
           HostStep \/ (\E e \in prog.routines, n \in Opaque : Interrupt(e, n)) \/ Reset \/ UNCHANGED vars
    PROVE  StacksFit'
<1> DEFINE L == Len(kinds)
           words == Room[prog].words[pc]
           room == Room[prog].pars[pc]
           pars == Pars[prog][pc]
           more == (MaxInterrupts - interrupts) * Room[prog].intWords
           morePars == (MaxInterrupts - interrupts) * Room[prog].intPars
           w == ParsWaiting
<1>1. VInv /\ StacksFit /\ ParsTallied /\ Roomed
  BY DEF RInv
<1>2. /\ L \in Nat /\ w \in Nat /\ psp \in Nat /\ StackSize \in Nat /\ ParamSize \in Nat /\ L <= StackSize
      /\ more \in Nat /\ morePars \in Nat /\ ParamSize < StackSize /\ ParamSize < 255 /\ psp <= ParamSize
      /\ prog \in Programs
  BY RoomNow
<1>3. ASSUME result # "ERROR"
      PROVE  /\ words \in Nat /\ room \in Nat /\ pars \in Nat
             /\ L + words + more <= StackSize /\ w + pars + room + morePars <= ParamSize
             /\ psp = w + pars + Unanswered
  BY <1>3, RoomNow
<1>4. CASE UNCHANGED vars \/ \E budget \in Budgets : Run(budget)
  BY <1>1, <1>4 DEF vars, machine, Run, StacksFit
<1>5. CASE \E n \in Opaque : Answer(n)
  <2> DEFINE left == IF psp < owed[1] THEN 0 ELSE psp - owed[1]
  <2>1. /\ owed # <<>> /\ kinds' = kinds
        /\ IF owed[2] = 0 \/ left >= StackSize THEN psp' = left ELSE psp' = (left + 1) % 256
    BY <1>5 DEF Answer, SameStack
  <2>2. result # "ERROR"
    BY <1>1, <2>1 DEF VInv, Halted
  <2>3. Unanswered = owed[1] - owed[2] /\ owed[1] \in Nat /\ owed[2] \in 0 .. 1 /\ owed[2] <= pars
    BY <1>1, <2>1 DEF ParsTallied, Unanswered
  <2>4. psp = w + pars + (owed[1] - owed[2]) /\ pars \in Nat /\ room \in Nat /\ w + pars + room + morePars <= ParamSize
    BY <1>3, <2>2, <2>3
  <2>5. w \in Nat /\ morePars \in Nat /\ psp \in Nat /\ psp <= ParamSize /\ ParamSize \in Nat /\ owed[2] <= pars
    BY <1>2, <2>3
  <2> HIDE DEF w, pars, room, morePars
  <2>6. w + pars <= ParamSize
    BY <2>4, <2>5
  <2>7. left = w + pars - owed[2] /\ left \in Nat /\ left <= ParamSize
    BY <2>3, <2>4, <2>6, <2>5
  <2> HIDE DEF left
  <2>8. left < 255
    BY <1>2, <2>7
  <2>9. (left + 1) % 256 = left + 1
    BY <2>7, <2>8, ByteMoves
  <2>10. psp' <= ParamSize
    <3>1. CASE psp' = left
      BY <2>7, <3>1
    <3>2. CASE psp' = left + 1 /\ owed[2] = 1
      BY <2>4, <2>7, <2>6, <2>5, <3>2
    <3>3. owed[2] = 0 \/ owed[2] = 1
      BY <2>3
    <3> QED
      BY <2>1, <2>9, <3>1, <3>2, <3>3
  <2> QED
    BY <1>1, <2>1, <2>10 DEF StacksFit
<1>6. ASSUME NEW e \in prog.routines, NEW n \in Opaque, Interrupt(e, n) PROVE StacksFit'
  <2>1. /\ owed = <<>> /\ result # "ERROR" /\ interrupts < MaxInterrupts
        /\ kinds' = Append(Below(0), ReturnTo)
        /\ IF e.par /\ psp < StackSize THEN psp' = (psp + 1) % 256 ELSE psp' = psp
    BY <1>6 DEF Interrupt, PPush, PopPush
  <2> DEFINE iw == Room[prog].intWords
             ip == Room[prog].intPars
             ew == Room[prog].words[e.at]
             ep == Room[prog].pars[e.at]
  <2>2. iw \in Nat /\ ip \in Nat /\ ew \in Nat /\ ep \in Nat
    <3>1. Place(e.at, <<>>, "sub", FALSE) \in Places[prog]
      BY <1>2, PlacesAssumption DEF Described
    <3>2. Place(e.at, <<>>, "sub", FALSE).at = e.at
      BY DEF Place
    <3> QED
      BY <1>2, <3>1, <3>2, RoomType
  <2>3. ew + 1 <= iw /\ ep + Bool(e.par) <= ip
    BY <1>2 DEF ProgramsRoomy, Roomy
  <2>4. more >= iw /\ morePars >= ip
    <3>1. interrupts \in 0 .. MaxInterrupts
      BY <1>1 DEF Roomed
    <3> DEFINE m1 == (MaxInterrupts - (interrupts + 1)) * iw
               m2 == (MaxInterrupts - (interrupts + 1)) * ip
    <3>2. more = m1 + iw /\ morePars = m2 + ip /\ m1 \in Nat /\ m2 \in Nat
      BY <2>1, <2>2, <3>1, RoomLater
    <3> HIDE DEF m1, m2, iw, ip, more, morePars
    <3> QED
      BY <2>2, <3>2
  <2>5. Len(kinds') = L + 1
    <3>1. kinds \in Seq(AllKinds) /\ Below(0) = kinds
      <4>1. kinds \in Seq(AllKinds) /\ Len(kinds) - 0 = Len(kinds)
        BY <1>1, <1>2 DEF VInv, Counted
      <4> QED
        BY <4>1, SubSeqFull DEF Below
    <3> QED
      BY <2>1, <3>1
  <2>6. Unanswered = 0
    BY <2>1 DEF Unanswered
  <2>7. psp' = psp + Bool(e.par)
    <3>1. psp < StackSize /\ psp < 255
      BY <1>2
    <3>2. (psp + 1) % 256 = psp + 1
      BY <1>2, <3>1, ByteMoves
    <3> QED
      BY <1>2, <2>1, <3>1, <3>2 DEF Bool
  <2>8. /\ words \in Nat /\ room \in Nat /\ pars \in Nat
        /\ L + words + more <= StackSize /\ w + pars + room + morePars <= ParamSize
        /\ psp = w + pars
    BY <1>2, <1>3, <2>1, <2>6
  <2>9. Bool(e.par) \in 0 .. 1
    BY DEF Bool
  <2> HIDE DEF L, words, room, pars, more, morePars, w, iw, ip, ew, ep
  <2>10. L + 1 <= StackSize
    BY <1>2, <2>2, <2>3, <2>4, <2>8
  <2>11. psp + Bool(e.par) <= ParamSize
    BY <1>2, <2>2, <2>3, <2>4, <2>8, <2>9
  <2> QED
    BY <2>5, <2>7, <2>10, <2>11 DEF StacksFit, L
<1>7. CASE Reset
  <2>1. kinds' = <<>> /\ psp' = 0
    BY <1>7 DEF Reset
  <2> QED
    BY <1>2, <2>1 DEF StacksFit
<1> QED
  BY <1>4, <1>5, <1>6, <1>7 DEF HostStep

\* The program is never exchanged, and only the host counts interrupts.
LEMMA ProgramStays == ASSUME VMStep \/ HostStep PROVE prog' = prog /\ interrupts' = interrupts
<1> DEFINE Kept == prog' = prog /\ interrupts' = interrupts
<1>1. OutOfCycles \/ End \/ HostStep => Kept
  BY DEF OutOfCycles, End, Executing, HostStep, Run, Answer
<1>2. Nop \/ Output \/ PushNum \/ PushVar \/ PopVar \/ Binary \/ Unary \/ HeapValue \/ HeapStore \/ Rnd \/ Free => Kept
  BY DEF Nop, Output, PushNum, PushVar, PopVar, Binary, Unary, HeapValue, HeapStore, Rnd, Free, Executing
<1>3. Goto \/ If \/ Gosub \/ Return \/ Reti \/ OnGoto \/ OnGosub => Kept
  BY DEF Goto, If, Gosub, Return, Reti, OnGoto, OnGosub, Executing
<1>4. For \/ Next \/ Read \/ Restore \/ PushParam \/ Param \/ Xfunc \/ Break => Kept
  BY DEF For, Next, Read, Restore, PushParam, Param, Xfunc, Break, Executing
<1> HIDE DEF Kept
<1>5. Kept
  BY <1>1, <1>2, <1>3, <1>4, Zenon DEF VMStep
<1> QED
  BY <1>5 DEF Kept

\* At the beginning there is room for the program and all its interrupts.
LEMMA StartRoomed ==
    ASSUME ProgramsBalanced, ProgramsRoomy, NEW p \in Programs
    PROVE  AllEnough(p, <<>>, 0) /\ Enough(p, <<>>, 1, 0)
<1>1. /\ Room[p].words[1] + MaxInterrupts * Room[p].intWords <= StackSize
      /\ Room[p].pars[1] + MaxInterrupts * Room[p].intPars <= ParamSize
      /\ Room[p].words \in [1 .. Len(p.code) + 1 -> Nat] /\ Room[p].pars \in [1 .. Len(p.code) + 1 -> Nat]
      /\ Room[p].intWords \in Nat /\ Room[p].intPars \in Nat
  BY DEF ProgramsRoomy, Roomy
<1>2. Pars[p][1] = 0
  BY DEF ProgramsBalanced, Balanced
<1>3. Cells(<<>>, Pars[p]) = {} /\ Returns(<<>>) = {} /\ Len(<<>>) = 0
  <2>1. 1 .. Len(<<>>) = {} /\ DOMAIN <<>> = {} /\ Len(<<>>) = 0
    OBVIOUS
  <2> QED
    BY <2>1 DEF Cells, Returns
<1>4. /\ (MaxInterrupts - 0) * Room[p].intWords = MaxInterrupts * Room[p].intWords
      /\ (MaxInterrupts - 0) * Room[p].intPars = MaxInterrupts * Room[p].intPars
      /\ (MaxInterrupts - 0) * Room[p].intWords \in Nat /\ (MaxInterrupts - 0) * Room[p].intPars \in Nat
  <2>1. 0 \in 0 .. MaxInterrupts
    BY InterruptAssumption
  <2> QED
    BY <1>1, <2>1, RoomLater
<1>5. Cardinality(Cells(<<>>, Pars[p])) = 0
  BY <1>3, FS_EmptySet
<1>6. Room[p].words[1] \in Nat /\ Room[p].pars[1] \in Nat
  <2>1. 1 \in 1 .. Len(p.code) + 1
    <3>1. Place(1, <<>>, "main", FALSE) \in Places[p] /\ \A s \in Places[p] : s.at \in 1 .. Len(p.code) + 1
      BY PlacesAssumption DEF Described
    <3>2. Place(1, <<>>, "main", FALSE).at = 1
      BY DEF Place
    <3> QED
      BY <3>1, <3>2
  <2> QED
    BY <1>1, <2>1
<1> DEFINE W == Room[p].words[1]
           P == Room[p].pars[1]
           mw == (MaxInterrupts - 0) * Room[p].intWords
           mp == (MaxInterrupts - 0) * Room[p].intPars
<1>7. W \in Nat /\ P \in Nat /\ mw \in Nat /\ mp \in Nat /\ W + mw <= StackSize /\ P + mp <= ParamSize
  BY <1>1, <1>4, <1>6
<1> HIDE DEF W, P, mw, mp
<1>8. 0 + W + mw <= StackSize /\ 0 + 0 + P + mp <= ParamSize
  BY <1>7
<1> QED
  BY <1>2, <1>3, <1>5, <1>8 DEF AllEnough, Enough, W, P, mw, mp

\* What is room for the interrupts that may come is room for one less.
LEMMA EnoughLater ==
    ASSUME ProgramsBalanced, ProgramsRoomy, NEW p \in Programs, NEW S, NEW items \in Seq(S), NEW t \in Places[p],
           NEW n \in 0 .. MaxInterrupts, n < MaxInterrupts, Enough(p, items, t.at, n)
    PROVE  Enough(p, items, t.at, n + 1)
<1> DEFINE iw == Room[p].intWords
           ip == Room[p].intPars
           W == Room[p].words[t.at]
           P == Room[p].pars[t.at]
           q == Pars[p][t.at]
           L == Len(items)
           c == Cardinality(Cells(items, Pars[p]))
           m1 == (MaxInterrupts - (n + 1)) * iw
           m2 == (MaxInterrupts - (n + 1)) * ip
           more == (MaxInterrupts - n) * iw
           morePars == (MaxInterrupts - n) * ip
<1>1. iw \in Nat /\ ip \in Nat /\ W \in Nat /\ P \in Nat /\ q \in Nat
  BY RoomType
<1>2. more = m1 + iw /\ morePars = m2 + ip /\ m1 \in Nat /\ m2 \in Nat
  BY <1>1, RoomLater
<1>3. L \in Nat /\ c \in Nat
  BY CellsNumber
<1>4. L + W + more <= StackSize /\ c + q + P + morePars <= ParamSize
  BY DEF Enough
<1>5. StackSize \in Nat /\ ParamSize \in Nat
  BY RingSize, ParamAssumption
<1> HIDE DEF iw, ip, W, P, q, L, c, m1, m2, more, morePars
<1>6. L + W + m1 <= StackSize /\ c + q + P + m2 <= ParamSize
  BY <1>1, <1>2, <1>3, <1>4, <1>5
<1> QED
  BY <1>6 DEF Enough, iw, ip, W, P, q, L, c, m1, m2

\* Every instruction leaves the frames their room.
LEMMA MovedRoom ==
    ASSUME ProgramsBalanced, ProgramsRoomy, RInv, result # "ERROR", Moved, prog' = prog, interrupts' = interrupts,
           TypedItems' \in Seq(Items)
    PROVE  Roomed'
<1> DEFINE items == TypedItems
           items2 == TypedItems'
           sent == interrupts
           words == Room[prog].words
           room == Room[prog].pars
           pars == Pars[prog]
           more == (MaxInterrupts - sent) * Room[prog].intWords
           morePars == (MaxInterrupts - sent) * Room[prog].intPars
           L == Len(items)
           w == ParsWaiting
<1>1. /\ VInv /\ VType /\ Counted /\ Fits /\ Roomed /\ prog \in Programs /\ items \in Seq(Items)
  <2>1. VInv /\ VType /\ Counted /\ Fits /\ Roomed /\ prog \in Programs
    BY DEF RInv, VInv, VType, StacksFit, Fits
  <2> QED
    BY <2>1, TheItems
<1>2. AllEnough(prog, items, sent) /\ Enough(prog, items, pc, sent) /\ sent \in 0 .. MaxInterrupts
  BY <1>1 DEF Roomed, AllEnough
<1>3. /\ L \in Nat /\ w \in Nat /\ more \in Nat /\ morePars \in Nat /\ words[pc] \in Nat /\ room[pc] \in Nat
      /\ pars[pc] \in Nat /\ L + words[pc] + more <= StackSize /\ w + pars[pc] + room[pc] + morePars <= ParamSize
      /\ StackSize \in Nat /\ ParamSize \in Nat
  <2>1. Len(TypedItems) = Len(kinds)
    BY RoomNow
  <2> QED
    BY <2>1, RoomNow
<1>4. SUFFICES AllEnough(prog, items2, sent) /\ (result' # "ERROR" => Enough(prog, items2, pc', sent))
  BY <1>2 DEF Roomed, AllEnough
<1>5. ASSUME NEW m, Tops(items, items2, m) PROVE AllEnough(prog, items2, sent)
  BY <1>1, <1>2, <1>5, WaitingRoom
<1>6. CASE Staying
  BY <1>2, <1>6 DEF Staying
<1>7. CASE Failing
  BY <1>5, <1>7 DEF Failing
<1>8. CASE Going
  <2>1. ins.op # "END" /\ pc' \in Onward(ins, pc)
    BY <1>8 DEF Going, GoesOn, Onward
  <2>2. /\ words[pc'] \in Nat /\ room[pc'] \in Nat /\ pars[pc'] \in Nat
        /\ pars[pc'] + room[pc'] <= pars[pc] + room[pc]
    BY <1>1, <2>1, RoomHere
  <2>3. Len(items2) + words[pc'] <= L + words[pc]
    <3>1. CASE pc' \in GoesOn(ins, pc) /\ Len(items2) + Dropped(ins) = L + Bool(ins.op \in Leaving)
      <4> DEFINE d == Dropped(ins)
                 b == Bool(ins.op \in Leaving)
                 n == words[pc]
                 n2 == words[pc']
                 L2 == Len(items2)
      <4>1. n2 + b <= n + d
        BY <1>1, <2>1, <3>1, RoomHere
      <4>2. d \in Nat /\ b \in Nat /\ L2 \in Nat
        <5>1. Operands(ins)
          BY <1>1, Instruction
        <5>2. d \in Nat
          BY <5>1 DEF Dropped, Taken, Operands
        <5> QED
          BY <5>2 DEF Bool
      <4>3. n \in Nat /\ n2 \in Nat /\ L \in Nat /\ L2 + d = L + b
        BY <1>3, <2>2, <3>1
      <4> HIDE DEF d, b, n, n2, L2, L
      <4>4. L2 + n2 <= L + n
        BY <4>1, <4>2, <4>3
      <4> QED
        BY <4>4 DEF n, n2, L2
    <3>2. CASE ins.op = "NEXT" /\ pc' = ins.to /\ Len(items2) = L
      <4>1. words[pc'] <= words[pc]
        BY <1>1, <2>1, <3>2, RoomHere
      <4> HIDE DEF words, L
      <4> QED
        BY <1>3, <2>2, <3>2, <4>1
    <3> QED
      BY <1>8, <3>1, <3>2 DEF Going
  <2>4. Cardinality(Cells(items2, pars)) = w
    BY <1>8 DEF Going, ParsWaiting
  <2>5. Len(items2) \in Nat
    OBVIOUS
  <2>6. Len(items2) + words[pc'] + more <= StackSize /\ w + pars[pc'] + room[pc'] + morePars <= ParamSize
    <3> DEFINE L2 == Len(items2)
               n == words[pc]
               n2 == words[pc']
               r == room[pc]
               r2 == room[pc']
               q == pars[pc]
               q2 == pars[pc']
    <3>1. L2 \in Nat /\ n2 \in Nat /\ r2 \in Nat /\ q2 \in Nat /\ q2 + r2 <= q + r /\ L2 + n2 <= L + n
      BY <2>2, <2>3, <2>5
    <3>2. /\ L \in Nat /\ w \in Nat /\ more \in Nat /\ morePars \in Nat /\ n \in Nat /\ r \in Nat
          /\ q \in Nat /\ L + n + more <= StackSize /\ w + q + r + morePars <= ParamSize
          /\ StackSize \in Nat /\ ParamSize \in Nat
      BY <1>3
    <3> HIDE DEF L2, n, n2, r, r2, q, q2, L, w, more, morePars
    <3>3. L2 + n2 + more <= StackSize /\ w + q2 + r2 + morePars <= ParamSize
      BY <3>1, <3>2
    <3> QED
      BY <3>3 DEF L2, n2, r2, q2
  <2>7. Enough(prog, items2, pc', sent)
    BY <2>4, <2>6 DEF Enough
  <2> QED
    BY <1>5, <1>8, <2>7 DEF Going
<1>9. CASE Calling
  <2> DEFINE k == Taken(ins)
             a == pc'
  <2>1. /\ a \in Called(ins, pc) /\ k \in 0 .. 3 /\ k <= L
        /\ \A j \in 1 .. k : items[L - j + 1].kind = Temp
    BY <1>9 DEF Calling
  <2>2. PICK b \in GoesOn(ins, pc) : items2 = Append(Without(items, k), [kind |-> ReturnTo, v |-> b])
    BY <1>9 DEF Calling
  <2>3. ins.op \in {"GOSUB", "ON_GOSUB"} /\ ins.op # "END" /\ b \in Onward(ins, pc)
    BY <2>1, <2>2 DEF Called, Onward
  <2>4. Dropped(ins) = k /\ Bool(ins.op \in Leaving) = 0 /\ Wanted(ins) = 0 /\ Given(ins) = 0
    BY <2>3 DEF Dropped, Bool, Leaving, Pushing, Wanted, Given
  <2> DEFINE x == [kind |-> ReturnTo, v |-> b]
             r == Without(items, k)
             nb == words[b]
             na == words[a]
             n == words[pc]
             rb == room[b]
             ra == room[a]
             rp == room[pc]
             qb == pars[b]
             qa == pars[a]
             q == pars[pc]
  <2>5. /\ nb \in Nat /\ rb \in Nat /\ qb \in 0 .. ParamSize /\ qb \in Nat /\ na \in Nat /\ ra \in Nat /\ qa = 0
        /\ nb + 0 <= n + k /\ na + 1 <= n + k /\ ra <= rp /\ qb + rb <= q + rp /\ qb = q - 0 + 0
    BY <1>1, <2>1, <2>3, <2>4, RoomHere
  <2>6. b \in Num
    <3>1. PICK s : Working(s)
      BY <1>1, AtPlace
    <3>2. PICK t \in Places[prog] : t.at = b
      BY <1>1, <2>3, <3>1, PlacesAfter
    <3>3. b \in Nat /\ ReturnWord(b) = b
      BY <1>1, <3>2, PlaceAddress
    <3> QED
      BY <3>3, SignedType DEF ReturnWord
  <2>7. x \in Items /\ x.kind = ReturnTo /\ x.v = b
    BY <2>6 DEF Items, AllKinds
  <2>8. \A j \in 1 .. k : items[L - j + 1].kind # ReturnTo
    <3>1. Temp \in Kinds
      BY DEF Kinds
    <3> QED
      BY <2>1, <3>1, KindsApart
  <2>9. k \in 0 .. L /\ k \in Nat /\ k <= L
    <3> HIDE DEF k, L
    <3> QED
      BY <1>3, <2>1
  <2>10. Cells(r, pars) = Cells(items, pars)
    BY <1>1, <2>8, <2>9, DroppedCells
  <2>11. Cardinality(Cells(items2, pars)) = w + qb
    <3> HIDE DEF x, k, pars
    <3>1. /\ items \in Seq(Items) /\ x \in Items /\ k \in 0 .. Len(items)
          /\ \A j \in 1 .. k : items[Len(items) - j + 1].kind # ReturnTo
      BY <1>1, <2>7, <2>8, <2>9
    <3>2. LET t == Append(Without(items, k), x)
          IN  x.kind = ReturnTo /\ pars[x.v] \in 0 .. ParamSize =>
                     Cardinality(Cells(t, pars)) = Cardinality(Cells(items, pars)) + pars[x.v]
      BY <3>1, PushedCells
    <3> QED
      BY <2>2, <2>5, <2>7, <3>2 DEF ParsWaiting, x, k, pars
  <2>12. Len(r) + k = L
    BY <1>1, <2>9, UsedTops
  <2>13. Len(items2) + k = L + 1
    <3> HIDE DEF x, k
    <3>1. items \in Seq(Items) /\ x \in Items /\ k \in Nat /\ k <= Len(items)
      BY <1>1, <2>7, <2>9
    <3>2. LET t == Append(Without(items, k), x) IN Len(t) + k = Len(items) + 1
      BY <3>1, ComputedTops
    <3> QED
      BY <2>2, <3>2 DEF x, k
  <2>14. Len(r) \in Nat /\ Len(items2) \in Nat
    <3>1. r \in Seq(Items)
      BY <1>1, <2>9, UsedTops
    <3> QED
      BY <3>1
  <2> DEFINE L1 == Len(r)
             L2 == Len(items2)
  <2>15. /\ L1 + nb + more <= StackSize /\ L2 + na + more <= StackSize
         /\ w + qb + rb + morePars <= ParamSize /\ (w + qb) + qa + ra + morePars <= ParamSize
    <3>1. /\ L \in Nat /\ w \in Nat /\ more \in Nat /\ morePars \in Nat /\ n \in Nat /\ rp \in Nat
          /\ q \in Nat /\ L + n + more <= StackSize /\ w + q + rp + morePars <= ParamSize
          /\ StackSize \in Nat /\ ParamSize \in Nat
      BY <1>3
    <3>2. L1 \in Nat /\ L2 \in Nat /\ L1 + k = L /\ L2 + k = L + 1 /\ k \in Nat
      BY <2>9, <2>12, <2>13, <2>14
    <3> HIDE DEF L1, L2, L, w, more, morePars, n, nb, na, q, qa, qb, rp, ra, rb, k
    <3> QED
      BY <2>5, <3>1, <3>2
  <2>16. Enough(prog, r, b, sent)
    BY <2>10, <2>15 DEF Enough, ParsWaiting
  <2>17. Enough(prog, items2, pc', sent)
    BY <2>11, <2>15 DEF Enough
  <2>18. AllEnough(prog, items2, sent)
    <3> HIDE DEF x
    <3>1. AllEnough(prog, Append(Without(items, k), x), sent)
      BY <1>1, <1>2, <2>7, <2>9, <2>16, CalledRoom
    <3> QED
      BY <2>2, <3>1 DEF x
  <2> QED
    BY <2>17, <2>18
<1>10. CASE Returning
  <2>1. Enough(prog, Lower(items, L), items[L].v, sent)
    BY <1>2, <1>10 DEF Returning, AllEnough
  <2>2. Lower(items, L) = Without(items, 1) /\ pc' = items[L].v /\ items2 = Without(items, 1) /\ L \in Returns(items)
    BY <1>10 DEF Returning, Lower, Without
  <2>3. 1 \in Nat /\ 1 <= L
    BY <1>1, <2>2 DEF Returns
  <2>4. Tops(items, items2, L - 1)
    BY <1>1, <2>2, <2>3, UsedTops
  <2> QED
    BY <1>5, <2>1, <2>2, <2>4
<1> QED
  BY <1>6, <1>7, <1>8, <1>9, <1>10 DEF Moved

\* So does an interrupt, which uses the room that is kept for it.
LEMMA InterruptRoom ==
    ASSUME ProgramsBalanced, ProgramsRoomy, RInv, VType', Fits', NEW e \in prog.routines, NEW n \in Opaque, Interrupt(e, n)
    PROVE  Roomed'
<1> DEFINE items == TypedItems
           items2 == TypedItems'
           sent == interrupts
           L == Len(items)
           w == ParsWaiting
<1>1. VInv /\ VType /\ Counted /\ Fits /\ Roomed /\ prog \in Programs /\ items \in Seq(Items) /\ L = Len(kinds)
  <2>1. VInv /\ VType /\ Counted /\ Fits /\ Roomed /\ prog \in Programs
    BY DEF RInv, VInv, VType, StacksFit, Fits
  <2> QED
    BY <2>1, TheItems
<1>2. /\ result # "ERROR" /\ prog' = prog /\ interrupts' = sent + 1 /\ sent < MaxInterrupts /\ pc' = e.at
      /\ PopPush(0, ReturnWord(pc), ReturnTo)
  BY DEF Interrupt
<1>3. AllEnough(prog, items, sent) /\ Enough(prog, items, pc, sent) /\ sent \in 0 .. MaxInterrupts
  BY <1>1, <1>2 DEF Roomed, AllEnough
<1>4. PICK s : Working(s)
  BY <1>1, <1>2, AtPlace
<1>5. s \in Places[prog] /\ s.at = pc
  BY <1>4 DEF Working
<1> DEFINE u == Place(e.at, <<>>, "sub", FALSE)
<1>6. u \in Places[prog] /\ u.at = e.at
  BY <1>1, PlacesAssumption DEF Described, Place
<1>7. pc \in Nat /\ ReturnWord(pc) = pc /\ pc \in Num
  <2>1. pc \in Nat /\ ReturnWord(pc) = pc
    BY <1>1, <1>5, PlaceAddress
  <2> QED
    BY <2>1, SignedType DEF ReturnWord
<1> DEFINE x == [kind |-> ReturnTo, v |-> pc]
<1>8. x \in Items /\ x.kind = ReturnTo /\ x.v = pc /\ ReturnTo \in AllKinds
  BY <1>7 DEF Items, AllKinds
<1>9. 0 \in 0 .. L /\ 0 \in Nat /\ 0 <= L /\ L \in Nat /\ 1 .. 0 = {} /\ L - 0 = L
  BY <1>1
<1>10. Without(items, 0) = items
  BY <1>1, <1>9, SubSeqFull DEF Without
<1>11. items2 = Append(Without(items, 0), x)
  <2>1. 0 \in 0 .. Len(kinds)
    BY <1>1, <1>9
  <2> QED
    BY <1>1, <1>2, <1>7, <1>8, <2>1, PushedItems
<1> HIDE DEF x
<1>12. AllEnough(prog, items, sent + 1) /\ Enough(prog, items, pc, sent + 1)
  <2>1. Enough(prog, items, pc, sent + 1)
    BY <1>1, <1>2, <1>3, <1>5, EnoughLater
  <2>2. ASSUME NEW j \in Returns(items) PROVE Enough(prog, Lower(items, j), items[j].v, sent + 1)
    <3>1. Enough(prog, Lower(items, j), items[j].v, sent)
      BY <1>3 DEF AllEnough
    <3>2. PICK t \in Places[prog] : Stands(items, pc, j, t)
      BY <1>1 DEF VInv, Framed, Waiting
    <3>3. j \in 1 .. L /\ t.at = items[j].v
      <4>1. j \in 1 .. L /\ j # L + 1
        BY <1>9 DEF Returns
      <4> QED
        BY <3>2, <4>1 DEF Stands, AddressAt
    <3>4. Lower(items, j) \in Seq(Items)
      <4>1. j - 1 \in 0 .. L
        BY <1>9, <3>3
      <4> QED
        BY <1>1, <4>1 DEF Lower
    <3> QED
      BY <1>1, <1>2, <1>3, <3>1, <3>3, <3>4, EnoughLater
  <2> QED
    BY <2>1, <2>2 DEF AllEnough
<1>13. AllEnough(prog, items2, sent + 1)
  BY <1>1, <1>8, <1>9, <1>10, <1>11, <1>12, CalledRoom
<1> DEFINE iw == Room[prog].intWords
           ip == Room[prog].intPars
           ew == Room[prog].words[e.at]
           ep == Room[prog].pars[e.at]
           n0 == Room[prog].words[pc]
           r0 == Room[prog].pars[pc]
           q == Pars[prog][pc]
           qe == Pars[prog][e.at]
           m1 == (MaxInterrupts - (sent + 1)) * iw
           m2 == (MaxInterrupts - (sent + 1)) * ip
           more == (MaxInterrupts - sent) * iw
           morePars == (MaxInterrupts - sent) * ip
           c2 == Cardinality(Cells(items2, Pars[prog]))
           L2 == Len(items2)
<1>14. Enough(prog, items2, e.at, sent + 1)
  <2>1. ew + 1 <= iw /\ ep + Bool(e.par) <= ip /\ qe = Bool(e.par)
    BY <1>1 DEF ProgramsRoomy, Roomy, ProgramsBalanced, Balanced
  <2>2. /\ iw \in Nat /\ ip \in Nat /\ ew \in Nat /\ ep \in Nat /\ qe \in Nat
        /\ n0 \in Nat /\ r0 \in Nat /\ q \in Nat /\ q \in 0 .. ParamSize
    <3> HIDE DEF u
    <3> QED
      BY <1>1, <1>5, <1>6, RoomType, ParsType
  <2>3. more = m1 + iw /\ morePars = m2 + ip /\ m1 \in Nat /\ m2 \in Nat
    BY <1>2, <1>3, <2>2, RoomLater
  <2>4. L + n0 + more <= StackSize /\ w + q + r0 + morePars <= ParamSize
    BY <1>3 DEF Enough, ParsWaiting
  <2>5. c2 = w + q
    <3>1. \A j \in 1 .. 0 : items[L - j + 1].kind # ReturnTo
      BY <1>9
    <3>2. LET t == Append(Without(items, 0), x)
          IN  x.kind = ReturnTo /\ Pars[prog][x.v] \in 0 .. ParamSize =>
                Cardinality(Cells(t, Pars[prog])) = Cardinality(Cells(items, Pars[prog])) + Pars[prog][x.v]
      BY <1>1, <1>8, <1>9, <3>1, PushedCells
    <3> QED
      BY <1>8, <1>11, <2>2, <3>2 DEF ParsWaiting
  <2>6. L2 = L + 1
    <3>1. LET t == Append(Without(items, 0), x) IN Len(t) + 0 = L + 1
      BY <1>1, <1>8, <1>9, ComputedTops
    <3>2. Append(Without(items, 0), x) \in Seq(Items)
      BY <1>1, <1>8, <1>10
    <3> QED
      BY <1>11, <3>1, <3>2
  <2>7. w \in Nat /\ StackSize \in Nat /\ ParamSize \in Nat
    BY <1>1, CellsNumber, RingSize, ParamAssumption DEF ParsWaiting
  <2> HIDE DEF iw, ip, ew, ep, n0, r0, q, qe, m1, m2, more, morePars, c2, L2, L, w
  <2>8. L2 + ew + m1 <= StackSize /\ c2 + qe + ep + m2 <= ParamSize
    <3>1. L \in Nat
      BY <1>9
    <3>2. L2 + ew + m1 <= L + n0 + more
      BY <2>1, <2>2, <2>3, <2>6, <3>1
    <3>3. c2 + qe + ep + m2 <= w + q + r0 + morePars
      BY <2>1, <2>2, <2>3, <2>5, <2>7
    <3> QED
      BY <2>2, <2>3, <2>4, <2>5, <2>6, <2>7, <3>1, <3>2, <3>3
  <2> QED
    BY <2>8 DEF Enough, L2, ew, m1, c2, qe, ep, m2, iw, ip
<1>15. sent + 1 \in 0 .. MaxInterrupts
  BY <1>2, <1>3, RoomLater, InterruptAssumption
<1> QED
  BY <1>2, <1>13, <1>14, <1>15 DEF Roomed, AllEnough

\* The invariant of programs that have room, a step at a time.
LEMMA StepRoomed ==
    ASSUME ProgramsBalanced, ProgramsRoomy, RInv, [Steps]_vars
    PROVE  RInv'
<1>1. VInv /\ VType /\ StacksFit /\ ParsTallied /\ Roomed /\ prog \in Programs
  BY DEF RInv, VInv, VType
<1>2. VType'
  BY <1>1, StepsTyped
<1>3. StacksFit' /\ Fits'
  <2>1. StacksFit'
    <3>1. VMStep => StacksFit'
      BY StepFits
    <3>2. (HostStep \/ (\E e \in prog.routines, n \in Opaque : Interrupt(e, n)) \/ Reset \/ UNCHANGED vars) => StacksFit'
      BY HostFits
    <3> QED
      BY <3>1, <3>2 DEF Steps
  <2> QED
    BY <2>1 DEF StacksFit, Fits
<1>4. VInv' /\ (VMStep => ParsMoved) /\ (VMStep \/ HostStep => Moved)
  BY <1>1, <1>3, StepRuns
<1>5. ParsTallied'
  BY <1>1, <1>3, <1>4, ParsStep
<1>6. TypedItems' \in Seq(Items)
  BY <1>3, <1>4, TheNextItems DEF VInv
<1>7. Roomed'
  <2>1. CASE UNCHANGED vars
    <3>1. TypedItems' = TypedItems /\ prog' = prog /\ pc' = pc /\ result' = result /\ interrupts' = interrupts
      BY <2>1 DEF vars, machine, TypedItems
    <3> QED
      BY <1>1, <3>1 DEF Roomed
  <2>2. CASE VMStep \/ HostStep
    <3>1. prog' = prog /\ interrupts' = interrupts
      BY <2>2, ProgramStays
    <3>2. result # "ERROR"
      <4>1. VMStep => mode = "run"
        BY <1>1, KindsMove
      <4>2. HostStep => result # "ERROR"
        <5>1. result = "ERROR" => owed = <<>> /\ mode = "host"
          BY <1>1 DEF VInv, Halted
        <5> QED
          BY <5>1 DEF HostStep, Run, Answer
      <4> QED
        BY <1>1, <2>2, <4>1, <4>2, HaltedAgain
    <3> QED
      BY <1>4, <1>6, <2>2, <3>1, <3>2, MovedRoom
  <2>3. ASSUME NEW e \in prog.routines, NEW n \in Opaque, Interrupt(e, n) PROVE Roomed'
    BY <1>2, <1>3, <2>3, InterruptRoom
  <2>4. CASE Reset
    <3>1. prog' = prog /\ pc' = 1 /\ kinds' = <<>> /\ interrupts' = 0
      BY <2>4 DEF Reset
    <3>2. TypedItems' = <<>>
      BY <3>1, EmptyStack DEF TypedItems
    <3>3. 0 \in 0 .. MaxInterrupts
      BY InterruptAssumption
    <3> QED
      BY <1>1, <3>1, <3>2, <3>3, StartRoomed DEF Roomed, AllEnough
  <2> QED
    BY <2>1, <2>2, <2>3, <2>4 DEF Steps
<1> QED
  BY <1>3, <1>4, <1>5, <1>7 DEF RInv

\* It holds at the beginning.
LEMMA InitRoomed == ASSUME ProgramsBalanced, ProgramsRoomy, Init PROVE RInv
<1>1. prog \in Programs /\ pc = 1 /\ psp = 0 /\ kinds = <<>> /\ interrupts = 0 /\ TypedItems = <<>>
  BY EmptyStack DEF Init, Fresh, TypedItems
<1>2. VInv /\ ParsTallied
  BY InitRuns, InitParams
<1>3. StacksFit
  BY <1>1, EmptyStack, ParamAssumption DEF StacksFit
<1>4. Roomed
  <2>1. 0 \in 0 .. MaxInterrupts
    BY InterruptAssumption
  <2> QED
    BY <1>1, <2>1, StartRoomed DEF Roomed, AllEnough
<1> QED
  BY <1>2, <1>3, <1>4 DEF RInv

\* What they are on the stack alone.
LEMMA TallyBounds == ASSUME VInv, StacksFit, LoopsTallied PROVE LoopsCounted /\ NestingBounded
<1>1. VType /\ Counted /\ Fits
  BY DEF VInv, StacksFit, Fits
<1>2. kinds \in Seq(Kinds \cup {ReturnTo}) /\ Len(kinds) \in Nat /\ Len(kinds) <= StackSize /\ StackSize \in Nat
  BY <1>1, TheItems, RingSize DEF Counted, AllKinds, Fits
<1>3. /\ OpenLoops \in Nat /\ PendingCalls \in Nat
      /\ OpenLoops <= InFrames /\ InFrames <= OpenLoops + PendingCalls /\ PendingCalls <= Len(kinds)
  BY <1>2, CountingBounds DEF InFrames
<1>4. InFrames \in Nat /\ MaxForLoops \in Nat /\ loops \in Nat
  <2>1. TypedItems \in Seq(Items)
    BY <1>1, TheItems
  <2>2. loops \in Nat
    BY <1>1, CountersAreNumbers DEF VType, CountersTyped
  <2> QED
    BY <2>1, <2>2, CountingNumber, LoopAssumption DEF InFrames
<1>5. InFrames <= MaxForLoops /\ loops \in InFrames .. InFrames + 1
  BY DEF LoopsTallied
<1>6. OpenLoops <= MaxForLoops /\ PendingCalls <= StackSize
  BY <1>2, <1>3, <1>4, <1>5
<1>7. loops \in OpenLoops .. OpenLoops + 1 + PendingCalls
  BY <1>3, <1>4, <1>5
<1> QED
  BY <1>6, <1>7 DEF LoopsCounted, NestingBounded

\* The untyped ring of nb_runtime.c does the work of a typed stack as long as the
\* words fit it: RETURN and RETI find what GOSUB or an interrupt has pushed, and
\* every instruction its own operands.  Where the program has a NEXT, nothing but
\* the step of its own loop is taken: the variable is increased by the step that
\* FOR has pushed, and the loop goes on at its beginning or is left as the signed
\* variable and the end value say.
THEOREM TypedStackImplemented == Spec /\ []RoomLeft => ImplementsTypedStack
<1>1. Init => VInv /\ TS!AInit
  BY InitRuns
<1>2. VInv /\ RoomLeft /\ RoomLeft' /\ [Steps]_vars => VInv' /\ [TS!ANext]_(TS!avars)
  BY StepRuns DEF RoomLeft
<1> QED
  BY <1>1, <1>2, PTL DEF Spec, ImplementsTypedStack, TS!ASpec

\* Whatever interrupts come in, the stack is made of the frames of the compiled
\* program: the running routine's on top, below each return address the one of
\* the routine that it goes back to.
THEOREM FramesStand == Spec /\ []StacksFit => []Framed
<1>1. Init => VInv
  BY InitRuns
<1>2. VInv /\ StacksFit /\ StacksFit' /\ [Steps]_vars => VInv'
  BY StepRuns
<1>3. VInv => Framed
  BY DEF VInv
<1> QED
  BY <1>1, <1>2, <1>3, PTL DEF Spec

\* The invariant of the loops.
LEMMA LoopsStayTallied == Spec /\ []StacksFit /\ ResetOutsideLoops => [](VInv /\ StacksFit /\ LoopsTallied)
<1>1. Init => VInv /\ LoopsTallied
  BY InitRuns
<1>2. VInv /\ LoopsTallied /\ StacksFit /\ StacksFit' /\ [Steps]_vars /\ [Reset => loops = 0]_vars => VInv' /\ LoopsTallied'
  <2>1. ASSUME VInv, LoopsTallied, StacksFit, StacksFit', [Steps]_vars, [Reset => loops = 0]_vars
        PROVE  VInv' /\ LoopsTallied'
    <3>1. VInv' /\ (Steps => Tallied \/ Reset)
      BY <2>1, StepRuns
    <3> QED
      BY <2>1, <3>1, StepTallied
  <2> QED
    BY <2>1
<1> QED
  BY <1>1, <1>2, PTL DEF Spec, ResetOutsideLoops

\* nested_loop_idx, one number for all routines, counts the loops on the stack and
\* those that routines are entering, through interrupts in the middle of a FOR, too,
\* as long as nb_reset, which leaves it alone, comes outside of loops.
THEOREM LoopsAreCounted == Spec /\ []StacksFit /\ ResetOutsideLoops => []LoopsCounted
<1>1. VInv /\ StacksFit /\ LoopsTallied => LoopsCounted
  BY TallyBounds
<1> QED
  BY <1>1, LoopsStayTallied, PTL

\* The loops that are open fit their limit, which FOR compares with the number of all
\* that are counted; the calls fit the stack since all the words do.
THEOREM NestingIsBounded == Spec /\ []StacksFit /\ ResetOutsideLoops => []NestingBounded
<1>1. VInv /\ StacksFit /\ LoopsTallied => NestingBounded
  BY TallyBounds
<1> QED
  BY <1>1, LoopsStayTallied, PTL
\* At the end nothing is left: a program ends in its first frame, which is empty.
LEMMA EndIsEmpty ==
    ASSUME VInv, StacksFit, LoopsTallied, ProgramsBalanced, ParsTallied, End
    PROVE  sp' = 0 /\ psp' = 0 /\ loops' = 0
<1>1. mode = "run" /\ ins.op = "END" /\ sp' = sp /\ psp' = psp /\ loops' = loops
  BY DEF End, Executing, machine
<1>2. PICK s : Working(s)
  BY <1>1, AtPlace, HaltedAgain
<1>3. s \in Places[prog] /\ s.at = pc /\ Stands(TypedItems, pc, Len(TypedItems) + 1, s) /\ prog \in Programs
  BY <1>2 DEF Working, VInv, VType
<1>4. s.frame = <<>> /\ s.level = "main" /\ ~s.entering /\ Pars[prog][pc] = 0
  <2>1. pc \in DOMAIN prog.code => prog.code[pc].op = "END"
    BY <1>1 DEF ins, Fetch
  <2> QED
    BY <1>3, <2>1 DEF ProgramsBalanced, Balanced
<1>5. TypedItems \in Seq(Items) /\ Len(TypedItems) = Len(kinds) /\ Len(kinds) \in Nat /\ sp = Len(kinds)
  BY TheItems DEF VInv, StacksFit, Fits, Counted
<1>6. Len(TypedItems) = 0
  <2>1. Base(Len(TypedItems) + 1, s) = 0
    BY <1>3, <1>4 DEF Stands
  <2>2. Len(s.frame) = 0
    BY <1>4
  <2> QED
    BY <1>5, <2>1, <2>2 DEF Base
<1>7. InFrames = 0 /\ ParsWaiting = 0
  <2>1. DOMAIN TypedItems = {} /\ 1 .. Len(TypedItems) = {}
    BY <1>5, <1>6
  <2>2. Counting(TypedItems, Places[prog]) = {} /\ Cells(TypedItems, Pars[prog]) = {}
    BY <2>1 DEF Counting, Cells
  <2> QED
    BY <2>2, FS_EmptySet DEF InFrames, ParsWaiting
<1>8. result # "ERROR" /\ ~EnteringAt(pc, Places[prog])
  <2>1. ~EnteringAt(s.at, Places[prog])
    BY <1>3, <1>4, EnteringPlace
  <2> QED
    BY <1>1, <1>3, <2>1, HaltedAgain
<1>9. loops = 0
  BY <1>7, <1>8 DEF LoopsTallied, Bool
<1>10. psp = 0
  <2>1. Unanswered = 0
    BY <1>1 DEF ParsTallied, Unanswered
  <2> QED
    BY <1>4, <1>7, <1>8, <2>1 DEF ParsTallied
<1> QED
  BY <1>1, <1>5, <1>6, <1>9, <1>10

\* The invariant of balanced programs, a step at a time.
LEMMA StepBalanced ==
    ASSUME ProgramsBalanced, VInv, VInv', StacksFit, StacksFit', LoopsTallied, ParsTallied, BalancedAtEnd, [Steps]_vars
    PROVE  ParsTallied' /\ BalancedAtEnd'
<1>1. ParsTallied'
  BY StepRuns, ParsStep
<1>2. CASE UNCHANGED vars
  BY <1>1, <1>2 DEF BalancedAtEnd, vars, machine
<1>3. CASE Steps
  BY <1>1, <1>3, OnlyEndEnds, EndIsEmpty DEF BalancedAtEnd
<1> QED
  BY <1>2, <1>3

\* A program that is properly nested, with routines that take the parameters that they
\* are given, leaves nothing on its stacks and no loop counted, whatever interrupts
\* came and whatever the host answered.
THEOREM EndIsBalanced == ProgramsBalanced /\ Spec /\ []StacksFit /\ ResetOutsideLoops => []BalancedAtEnd
<1> SUFFICES ASSUME ProgramsBalanced PROVE Spec /\ []StacksFit /\ ResetOutsideLoops => []BalancedAtEnd
  OBVIOUS
<1>1. Init => ParsTallied /\ BalancedAtEnd
  BY InitRuns, InitParams DEF BalancedAtEnd, Init
<1>2. /\ VInv /\ VInv' /\ StacksFit /\ StacksFit' /\ LoopsTallied /\ ParsTallied /\ BalancedAtEnd /\ [Steps]_vars
      => ParsTallied' /\ BalancedAtEnd'
  BY StepBalanced
<1> QED
  BY <1>1, <1>2, LoopsStayTallied, PTL DEF Spec

\* A host that restarts such programs when they have ended, and not after an error,
\* resets outside of loops: nested_loop_idx is 0 when nb_reset leaves it alone.
THEOREM RestartsAreClean == ProgramsBalanced /\ ResetAfter \subseteq {"END"} /\ Spec /\ []StacksFit => ResetOutsideLoops
<1> SUFFICES ASSUME ProgramsBalanced, ResetAfter \subseteq {"END"} PROVE Spec /\ []StacksFit => ResetOutsideLoops
  OBVIOUS
<1> DEFINE IInv == VInv /\ LoopsTallied /\ ParsTallied /\ BalancedAtEnd
<1>1. Init => IInv
  BY InitRuns, InitParams DEF BalancedAtEnd, Init
<1>2. BalancedAtEnd => [Reset => loops = 0]_vars
  BY DEF BalancedAtEnd, Reset
<1>3. IInv /\ StacksFit /\ StacksFit' /\ [Steps]_vars => IInv'
  <2> SUFFICES ASSUME IInv, StacksFit, StacksFit', [Steps]_vars PROVE IInv'
    OBVIOUS
  <2>1. VInv' /\ (Steps => Tallied \/ Reset)
    BY StepRuns
  <2>2. LoopsTallied'
    BY <1>2, <2>1, StepTallied
  <2> QED
    BY <2>1, <2>2, StepBalanced
<1> HIDE DEF IInv
<1>4. IInv => BalancedAtEnd
  BY DEF IInv
<1> QED
  BY <1>1, <1>2, <1>3, <1>4, PTL DEF Spec, ResetOutsideLoops

-----------------------------------------------------------------------------
\* Nothing compares the stacks with their sizes (nb_runtime.c:34 and 39), but they
\* never wrap in a program whose needs, its routines' and its interrupts' together
\* fit them, wherever the interrupts come and whatever the host answers.
THEOREM StacksAlwaysFit == ProgramsBalanced /\ ProgramsRoomy /\ Spec => []StacksFit
<1> SUFFICES ASSUME ProgramsBalanced, ProgramsRoomy PROVE Spec => []StacksFit
  OBVIOUS
<1>1. Init => RInv
  BY InitRoomed
<1>2. RInv /\ [Steps]_vars => RInv'
  BY StepRoomed
<1>3. RInv => StacksFit
  BY DEF RInv
<1> QED
  BY <1>1, <1>2, <1>3, PTL DEF Spec

\* What remains to be asked of a run is that no loop crosses zero.
THEOREM RoomIsLeft == ProgramsBalanced /\ ProgramsRoomy /\ Spec /\ []OneSide => []RoomLeft
<1>1. StacksFit /\ OneSide => RoomLeft
  BY DEF RoomLeft
<1> QED
  BY <1>1, StacksAlwaysFit, PTL

\* Such programs run on the typed stack,
THEOREM RoomyProgramsAreTyped == ProgramsBalanced /\ ProgramsRoomy /\ Spec /\ []OneSide => ImplementsTypedStack
  BY RoomIsLeft, TypedStackImplemented, PTL

\* and a host that restarts them when they have ended needs nothing else: the frames
\* stand, the loops are counted and bounded, the end leaves nothing behind.
THEOREM RoomyProgramsAreSafe ==
    ProgramsBalanced /\ ProgramsRoomy /\ ResetAfter \subseteq {"END"} /\ Spec
    => [](Framed /\ LoopsCounted /\ NestingBounded /\ BalancedAtEnd)
<1> SUFFICES ASSUME ProgramsBalanced, ProgramsRoomy, ResetAfter \subseteq {"END"}
             PROVE  Spec => [](Framed /\ LoopsCounted /\ NestingBounded /\ BalancedAtEnd)
  OBVIOUS
<1>1. Spec => []StacksFit
  BY StacksAlwaysFit
<1>2. Spec /\ []StacksFit => ResetOutsideLoops
  BY RestartsAreClean
<1>3. Spec /\ []StacksFit => []Framed
  BY FramesStand
<1>4. Spec /\ []StacksFit /\ ResetOutsideLoops => []LoopsCounted /\ []NestingBounded
  BY LoopsAreCounted, NestingIsBounded
<1>5. Spec /\ []StacksFit /\ ResetOutsideLoops => []BalancedAtEnd
  BY EndIsBalanced
<1> QED
  BY <1>1, <1>2, <1>3, <1>4, <1>5, PTL
=============================================================================
