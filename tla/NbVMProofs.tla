----------------------------- MODULE NbVMProofs -----------------------------
(***************************************************************************)
(* What holds of the interpreter (NbVM) whatever program it runs: its      *)
(* counters and words keep their types.                                    *)
(***************************************************************************)
EXTENDS NbVM, TLAPS

\* A remainder is smaller than what is divided by.
LEMMA Remainders == ASSUME NEW n \in Int, NEW d \in Nat, d >= 1 PROVE n % d \in 0 .. d - 1
  OBVIOUS

\* The 16 bits of a word, for the provers, which are slow with its bounds.
LEMMA SixteenBits == \E w \in Nat : w >= 1 /\ Word16 = 0 .. w - 1 /\ \A n : Wrap16(n) = n % w
<1> DEFINE w == 65536
<1>1. w \in Nat /\ w >= 1
  OBVIOUS
<1>2. Word16 = 0 .. w - 1
  BY SMTT(30) DEF Word16
<1>3. \A n : Wrap16(n) = n % w
  BY SMTT(30) DEF Wrap16
<1> HIDE DEF w
<1> QED
  BY <1>1, <1>2, <1>3

\* Wrapped counters.
LEMMA Wrapped == ASSUME NEW n \in Int PROVE Wrap16(n) \in Word16 /\ n % 256 \in Byte /\ n % 16384 \in Offsets
<1> DEFINE o == 16384
<1>1. o \in Nat /\ o >= 1 /\ Offsets = 0 .. o - 1
  BY DEF Offsets
<1>2. n % 16384 = n % o
  OBVIOUS
<1> HIDE DEF o
<1>5. PICK w \in Nat : w >= 1 /\ Word16 = 0 .. w - 1 /\ Wrap16(n) = n % w
  BY SixteenBits
<1>3. n % w \in Word16 /\ n % o \in Offsets
  BY <1>1, <1>5, Remainders
<1>4. n % 256 \in Byte
  BY DEF Byte
<1> QED
  BY <1>2, <1>3, <1>4, <1>5

\* They are numbers,
LEMMA CountersAreNumbers == Word16 \subseteq Nat /\ Offsets \subseteq Nat /\ Byte \subseteq Nat
<1> DEFINE o == 16384
<1>1. o \in Nat /\ Offsets = 0 .. o - 1
  BY DEF Offsets
<1> HIDE DEF o
<1>2. PICK w \in Nat : Word16 = 0 .. w - 1
  BY SixteenBits
<1> QED
  BY <1>1, <1>2 DEF Byte

\* and what fits does not wrap.
LEMMA NoWrap == ASSUME NEW n \in Word16 PROVE Wrap16(n) = n
<1>1. PICK w \in Nat : w >= 1 /\ Word16 = 0 .. w - 1 /\ Wrap16(n) = n % w
  BY SixteenBits
<1> QED
  BY <1>1

\* Unsigned and signed words.
LEMMA UnsignedType == ASSUME NEW n \in Int PROVE ToUnsigned(n) \in 0 .. 2 * Half - 1
<1>1. 2 * Half \in Nat /\ 2 * Half >= 1
  BY WordAssumption
<1> QED
  BY <1>1, Remainders DEF ToUnsigned

\* A word is a signed number.
LEMMA SignedType == ASSUME NEW n \in Int PROVE ToSigned(n) \in Num
<1>1. PICK u \in 0 .. 2 * Half - 1 : u = ToUnsigned(n)
  BY UnsignedType
<1>2. ToSigned(n) = IF u < Half THEN u ELSE u - 2 * Half
  BY <1>1 DEF ToSigned
<1> QED
  BY <1>2, WordAssumption DEF Num

\* Numbers and slots.
LEMMA Numbers == Num \subseteq Int /\ 0 \in Num /\ 1 \in Num /\ Opaque \subseteq Num
<1>1. Num \subseteq Int /\ 0 \in Num /\ 1 \in Num
  BY WordAssumption DEF Num
<1>2. 0 .. Half - 1 \subseteq Num
  BY WordAssumption DEF Num
<1>3. Opaque \subseteq 0 .. Half - 1
  BY DataAssumption
<1> QED
  BY <1>1, <1>2, <1>3, Zenon

\* A slot is in the ring.
LEMMA SlotType == ASSUME NEW n \in Int PROVE Slot(n) \in 0 .. StackSize - 1
<1>1. StackSize \in Nat /\ StackSize >= 1
  BY StackAssumption, CountersAreNumbers
<1> QED
  BY <1>1, Remainders DEF Slot

\* The division of C rounds towards zero: the rest is no larger than the dividend.
LEMMA Division == ASSUME NEW a \in Int, NEW b \in Int, b # 0
                  PROVE /\ TruncDiv(a, b) \in Int
                        /\ a >= 0 => a - b * TruncDiv(a, b) \in 0 .. a
                        /\ a < 0 => a - b * TruncDiv(a, b) \in a .. 0
<1> DEFINE q == Abs(a) \div Abs(b)
           r == Abs(a) % Abs(b)
<1>1. Abs(a) \in Nat /\ Abs(b) \in Nat /\ Abs(b) >= 1
  BY DEF Abs
<1>2. q \in Nat /\ r \in Nat /\ Abs(a) = Abs(b) * q + r
  BY <1>1
<1>3. r <= Abs(a)
  <2>1. Abs(b) * q \in Nat
    BY <1>1, <1>2
  <2> QED
    BY <1>2, <2>1
<1>4. TruncDiv(a, b) = Sign(a) * Sign(b) * q
  BY DEF TruncDiv
<1> HIDE DEF q, r
<1>5. Sign(a) \in {-1, 1} /\ Sign(b) \in {-1, 1} /\ a = Sign(a) * Abs(a) /\ b = Sign(b) * Abs(b)
  BY DEF Sign, Abs
<1>6. TruncDiv(a, b) \in Int
  BY <1>2, <1>4, <1>5
<1>7. b * TruncDiv(a, b) = Sign(a) * (Abs(b) * q)
  BY <1>1, <1>2, <1>4, <1>5
<1>8. a - b * TruncDiv(a, b) = Sign(a) * r
  BY <1>1, <1>2, <1>5, <1>7
<1>9. IF a >= 0 THEN Sign(a) * r = r /\ Abs(a) = a ELSE Sign(a) * r = -r /\ Abs(a) = -a
  BY <1>2 DEF Sign, Abs
<1> QED
  BY <1>2, <1>3, <1>6, <1>8, <1>9

\* What is computed is a word.
LEMMA ArithType == ASSUME NEW a \in Num, NEW b \in Num, NEW f \in Functions PROVE Arith(f, a, b) \in Num
<1>1. a \in Int /\ b \in Int
  BY Numbers
<1>2. Bool(a = b) \in Num /\ \A p \in BOOLEAN : Bool(p) \in Num
  BY Numbers DEF Bool
<1>3. b # 0 => a - b * TruncDiv(a, b) \in Num
  <2> SUFFICES ASSUME b # 0 PROVE a - b * TruncDiv(a, b) \in Num
    OBVIOUS
  <2> DEFINE d == a - b * TruncDiv(a, b)
  <2>1. (a >= 0 => d \in 0 .. a) /\ (a < 0 => d \in a .. 0)
    BY <1>1, Division
  <2> HIDE DEF d
  <2>4. d \in Num
    BY <1>1, <2>1, WordAssumption DEF Num
  <2> QED
    BY <2>4 DEF d
<1>4. TruncDiv(a, b) \in Int
  <2>1. CASE b = 0
    BY <2>1 DEF TruncDiv
  <2>2. CASE b # 0
    BY <1>1, <2>2, Division
  <2> QED
    BY <2>1, <2>2
<1>5. a + b \in Int /\ a - b \in Int /\ a * b \in Int
  BY <1>1
<1>6. ToSigned(a + b) \in Num /\ ToSigned(a - b) \in Num /\ ToSigned(a * b) \in Num
  BY <1>5, SignedType
<1>7. ToSigned(TruncDiv(a, b)) \in Num
  BY <1>4, SignedType
<1>8. (a # 0 /\ b # 0) \in BOOLEAN /\ (a # 0 \/ b # 0) \in BOOLEAN /\ (a = b) \in BOOLEAN /\ (a # b) \in BOOLEAN
      /\ (a < b) \in BOOLEAN /\ (a <= b) \in BOOLEAN /\ (a > b) \in BOOLEAN /\ (a >= b) \in BOOLEAN
  BY <1>1
<1>9. CASE f \in {"ADD", "SUB", "MUL", "DIV", "MOD"}
  BY <1>3, <1>6, <1>7, <1>9, Numbers DEF Arith
<1>10. CASE f \in {"AND", "OR", "EQ", "NE", "LT", "LE", "GT", "GE"}
  BY <1>2, <1>8, <1>10 DEF Arith
<1> QED
  BY <1>9, <1>10 DEF Functions

-----------------------------------------------------------------------------
\* What the next instruction has for operands.
LEMMA Instruction == ASSUME prog \in Programs PROVE Operands(ins)
<1>1. CASE pc \in DOMAIN prog.code
  BY <1>1, ProgramAssumption DEF ins, Fetch
<1>2. CASE pc \notin DOMAIN prog.code
  <2>1. ins.op = "END"
    BY <1>2 DEF ins, Fetch, EndInstr
  <2> QED
    BY <2>1 DEF Operands
<1> QED
  BY <1>1, <1>2

\* The types, in parts that actions change together.
CountersTyped == /\ pc \in Word16 /\ sp \in Word16 /\ psp \in Byte /\ loops \in Byte
                 /\ dataOffs \in Offsets /\ cycles \in Word16 /\ mode \in {"host", "run"}
StackTyped == stack \in [0 .. StackSize - 1 -> Num]
ValuesTyped == /\ params \in [0 .. ParamSize - 1 -> Num]
               /\ variables \in [Var -> 0 .. 2 * Half - 1]
VType == /\ CountersTyped /\ StackTyped /\ ValuesTyped
         /\ prog \in Programs
         /\ owed = <<>> \/ owed \in Nat \X (0 .. 1)

\* A word of the stack.
LEMMA WordType == ASSUME VType, NEW k \in Int PROVE Word(k) \in Num
<1>1. sp - k \in Int
  BY CountersAreNumbers DEF VType, CountersTyped
<1> QED
  BY <1>1, SlotType DEF VType, StackTyped, Word

\* As a number, and as a number of 16 bits.
LEMMA WordNumber == ASSUME VType, NEW k \in Int PROVE Word(k) \in Int /\ Wrap16(Word(k)) \in Int
<1>1. Word(k) \in Int
  BY WordType, Numbers
<1>2. Wrap16(Word(k)) \in Word16
  BY <1>1, Wrapped
<1>3. Word16 \subseteq Int
  BY CountersAreNumbers
<1> QED
  BY <1>1, <1>2, <1>3, Zenon

\* The stack has its type after a pop,
LEMMA PopTyped == ASSUME VType, NEW k \in Int, Pop(k) PROVE sp' \in Word16 /\ StackTyped'
<1>1. sp - k \in Int
  BY CountersAreNumbers DEF VType, CountersTyped
<1> QED
  BY <1>1, Wrapped DEF VType, StackTyped, Pop

\* after a push
LEMMA PopPushTyped == ASSUME VType, NEW k \in Int, NEW n \in Num, NEW kind, PopPush(k, n, kind)
                      PROVE sp' \in Word16 /\ StackTyped'
<1>1. sp - k \in Int /\ sp - k + 1 \in Int
  BY CountersAreNumbers DEF VType, CountersTyped
<1>2. sp' \in Word16
  BY <1>1, Wrapped DEF PopPush
<1>3. Slot(sp - k) \in 0 .. StackSize - 1
  BY <1>1, SlotType
<1> QED
  BY <1>2, <1>3 DEF VType, StackTyped, PopPush

\* and when nothing happens to it.
LEMMA KeptTyped == ASSUME VType, SameStack PROVE sp' \in Word16 /\ StackTyped'
  BY DEF VType, CountersTyped, StackTyped, SameStack

\* A number in a variable.
LEMMA VariableType == ASSUME VType, NEW x \in Var PROVE ToSigned(variables[x]) \in Num
<1>1. variables[x] \in Int
  BY WordAssumption DEF VType, ValuesTyped
<1> QED
  BY <1>1, SignedType

\* A number in the data section.
LEMMA DataType == ASSUME VType, DataLeft PROVE prog.data[dataOffs + 1].n \in Num
<1> DEFINE data == prog.data
           Entry == [str : BOOLEAN, n : Num]
<1>1. data \in Seq(Entry)
  BY ProgramAssumption DEF VType
<1>2. dataOffs \in Nat /\ dataOffs < Len(data)
  BY CountersAreNumbers DEF VType, CountersTyped, DataLeft
<1> HIDE DEF data, Entry
<1>3. dataOffs + 1 \in 1 .. Len(data)
  BY <1>1, <1>2
<1>4. data[dataOffs + 1] \in Entry
  BY <1>1, <1>3
<1> QED
  BY <1>4 DEF data, Entry

\* The parameter that is taken, and the words that one may be written to.
LEMMA ParamPlace == ASSUME NEW k \in 0 .. StackSize - 1
                    PROVE IF k < ParamSize THEN k \in 0 .. ParamSize - 1 ELSE k - ParamSize \in Var
<1>1. StackSize \in Nat /\ ParamSize \in Nat
  BY StackAssumption, ParamAssumption, CountersAreNumbers
<1>2. k >= ParamSize => k - ParamSize \in 0 .. StackSize - ParamSize - 1
  BY <1>1
<1>3. 0 .. StackSize - ParamSize - 1 \subseteq Var
  BY DataAssumption
<1> QED
  BY <1>1, <1>2, <1>3

\* The parameter that is taken.
LEMMA ParamWordType == ASSUME VType PROVE PWord \in Num
<1> DEFINE k == Slot((psp - 1) % 256)
<1>1. (psp - 1) % 256 \in Int
  BY CountersAreNumbers DEF VType, CountersTyped
<1>2. k \in 0 .. StackSize - 1
  BY <1>1, SlotType
<1> HIDE DEF k
<1>3. CASE k < ParamSize
  <2>1. params[k] \in Num
    BY <1>2, <1>3, ParamPlace DEF VType, ValuesTyped
  <2> QED
    BY <1>3, <2>1 DEF PWord, ParamAt, k
<1>4. CASE ~(k < ParamSize)
  <2>1. variables[k - ParamSize] \in Int
    BY <1>2, <1>4, ParamPlace, WordAssumption DEF VType, ValuesTyped
  <2>2. ToSigned(variables[k - ParamSize]) \in Num
    BY <2>1, SignedType
  <2> QED
    BY <1>4, <2>2 DEF PWord, ParamAt, k
<1> QED
  BY <1>3, <1>4

\* A parameter that is written, wherever that is.
Written(k, n) == /\ params' = IF k < ParamSize THEN [params EXCEPT ![k] = n] ELSE params
                 /\ variables' = IF k < ParamSize THEN variables
                                 ELSE [variables EXCEPT ![k - ParamSize] = ToUnsigned(n)]

\* A word that is written as a parameter has its type wherever it lands,
LEMMA WrittenTyped == ASSUME VType, NEW k \in 0 .. StackSize - 1, NEW n \in Num, Written(k, n) PROVE ValuesTyped'
<1>1. ToUnsigned(n) \in 0 .. 2 * Half - 1
  BY Numbers, UnsignedType
<1>2. CASE k < ParamSize
  BY <1>2, ParamPlace DEF VType, ValuesTyped, Written
<1>3. CASE ~(k < ParamSize)
  BY <1>1, <1>3, ParamPlace DEF VType, ValuesTyped, Written
<1> QED
  BY <1>2, <1>3

\* and PPUSH does that.
LEMMA PushedParamTyped == ASSUME VType, NEW n \in Num, PPush(n) PROVE psp' \in Byte /\ ValuesTyped'
<1>1. psp \in Int
  BY CountersAreNumbers DEF VType, CountersTyped
<1>2. Slot(psp) \in 0 .. StackSize - 1 /\ psp' \in Byte
  BY <1>1, SlotType, Wrapped DEF PPush
<1>3. Written(Slot(psp), n)
  BY DEF PPush, Written
<1> QED
  BY <1>2, <1>3, WrittenTyped

-----------------------------------------------------------------------------
\* The address has its type after a jump
LEMMA GoneTyped == ASSUME VType, NEW a \in Int, GoTo(a) PROVE pc' \in Word16
  BY Wrapped DEF GoTo

\* and a step to the next instruction.
LEMMA StepTyped == ASSUME VType, Step1 PROVE pc' \in Word16
<1>1. pc + 1 \in Int
  BY CountersAreNumbers DEF VType, CountersTyped
<1> QED
  BY <1>1, GoneTyped DEF Step1

\* What every instruction does to the cycles and leaves of the program.
LEMMA TurnTyped == ASSUME VType, NEW op, Executing(op)
                   PROVE prog' = prog /\ prog' \in Programs /\ cycles' \in Word16
<1>1. PICK w \in Nat : Word16 = 0 .. w - 1
  BY SixteenBits
<1>2. cycles \in Word16 /\ cycles > 1 /\ cycles' = cycles - 1
  BY DEF VType, CountersTyped, Executing
<1>3. cycles' \in Word16
  BY <1>1, <1>2
<1> QED
  BY <1>3 DEF VType, Executing

\* Instructions that leave the variables and the counters of loops and data alone.
Plain == UNCHANGED <<loops, variables, dataOffs>> /\ SameParams

\* An instruction that touches neither loops, variables nor parameters.
LEMMA PlainTyped == ASSUME VType, Plain PROVE loops' \in Byte /\ dataOffs' \in Offsets /\ psp' \in Byte /\ ValuesTyped'
  BY DEF VType, CountersTyped, ValuesTyped, Plain, SameParams
Runs == mode' \in {"host", "run"} /\ (owed' = <<>> \/ owed' \in Nat \X (0 .. 1))

\* The way nb_run comes out of it has its type when it goes on
LEMMA GoOnRuns == ASSUME VType, GoOn PROVE Runs
  BY DEF VType, CountersTyped, GoOn, Runs

\* and when it returns.
LEMMA LeaveRuns == ASSUME NEW r, Leave(r) PROVE Runs
  BY DEF Leave, Runs

\* The parts of the invariant together.
LEMMA AllTyped == ASSUME prog' \in Programs, cycles' \in Word16, pc' \in Word16, sp' \in Word16, StackTyped',
                         loops' \in Byte, dataOffs' \in Offsets, psp' \in Byte, ValuesTyped', Runs
                  PROVE VType'
  BY DEF VType, CountersTyped, Runs

\* A random number is a word.
LEMMA RandomType == ASSUME NEW n \in Num PROVE Random(n) \subseteq Num
<1>1. n \in Int /\ -Half <= n /\ n < Half
  BY WordAssumption DEF Num
<1>2. CASE n >= 0
  BY <1>1, <1>2, WordAssumption DEF Random, Num
<1>3. CASE n < 0
  BY <1>1, <1>3, WordAssumption DEF Random, Num
<1> QED
  BY <1>1, <1>2, <1>3

\* One step for each instruction.
LEMMA PlainInstructionsTyped ==
    ASSUME VType, End \/ Nop \/ Output \/ PushNum \/ PushVar \/ Binary \/ Unary \/ HeapValue \/ Rnd
    PROVE  VType'
<1>0. Operands(ins)
  BY Instruction DEF VType
<1>1. CASE End
  <2>1. Executing("END") /\ Leave("END") /\ Plain /\ SameStack /\ pc' = pc
    BY <1>1 DEF End, machine, Plain, SameParams, SameStack
  <2>2. pc' \in Word16
    BY <2>1 DEF VType, CountersTyped
  <2> QED
    BY <2>1, <2>2, TurnTyped, KeptTyped, PlainTyped, LeaveRuns, AllTyped
<1>2. CASE Nop
  <2>1. Executing("NOP") /\ Step1 /\ GoOn /\ SameStack /\ Plain
    BY <1>2 DEF Nop, Plain
  <2> QED
    BY <2>1, TurnTyped, KeptTyped, PlainTyped, StepTyped, GoOnRuns, AllTyped
<1>3. CASE Output
  <2>1. Executing("PRINT") /\ Step1 /\ GoOn /\ Pop(1) /\ Plain
    BY <1>3 DEF Output, Plain
  <2> QED
    BY <2>1, TurnTyped, PopTyped, PlainTyped, StepTyped, GoOnRuns, AllTyped
<1>4. CASE PushNum
  <2>1. Executing("PUSH_NUM") /\ Step1 /\ GoOn /\ PopPush(0, ins.n, Kind) /\ Plain
    BY <1>4 DEF PushNum, Plain
  <2>2. ins.n \in Num
    BY <1>0, <2>1 DEF Operands, Executing
  <2> QED
    BY <2>1, <2>2, TurnTyped, PopPushTyped, PlainTyped, StepTyped, GoOnRuns, AllTyped
<1>5. CASE PushVar
  <2>1. Executing("PUSH_VAR") /\ Step1 /\ GoOn /\ PopPush(0, ToSigned(variables[ins.x]), Kind) /\ Plain
    BY <1>5 DEF PushVar, Plain
  <2>2. ins.x \in Var
    BY <1>0, <2>1 DEF Operands, Executing
  <2>4. ToSigned(variables[ins.x]) \in Num
    BY <2>2, VariableType
  <2> QED
    BY <2>1, <2>4, TurnTyped, PopPushTyped, PlainTyped, StepTyped, GoOnRuns, AllTyped
<1>6. CASE Binary
  <2>1. Executing("BINARY") /\ Step1 /\ GoOn /\ PopPush(2, Arith(ins.f, Word(2), Word(1)), Kind) /\ Plain
    BY <1>6 DEF Binary, Plain
  <2>2. ins.f \in Functions
    BY <1>0, <2>1 DEF Operands, Executing
  <2>3. Arith(ins.f, Word(2), Word(1)) \in Num
    BY <2>2, WordType, ArithType
  <2> QED
    BY <2>1, <2>3, TurnTyped, PopPushTyped, PlainTyped, StepTyped, GoOnRuns, AllTyped
<1>7. CASE Unary
  <2> DEFINE n == IF ins.f = "NOT" THEN Bool(Word(1) = 0) ELSE ToSigned(-Word(1))
  <2>1. Executing("UNARY") /\ Step1 /\ GoOn /\ PopPush(1, n, Kind) /\ Plain
    BY <1>7 DEF Unary, Plain
  <2>2. Word(1) \in Int
    BY WordType, Numbers
  <2>3. ToSigned(-Word(1)) \in Num
    BY <2>2, SignedType
  <2>4. Bool(Word(1) = 0) \in Num
    BY Numbers DEF Bool
  <2>5. n \in Num
    BY <2>3, <2>4
  <2> HIDE DEF n
  <2> QED
    BY <2>1, <2>5, TurnTyped, PopPushTyped, PlainTyped, StepTyped, GoOnRuns, AllTyped
<1>8. CASE HeapValue
  <2>1. Executing("HEAP_VALUE") /\ Plain
    BY <1>8 DEF HeapValue, Plain
  <2>2. ins.k \in Int
    BY <1>0, <2>1 DEF Operands, Executing
  <2>3. CASE Step1 /\ GoOn /\ \E n \in Opaque : PopPush(ins.k, n, Kind)
    <3>1. PICK n \in Opaque : PopPush(ins.k, n, Kind)
      BY <2>3
    <3>2. n \in Num
      BY Numbers
    <3> QED
      BY <2>1, <2>2, <2>3, <3>1, <3>2, TurnTyped, PopPushTyped, PlainTyped, StepTyped, GoOnRuns, AllTyped
  <2>4. CASE Fail /\ Pop(ins.k)
    <3>1. pc' \in Word16 /\ Leave("ERROR")
      BY <2>4 DEF Fail, VType, CountersTyped
    <3> QED
      BY <2>1, <2>2, <2>4, <3>1, TurnTyped, PopTyped, PlainTyped, LeaveRuns, AllTyped
  <2> QED
    BY <1>8, <2>3, <2>4 DEF HeapValue
<1>9. CASE Rnd
  <2>1. Executing("RND") /\ Step1 /\ GoOn /\ Plain
    BY <1>9 DEF Rnd, Plain
  <2>2. PICK n \in Random(Word(1)) : PopPush(1, n, Kind)
    BY <1>9 DEF Rnd
  <2>3. n \in Num
    BY WordType, RandomType
  <2> QED
    BY <2>1, <2>2, <2>3, TurnTyped, PopPushTyped, PlainTyped, StepTyped, GoOnRuns, AllTyped
<1> QED
  BY <1>1, <1>2, <1>3, <1>4, <1>5, <1>6, <1>7, <1>8, <1>9

\* A variable that is set.
LEMMA SetTyped == ASSUME VType, SameParams, NEW x \in Var, NEW n \in 0 .. 2 * Half - 1,
                         variables' = [variables EXCEPT ![x] = n]
                  PROVE psp' \in Byte /\ ValuesTyped'
  BY DEF VType, CountersTyped, ValuesTyped, SameParams

\* Instructions that change a variable.
LEMMA VariableInstructionsTyped == ASSUME VType, PopVar \/ HeapStore \/ Free \/ Next PROVE VType'
<1>0. Operands(ins)
  BY Instruction DEF VType
<1>1. CASE PopVar
  <2>1. Executing("POP_VAR") /\ Step1 /\ GoOn /\ Pop(1) /\ SameParams
        /\ loops' = loops /\ dataOffs' = dataOffs
        /\ variables' = [variables EXCEPT ![ins.x] = ToUnsigned(Word(1))]
    BY <1>1 DEF PopVar
  <2>2. ins.x \in Var
    BY <1>0, <2>1 DEF Operands, Executing
  <2>3. ToUnsigned(Word(1)) \in 0 .. 2 * Half - 1
    BY WordType, Numbers, UnsignedType
  <2>4. loops' \in Byte /\ dataOffs' \in Offsets
    BY <2>1 DEF VType, CountersTyped
  <2>5. psp' \in Byte /\ ValuesTyped'
    BY <2>1, <2>2, <2>3, SetTyped
  <2> QED
    BY <2>1, <2>4, <2>5, TurnTyped, PopTyped, StepTyped, GoOnRuns, AllTyped
<1>2. CASE HeapStore
  <2>1. Executing("HEAP_STORE") /\ Pop(ins.k) /\ SameParams /\ loops' = loops /\ dataOffs' = dataOffs
    BY <1>2 DEF HeapStore
  <2>2. ins.x \in Var /\ ins.k \in Int
    BY <1>0, <2>1 DEF Operands, Executing
  <2>3. loops' \in Byte /\ dataOffs' \in Offsets
    BY <2>1 DEF VType, CountersTyped
  <2>4. CASE /\ Step1 /\ GoOn
             /\ \E n \in Opaque \cup {variables[ins.x]} : variables' = [variables EXCEPT ![ins.x] = n]
    <3>1. PICK n \in Opaque \cup {variables[ins.x]} : variables' = [variables EXCEPT ![ins.x] = n]
      BY <2>4
    <3>2. n \in 0 .. 2 * Half - 1
      <4>1. CASE n \in Opaque
        <5>1. n \in 0 .. Half - 1
          BY <4>1, DataAssumption
        <5> QED
          BY <5>1, WordAssumption
      <4>2. CASE n = variables[ins.x]
        BY <2>2, <4>2 DEF VType, ValuesTyped
      <4> QED
        BY <4>1, <4>2
    <3> QED
      BY <2>1, <2>2, <2>3, <2>4, <3>1, <3>2, TurnTyped, PopTyped, SetTyped, StepTyped, GoOnRuns, AllTyped
  <2>5. CASE Fail /\ UNCHANGED variables
    <3>1. pc' \in Word16 /\ Leave("ERROR") /\ Plain
      BY <2>1, <2>5 DEF Fail, VType, CountersTyped, Plain
    <3> QED
      BY <2>1, <2>2, <3>1, TurnTyped, PopTyped, PlainTyped, LeaveRuns, AllTyped
  <2> QED
    BY <1>2, <2>4, <2>5 DEF HeapStore
<1>3. CASE Free
  <2>1. Executing("FREE") /\ Step1 /\ GoOn /\ sp' = sp /\ Plain
    BY <1>3 DEF Free, Plain
  <2>2. PICK n \in Random(Word(1)) : stack' = [stack EXCEPT ![Slot(sp - 1)] = n]
    BY <1>3 DEF Free
  <2>3. n \in Num
    BY WordType, RandomType
  <2>4. sp - 1 \in Int /\ sp' \in Word16
    BY <2>1, CountersAreNumbers DEF VType, CountersTyped
  <2>5. StackTyped'
    BY <2>2, <2>3, <2>4, SlotType DEF VType, StackTyped
  <2> QED
    BY <2>1, <2>4, <2>5, TurnTyped, PlainTyped, StepTyped, GoOnRuns, AllTyped
<1>4. CASE Next
  <2> DEFINE n == ToUnsigned(variables[ins.x] + Word(1))
  <2>1. Executing("NEXT") /\ GoOn /\ SameParams /\ dataOffs' = dataOffs
        /\ variables' = [variables EXCEPT ![ins.x] = n]
    BY <1>4 DEF Next
  <2>2. ins.x \in Var /\ ins.to \in Nat
    BY <1>0, <2>1 DEF Operands, Executing
  <2>3. variables[ins.x] \in Int
    BY <2>2, WordAssumption DEF VType, ValuesTyped
  <2>4. n \in 0 .. 2 * Half - 1
    <3>1. variables[ins.x] + Word(1) \in Int
      BY <2>3, WordNumber
    <3> QED
      BY <3>1, UnsignedType
  <2>5. \/ GoTo(ins.to) /\ SameStack /\ loops' = loops
        \/ Step1 /\ Pop(2) /\ loops' = (loops - 1) % 256
    BY <1>4 DEF Next
  <2> HIDE DEF n
  <2>6. psp' \in Byte /\ ValuesTyped' /\ dataOffs' \in Offsets
    BY <2>1, <2>2, <2>4, SetTyped DEF VType, CountersTyped
  <2>7. CASE GoTo(ins.to) /\ SameStack /\ loops' = loops
    <3>1. loops' \in Byte
      BY <2>7 DEF VType, CountersTyped
    <3>2. pc' \in Word16
      BY <2>2, <2>7, GoneTyped
    <3> QED
      BY <2>1, <2>6, <2>7, <3>1, <3>2, TurnTyped, KeptTyped, GoOnRuns, AllTyped
  <2>8. CASE Step1 /\ Pop(2) /\ loops' = (loops - 1) % 256
    <3>1. loops - 1 \in Int
      BY CountersAreNumbers DEF VType, CountersTyped
    <3>2. loops' \in Byte
      BY <2>8, <3>1, Wrapped
    <3> QED
      BY <2>1, <2>6, <2>8, <3>2, TurnTyped, PopTyped, StepTyped, GoOnRuns, AllTyped
  <2> QED
    BY <2>5, <2>7, <2>8
<1> QED
  BY <1>1, <1>2, <1>3, <1>4

\* Where jumps and calls go.
LEMMA TargetType == ASSUME VType, NEW idx \in Int, ins.n \in Nat
                    PROVE Target(idx) \in Int /\ pc + 1 + ins.n \in Int /\ pc + 1 \in Int
  BY CountersAreNumbers DEF VType, CountersTyped, Target

\* Instructions that jump.
LEMMA JumpsTyped ==
    ASSUME VType, Goto \/ If \/ Gosub \/ Return \/ Reti \/ OnGoto \/ OnGosub
    PROVE  VType'
<1>0. Operands(ins) /\ pc \in Int /\ Word(1) \in Int
  BY Instruction, WordNumber, CountersAreNumbers DEF VType, CountersTyped
<1>1. CASE Goto
  <2>1. Executing("GOTO") /\ GoTo(ins.to) /\ GoOn /\ SameStack /\ Plain
    BY <1>1 DEF Goto, Plain
  <2>2. ins.to \in Int
    BY <1>0, <2>1 DEF Operands, Executing
  <2> QED
    BY <2>1, <2>2, TurnTyped, KeptTyped, PlainTyped, GoneTyped, GoOnRuns, AllTyped
<1>2. CASE If
  <2>1. Executing("IF") /\ GoTo(IF Word(1) = 0 THEN ins.to ELSE pc + 1) /\ GoOn /\ Pop(1) /\ Plain
    BY <1>2 DEF If, Plain
  <2>2. ins.to \in Int
    BY <1>0, <2>1 DEF Operands, Executing
  <2>3. (IF Word(1) = 0 THEN ins.to ELSE pc + 1) \in Int
    BY <1>0, <2>2
  <2>4. pc' \in Word16
    BY <2>1, <2>3, GoneTyped
  <2> QED
    BY <2>1, <2>4, TurnTyped, PopTyped, PlainTyped, GoOnRuns, AllTyped
<1>3. CASE Gosub
  <2>1. Executing("GOSUB") /\ Plain
    BY <1>3 DEF Gosub, Plain
  <2>2. ins.to \in Int
    BY <1>0, <2>1 DEF Operands, Executing
  <2>3. CASE GoTo(ins.to) /\ GoOn /\ PopPush(0, ReturnWord(pc + 1), ReturnTo)
    <3>1. ReturnWord(pc + 1) \in Num
      BY <1>0, SignedType DEF ReturnWord
    <3> QED
      BY <2>1, <2>2, <2>3, <3>1, TurnTyped, PopPushTyped, PlainTyped, GoneTyped, GoOnRuns, AllTyped
  <2>4. CASE Fail /\ SameStack
    <3>1. pc' \in Word16 /\ Leave("ERROR")
      BY <2>4 DEF Fail, VType, CountersTyped
    <3> QED
      BY <2>1, <2>4, <3>1, TurnTyped, KeptTyped, PlainTyped, LeaveRuns, AllTyped
  <2> QED
    BY <1>3, <2>3, <2>4 DEF Gosub
<1>4. CASE Return
  <2>1. Executing("RETURN") /\ GoTo(Word(1)) /\ GoOn /\ Pop(1) /\ Plain
    BY <1>4 DEF Return, Plain
  <2> QED
    BY <1>0, <2>1, TurnTyped, PopTyped, PlainTyped, GoneTyped, GoOnRuns, AllTyped
<1>5. CASE Reti
  <2>1. Executing("RETI") /\ GoTo(Word(1)) /\ Leave("RETI") /\ Pop(1) /\ Plain
    BY <1>5 DEF Reti, Plain
  <2> QED
    BY <1>0, <2>1, TurnTyped, PopTyped, PlainTyped, GoneTyped, LeaveRuns, AllTyped
<1>6. CASE OnGoto
  <2>1. Executing("ON_GOTO") /\ GoTo(Target(Wrap16(Word(1)))) /\ GoOn /\ Pop(1) /\ Plain
    BY <1>6 DEF OnGoto, Plain
  <2>2. ins.n \in Nat
    BY <1>0, <2>1 DEF Operands, Executing
  <2>3. Wrap16(Word(1)) \in Int
    BY WordNumber
  <2>4. pc' \in Word16
    BY <2>1, <2>2, <2>3, TargetType, GoneTyped
  <2> QED
    BY <2>1, <2>4, TurnTyped, PopTyped, PlainTyped, GoOnRuns, AllTyped
<1>7. CASE OnGosub
  <2> DEFINE idx == Wrap16(Word(1))
  <2>1. Executing("ON_GOSUB") /\ Plain
    BY <1>7 DEF OnGosub, Plain
  <2>2. ins.n \in Nat
    BY <1>0, <2>1 DEF Operands, Executing
  <2>3. idx \in Int
    BY WordNumber
  <2>4. Target(idx) \in Int /\ ReturnWord(pc + 1 + ins.n) \in Num
    BY <2>2, <2>3, TargetType, SignedType DEF ReturnWord
  <2>5. \/ GoTo(Target(idx)) /\ GoOn /\ Pop(1)
        \/ GoTo(Target(idx)) /\ GoOn /\ PopPush(1, ReturnWord(pc + 1 + ins.n), ReturnTo)
        \/ Leave("ERROR") /\ Step1 /\ Pop(1)
    BY <1>7 DEF OnGosub, Leave
  <2> HIDE DEF idx
  <2>6. CASE GoTo(Target(idx)) /\ GoOn /\ Pop(1)
    BY <2>1, <2>4, <2>6, TurnTyped, PopTyped, PlainTyped, GoneTyped, GoOnRuns, AllTyped
  <2>7. CASE GoTo(Target(idx)) /\ GoOn /\ PopPush(1, ReturnWord(pc + 1 + ins.n), ReturnTo)
    BY <2>1, <2>4, <2>7, TurnTyped, PopPushTyped, PlainTyped, GoneTyped, GoOnRuns, AllTyped
  <2>8. CASE Leave("ERROR") /\ Step1 /\ Pop(1)
    BY <2>1, <2>8, TurnTyped, PopTyped, PlainTyped, StepTyped, LeaveRuns, AllTyped
  <2> QED
    BY <2>5, <2>6, <2>7, <2>8
<1> QED
  BY <1>1, <1>2, <1>3, <1>4, <1>5, <1>6, <1>7

\* The rest: loops, data, parameters and external functions.
LEMMA OtherInstructionsTyped ==
    ASSUME VType, For \/ Read \/ Restore \/ PushParam \/ Param \/ Xfunc \/ Break \/ OutOfCycles
    PROVE  VType'
<1>0. Operands(ins) /\ Word(1) \in Num /\ Word(1) \in Int
  BY Instruction, WordType, WordNumber DEF VType
<1>a. loops \in Int /\ dataOffs \in Int /\ psp \in Int
  BY CountersAreNumbers DEF VType, CountersTyped
<1>1. CASE For
  <2>1. Executing("FOR") /\ SameStack /\ loops' = (loops + 1) % 256 /\ dataOffs' = dataOffs
        /\ SameParams /\ variables' = variables
    BY <1>1 DEF For
  <2>2. loops + 1 \in Int
    BY <1>a
  <2>3. loops' \in Byte /\ dataOffs' \in Offsets
    BY <2>1, <2>2, Wrapped DEF VType, CountersTyped
  <2>4. psp' \in Byte /\ ValuesTyped'
    BY <2>1 DEF VType, CountersTyped, ValuesTyped, SameParams
  <2>5. CASE Step1 /\ GoOn
    BY <2>1, <2>3, <2>4, <2>5, TurnTyped, KeptTyped, StepTyped, GoOnRuns, AllTyped
  <2>6. CASE Fail
    <3>1. pc' \in Word16 /\ Leave("ERROR")
      BY <2>6 DEF Fail, VType, CountersTyped
    <3> QED
      BY <2>1, <2>3, <2>4, <3>1, TurnTyped, KeptTyped, LeaveRuns, AllTyped
  <2>7. (Step1 /\ GoOn) \/ Fail
    BY <1>1, Zenon DEF For
  <2> QED
    BY <2>5, <2>6, <2>7
<1>2. CASE Read
  <2>1. Executing("READ") /\ SameParams /\ loops' = loops /\ variables' = variables
    BY <1>2 DEF Read
  <2>2. psp' \in Byte /\ loops' \in Byte /\ ValuesTyped'
    BY <2>1 DEF VType, CountersTyped, ValuesTyped, SameParams
  <2>3. CASE /\ DataLeft /\ PopPush(0, prog.data[dataOffs + 1].n, Kind)
             /\ dataOffs' = (dataOffs + 1) % 16384
             /\ Step1 /\ GoOn
    <3>4. prog.data[dataOffs + 1].n \in Num
      BY <2>3, DataType
    <3>5. dataOffs + 1 \in Int
      BY CountersAreNumbers DEF VType, CountersTyped
    <3>6. dataOffs' \in Offsets
      BY <2>3, <3>5, Wrapped
    <3> QED
      BY <2>1, <2>2, <2>3, <3>4, <3>6, TurnTyped, PopPushTyped, StepTyped, GoOnRuns, AllTyped
  <2>4. CASE Fail /\ SameStack /\ UNCHANGED dataOffs
    <3>1. pc' \in Word16 /\ Leave("ERROR") /\ dataOffs' \in Offsets
      BY <2>4 DEF Fail, VType, CountersTyped
    <3> QED
      BY <2>1, <2>2, <2>4, <3>1, TurnTyped, KeptTyped, LeaveRuns, AllTyped
  <2> QED
    BY <1>2, <2>3, <2>4 DEF Read
<1>3. CASE Restore
  <2>1. Executing("RESTORE") /\ Step1 /\ GoOn /\ Pop(1) /\ SameParams
        /\ loops' = loops /\ variables' = variables /\ dataOffs' = Word(1) % 16384
    BY <1>3 DEF Restore
  <2>2. psp' \in Byte /\ loops' \in Byte /\ ValuesTyped'
    BY <2>1 DEF VType, CountersTyped, ValuesTyped, SameParams
  <2>3. dataOffs' \in Offsets
    BY <1>0, <2>1, Wrapped
  <2> QED
    BY <2>1, <2>2, <2>3, TurnTyped, PopTyped, StepTyped, GoOnRuns, AllTyped
<1>4. CASE PushParam
  <2>1. Executing("PUSH_PARAM") /\ Step1 /\ GoOn /\ Pop(1) /\ PPush(Word(1))
        /\ loops' = loops /\ dataOffs' = dataOffs
    BY <1>4 DEF PushParam
  <2>2. loops' \in Byte /\ dataOffs' \in Offsets
    BY <2>1 DEF VType, CountersTyped
  <2> QED
    BY <1>0, <2>1, <2>2, TurnTyped, PopTyped, PushedParamTyped, StepTyped, GoOnRuns, AllTyped
<1>5. CASE Param
  <2>1. Executing("PARAM") /\ Step1 /\ GoOn /\ loops' = loops /\ dataOffs' = dataOffs
    BY <1>5 DEF Param
  <2>2. loops' \in Byte /\ dataOffs' \in Offsets
    BY <2>1 DEF VType, CountersTyped
  <2>3. CASE PPop /\ PopPush(0, PWord, Kind)
    <3>1. psp - 1 \in Int
      BY <1>a
    <3>2. psp' \in Byte
      BY <2>3, <3>1, Wrapped DEF PPop
    <3>3. ValuesTyped'
      BY <2>3 DEF PPop, VType, ValuesTyped
    <3> QED
      BY <2>1, <2>2, <2>3, <3>2, <3>3, TurnTyped, ParamWordType, PopPushTyped, StepTyped, GoOnRuns, AllTyped
  <2>4. CASE SameParams /\ UNCHANGED variables /\ PopPush(0, 0, Kind)
    <3>1. psp' \in Byte /\ ValuesTyped'
      BY <2>4 DEF VType, CountersTyped, ValuesTyped, SameParams
    <3> QED
      BY <2>1, <2>2, <2>4, <3>1, Numbers, TurnTyped, PopPushTyped, StepTyped, GoOnRuns, AllTyped
  <2> QED
    BY <1>5, <2>3, <2>4 DEF Param
<1>6. CASE Xfunc
  <2>1. Executing("XFUNC") /\ Step1 /\ SameStack /\ Plain
        /\ mode' = "host" /\ owed' = <<ins.pars, ins.res>>
    BY <1>6 DEF Xfunc, Plain
  <2>2. ins.pars \in Nat /\ ins.res \in 0 .. 1
    BY <1>0, <2>1 DEF Operands, Executing
  <2>3. Runs
    BY <2>1, <2>2 DEF Runs
  <2> QED
    BY <2>1, <2>3, TurnTyped, KeptTyped, PlainTyped, StepTyped, AllTyped
<1>7. CASE Break
  <2>1. Executing("BREAK") /\ Step1 /\ SameStack /\ PPush(ins.n) /\ loops' = loops /\ dataOffs' = dataOffs
        /\ mode' = "host" /\ owed' = <<1, 0>>
    BY <1>7 DEF Break
  <2>2. ins.n \in Num
    BY <1>0, <2>1 DEF Operands, Executing
  <2>3. Runs /\ loops' \in Byte /\ dataOffs' \in Offsets
    BY <2>1 DEF Runs, VType, CountersTyped
  <2> QED
    BY <2>1, <2>2, <2>3, TurnTyped, KeptTyped, PushedParamTyped, StepTyped, AllTyped
<1>8. CASE OutOfCycles
  <2>1. Leave("BUSY") /\ prog' = prog /\ SameStack /\ Plain /\ pc' = pc /\ cycles' = Wrap16(cycles - 1)
    BY <1>8 DEF OutOfCycles, machine, SameStack, Plain, SameParams
  <2>2. cycles - 1 \in Int
    BY CountersAreNumbers DEF VType, CountersTyped
  <2>3. cycles' \in Word16 /\ pc' \in Word16 /\ prog' \in Programs
    BY <2>1, <2>2, Wrapped DEF VType, CountersTyped
  <2> QED
    BY <2>1, <2>3, KeptTyped, PlainTyped, LeaveRuns, AllTyped
<1> QED
  BY <1>1, <1>2, <1>3, <1>4, <1>5, <1>6, <1>7, <1>8

-----------------------------------------------------------------------------
\* What the machine starts with.
LEMMA SmallNumbers == /\ 0 \in Num /\ 0 \in Word16 /\ 1 \in Word16 /\ 0 \in Byte /\ 0 \in Offsets
                      /\ 0 \in 0 .. 2 * Half - 1
<1>1. 0 \in Word16 /\ 1 \in Word16 /\ 0 \in Byte /\ 0 \in Offsets
  BY DEF Word16, Byte, Offsets
<1>2. 0 \in 0 .. 2 * Half - 1
  BY WordAssumption
<1> QED
  BY <1>1, <1>2, Numbers

\* The host.
LEMMA HostTyped ==
    ASSUME VType, HostStep \/ (\E e \in prog.routines, n \in Opaque : Interrupt(e, n)) \/ Reset
    PROVE  VType'
<1>a. sp' = sp => sp' \in Word16
  BY DEF VType, CountersTyped
<1>b. psp \in Nat /\ psp \in Byte /\ StackSize \in Nat /\ ParamSize \in Nat
  BY CountersAreNumbers, StackAssumption, ParamAssumption DEF VType, CountersTyped
<1>c. 0 \in Num /\ 0 \in Word16 /\ 1 \in Word16 /\ 0 \in Byte /\ 0 \in Offsets /\ 0 \in 0 .. 2 * Half - 1
  BY SmallNumbers
<1>1. ASSUME NEW budget \in Budgets, Run(budget) PROVE VType'
  <2>1. cycles' \in Word16
    BY <1>1, DataAssumption DEF Run
  <2> QED
    BY <1>1, <2>1 DEF Run, machine, VType, CountersTyped, StackTyped, ValuesTyped
<1>2. ASSUME NEW n \in Opaque, Answer(n) PROVE VType'
  <2> DEFINE left == IF psp < owed[1] THEN 0 ELSE psp - owed[1]
  <2>1. prog' = prog /\ pc' = pc /\ loops' = loops /\ dataOffs' = dataOffs /\ cycles' = cycles /\ mode' = mode
        /\ owed' = <<>> /\ SameStack
    BY <1>2 DEF Answer
  <2>2. owed \in Nat \X (0 .. 1)
    BY <1>2 DEF VType, Answer
  <2>3. owed[1] \in Nat
    BY <2>2
  <2>4. left \in Nat /\ left <= psp
    BY <1>b, <2>3
  <2>5. left \in Byte /\ (left + 1) % 256 \in Byte
    <3>1. left + 1 \in Int
      BY <2>4
    <3>2. (left + 1) % 256 \in Byte
      BY <3>1, Wrapped
    <3>3. left \in Byte
      BY <1>b, <2>4 DEF Byte
    <3> QED
      BY <3>2, <3>3
  <2>6. \/ psp' = left /\ UNCHANGED <<params, variables>>
        \/ left < StackSize /\ psp' = (left + 1) % 256 /\ Written(left, n)
    BY <1>2, <1>b, <2>4 DEF Answer, Written
  <2> HIDE DEF left
  <2>7. psp' \in Byte /\ ValuesTyped'
    <3>1. CASE psp' = left /\ UNCHANGED <<params, variables>>
      BY <2>5, <3>1 DEF VType, ValuesTyped
    <3>2. CASE left < StackSize /\ psp' = (left + 1) % 256 /\ Written(left, n)
      <4>1. left \in 0 .. StackSize - 1
        BY <1>b, <2>4, <3>2
      <4>2. n \in Num
        BY Numbers
      <4> QED
        BY <2>5, <3>2, <4>1, <4>2, WrittenTyped
    <3> QED
      BY <2>6, <3>1, <3>2
  <2>8. sp' \in Word16 /\ StackTyped'
    BY <2>1, KeptTyped
  <2> QED
    BY <2>1, <2>7, <2>8 DEF VType, CountersTyped
<1>3. ASSUME NEW e \in prog.routines, NEW n \in Opaque, Interrupt(e, n) PROVE VType'
  <2>1. prog' = prog /\ loops' = loops /\ dataOffs' = dataOffs /\ cycles' = cycles /\ mode' = mode
        /\ owed' = owed /\ PopPush(0, ReturnWord(pc), ReturnTo) /\ pc' = e.at
    BY <1>3 DEF Interrupt
  <2>2. pc' \in Word16
    BY <2>1, ProgramAssumption DEF VType
  <2>3. pc \in Int
    BY CountersAreNumbers DEF VType, CountersTyped
  <2>4. sp' \in Word16 /\ StackTyped'
    BY <2>1, <2>3, SignedType, PopPushTyped DEF ReturnWord
  <2>5. PPush(n) \/ UNCHANGED <<psp, params, variables>>
    BY <1>3 DEF Interrupt
  <2>6. psp' \in Byte /\ ValuesTyped'
    BY <2>5, Numbers, PushedParamTyped DEF VType, CountersTyped, ValuesTyped
  <2> QED
    BY <2>1, <2>2, <2>4, <2>6 DEF VType, CountersTyped
<1>4. CASE Reset
  <2>1. StackTyped' /\ ValuesTyped' /\ psp' = 0 /\ pc' = 1 /\ sp' = 0
    BY <1>4, <1>c DEF Reset, StackTyped, ValuesTyped
  <2>2. psp' \in Byte
    BY <1>c, <2>1
  <2> QED
    BY <1>4, <1>c, <2>1, <2>2 DEF Reset, VType, CountersTyped
<1> QED
  BY <1>1, <1>2, <1>3, <1>4 DEF HostStep

\* At the start.
LEMMA InitTyped == ASSUME Init PROVE VType
<1>1. 0 \in Num /\ 0 \in Word16 /\ 1 \in Word16 /\ 0 \in Byte /\ 0 \in Offsets /\ 0 \in 0 .. 2 * Half - 1
  BY SmallNumbers
<1> QED
  BY <1>1 DEF Init, Fresh, VType, CountersTyped, StackTyped, ValuesTyped

\* Every step keeps the types.
LEMMA StepsTyped == ASSUME VType, [Steps]_vars PROVE VType'
<1>1. CASE UNCHANGED vars
  BY <1>1 DEF vars, machine, VType, CountersTyped, StackTyped, ValuesTyped
<1>2. CASE VMStep
  BY <1>2, PlainInstructionsTyped, VariableInstructionsTyped, JumpsTyped, OtherInstructionsTyped, Zenon DEF VMStep
<1>3. CASE ~VMStep /\ Steps
  BY <1>3, HostTyped, Zenon DEF Steps
<1> QED
  BY <1>1, <1>2, <1>3

\* Counters and words keep their C types, whatever program is run: also when
\* the stacks overflow and parameters are written over the variables.
THEOREM TypeCorrect == Spec => []TypeOK
<1>1. Init => VType
  BY InitTyped
<1>2. VType /\ [Steps]_vars => VType'
  BY StepsTyped
<1>3. VType => TypeOK
  BY DEF VType, CountersTyped, StackTyped, ValuesTyped, TypeOK
<1> QED
  BY <1>1, <1>2, <1>3, PTL DEF Spec
=============================================================================
