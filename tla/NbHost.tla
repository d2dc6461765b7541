-------------------------------- MODULE NbHost --------------------------------
(***************************************************************************)
(* The Lua binding (src/src/nb_lua.c): handles with a machine and a screen *)
(* each, the loop of run() around nb_run, the external functions it        *)
(* answers itself, printing, and machines that are packed into strings and *)
(* unpacked again.  What a machine computes is left open: nb_run changes   *)
(* its memory, prints, and returns what NbVM says it may return.           *)
(***************************************************************************)
EXTENDS NbScreen, FiniteSets

CONSTANTS Handle,     \* userdata of Lua
          Machine,    \* t_VMs that malloc can deliver
          Null,
          Memory,     \* what can be in a t_VM
          Texts,      \* what is printed at a time, formatted
          Ready,      \* "Ready.\n"
          Budgets,    \* cycles of a call of run
          Numbers,    \* parameters of setcur and clrline
          Packers     \* handles that Lua packs

MaxCycles == 65535     \* nb_run takes a uint16_t

ASSUME HostAssumption ==
    /\ Null \notin Handle \cup Machine \cup Memory
    /\ Texts \cup {Ready} \subseteq Seq(Char)
    /\ Budgets \subseteq 0 .. MaxCycles
    /\ Numbers \subseteq Int
    /\ Packers \subseteq Handle

Answered == {"SETCUR", "GETCUR", "CLRSCR", "CLRLINE", "SGN"}  \* GETCURX and GETCURY as one
Functions == Answered \cup {"other"}
Results == {"END", "ERROR", "BREAK", "BUSY", "RETI"} \cup Functions
GoesOn(r) == r \in {"BUSY", "RETI"} \cup Functions              \* res >= NB_BUSY

VARIABLES
    vm,        \* handle -> its machine; Null after destroy
    screen,    \* handle -> its screen
    made,      \* handles that exist
    mem,       \* machine -> its memory; Null if it is not allocated
    cpu,       \* p_Cpu
    call,      \* the function of the binding that is executing, or "none"
    self,      \* C: the handle it was called with, or Null
    at,        \* where it is
    out,       \* what nb_print has still to write
    cycles, res,
    packed,    \* a string that pack_vm made, or Null
    astray     \* memory was used that is nobody's

vars == <<vm, screen, made, mem, cpu, call, self, at, out, cycles, res, packed, astray>>

Init == /\ vm = [h \in Handle |-> Null]
        /\ screen = [h \in Handle |-> FreshScreen]
        /\ made = {}
        /\ mem = [m \in Machine |-> Null]
        /\ cpu = Null /\ call = "none" /\ self = Null /\ at = "lua" /\ out = <<>>
        /\ cycles = 0 /\ res = "BUSY"
        /\ packed = Null /\ astray = FALSE

-----------------------------------------------------------------------------
\* nb_print: the text is cut to the length of a line, and written character by
\* character to the screen of p_Cpu, or nowhere.
Cut(t) == IF Len(t) > LineLen THEN SubSeq(t, 1, LineLen) ELSE t
nb_print(t) == out' = IF cpu = Null THEN <<>> ELSE Cut(t)

PrintChar ==
    /\ ~astray /\ out # <<>>
    /\ IF WritesBehind(screen[cpu], Head(out))
       THEN astray' = TRUE /\ UNCHANGED screen
       ELSE screen' = [screen EXCEPT ![cpu] = Printed(@, Head(out))] /\ UNCHANGED astray
    /\ out' = Tail(out)
    /\ UNCHANGED <<vm, made, mem, cpu, call, self, at, cycles, res, packed>>

\* A function of the binding begins with the handle that Lua gives it; its code
\* between two prints.
Begin(function, h, place) == call' = function /\ self' = h /\ at' = place
End == call' = "none" /\ self' = Null /\ at' = "lua"
Called(h) == call = "none" /\ ~astray /\ h \in made /\ vm[h] # Null
Inside(place) == ~astray /\ at = place /\ out = <<>>

FreeMachine == {m \in Machine : mem[m] = Null}

-----------------------------------------------------------------------------
\* create: the compiler prints its errors; the handle is good in any case.
Create(h) ==
    /\ call = "none" /\ ~astray /\ h \notin made
    /\ \E m \in FreeMachine : /\ vm' = [vm EXCEPT ![h] = m]
                              /\ \E x \in Memory : mem' = [mem EXCEPT ![m] = x]
    /\ screen' = [screen EXCEPT ![h] = FreshScreen]
    /\ made' = made \cup {h}
    /\ cpu' = h /\ Begin("create", h, "compile")
    /\ UNCHANGED <<out, cycles, res, packed, astray>>

CompileError(t) == /\ Inside("compile")
                   /\ nb_print(t)
                   /\ UNCHANGED <<vm, screen, made, mem, cpu, call, self, at, cycles, res, packed, astray>>

Return_mA == End /\ UNCHANGED cpu    \* p_Cpu is left behind
Return == End /\ cpu' = Null

Compiled == /\ Inside("compile")
            /\ Return
            /\ UNCHANGED <<vm, screen, made, mem, out, cycles, res, packed, astray>>

\* print
LuaPrint(h, t) == /\ call = "none" /\ ~astray /\ h \in made
                  /\ cpu' = h /\ Begin("print", h, "printing")
                  /\ out' = Cut(t)
                  /\ UNCHANGED <<vm, screen, made, mem, cycles, res, packed, astray>>

LuaPrinted == /\ Inside("printing")
              /\ Return
              /\ UNCHANGED <<vm, screen, made, mem, out, cycles, res, packed, astray>>

\* output_symbol_table and add_function call nb_print and leave p_Cpu as it is:
\* what they print goes nowhere.
SymbolTable(h) == /\ call = "none" /\ ~astray /\ h \in made
                  /\ Begin("output_symbol_table", h, "listing")
                  /\ UNCHANGED <<vm, screen, made, mem, cpu, out, cycles, res, packed, astray>>

AddFunction == /\ call = "none" /\ ~astray
               /\ Begin("add_function", Null, "listing")
               /\ UNCHANGED <<vm, screen, made, mem, cpu, out, cycles, res, packed, astray>>

Listed(t) == /\ Inside("listing")
             /\ nb_print(t)
             /\ UNCHANGED <<vm, screen, made, mem, cpu, call, self, at, cycles, res, packed, astray>>

ListingReturned == /\ Inside("listing")
                   /\ End
                   /\ UNCHANGED <<vm, screen, made, mem, cpu, out, cycles, res, packed, astray>>

-----------------------------------------------------------------------------
\* run
Run(h, n) == /\ Called(h)
             /\ cpu' = h /\ Begin("run", h, "loop")
             /\ cycles' = n /\ res' = "BUSY"
             /\ UNCHANGED <<vm, screen, made, mem, out, packed, astray>>

Enter == /\ Inside("loop") /\ cycles > 0 /\ GoesOn(res)
         /\ at' = "vm"
         /\ UNCHANGED <<vm, screen, made, mem, cpu, call, self, out, cycles, res, packed, astray>>

\* nb_run executes PRINT,
ProgramPrints(t) == /\ Inside("vm") /\ cycles > 1
                    /\ cycles' = cycles - 1
                    /\ nb_print(t)
                    /\ UNCHANGED <<vm, screen, made, mem, cpu, call, self, at, res, packed, astray>>

\* returns with a result,
MachineReturns_mA(r) ==             \* the caller's budget is not counted down
    /\ Inside("vm") /\ cycles > 1 /\ r # "BUSY"
    /\ res' = r
    /\ at' = IF r \in Functions THEN r ELSE "loop"
    /\ \E x \in Memory : mem' = [mem EXCEPT ![vm[self]] = x]
    /\ UNCHANGED <<vm, screen, made, cpu, call, self, out, cycles, packed, astray>>

MachineReturns(r) ==
    /\ Inside("vm") /\ cycles > 1 /\ r # "BUSY"
    /\ cycles' \in 1 .. cycles - 1
    /\ res' = r
    /\ at' = IF r \in Functions THEN r ELSE "loop"
    /\ \E x \in Memory : mem' = [mem EXCEPT ![vm[self]] = x]
    /\ UNCHANGED <<vm, screen, made, cpu, call, self, out, packed, astray>>

\* or is out of cycles.
MachineBusy == /\ Inside("vm")
               /\ cycles' = 0
               /\ res' = "BUSY" /\ at' = "loop"
               /\ \E x \in Memory : mem' = [mem EXCEPT ![vm[self]] = x]
               /\ UNCHANGED <<vm, screen, made, cpu, call, self, out, packed, astray>>

\* The functions the loop answers itself.
Answers(f) == /\ Inside(f)
              /\ at' = "loop"
              /\ UNCHANGED <<vm, made, mem, cpu, call, self, out, cycles, res, packed, astray>>

SetCur == /\ Answers("SETCUR")
          /\ \E x, y \in Numbers : screen' = [screen EXCEPT ![self] = CursorSet(@, x, y)]
ClrScr == /\ Answers("CLRSCR")
          /\ screen' = [screen EXCEPT ![self] = Cleared]
ClrLine == /\ Answers("CLRLINE")
           /\ \E y \in Numbers : screen' = [screen EXCEPT ![self] = LineCleared(@, y)]
PushAnswer == /\ Answers("GETCUR") \/ Answers("SGN")
              /\ UNCHANGED screen

\* Any other function is for Lua to answer, in the midst of the loop.
ToLua_mA == /\ Inside("other")
            /\ End /\ UNCHANGED cpu
            /\ UNCHANGED <<vm, screen, made, mem, out, cycles, res, packed, astray>>
ToLua == /\ Inside("other")
         /\ Return
         /\ UNCHANGED <<vm, screen, made, mem, out, cycles, res, packed, astray>>

LoopEnds == /\ Inside("loop") /\ ~(cycles > 0 /\ GoesOn(res))
            /\ IF res = "END" THEN nb_print(Ready) ELSE UNCHANGED out
            /\ at' = "returning"
            /\ UNCHANGED <<vm, screen, made, mem, cpu, call, self, cycles, res, packed, astray>>

RunReturned == /\ Inside("returning")
               /\ Return
               /\ UNCHANGED <<vm, screen, made, mem, out, cycles, res, packed, astray>>

-----------------------------------------------------------------------------
\* The calls that print nothing.
Quiet(h) == /\ call = "none" /\ ~astray /\ h \in made
            /\ UNCHANGED <<made, cpu, call, self, at, out, cycles, res>>

GetScreenBuffer(h) == /\ Quiet(h)
                      /\ screen' = [screen EXCEPT ![h].buf = WithLineEnds(@)]
                      /\ UNCHANGED <<vm, mem, packed, astray>>
ClearScreen(h) == /\ Quiet(h)
                  /\ screen' = [screen EXCEPT ![h] = Cleared]
                  /\ UNCHANGED <<vm, mem, packed, astray>>

\* reset, set_pc, push_num, pop_str, write_arr ...
UseMachine(h) == /\ Called(h) /\ Quiet(h)
                 /\ \E x \in Memory : mem' = [mem EXCEPT ![vm[h]] = x]
                 /\ UNCHANGED <<vm, screen, packed, astray>>

Destroy(h) == /\ Called(h) /\ Quiet(h)
              /\ mem' = [mem EXCEPT ![vm[h]] = Null]
              /\ vm' = [vm EXCEPT ![h] = Null]
              /\ UNCHANGED <<screen, packed, astray>>

\* The handle can still be used, the machine is gone.
UseDestroyed(h) == /\ call = "none" /\ ~astray /\ h \in made /\ vm[h] = Null
                   /\ astray' = TRUE
                   /\ UNCHANGED <<vm, screen, made, mem, cpu, call, self, at, out, cycles, res, packed>>

PackVm(h) == /\ Called(h) /\ Quiet(h) /\ h \in Packers
             /\ packed' = [vm |-> vm[h], screen |-> screen[h], mem |-> mem[vm[h]]]
             /\ UNCHANGED <<vm, screen, mem, astray>>

\* A new machine takes the packed memory.  The old one stays allocated; the
\* packed pointer is not used.
Unpacked_mA(h, m) == vm' = [vm EXCEPT ![h] = packed.vm]
Unpacked(h, m) == vm' = [vm EXCEPT ![h] = m]
UnpackVm(h) == /\ call = "none" /\ ~astray /\ h \in made /\ packed # Null
               /\ \E m \in FreeMachine : /\ mem' = [mem EXCEPT ![m] = packed.mem]
                                         /\ Unpacked(h, m)
               /\ screen' = [screen EXCEPT ![h] = packed.screen]
               /\ UNCHANGED <<made, cpu, call, self, at, out, cycles, res, packed, astray>>

-----------------------------------------------------------------------------
\* What C executes once it was called; what Lua calls.
Step == \/ PrintChar
        \/ \E t \in Texts : CompileError(t) \/ ProgramPrints(t) \/ Listed(t)
        \/ Compiled \/ LuaPrinted \/ ListingReturned
        \/ Enter
        \/ \E r \in Results : MachineReturns(r)
        \/ MachineBusy
        \/ SetCur \/ ClrScr \/ ClrLine \/ PushAnswer \/ ToLua
        \/ LoopEnds \/ RunReturned

Lua == \E h \in Handle :
          \/ Create(h)
          \/ \E t \in Texts : LuaPrint(h, t)
          \/ \E n \in Budgets : Run(h, n)
          \/ SymbolTable(h)
          \/ GetScreenBuffer(h) \/ ClearScreen(h) \/ UseMachine(h)
          \/ Destroy(h) \/ UseDestroyed(h)
          \/ PackVm(h) \/ UnpackVm(h)

Next == Step \/ Lua \/ AddFunction

\* A call executes until it returns; nothing makes Lua call.
Spec == Init /\ [][Next]_vars /\ WF_vars(Step)

-----------------------------------------------------------------------------
\* A screen whose cursor is in its line, or was taken out of it by tabulators.
Good == {s \in Screen : s.xpos < LineLen \/ s.xpos % TabStop = 0}

OutType == out \in Seq(Char) /\ Len(out) <= LineLen
PackedType == packed = Null \/ packed \in [vm : Machine, screen : Good, mem : Memory]
MachineType == vm \in [Handle -> Machine \cup {Null}] /\ mem \in [Machine -> Memory \cup {Null}]
Prints == {"create", "print", "run"}
CallType == /\ made \subseteq Handle
            /\ cpu \in Handle \cup {Null}
            /\ call \in {"none", "output_symbol_table", "add_function"} \cup Prints
            /\ self \in Handle \cup {Null}
            /\ at \in {"lua", "compile", "printing", "listing", "loop", "vm", "returning"}
                        \cup Functions
            /\ at = "lua" <=> call = "none"
BudgetType == cycles \in 0 .. MaxCycles /\ res \in Results

\* The cursor is in one of the lines, and behind its end only at a stop of the
\* tabulator, also in a string that is packed; a machine is allocated or not:
\* nb_cpu_t.  As all of these properties but the last, it says nothing of a
\* memory that was used behind its end.
TypeOK == ~astray => /\ screen \in [Handle -> Good]
                     /\ OutType /\ PackedType /\ MachineType /\ CallType /\ BudgetType

\* A machine serves one handle at most, and none is used that was freed, also
\* after a string was unpacked that holds the pointer of another handle's
\* machine, or of one that is gone (unpack_vm, nb_lua.c:391).
MachinesApart ==
    ~astray =>
      \A g, h \in Handle : vm[h] # Null => /\ mem[vm[h]] # Null
                                           /\ vm[g] = vm[h] => g = h

\* p_Cpu, the one variable that all handles share, is the handle that create,
\* print and run were called with as long as they execute, so that what they
\* print is not lost, and none at any other time, on every way out of them
\* (nb_lua.c:58).
CpuIsCallers ==
    ~astray => IF call \in Prints THEN self \in Handle /\ cpu = self
               ELSE cpu = Null /\ out = <<>>

\* What a call prints is seen on the screen of the handle it was made for and on
\* no other: also output_symbol_table and add_function, which call nb_print and
\* do not set p_Cpu (nb_lua.c:186, 361), do not write on the screen of whoever
\* printed before.
OutputIsCallers ==
    [][call # "none" /\ ~astray' =>
         \A h \in Handle : screen'[h] # screen[h] => h = self /\ call \in Prints]_vars

\* The array of lines that end in line ends, the scrolling and the external
\* functions are a terminal to the program, whatever is read, cleared, packed
\* and unpacked in between.  A tabulator in the last place of a line takes the
\* cursor behind it (nb_lua.c:165); nothing is said until it is back.
Term(h) == INSTANCE Terminal WITH
    Rows <- Lines, Width <- LineLen - 1, TabWidth <- TabStop, Chars <- Printable,
    Blank <- Space, text <- Shown(screen[h]), x <- screen[h].xpos, y <- screen[h].ypos

Restored(h) == /\ packed # Null
               /\ screen'[h] = packed.screen
OutOfLine(h) == screen[h].xpos >= LineLen \/ screen'[h].xpos >= LineLen

ImplementsTerminal ==
    /\ \A h \in Handle : Term(h)!TInit
    /\ [][\A h \in Handle : \/ Term(h)!TNext \/ UNCHANGED Term(h)!tvars
                            \/ Restored(h) \/ OutOfLine(h)]_screen

\* run returns: its budget is used up, whatever the program does and however
\* many external functions it calls.
RunReturns == call = "run" ~> call # "run" \/ astray
=============================================================================
