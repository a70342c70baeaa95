-------------------------------- MODULE Mips --------------------------------
(***************************************************************************)
(* The simulated processor (machine/mipssim.cc, machine/machine.cc and     *)
(* ReadMem and WriteMem of machine/translate.cc) with the exception        *)
(* handler and the system calls it calls (userprog/exception.cc).          *)
(*                                                                         *)
(* One OneInstruction is one action, then one OneTick, which may run       *)
(* interrupt handlers, then possibly the debugger.  Whether a page is      *)
(* present is left to VirtMem: any access may raise a page fault, after    *)
(* which the handler has made the page present and the access goes on.     *)
(* An instruction in memory is the record of its bit fields; memory is     *)
(* split in the text, which programs do not write, and the data.           *)
(***************************************************************************)
EXTENDS Words, Sequences

CONSTANTS GPR,         \* the general registers in use, of 0..31
          SC_Halt,     \* numbers of the system calls (userprog/syscall.h)
          SC_Add,
          TextSize,    \* bytes of the text; the data follow
          MemSize,     \* numPages * PageSize
          Programs,    \* programs, as instructions to be assembled
          Registers,   \* contents of the general registers at the start
          Data,        \* bytes of the data at the start
          Times        \* what runUntilTime may be set to

MipsAssumption ==
  /\ WordsAssumption
  /\ {0, 2, 4, 5, 29, 31} \subseteq GPR /\ GPR \subseteq 0..31
  /\ TextSize \in Nat /\ MemSize \in Nat /\ TextSize < MemSize
  /\ TextSize % 4 = 0
  /\ Registers \subseteq [GPR -> Word]
  /\ Data \in [TextSize..(MemSize - 1) -> 0..(2^ByteBits - 1)]

(* The other registers (machine.h) *)
HiReg == 32
LoReg == 33
PCReg == 34
NextPCReg == 35
PrevPCReg == 36
LoadReg == 37
LoadValueReg == 38
BadVAddrReg == 39
NumTotalRegs == 40
Reg == GPR \union (HiReg..(NumTotalRegs - 1))
StackReg == 29
R31 == 31

VARIABLES asm,          \* the program, one of Programs, never changed
          registers,    \* Machine::registers
          mainMemory,   \* bytes of the data
          phase,        \* where Machine::Run is, or how it ended
          totalTicks,   \* instructions since the start
          singleStep,   \* Machine::singleStep
          runUntilTime  \* Machine::runUntilTime

vars == <<asm, registers, mainMemory, phase, totalTicks, singleStep,
          runUntilTime>>

debugVars == <<singleStep, runUntilTime>>

-----------------------------------------------------------------------------
(* Decoding: opTable and specialTable translate the fields op and funct.   *)
opTable == <<
  "SPECIAL", "BCOND", "J", "JAL", "BEQ", "BNE", "BLEZ", "BGTZ",
  "ADDI", "ADDIU", "SLTI", "SLTIU", "ANDI", "ORI", "XORI", "LUI",
  "UNIMP", "UNIMP", "UNIMP", "UNIMP", "RES", "RES", "RES", "RES",
  "RES", "RES", "RES", "RES", "RES", "RES", "RES", "RES",
  "LB", "LH", "LWL", "LW", "LBU", "LHU", "LWR", "RES",
  "SB", "SH", "SWL", "SW", "RES", "RES", "SWR", "RES",
  "UNIMP", "UNIMP", "UNIMP", "UNIMP", "RES", "RES", "RES", "RES",
  "UNIMP", "UNIMP", "UNIMP", "UNIMP", "RES", "RES", "RES", "RES">>

Format(op) == CASE op = 0 -> "RFMT" [] op \in {2, 3} -> "JFMT"
                [] OTHER -> "IFMT"

specialTable == <<
  "SLL", "RES", "SRL", "SRA", "SLLV", "RES", "SRLV", "SRAV",
  "JR", "JALR", "RES", "RES", "SYSCALL", "UNIMP", "RES", "RES",
  "MFHI", "MTHI", "MFLO", "MTLO", "RES", "RES", "RES", "RES",
  "MULT", "MULTU", "DIV", "DIVU", "RES", "RES", "RES", "RES",
  "ADD", "ADDU", "SUB", "SUBU", "AND", "OR", "XOR", "NOR",
  "RES", "RES", "SLT", "SLTU", "RES", "RES", "RES", "RES",
  "RES", "RES", "RES", "RES", "RES", "RES", "RES", "RES",
  "RES", "RES", "RES", "RES", "RES", "RES", "RES", "RES">>

BCondCode(rt) ==
  CASE rt = 0 -> "BLTZ" [] rt = 1 -> "BGEZ" [] rt = 16 -> "BLTZAL"
    [] rt = 17 -> "BGEZAL" [] OTHER -> "UNIMP"

(* Instruction::Decode *)
Decode(raw) ==
  [opCode |-> CASE opTable[raw.op + 1] = "SPECIAL" -> specialTable[raw.funct + 1]
                [] opTable[raw.op + 1] = "BCOND" -> BCondCode(raw.rt)
                [] OTHER -> opTable[raw.op + 1],
   rs |-> raw.rs, rt |-> raw.rt, rd |-> raw.rd,
   extra |-> CASE Format(raw.op) = "IFMT" -> SignExtend(raw.imm, 2)
               [] Format(raw.op) = "RFMT" -> raw.shamt
               [] OTHER -> raw.target]

(* The assembler, which is not part of the code: the fields an instruction *)
(* of the manual is stored as.                                             *)
Index(table, name) == CHOOSE i \in DOMAIN table : table[i] = name
BCond == {"BLTZ", "BGEZ", "BLTZAL", "BGEZAL"}
Assemble(i) ==
  LET special == \E k \in DOMAIN specialTable :
                   specialTable[k] = i.op /\ i.op \notin {"RES", "UNIMP"}
  IN  [op |-> IF special THEN 0 ELSE IF i.op \in BCond THEN 1
              ELSE Index(opTable, i.op) - 1,
       funct |-> IF special THEN Index(specialTable, i.op) - 1 ELSE 0,
       rs |-> i.rs,
       rt |-> IF i.op \in BCond
              THEN CHOOSE r \in {0, 1, 16, 17} : BCondCode(r) = i.op ELSE i.rt,
       rd |-> i.rd,
       imm |-> Low(i.extra, 2), shamt |-> i.extra, target |-> i.extra]

-----------------------------------------------------------------------------
(* Machine::DelayedLoad *)
DelayedLoad(r, nextReg, nextValue) ==
  [r EXCEPT ![r[LoadReg]] = r[LoadValueReg],
            ![LoadReg] = nextReg, ![LoadValueReg] = nextValue, ![0] = 0]

(* Machine::RaiseException, up to the call of ExceptionHandler *)
Raised(r, badVAddr) == DelayedLoad([r EXCEPT ![BadVAddrReg] = badVAddr], 0, 0)

(* ... of an exception ExceptionHandler ends with ASSERTNOTREACHED. *)
RaiseException(r, which, badVAddr) ==
  /\ registers' = Raised(r, badVAddr)
  /\ phase' = which
  /\ UNCHANGED <<mainMemory, totalTicks>>

(* The registers after an access to addr that raises a page fault or not.  *)
Accessed(r, addr, fault) == IF fault THEN Raised(r, addr) ELSE r

(* The end of OneInstruction *)
Done(r, nextReg, nextValue, pcAfter) ==
  /\ registers' = [DelayedLoad(r, nextReg, nextValue) EXCEPT
                     ![PrevPCReg] = r[PCReg],
                     ![PCReg] = r[NextPCReg],
                     ![NextPCReg] = pcAfter]
  /\ phase' = "tick"
  /\ UNCHANGED totalTicks

-----------------------------------------------------------------------------
(* Mult(a, b, signedArith, hiPtr, loPtr).  The loop over the bits of a as  *)
(* a recursive function of the number of rounds, on unsigned words.        *)
Rounds(bits, b) ==
  LET round[n \in 0..WordBits] ==
        IF n = 0 THEN [bLo |-> b, bHi |-> 0, lo |-> 0, hi |-> 0]
        ELSE LET p == round[n - 1]
                 add == (n - 1) \in bits
                 lo == IF add THEN Unsigned(p.lo + p.bLo) ELSE p.lo
                 carry == IF add /\ lo < p.bLo THEN 1 ELSE 0
             IN  [bLo |-> Unsigned(2 * p.bLo),
                  bHi |-> Unsigned(2 * p.bHi
                                   + (p.bLo \div 2^(WordBits - 1))),
                  lo |-> lo,
                  hi |-> IF add THEN Unsigned(p.hi + carry + p.bHi)
                         ELSE p.hi]
  IN  round[WordBits]

(* The two's complement of the double word *)
Negated(p) ==
  [lo |-> Unsigned(-p.lo),
   hi |-> Unsigned((-p.hi - 1) + (IF p.lo = 0 THEN 1 ELSE 0))]

Product(p, negative) == IF negative THEN Negated(p) ELSE p

Mult(a, b, signedArith) ==
  IF a = 0 \/ b = 0 THEN [lo |-> 0, hi |-> 0]
  ELSE IF signedArith
  THEN Product(Rounds(Bits(Abs(a)), Unsigned(Abs(b))), (a < 0) # (b < 0))
  ELSE Product(Rounds(Bits(a), Unsigned(b)), FALSE)

-----------------------------------------------------------------------------
(* The instructions.  r are the registers after the fetch, i is decoded.   *)
Sum(x, y) == Wrap(x + y)
SignBit(x) == x < 0
SumOverflows(x, y) == SignBit(x) = SignBit(y) /\ SignBit(Sum(x, y)) # SignBit(x)
DiffOverflows(x, y) ==
  SignBit(x) # SignBit(y) /\ SignBit(Wrap(x - y)) # SignBit(x)
Flag(P) == IF P THEN 1 ELSE 0
HalfWord(x) == Low(x, 2)

RegisterOps == {"ADD", "ADDU", "SUB", "SUBU", "AND", "OR", "XOR", "NOR", "SLT",
                "SLTU", "SLL", "SLLV", "SRA", "SRAV", "SRL", "SRLV", "MFHI",
                "MFLO"}
ImmediateOps == {"ADDI", "ADDIU", "ANDI", "ORI", "XORI", "LUI", "SLTI",
                 "SLTIU"}

Overflows(i, a, b) ==
  \/ i.opCode = "ADD" /\ SumOverflows(a, b)
  \/ i.opCode = "ADDI" /\ SumOverflows(i.extra, a)
  \/ i.opCode = "SUB" /\ DiffOverflows(a, b)

(* SRL and SRLV shift an int, so that they copy the sign as SRA does.      *)
AluResult(r, i, a, b) ==
  CASE i.opCode \in {"ADD", "ADDU"} -> Sum(a, b)
    [] i.opCode \in {"ADDI", "ADDIU"} -> Sum(a, i.extra)
    [] i.opCode \in {"SUB", "SUBU"} -> Wrap(a - b)
    [] i.opCode = "AND" -> And(a, b)
    [] i.opCode = "ANDI" -> And(a, HalfWord(i.extra))
    [] i.opCode = "OR" -> Or(a, b)
    [] i.opCode = "ORI" -> Or(a, HalfWord(i.extra))
    [] i.opCode = "XOR" -> Xor(a, b)
    [] i.opCode = "XORI" -> Xor(a, HalfWord(i.extra))
    [] i.opCode = "NOR" -> Not(Or(a, b))
    [] i.opCode = "LUI" -> Wrap(i.extra * 2^(2 * ByteBits))
    [] i.opCode = "SLT" -> Flag(a < b)
    [] i.opCode = "SLTI" -> Flag(a < i.extra)
    [] i.opCode = "SLTU" -> Flag(Unsigned(a) < Unsigned(b))
    [] i.opCode = "SLTIU" -> Flag(Unsigned(a) < Unsigned(i.extra))
    [] i.opCode = "SLL" -> Wrap(b * 2^i.extra)
    [] i.opCode = "SLLV" -> Wrap(b * 2^(a % WordBits))
    [] i.opCode \in {"SRA", "SRL"} -> b \div 2^i.extra
    [] i.opCode \in {"SRAV", "SRLV"} -> b \div 2^(a % WordBits)
    [] i.opCode = "MFHI" -> r[HiReg]
    [] i.opCode = "MFLO" -> r[LoReg]

Alu(r, i, a, b) ==
  /\ i.opCode \in RegisterOps \union ImmediateOps
  /\ \/ Overflows(i, a, b) /\ RaiseException(r, "OverflowException", 0)
     \/ /\ ~Overflows(i, a, b)
        /\ Done([r EXCEPT ![IF i.opCode \in ImmediateOps THEN i.rt ELSE i.rd] =
                            AluResult(r, i, a, b)],
                0, 0, r[NextPCReg] + 4)
        /\ UNCHANGED mainMemory

HiLo(i, a, b) ==
  CASE i.opCode = "MULT" -> Mult(a, b, TRUE)
    [] i.opCode = "MULTU" -> Mult(a, b, FALSE)
    [] i.opCode = "DIV" ->
         IF b = 0 THEN [lo |-> 0, hi |-> 0]
         ELSE [lo |-> Quotient(a, b), hi |-> Remainder(a, b)]
    [] i.opCode = "DIVU" ->
         IF b = 0 THEN [lo |-> 0, hi |-> 0]
         ELSE [lo |-> Unsigned(a) \div Unsigned(b),
               hi |-> Unsigned(a) % Unsigned(b)]

SetHiLo(r, res) == [r EXCEPT ![HiReg] = Wrap(res.hi), ![LoReg] = Wrap(res.lo)]

(* The smallest int divided by -1 is undefined in C; the host's processor  *)
(* traps.  DIV by 0 is tested for.                                         *)
MultDiv(r, i, a, b) ==
  /\ i.opCode \in {"MULT", "MULTU", "DIV", "DIVU"}
  /\ \/ /\ i.opCode = "DIV" /\ b = -1 /\ -a \notin Word
        /\ phase' = "SIGFPE"
        /\ registers' = r
        /\ UNCHANGED totalTicks
     \/ /\ ~(i.opCode = "DIV" /\ b = -1 /\ -a \notin Word)
        /\ Done(SetHiLo(r, HiLo(i, a, b)), 0, 0, r[NextPCReg] + 4)
  /\ UNCHANGED mainMemory

MoveTo(r, i, a) ==
  /\ i.opCode \in {"MTHI", "MTLO"}
  /\ Done([r EXCEPT ![IF i.opCode = "MTHI" THEN HiReg ELSE LoReg] = a],
          0, 0, r[NextPCReg] + 4)
  /\ UNCHANGED mainMemory

(* Branches: the linking ones write their register before the test.        *)
BranchOps == {"BEQ", "BNE", "BGTZ", "BLEZ"} \union BCond
IndexToAddr(x) == 4 * x

Linked(r, i) ==
  CASE i.opCode \in {"BGEZAL", "BLTZAL", "JAL"} ->
         [r EXCEPT ![R31] = r[NextPCReg] + 4]
    [] i.opCode = "JALR" -> [r EXCEPT ![i.rd] = r[NextPCReg] + 4]
    [] OTHER -> r

TakesBranch(r, i) ==
  CASE i.opCode = "BEQ" -> r[i.rs] = r[i.rt]
    [] i.opCode = "BNE" -> r[i.rs] # r[i.rt]
    [] i.opCode \in {"BGEZ", "BGEZAL"} -> ~SignBit(r[i.rs])
    [] i.opCode \in {"BLTZ", "BLTZAL"} -> SignBit(r[i.rs])
    [] i.opCode = "BGTZ" -> r[i.rs] > 0
    [] i.opCode = "BLEZ" -> r[i.rs] <= 0

Branch(r, i) ==
  /\ i.opCode \in BranchOps
  /\ Done(r, 0, 0,
          r[NextPCReg] + (IF TakesBranch(r, i) THEN IndexToAddr(i.extra) ELSE 4))
  /\ UNCHANGED mainMemory

(* The top bits of a jump's target, an eighth of them, are those of pcAfter. *)
Region(x) == x - (x % 2^(WordBits - (WordBits \div 8)))

Jump(r, i) ==
  /\ i.opCode \in {"J", "JAL", "JR", "JALR"}
  /\ Done(r, 0, 0, IF i.opCode \in {"J", "JAL"}
                   THEN Region(r[NextPCReg] + 4) + IndexToAddr(i.extra)
                   ELSE r[i.rs])
  /\ UNCHANGED mainMemory

(* Machine::Translate refuses an address that is not aligned or beyond the *)
(* address space (negative ones are large unsigned numbers); an access to  *)
(* the text as data does not happen.                                       *)
Valid(addr, size) == addr % size = 0 /\ addr \in DOMAIN mainMemory

LoadOps == {"LB", "LBU", "LH", "LHU", "LW"}
StoreOps == {"SB", "SH", "SW"}
AccessSize(opCode) == CASE opCode \in {"LB", "LBU", "SB"} -> 1
                        [] opCode \in {"LH", "LHU", "SH"} -> 2
                        [] OTHER -> 4

ValueRead(i, addr) ==
  IF i.opCode \in {"LBU", "LHU"} THEN BytesAt(mainMemory, addr, AccessSize(i.opCode))
  ELSE SignExtend(BytesAt(mainMemory, addr, AccessSize(i.opCode)),
                  AccessSize(i.opCode))

Load(r, i, addr, fault) ==
  /\ i.opCode \in LoadOps
  /\ \/ /\ ~Valid(addr, AccessSize(i.opCode))
        /\ ~fault
        /\ RaiseException(r, "AddressErrorException", addr)
     \/ /\ Valid(addr, AccessSize(i.opCode))
        /\ Done(Accessed(r, addr, fault), i.rt, ValueRead(i, addr),
                r[NextPCReg] + 4)
        /\ UNCHANGED mainMemory

(* Machine::WriteMem *)
Written(addr, size, value) ==
  [a \in DOMAIN mainMemory |-> IF a \in addr..(addr + size - 1)
                               THEN ByteOf(value, a - addr) ELSE mainMemory[a]]

Store(r, i, addr, fault) ==
  /\ i.opCode \in StoreOps
  /\ \/ /\ ~Valid(addr, AccessSize(i.opCode))
        /\ ~fault
        /\ RaiseException(r, "AddressErrorException", addr)
     \/ /\ Valid(addr, AccessSize(i.opCode))
        /\ mainMemory' = Written(addr, AccessSize(i.opCode), r[i.rt])
        /\ Done(Accessed(r, addr, fault), 0, 0, r[NextPCReg] + 4)

(* LWL and LWR merge value with the register or, when it has not been      *)
(* written yet, with the load of it that is pending.  k is 3 - byte.       *)
(* Mistake: the pending load is not looked at. *)
OldValueOfRegister(r, i) == r[i.rt]

OldValue(r, i) == IF r[LoadReg] = i.rt THEN r[LoadValueReg] ELSE r[i.rt]

LoadMerged(i, old, value, k) ==
  IF i.opCode = "LWL"
  THEN Wrap(Low(old, k) + value * 2^(ByteBits * k))
  ELSE Wrap(High(old, k + 1) + Low(value \div 2^(ByteBits * (3 - k)), k + 1))

LoadPart(r, i, addr, fault) ==
  /\ i.opCode \in {"LWL", "LWR"}
  /\ \/ /\ ~Valid(addr - (addr % 4), 4)
        /\ ~fault
        /\ RaiseException(r, "AddressErrorException", addr - (addr % 4))
     \/ /\ Valid(addr - (addr % 4), 4)
        /\ Done(Accessed(r, addr - (addr % 4), fault), i.rt,
                LoadMerged(i, OldValue(Accessed(r, addr - (addr % 4), fault), i),
                           Wrap(BytesAt(mainMemory, addr - (addr % 4), 4)),
                           3 - (addr % 4)),
                r[NextPCReg] + 4)
        /\ UNCHANGED mainMemory

(* SWL and SWR read the word, merge it with the register and write it.     *)
StoreMerged(i, reg, value, k) ==
  IF i.opCode = "SWL"
  THEN High(value, 4 - k) + Low(reg \div 2^(ByteBits * k), 4 - k)
  ELSE Low(value, 3 - k) + reg * 2^(ByteBits * (3 - k))

StorePart(r, i, addr, fault) ==
  /\ i.opCode \in {"SWL", "SWR"}
  /\ \/ /\ ~Valid(addr - (addr % 4), 4)
        /\ ~fault
        /\ RaiseException(r, "AddressErrorException", addr - (addr % 4))
     \/ /\ Valid(addr - (addr % 4), 4)
        /\ mainMemory' =
             Written(addr - (addr % 4), 4,
               StoreMerged(i, Accessed(r, addr - (addr % 4), fault)[i.rt],
                           Wrap(BytesAt(mainMemory, addr - (addr % 4), 4)),
                           3 - (addr % 4)))
        /\ Done(Accessed(r, addr - (addr % 4), fault), 0, 0, r[NextPCReg] + 4)

(* SYSCALL, with ExceptionHandler and SysHalt, SysAdd of ksyscall.h.  The  *)
(* handler itself moves the program counters behind the instruction.       *)
SysAdd(r) ==
  [r EXCEPT ![2] = Sum(r[4], r[5]),
            ![PrevPCReg] = r[PCReg],
            ![PCReg] = r[PCReg] + 4,
            ![NextPCReg] = r[PCReg] + 8]

Syscall(r, i) ==
  /\ i.opCode = "SYSCALL"
  /\ \/ Raised(r, 0)[2] = SC_Halt /\ RaiseException(r, "halted", 0)
     \/ /\ Raised(r, 0)[2] \notin {SC_Halt, SC_Add}
        /\ RaiseException(r, "SyscallException", 0)
     \/ /\ Raised(r, 0)[2] = SC_Add
        /\ registers' = SysAdd(Raised(r, 0))
        /\ phase' = "tick"
        /\ UNCHANGED <<mainMemory, totalTicks>>

Illegal(r, i) ==
  /\ i.opCode \in {"RES", "UNIMP"}
  /\ RaiseException(r, "IllegalInstrException", 0)

(* A word at an address without instruction is not aligned or lies beyond  *)
(* the address space.                                                      *)
BadFetch(r) ==
  /\ r[PCReg] \notin DOMAIN asm
  /\ RaiseException(r, "AddressErrorException", r[PCReg])

Execute(r, i, fault) ==
  \/ Alu(r, i, r[i.rs], r[i.rt])
  \/ MultDiv(r, i, r[i.rs], r[i.rt])
  \/ MoveTo(r, i, r[i.rs])
  \/ Branch(Linked(r, i), i)
  \/ Jump(Linked(r, i), i)
  \/ Load(r, i, Sum(r[i.rs], i.extra), fault)
  \/ Store(r, i, Sum(r[i.rs], i.extra), fault)
  \/ LoadPart(r, i, Sum(r[i.rs], i.extra), fault)
  \/ StorePart(r, i, Sum(r[i.rs], i.extra), fault)
  \/ Syscall(r, i)
  \/ Illegal(r, i)

MemoryOps == LoadOps \union StoreOps \union {"LWL", "LWR", "SWL", "SWR"}

(* Machine::OneInstruction *)
OneInstruction ==
  /\ phase = "user"
  /\ UNCHANGED <<asm, debugVars>>
  /\ \/ BadFetch(registers)
     \/ /\ registers[PCReg] \in DOMAIN asm
        /\ \E fetchFault \in BOOLEAN, fault \in BOOLEAN :
             /\ fault => asm[registers[PCReg]].op \in MemoryOps
             /\ Execute(Accessed(registers, registers[PCReg], fetchFault),
                        Decode(Assemble(asm[registers[PCReg]])), fault)

-----------------------------------------------------------------------------
(* Interrupt::OneTick after an instruction: handlers run when an interrupt *)
(* is due, and CheckIfDue completes the pending load before it calls them. *)
OneTick ==
  /\ phase = "tick"
  /\ totalTicks' = totalTicks + 1
  /\ \E due \in BOOLEAN :
       registers' = IF due THEN DelayedLoad(registers, 0, 0) ELSE registers
  /\ phase' = IF singleStep /\ runUntilTime <= totalTicks' THEN "debugger"
              ELSE "user"
  /\ UNCHANGED <<asm, mainMemory, debugVars>>

(* Machine::Debugger reads commands until one of them lets the program go  *)
(* on: a number, an empty line or c; anything else it answers.             *)
Debugger ==
  /\ phase = "debugger"
  /\ \/ \E num \in Times :
          runUntilTime' = num /\ phase' = "user" /\ UNCHANGED singleStep
     \/ runUntilTime' = 0 /\ phase' = "user" /\ UNCHANGED singleStep
     \/ runUntilTime' = 0 /\ phase' = "user" /\ singleStep' = FALSE
     \/ runUntilTime' = 0 /\ UNCHANGED <<phase, singleStep>>
  /\ UNCHANGED <<asm, registers, mainMemory, totalTicks>>

(* AddrSpace::InitRegisters; the general registers hold what the program   *)
(* has computed so far.                                                    *)
InitRegisters(general) ==
  [n \in Reg |-> IF n \in GPR THEN general[n]
                 ELSE IF n = NextPCReg THEN 4 ELSE 0]

(* The constructor of Machine leaves runUntilTime uninitialized. *)
Init ==
  /\ asm \in Programs
  /\ \E general \in Registers : registers = InitRegisters(general)
  /\ mainMemory = Data
  /\ phase = "user"
  /\ totalTicks = 0
  /\ singleStep \in BOOLEAN
  /\ runUntilTime \in Times

Ended ==
  {"halted", "SyscallException", "AddressErrorException", "OverflowException",
   "IllegalInstrException", "SIGFPE"}

(* The simulation is over. *)
Terminated == phase \in Ended /\ UNCHANGED vars

Next == OneInstruction \/ OneTick \/ Debugger \/ Terminated

Spec == Init /\ [][Next]_vars

-----------------------------------------------------------------------------
(* What the program sees: its registers with the pending load applied.     *)
Visible ==
  [g \in GPR |-> IF g # 0 /\ g = registers[LoadReg] THEN registers[LoadValueReg]
                 ELSE registers[g]]

Manual == INSTANCE Isa WITH
  gpr <- Visible, hi <- registers[HiReg], lo <- registers[LoReg],
  pc <- registers[PCReg], npc <- registers[NextPCReg], mem <- mainMemory,
  status <- IF phase \in Ended THEN phase ELSE "user"

(* "User programs shouldn't be able to tell that they are running on our   *)
(* simulator or on the real hardware" (machine.h): whatever instructions   *)
(* fault, interrupts occur and the debugger stops, the program computes    *)
(* what the manual says, instruction by instruction.                       *)
ImplementsIsa == Manual!Spec
=============================================================================
