-------------------------------- MODULE Isa --------------------------------
(***************************************************************************)
(* What a program may rely on: the instruction set of the MIPS R2000 as    *)
(* its manual describes it, without load delay slots, page faults and      *)
(* interrupts, and the two system calls the kernel implements.  A program  *)
(* never touches a register in the slot after a load to it.  Branches have *)
(* their delay slot.  Arithmetic is stated on integers.                    *)
(***************************************************************************)
EXTENDS Words

CONSTANTS GPR,        \* the general registers a program uses
          SC_Halt,    \* numbers of the system calls
          SC_Add

VARIABLES asm,        \* the program: an instruction for each address
          gpr,        \* general registers
          hi, lo,     \* result of multiplications and divisions
          pc, npc,    \* this instruction and the one after it
          mem,        \* bytes of the data segment
          status      \* "user", "halted" or the exception that ended it

vars == <<asm, gpr, hi, lo, pc, npc, mem, status>>

(* The machine at the start of a piece of program. *)
Init ==
  /\ pc = 0 /\ npc = 4
  /\ gpr[0] = 0
  /\ status = "user"

Continue == pc' = npc /\ npc' = npc + 4
Trap(which) == status' = which /\ UNCHANGED <<gpr, hi, lo, pc, npc, mem>>

(* Register r becomes x, except that register 0 is always 0. *)
SetReg(r, x) == gpr' = [gpr EXCEPT ![r] = IF r = 0 THEN 0 ELSE x]

Flag(P) == IF P THEN 1 ELSE 0

(* Instructions whose result is a function of rs, rt and the immediate.    *)
Logical(x) == Low(x, 2)
Result(i, a, b) ==
  CASE i.op \in {"ADD", "ADDU"} -> a + b
    [] i.op \in {"ADDI", "ADDIU"} -> a + i.extra
    [] i.op \in {"SUB", "SUBU"} -> a - b
    [] i.op = "AND" -> And(a, b)
    [] i.op = "ANDI" -> And(a, Logical(i.extra))
    [] i.op = "OR" -> Or(a, b)
    [] i.op = "ORI" -> Or(a, Logical(i.extra))
    [] i.op = "XOR" -> Xor(a, b)
    [] i.op = "XORI" -> Xor(a, Logical(i.extra))
    [] i.op = "NOR" -> Not(Or(a, b))
    [] i.op = "LUI" -> i.extra * 2^(2 * ByteBits)
    [] i.op = "SLT" -> Flag(a < b)
    [] i.op = "SLTI" -> Flag(a < i.extra)
    [] i.op = "SLTU" -> Flag(Unsigned(a) < Unsigned(b))
    [] i.op = "SLTIU" -> Flag(Unsigned(a) < Unsigned(i.extra))
    [] i.op = "SLL" -> b * 2^i.extra
    [] i.op = "SLLV" -> b * 2^(a % WordBits)
    [] i.op = "SRL" -> Unsigned(b) \div 2^i.extra
    [] i.op = "SRLV" -> Unsigned(b) \div 2^(a % WordBits)
    [] i.op = "SRA" -> b \div 2^i.extra
    [] i.op = "SRAV" -> b \div 2^(a % WordBits)
    [] i.op = "MFHI" -> hi
    [] i.op = "MFLO" -> lo

Immediate == {"ADDI", "ADDIU", "ANDI", "ORI", "XORI", "LUI", "SLTI", "SLTIU"}
Computing ==
  Immediate \union
    {"ADD", "ADDU", "SUB", "SUBU", "AND", "OR", "XOR", "NOR", "SLT", "SLTU",
     "SLL", "SLLV", "SRL", "SRLV", "SRA", "SRAV", "MFHI", "MFLO"}
Trapping == {"ADD", "ADDI", "SUB"}

Compute(i, x) ==
  /\ i.op \in Computing
  /\ i.op \in Trapping => x \in Word
  /\ SetReg(IF i.op \in Immediate THEN i.rt ELSE i.rd, Wrap(x))
  /\ Continue
  /\ UNCHANGED <<hi, lo, mem, status>>

Overflow(i, x) ==
  /\ i.op \in Trapping
  /\ x \notin Word
  /\ Trap("OverflowException")

(* The double word hi, lo is the product; lo and hi are the quotient and   *)
(* the remainder, unless the divisor is 0.                                 *)
Multiply(i, a, b) ==
  /\ \/ i.op = "MULT" /\ a * b = hi' * 2^WordBits + Unsigned(lo')
     \/ /\ i.op = "MULTU"
        /\ Unsigned(a) * Unsigned(b)
             = Unsigned(hi') * 2^WordBits + Unsigned(lo')
  /\ Continue
  /\ UNCHANGED <<gpr, mem, status>>

Division(a, b, q, r) == a = b * q + r /\ Abs(r) < Abs(b)

(* The smallest number divided by -1 has no quotient: the simulator dies   *)
(* of it.                                                                  *)
DivideOverflow(i, a, b) ==
  i.op = "DIV" /\ b = -1 /\ -a \notin Word /\ Trap("SIGFPE")

Divide(i, a, b) ==
  /\ \/ i.op = "DIV" /\ (b = 0 \/ (Division(a, b, lo', hi') /\ a * hi' >= 0))
     \/ /\ i.op = "DIVU"
        /\ \/ b = 0
           \/ Division(Unsigned(a), Unsigned(b), Unsigned(lo'), Unsigned(hi'))
  /\ Continue
  /\ UNCHANGED <<gpr, mem, status>>

MoveToHiLo(i, a) ==
  /\ \/ i.op = "MTHI" /\ hi' = a /\ lo' = lo
     \/ i.op = "MTLO" /\ lo' = a /\ hi' = hi
  /\ Continue
  /\ UNCHANGED <<gpr, mem, status>>

Taken(i, a, b) ==
  CASE i.op = "BEQ" -> a = b
    [] i.op = "BNE" -> a # b
    [] i.op \in {"BGEZ", "BGEZAL"} -> a >= 0
    [] i.op \in {"BLTZ", "BLTZAL"} -> a < 0
    [] i.op = "BGTZ" -> a > 0
    [] i.op = "BLEZ" -> a <= 0
    [] OTHER -> TRUE

Target(i, a) ==
  CASE i.op \in {"J", "JAL"} -> 4 * i.extra
    [] i.op \in {"JR", "JALR"} -> a
    [] OTHER -> npc + 4 * i.extra

(* A branch takes effect after the next instruction; the linking ones save *)
(* the address after that one.                                             *)
Branch(i, a, b) ==
  /\ i.op \in {"BEQ", "BNE", "BGEZ", "BGEZAL", "BLTZ", "BLTZAL", "BGTZ",
               "BLEZ", "J", "JAL", "JR", "JALR"}
  /\ pc' = npc
  /\ npc' = IF Taken(i, a, b) THEN Target(i, a) ELSE npc + 4
  /\ \/ i.op \in {"BGEZAL", "BLTZAL", "JAL"} /\ SetReg(31, npc + 4)
     \/ i.op = "JALR" /\ SetReg(i.rd, npc + 4)
     \/ i.op \notin {"BGEZAL", "BLTZAL", "JAL", "JALR"} /\ UNCHANGED gpr
  /\ UNCHANGED <<hi, lo, mem, status>>

(* Loads and stores.  LWL moves the bytes from the one addressed down to   *)
(* the word boundary, LWR those from the one addressed up to it.           *)
Size(op) == IF op \in {"LB", "LBU", "SB"} THEN 1
            ELSE IF op \in {"LH", "LHU", "SH"} THEN 2
            ELSE IF op \in {"LW", "SW"} THEN 4 ELSE 1
Aligned(i, addr) == addr % Size(i.op) = 0 /\ addr \in DOMAIN mem

Merged(bytes) == Wrap(BytesAt(bytes, 0, 4))
Loaded(i, addr, old) ==
  CASE i.op \in {"LB", "LH", "LW"} ->
         SignExtend(BytesAt(mem, addr, Size(i.op)), Size(i.op))
    [] i.op \in {"LBU", "LHU"} -> BytesAt(mem, addr, Size(i.op))
    [] i.op = "LWL" ->
         Merged([j \in 0..3 |-> IF j >= 3 - (addr % 4) THEN mem[addr + j - 3]
                                ELSE ByteOf(old, j)])
    [] i.op = "LWR" ->
         Merged([j \in 0..3 |-> IF j <= 3 - (addr % 4) THEN mem[addr + j]
                                ELSE ByteOf(old, j)])

Load(i, addr) ==
  /\ i.op \in {"LB", "LBU", "LH", "LHU", "LW", "LWL", "LWR"}
  /\ Aligned(i, addr)
  /\ SetReg(i.rt, Loaded(i, addr, gpr[i.rt]))
  /\ Continue
  /\ UNCHANGED <<hi, lo, mem, status>>

(* The addresses a store changes, and the byte of rt that goes to one. *)
Written(i, addr) ==
  CASE i.op = "SWL" -> (addr - (addr % 4))..addr
    [] i.op = "SWR" -> addr..(addr - (addr % 4) + 3)
    [] OTHER -> addr..(addr + Size(i.op) - 1)
Stored(i, addr, a) == IF i.op = "SWL" THEN a - addr + 3 ELSE a - addr

Store(i, addr) ==
  /\ i.op \in {"SB", "SH", "SW", "SWL", "SWR"}
  /\ Aligned(i, addr)
  /\ mem' = [a \in DOMAIN mem |->
               IF a \in Written(i, addr)
               THEN ByteOf(gpr[i.rt], Stored(i, addr, a)) ELSE mem[a]]
  /\ Continue
  /\ UNCHANGED <<gpr, hi, lo, status>>

AddressError(i, addr) ==
  /\ i.op \in {"LB", "LBU", "LH", "LHU", "LW", "LWL", "LWR",
               "SB", "SH", "SW", "SWL", "SWR"}
  /\ ~Aligned(i, addr)
  /\ Trap("AddressErrorException")

SystemCall(i) ==
  /\ i.op = "SYSCALL"
  /\ \/ gpr[2] = SC_Halt /\ Trap("halted")
     \/ gpr[2] \notin {SC_Halt, SC_Add} /\ Trap("SyscallException")
     \/ /\ gpr[2] = SC_Add
        /\ SetReg(2, Wrap(gpr[4] + gpr[5]))
        /\ Continue
        /\ UNCHANGED <<hi, lo, mem, status>>

Illegal(i) == i.op \in {"RES", "UNIMP"} /\ Trap("IllegalInstrException")

BadFetch == pc \notin DOMAIN asm /\ Trap("AddressErrorException")

Execute(i, a, b) ==
  \/ Compute(i, Result(i, a, b))
  \/ Overflow(i, Result(i, a, b))
  \/ Multiply(i, a, b)
  \/ Divide(i, a, b)
  \/ DivideOverflow(i, a, b)
  \/ MoveToHiLo(i, a)
  \/ Branch(i, a, b)
  \/ Load(i, Wrap(a + i.extra))
  \/ Store(i, Wrap(a + i.extra))
  \/ AddressError(i, Wrap(a + i.extra))
  \/ SystemCall(i)
  \/ Illegal(i)

Next ==
  /\ status = "user"
  /\ UNCHANGED asm
  /\ \/ pc \in DOMAIN asm /\ Execute(asm[pc], gpr[asm[pc].rs], gpr[asm[pc].rt])
     \/ BadFetch

Spec == Init /\ [][Next]_vars
=============================================================================
