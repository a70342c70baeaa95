----------------------------- MODULE MCMachine -----------------------------
(***************************************************************************)
(* The simulated machine and its host: the interrupts and simulated time,  *)
(* the processor, the way of a program's file into memory, and the files   *)
(* of the host behind the stub file system.                                *)
(* They share no state, so that a behaviour exercises one of them (part)   *)
(* while the others stay in an initial state.                              *)
(***************************************************************************)
EXTENDS Interrupt, TLC

CONSTANTS timer, disk, keyboard                           \* Interrupt
CONSTANTS ByteBits, GPR, SC_Halt, SC_Add, TextSize, MemSize, Programs,
          Registers, Data, Times                          \* Mips
CONSTANTS CoffFiles, Fault, NOFFMAGIC, HeaderSize, PageSize,
          UserStackSize, Junk                             \* Loader
CONSTANTS Name, File, Descriptor, None, Handle, Byte, TransferSize,
          MaxLength                                       \* StubFiles

VARIABLES part
VARIABLES asm, registers, mainMemory, phase, totalTicks, singleStep,
          runUntilTime                                    \* Mips
VARIABLES coff, fault, builder, host, pc, section, noffH, file, loading,
          numPages, memory                                \* Loader
VARIABLES unix, openFile, result, failed             \* StubFiles

(* The timer is randomized, the disk may be quicker than a tick. *)
DeviceDelay == (timer :> {2, 4}) @@ (keyboard :> {3}) @@ (disk :> {1, 3})

ASSUME InterruptAssumed == InterruptAssumption

(* Words of 8 bits (4 bytes of 2 bits).  The programs run every            *)
(* instruction once, on operands at the ends and in the middle of the      *)
(* range, and the sequences in which one instruction meets the delay slot, *)
(* the pending load or the half result of another.  Text is the addresses  *)
(* 0..27, data 28..35; register 29 points to the second word of the data.  *)
Cpu == INSTANCE Mips

ASSUME MipsAssumed == Cpu!MipsAssumption

I(op, rs, rt, rd, extra) ==
  [op |-> op, rs |-> rs, rt |-> rt, rd |-> rd, extra |-> extra]

Halt == I("SYSCALL", 0, 0, 0, 0)
Nop == I("SLL", 0, 0, 0, 0)

Code(s) == [a \in {4 * (k - 1) : k \in DOMAIN s} |-> s[(a \div 4) + 1]]

ShiftRight == {"SRL", "SRLV"}

OneOp ==
  {<<I(op, 4, 5, 31, 0), Halt>> :
     op \in {"ADD", "ADDU", "SUB", "SUBU", "AND", "OR", "XOR", "NOR", "SLT",
             "SLTU", "SLLV", "SRAV", "RES", "UNIMP"}}
  \union {<<I(op, 0, 4, 31, sh), Halt>> : op \in {"SLL", "SRA"}, sh \in {1, 7}}
  \union {<<I(op, 4, 31, 0, x), Halt>> :
            op \in {"ADDI", "ADDIU", "ANDI", "ORI", "XORI", "LUI", "SLTI",
                    "SLTIU"}, x \in {-8, 7}}
  \union {<<I(op, 4, 5, 0, 0), I("MFHI", 0, 0, 31, 0), I("MFLO", 0, 0, 5, 0), Halt>> :
            op \in {"MULT", "MULTU", "DIV", "DIVU"}}
  \union {<<I("MTHI", 4, 0, 0, 0), I("MTLO", 5, 0, 0, 0),
            I("MFHI", 0, 0, 0, 0), Halt>>}

(* A logical shift of numbers that are not negative: on the others the     *)
(* simulator differs from the manual.                                      *)
OnPositive ==
  {<<I("ANDI", 4, 4, 0, 7), I(op, 4, 4, 31, 1), Halt>> : op \in ShiftRight}
  \union {<<I("DIV", 4, 0, 0, 0), I("MFLO", 0, 0, 31, 0), Halt>>}

Branching ==
  {<<I(op, 4, 5, 0, 2), I("ADDIU", 5, 5, 0, 1),
     Halt, I("ADDIU", 31, 5, 0, 1), Halt>> : op \in {"BEQ", "BNE", "BGTZ", "BLEZ"}}
  \union {<<I(op, 4, 0, 0, 2), I("ADDIU", 5, 5, 0, 1),
            Halt, I("ADDIU", 31, 5, 0, 1), Halt>> :
            op \in {"BLTZ", "BGEZ", "BLTZAL", "BGEZAL"}}
  \union {<<I(op, 0, 0, 0, 4), I("ADDIU", 31, 5, 0, 1), Nop, Nop, Halt>> :
            op \in {"J", "JAL"}}
  \union {<<I("JAL", 0, 0, 0, 3), I("ADDIU", 4, 4, 0, 1), Halt,
            I("JR", 31, 0, 0, 0), I("ADDIU", 4, 4, 0, 2)>>,
          <<I("ADDIU", 0, 5, 0, 7), I("ADDIU", 5, 5, 0, 5),
            I("JALR", 5, 0, 31, 0), Nop, Halt>>,
          <<I("JR", 29, 0, 0, 0), Nop>>}

Accessing ==
  {<<I(op, 29, 5, 0, x), Nop, Halt>> :
     op \in {"LB", "LBU", "LH", "LHU", "LW", "LWL", "LWR"}, x \in -4..4}
  \union {<<I(op, 29, 5, 0, x), Halt>> :
            op \in {"SB", "SH", "SW", "SWL", "SWR"}, x \in -4..4}

(* An unaligned word in two halves, loads with a branch or another load    *)
(* behind them, a load to register 0, and the system calls.                *)
Sequences2 ==
  {<<I("LWL", 29, 5, 0, x + 3), I("LWR", 29, 5, 0, x), Nop, Halt>> : x \in -4..0}
  \union {<<I("SWR", 29, 5, 0, x), I("SWL", 29, 5, 0, x + 3), Halt>> : x \in -4..0}
  \union {<<I("LB", 29, 5, 0, -4), I("BNE", 4, 0, 0, 1), I("LW", 29, 31, 0, 0),
            I("ADDU", 4, 5, 4, 0), I("SUBU", 31, 5, 31, 0), Halt>>,
          <<I("LW", 29, 0, 0, 0), I("LW", 29, 5, 0, -4), I("ADDU", 0, 4, 4, 0),
            I("ADDU", 5, 0, 4, 0), Halt>>,
          <<I("ADDIU", 0, 2, 0, 5), Halt, I("ADDU", 2, 0, 31, 0),
            I("ADDU", 0, 0, 2, 0), Halt>>,
          <<I("LBU", 29, 4, 0, -3), I("ADDIU", 0, 2, 0, 5), Halt, Nop,
            I("LH", 29, 2, 0, 0), Nop, Halt>>}

MCPrograms ==
  {Code(s) : s \in OneOp \union OnPositive \union Branching \union Accessing
                         \union Sequences2}

(* A logical shift of any number. *)
MCShifts == {Code(<<I("SRL", 0, 4, 31, 1), Halt>>)}

MCGPR == {0, 2, 4, 5, 29, 31}
Values == {-128, -1, 0, 93, 127}
MCRegisters ==
  {[g \in MCGPR |-> CASE g = 4 -> a [] g = 5 -> b [] g = 29 -> 32 [] OTHER -> 0] :
     a \in Values, b \in Values}
MCData == [a \in 28..35 |-> (a * a + a \div 3) % 4]

(* The files the linker may have written: sections that follow one another *)
(* at addresses that are a multiple of a page or not, sections in any      *)
(* order and without contents, two of .bss, an unknown one, and a file     *)
(* that is not for this machine.                                           *)
Sec(name, paddr, data) == [name |-> name, paddr |-> paddr, data |-> data]
NotCoff == [bad |-> TRUE, sections |-> << >>]
Files ==
  {[bad |-> FALSE, sections |-> s] : s \in {
     <<Sec(".text", 0, <<11, 12>>), Sec(".rdata", 2, <<21>>),
       Sec(".data", 3, <<31, 32>>), Sec(".bss", 5, <<0>>)>>,
     <<Sec(".text", 0, <<11, 12>>), Sec(".data", 2, << >>),
       Sec(".bss", 2, <<0, 0>>), Sec(".bss", 4, <<0>>)>>,
     <<Sec(".text", 0, <<11>>), Sec(".bss", 1, <<0>>), Sec(".bss", 4, <<0>>)>>,
     <<Sec(".data", 2, <<31>>), Sec(".text", 0, <<11, 12>>)>>,
     <<Sec(".text", 0, <<11>>), Sec(".comment", 1, <<41>>)>> }}
  \union {NotCoff}

(* test/script aligns each section to a page (ALIGN(0x80)), here of two    *)
(* bytes.                                                                  *)
AlignedFiles ==
  {NotCoff, [bad |-> FALSE, sections |->
      <<Sec(".text", 0, <<11, 12, 13>>), Sec(".rdata", 4, <<21>>)>>]}

(* The magic number has two bytes, 186 and 173. *)
Ld == INSTANCE Loader WITH i <- section, status <- loading, Coff <- CoffFiles

ASSUME LoaderAssumed == Ld!LoaderAssumption

Fs == INSTANCE StubFiles WITH host <- unix

ASSUME StubFilesAssumed == Fs!StubFilesAssumption

processor == <<asm, registers, mainMemory, phase, totalTicks, singleStep,
               runUntilTime>>
loader == <<coff, fault, builder, host, pc, section, noffH, file, loading,
            numPages, memory>>
files == <<unix, openFile, result, failed>>

Resting(p, v, initial) == part # p => v = initial
MachineInit ==
  /\ part \in {"processor", "interrupts", "loader", "files"}
  /\ Fs!Init
  /\ Cpu!Init
  /\ Resting("processor", asm, CHOOSE program \in Programs : TRUE)
  /\ Resting("processor", registers,
             Cpu!InitRegisters(CHOOSE r \in Registers : TRUE))
  /\ Resting("processor", singleStep, FALSE)
  /\ Init
  /\ Resting("interrupts", pending, <<timer, keyboard>>)
  /\ Resting("interrupts", due[timer], 2)
  /\ Ld!Init
  /\ Resting("loader", coff, NotCoff)
  /\ Resting("loader", <<fault, builder, host>>, <<"none", "little", "little">>)

MachineNext ==
  \/ part = "processor" /\ Cpu!Next
       /\ UNCHANGED <<part, vars, loader, files>>
  \/ part = "interrupts" /\ Next
       /\ UNCHANGED <<part, processor, loader, files>>
  \/ part = "loader" /\ Ld!Next
       /\ UNCHANGED <<part, processor, vars, files>>
  \/ part = "files" /\ Fs!Next
       /\ UNCHANGED <<part, processor, vars, loader>>

MachineSpec ==
  MachineInit /\ [][MachineNext]_<<part, processor, vars, loader, files>>

-----------------------------------------------------------------------------
(* The processor implements the instruction set (Mips). *)
ImplementsIsa == Cpu!ImplementsIsa
(* The program in memory is the linker's (Loader). *)
ImageLoaded == Ld!ImageLoaded
(* The stub file system on the host's descriptors keeps what it promises   *)
(* (StubFiles).                                                            *)
ImplementsUnixFiles == Fs!ImplementsUnixFiles
(* Each segment is at its virtual address (Loader). *)
SegmentsInPlace == Ld!SegmentsInPlace
=============================================================================
