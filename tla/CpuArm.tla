------------------------------ MODULE CpuArm -------------------------------
(***************************************************************************)
(* The guest's processor (crates/vmrp-cpu): Cpu::step fetches, decodes and *)
(* executes one instruction in ARM or Thumb mode, on sixteen registers,    *)
(* four flags and a memory of bytes that ends (MemoryAccessError).  Here   *)
(* are its state and the ARM set, one action per variant of                *)
(* DecodedInstruction; CpuThumb has the Thumb set and GuestMachine the step*)
(*                                                                         *)
(* A word is four bytes of ByteBits bits, so that the addresses, the steps *)
(* of the program counter and the alignments are those of the code while   *)
(* the words stay small.  Code is not kept in the bytes of the memory: an  *)
(* image gives the opcodes that may stand at an address.                   *)
(***************************************************************************)
EXTENDS Decode, FiniteSets

CONSTANTS
  ByteBits,  (* the bits of a byte: 8                                      *)
  Images,    (* program -> address -> [thumb, op]: the instruction there and  *)
             (* the mode it is written for                                 *)
  Starts     (* program -> the states of the machine in which it may start *)

VARIABLES
  regs,  (* regs: 13 is sp, 14 lr, 15 pc                                   *)
  thumb, (* the T bit of cpsr                                              *)
  flags, (* its N, Z, C and V bits                                         *)
  mem,   (* address -> byte, for the addresses that are mapped             *)
  fault, (* what ended the run: "none", "memory", "unimplemented" or       *)
         (* "wild", a fetch where the image has no code of that mode       *)
  prog,  (* the program that runs                                          *)
  begun, (* history: registers, mode and memory at its start               *)
  told   (* history: the words and carry of the last sum or comparison     *)
         (* that set the four flags                                        *)

cpuVars == <<regs, thumb, flags, mem, fault, prog, begun, told>>

Byte == 2 ^ ByteBits
Registers == 0 .. 15

(* A byte holds the eight that HostStrings tells apart, and a word the     *)
(* twelve bits of an offset.                                               *)
ASSUME CpuAssumption ==
  /\ ByteBits \in Nat /\ 3 <= ByteBits /\ Bits = 4 * ByteBits
  /\ Byte ^ 0 = 1 /\ Byte ^ 1 = Byte /\ Byte ^ 2 = Byte * Byte /\ Byte ^ 3 = Byte ^ 2 * Byte
  /\ DOMAIN Images = DOMAIN Starts

(* An opcode has the digits of its mode.                                   *)
ASSUME ImagesAssumption ==
  \A p \in DOMAIN Images : \A a \in DOMAIN Images[p] :
    LET code == Images[p][a]
    IN code.thumb \in BOOLEAN /\ code.op \in [1 .. (IF code.thumb THEN 4 ELSE 8) -> 0 .. 15]

(* The registers are words, and the memory bytes at some of the words.     *)
ASSUME StartsAssumption ==
  \A p \in DOMAIN Starts : \A s \in Starts[p] :
    /\ s.regs \in [Registers -> Word] /\ s.thumb \in BOOLEAN /\ s.flags \in Flags
    /\ s.mem \in [DOMAIN s.mem -> 0 .. Byte - 1]
    /\ DOMAIN s.mem \in SUBSET (Word \ {0}) /\ IsFiniteSet(DOMAIN s.mem)

Untold == [sum |-> "none", l |-> 0, r |-> 0, carry |-> 0]

Pc == regs[15]
Sp == regs[13]
Aligned(x, k) == x - (x % k)
(* An address with the mark of Thumb code, x | 1. *)
Marked(x) == Aligned(x, 2) + 1

(* The address and the mode that a branch to x exchanges to. *)
ExchangeAddress(x) == IF x % 2 = 1 THEN Aligned(x, 2) ELSE Aligned(x, 4)

-----------------------------------------------------------------------------
(* Memory: little-endian, a fault when a byte of the access is not mapped. *)

Mapped(a, w) == \A k \in 0 .. w - 1 : a + k \in DOMAIN mem
Read(a, w) == SumFunction([k \in 0 .. w - 1 |-> mem[a + k] * Byte ^ k])
ByteOf(x, k) == (x \div Byte ^ k) % Byte
Write(a, w, x) ==
  [b \in DOMAIN mem |-> IF b \in a .. a + w - 1 THEN ByteOf(x, b - a) ELSE mem[b]]
(* The words of registers at their addresses.                              *)
WriteAll(at) ==
  [b \in DOMAIN mem |->
     IF \E r \in DOMAIN at : b \in at[r] .. at[r] + 3
     THEN LET r == CHOOSE r \in DOMAIN at : b \in at[r] .. at[r] + 3
          IN ByteOf(regs[r], b - at[r])
     ELSE mem[b]]
(* Mutant of Extended: the extended value is not made a word again. *)
ExtendedSigned(x, bits) == IF 2 ^ (bits - 1) <= x THEN x - 2 ^ bits ELSE x
Extended(x, bits) == IF 2 ^ (bits - 1) <= x THEN x + M - 2 ^ bits ELSE x

(* The step ends in an error and leaves the processor as it is. *)
Failing(kind) ==
  /\ fault' = kind
  /\ UNCHANGED <<regs, thumb, flags, mem, told>>

OnlyRegisters == UNCHANGED <<thumb, flags, mem, fault, told>>
OnlyFlagsToo == UNCHANGED <<thumb, mem, fault>>
KeepFlags == UNCHANGED <<flags, told>>
Tell(sum, l, r, carry) == told' = [sum |-> sum, l |-> l, r |-> r, carry |-> carry]

(* Where execution goes on, after a step of the ARM or the Thumb set. *)
NextArm(r) == [r EXCEPT ![15] = Plus(Pc, 4)]
NextThumb(r) == [r EXCEPT ![15] = Plus(Pc, 2)]

-----------------------------------------------------------------------------
(* Operands of the ARM set. *)

(* A register as most of the ARM instructions read it. *)
Visible(r) == IF r = 15 THEN Plus(Pc, 8) ELSE regs[r]

Shifted(x, s) ==
  IF s.byRegister THEN ShiftByRegister(s.kind, x, regs[s.n] % 256, flags.c)
  ELSE ShiftBy(s.kind, x, s.n, flags.c)

(* write_result_and_advance. *)
WithResult(rd, x) ==
  IF rd = 15 THEN [regs EXCEPT ![15] = x] ELSE NextArm([regs EXCEPT ![rd] = x])

Logic(op, l, r) ==
  CASE op \in {"and", "tst"} -> OfBits(BitsOf(l) \cap BitsOf(r))
    [] op = "eor" -> OfBits((BitsOf(l) \cup BitsOf(r)) \ (BitsOf(l) \cap BitsOf(r)))
    [] op = "orr" -> OfBits(BitsOf(l) \cup BitsOf(r))
    [] op = "bic" -> OfBits(BitsOf(l) \ BitsOf(r))
    [] op = "mov" -> r
    [] op = "mvn" -> M - 1 - r

(* AND, EOR, ORR, BIC, MOV, MVN, and TST, which sets the flags in any case.*)
LogicStep(i, l, r, carry) ==
  LET x == Logic(i.op, l, r)
  IN /\ i.op \in {"and", "eor", "orr", "bic", "mov", "mvn", "tst"}
     /\ regs' = IF i.op = "tst" THEN NextArm(regs) ELSE WithResult(i.rd, x)
     /\ IF i.setFlags \/ i.op = "tst"
        THEN flags' = [NZ(flags, x) EXCEPT !.c = carry] /\ told' = Untold
        ELSE KeepFlags

(* ADD, and CMN, which writes no register. *)
AddStep(i, l, r) ==
  LET x == Plus(l, r)
  IN /\ i.op \in {"add", "cmn"}
     /\ regs' = IF i.op = "cmn" THEN NextArm(regs) ELSE WithResult(i.rd, x)
     /\ IF i.setFlags \/ i.op = "cmn"
        THEN flags' = AddFlags(l, r, x) /\ Tell("add", l, r, 0)
        ELSE KeepFlags

AdcStep(i, l, r) ==
  LET carry == IF flags.c THEN 1 ELSE 0
      x == CarriedSum(l, r, carry)
  IN /\ i.op = "adc"
     /\ regs' = WithResult(i.rd, x)
     /\ IF i.setFlags
        THEN flags' = CarriedFlags(l, r, carry, x) /\ Tell("add", l, r, carry)
        ELSE KeepFlags

(* SUB, RSB, which subtracts the other way around, and CMP. *)
SubStep(i, left, right) ==
  LET l == IF i.op = "rsb" THEN right ELSE left
      r == IF i.op = "rsb" THEN left ELSE right
      x == Minus(l, r)
  IN /\ i.op \in {"sub", "rsb", "cmp"}
     /\ regs' = IF i.op = "cmp" THEN NextArm(regs) ELSE WithResult(i.rd, x)
     /\ IF i.setFlags \/ i.op = "cmp"
        THEN flags' = SubFlags(l, r, x) /\ Tell("sub", l, r, 0)
        ELSE KeepFlags

DataProcessing(i, l, r, carry) ==
  /\ OnlyFlagsToo
  /\ \/ LogicStep(i, l, r, carry)
     \/ AddStep(i, l, r)
     \/ AdcStep(i, l, r)
     \/ SubStep(i, l, r)

DataProcessingRegister(i) ==
  LET s == Shifted(Visible(i.rm), i.shift)
  IN DataProcessing(i, Visible(i.rn), s.out, s.carry)

(* The first operand is the register as it is, also when it is the pc. *)
DataProcessingImmediate(i) ==
  DataProcessing(i, regs[i.rn], i.immediate,
                 IF i.rotated THEN Negative(i.immediate) ELSE flags.c)

-----------------------------------------------------------------------------
(* The other instructions of the ARM set. *)

Multiply(i) ==
  LET x == (regs[i.rm] * regs[i.rs] + (IF i.accumulate THEN regs[i.rn] ELSE 0)) % M
  IN /\ regs' = WithResult(i.rd, x)
     /\ IF i.setFlags THEN flags' = NZ(flags, x) /\ told' = Untold ELSE KeepFlags
     /\ OnlyFlagsToo

MultiplyLong(i) ==
  LET value(r) == IF i.signed THEN Signed(regs[r]) ELSE regs[r]
      wide == (value(i.rm) * value(i.rs)
               + (IF i.accumulate THEN regs[i.rdHi] * M + regs[i.rdLo] ELSE 0)) % (M * M)
  IN /\ regs' = NextArm([regs EXCEPT ![i.rdLo] = wide % M, ![i.rdHi] = wide \div M])
     /\ IF i.setFlags
        THEN flags' = [flags EXCEPT !.n = Negative(wide \div M), !.z = (wide = 0)] /\ told' = Untold
        ELSE KeepFlags
     /\ OnlyFlagsToo

(* What the two transfers of one register share: the address, and the base *)
(* that is written back, over a register that was loaded.                  *)
Offset(i, offset) ==
  IF i.add THEN Plus(Visible(i.base), offset) ELSE Minus(Visible(i.base), offset)
AccessAt(i, offset) == IF i.pre THEN Offset(i, offset) ELSE Visible(i.base)
WrittenBack(i, offset, r) ==
  IF ~i.pre \/ i.writeBack THEN [r EXCEPT ![i.base] = Offset(i, offset)] ELSE r

(* read_arm_word: the aligned word, rotated. *)
Transferred(i, a) ==
  IF i.byte THEN Read(a, 1) ELSE RotateRight(Read(Aligned(a, 4), 4), (a % 4) * ByteBits)

(* execute_arm_single_data_transfer. *)
SingleDataTransfer(i, offset) ==
  LET a == AccessAt(i, offset)
      at == IF i.byte THEN a ELSE Aligned(a, 4)
      w == IF i.byte THEN 1 ELSE 4
      x == Transferred(i, a)
      toPc == i.load /\ i.rd = 15 /\ ~i.byte
  IN IF ~Mapped(at, w) THEN Failing("memory")
     ELSE /\ regs' =
               IF toPc THEN WrittenBack(i, offset, [regs EXCEPT ![15] = ExchangeAddress(x)])
               ELSE NextArm(WrittenBack(i, offset, IF i.load THEN [regs EXCEPT ![i.rd] = x]
                                                             ELSE regs))
          /\ thumb' = IF toPc THEN x % 2 = 1 ELSE thumb
          /\ mem' = IF i.load THEN mem ELSE Write(at, w, regs[i.rd])
          /\ KeepFlags /\ UNCHANGED fault

SingleDataTransferImmediate(i) == SingleDataTransfer(i, i.offset)
SingleDataTransferRegister(i) == SingleDataTransfer(i, Shifted(Visible(i.rm), i.shift).out)

(* execute_arm_halfword_transfer: no rotation, and no exchange of the mode *)
(* by a load to the pc.  A store is of a halfword.                         *)
HalfwordTransfer(i, offset) ==
  LET a == AccessAt(i, offset)
      w == IF i.halfword THEN 2 ELSE 1
      x == IF i.signed THEN Extended(Read(a, w), w * ByteBits) ELSE Read(a, w)
      loaded == WrittenBack(i, offset, IF i.load THEN [regs EXCEPT ![i.rd] = x] ELSE regs)
  IN IF ~i.load /\ i.signed THEN Failing("unimplemented")
     ELSE IF ~Mapped(a, w) THEN Failing("memory")
     ELSE /\ regs' = IF i.load /\ i.rd = 15 THEN loaded ELSE NextArm(loaded)
          /\ mem' = IF i.load THEN mem ELSE Write(a, 2, regs[i.rd])
          /\ KeepFlags /\ UNCHANGED <<thumb, fault>>

HalfwordTransferImmediate(i) == HalfwordTransfer(i, i.offset)
HalfwordTransferRegister(i) == HalfwordTransfer(i, Visible(i.rm))

(* The place of a register in a list. *)
Slot(S, r) == Cardinality({q \in S : q < r})

(* The lowest address of a block. *)
BlockStart(i) ==
  LET n == Cardinality(i.registers)
      base == regs[i.base]
  IN CASE i.add /\ i.pre -> Plus(base, 4)
       [] i.add /\ ~i.pre -> base
       [] ~i.add /\ i.pre -> (base - 4 * n) % M
       [] ~i.add /\ ~i.pre -> (base - 4 * (IF n = 0 THEN 0 ELSE n - 1)) % M

(* LDM and STM, in the order of the registers up to the first that faults; *)
(* the base is written back after all of them.                             *)
BlockTransfer(i) ==
  LET addr(r) == (BlockStart(i) + 4 * Slot(i.registers, r)) % M
      done == {r \in i.registers : \A q \in i.registers : q <= r => Mapped(addr(q), 4)}
      n == 4 * Cardinality(i.registers)
      base == (IF i.add THEN regs[i.base] + n ELSE regs[i.base] - n) % M
      moved(r) == IF i.writeBack THEN [r EXCEPT ![i.base] = base] ELSE r
      toPc == i.load /\ 15 \in i.registers
      loaded == [r \in Registers |->
                   IF i.load /\ r \in done \ {15} THEN Read(addr(r), 4) ELSE regs[r]]
  IN /\ mem' = IF i.load THEN mem ELSE WriteAll([r \in done |-> addr(r)])
     /\ \/ /\ done # i.registers
           /\ regs' = loaded /\ fault' = "memory" /\ UNCHANGED thumb
        \/ /\ done = i.registers /\ toPc
           /\ regs' = moved([loaded EXCEPT ![15] = ExchangeAddress(Read(addr(15), 4))])
           /\ thumb' = (Read(addr(15), 4) % 2 = 1) /\ UNCHANGED fault
        \/ /\ done = i.registers /\ ~toPc
           /\ regs' = NextArm(moved(loaded)) /\ UNCHANGED <<thumb, fault>>
     /\ KeepFlags

(* B and BL. *)
Branch(i) ==
  /\ regs' = [regs EXCEPT ![14] = IF i.link THEN Plus(Pc, 4) ELSE @,
                          ![15] = (Pc + 8 + i.offset) % M]
  /\ OnlyRegisters

(* BLX to a label, to Thumb code. *)
BranchLinkExchangeImmediate(i) ==
  /\ regs' = [regs EXCEPT ![14] = Plus(Pc, 4), ![15] = Aligned((Pc + 8 + i.offset) % M, 2)]
  /\ thumb' = TRUE
  /\ KeepFlags /\ UNCHANGED <<mem, fault>>

(* BX and BLX to a register, which is read before lr is written. *)
BranchExchange(i) ==
  LET target == regs[i.register]
  IN /\ regs' = [regs EXCEPT ![14] = IF i.link THEN Plus(Pc, 4) ELSE @,
                             ![15] = ExchangeAddress(target)]
     /\ thumb' = (target % 2 = 1)
     /\ KeepFlags /\ UNCHANGED <<mem, fault>>

(* An instruction whose condition fails is passed over, whatever it is. *)
PassedOver == regs' = NextArm(regs) /\ OnlyRegisters

Unimplemented == Failing("unimplemented")

(* execute_instruction in ARM mode; only BLX to a label has no condition.  *)
ExecuteArm(op) ==
  LET i == DecodeArm(op)
      run == i.class = "BranchLinkExchangeImmediate" \/ Passed(flags, Digit(op, 7))
  IN \/ ~run /\ PassedOver
     \/ run /\ i.class = "DataProcessingRegister" /\ DataProcessingRegister(i)
     \/ run /\ i.class = "DataProcessingImmediate" /\ DataProcessingImmediate(i)
     \/ run /\ i.class = "Multiply" /\ Multiply(i)
     \/ run /\ i.class = "MultiplyLong" /\ MultiplyLong(i)
     \/ run /\ i.class = "SingleDataTransferImmediate" /\ SingleDataTransferImmediate(i)
     \/ run /\ i.class = "SingleDataTransferRegister" /\ SingleDataTransferRegister(i)
     \/ run /\ i.class = "HalfwordTransferImmediate" /\ HalfwordTransferImmediate(i)
     \/ run /\ i.class = "HalfwordTransferRegister" /\ HalfwordTransferRegister(i)
     \/ run /\ i.class = "BlockTransfer" /\ BlockTransfer(i)
     \/ run /\ i.class = "Branch" /\ Branch(i)
     \/ run /\ i.class = "BranchLinkExchangeImmediate" /\ BranchLinkExchangeImmediate(i)
     \/ run /\ i.class = "BranchExchange" /\ BranchExchange(i)
     \/ run /\ i.class = "Unknown" /\ Unimplemented
=============================================================================
