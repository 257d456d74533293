------------------------------ MODULE CpuThumb ------------------------------
(***************************************************************************)
(* The Thumb set of the guest's processor (execute.rs): one action per     *)
(* variant of DecodedInstruction, on the state of CpuArm.                  *)
(***************************************************************************)
EXTENDS CpuArm

(* The step writes registers and goes on. *)
Writes(r) == regs' = NextThumb(r)
Unchecked == KeepFlags /\ UNCHANGED <<thumb, mem, fault>>

(* The flags of a sum, of a difference, or of a mere result. *)
FlagsOfSum(l, r) == flags' = AddFlags(l, r, Plus(l, r)) /\ Tell("add", l, r, 0)
FlagsOfDifference(l, r) == flags' = SubFlags(l, r, Minus(l, r)) /\ Tell("sub", l, r, 0)
FlagsOfResult(x) == flags' = NZ(flags, x) /\ told' = Untold

(* A register as the operations on high registers read it. *)
ThumbVisible(r) == IF r = 15 THEN Plus(Pc, 4) ELSE regs[r]
(* The word that addresses relative to the pc are made from. *)
LiteralBase == Aligned(Plus(Pc, 4), 4)

-----------------------------------------------------------------------------
(* Arithmetic. *)

ThumbAddSub(i) ==
  LET l == regs[i.rs]
      r == IF i.immediate THEN i.operand ELSE regs[i.operand]
  IN /\ IF i.sub THEN Writes([regs EXCEPT ![i.rd] = Minus(l, r)]) /\ FlagsOfDifference(l, r)
                 ELSE Writes([regs EXCEPT ![i.rd] = Plus(l, r)]) /\ FlagsOfSum(l, r)
     /\ OnlyFlagsToo

ThumbAdjustSp(i) ==
  /\ Writes([regs EXCEPT ![13] = IF i.subtract THEN Minus(@, i.immediate)
                                               ELSE Plus(@, i.immediate)])
  /\ Unchecked

ThumbAluRegister(i) ==
  LET x == Logic(i.op, regs[i.rd], regs[i.rs])
  IN /\ \/ /\ i.op = "cmp"
           /\ Writes(regs) /\ FlagsOfDifference(regs[i.rd], regs[i.rs])
        \/ /\ i.op \in {"orr", "mvn"}
           /\ Writes([regs EXCEPT ![i.rd] = x]) /\ FlagsOfResult(x)
     /\ OnlyFlagsToo

ThumbShiftImmediate(i) ==
  LET s == Shifted(regs[i.rs], i.shift)
  IN /\ Writes([regs EXCEPT ![i.rd] = s.out])
     /\ flags' = [NZ(flags, s.out) EXCEPT !.c = s.carry] /\ told' = Untold
     /\ OnlyFlagsToo

ThumbCmpImmediate(i) ==
  Writes(regs) /\ FlagsOfDifference(regs[i.rd], i.immediate) /\ OnlyFlagsToo

ThumbSubImmediate(i) ==
  /\ Writes([regs EXCEPT ![i.rd] = Minus(@, i.immediate)])
  /\ FlagsOfDifference(regs[i.rd], i.immediate) /\ OnlyFlagsToo

(* The carry and the overflow stay what they were. *)
ThumbAddImmediate(i) ==
  LET x == Plus(regs[i.rd], i.immediate)
  IN Writes([regs EXCEPT ![i.rd] = x]) /\ FlagsOfResult(x) /\ OnlyFlagsToo

ThumbMovImmediate(i) ==
  /\ Writes([regs EXCEPT ![i.rd] = i.immediate])
  /\ FlagsOfResult(i.immediate) /\ OnlyFlagsToo

ThumbLoadAddress(i) ==
  /\ Writes([regs EXCEPT ![i.rd] = Plus(IF i.sp THEN Sp ELSE LiteralBase, i.offset)])
  /\ Unchecked

-----------------------------------------------------------------------------
(* Branches. *)

(* The two halves of BL: the first puts a part of the target in lr, the    *)
(* second goes there and leaves the address of the next instruction with   *)
(* the mark of Thumb code; or, for BLX, goes to ARM code.                  *)
ThumbLongBranchPrefix(i) ==
  Writes([regs EXCEPT ![14] = (Pc + 4 + i.offset) % M]) /\ Unchecked

ThumbLongBranchSuffix(i) ==
  LET target == Plus(regs[14], i.offset)
  IN /\ regs' = [regs EXCEPT ![14] = Marked(Plus(Pc, 2)),
                             ![15] = Aligned(target, IF i.exchange THEN 4 ELSE 2)]
     /\ thumb' = ~i.exchange
     /\ KeepFlags /\ UNCHANGED <<mem, fault>>

ThumbBranch(i) == regs' = [regs EXCEPT ![15] = (Pc + 4 + i.offset) % M] /\ Unchecked

ThumbConditionalBranch(i) ==
  /\ IF Passed(flags, i.condition) THEN regs' = [regs EXCEPT ![15] = (Pc + 4 + i.offset) % M]
                                   ELSE Writes(regs)
  /\ Unchecked

(* ADD, CMP and MOV with high registers; a result in the pc is a branch    *)
(* that stays in Thumb mode.                                               *)
ThumbHiResult(rd, x) ==
  IF rd = 15 THEN regs' = [regs EXCEPT ![15] = Aligned(x, 2)]
             ELSE Writes([regs EXCEPT ![rd] = x])

(* BX, and BLX, which always goes to ARM mode. *)
ThumbHiRegisterOp(i) ==
  LET l == ThumbVisible(i.rd)
      r == ThumbVisible(i.rs)
  IN \/ i.op = "add" /\ ThumbHiResult(i.rd, Plus(l, r)) /\ Unchecked
     \/ i.op = "mov" /\ ThumbHiResult(i.rd, r) /\ Unchecked
     \/ i.op = "cmp" /\ Writes(regs) /\ FlagsOfDifference(l, r) /\ OnlyFlagsToo
     \/ /\ i.op = "bx"
        /\ regs' = [regs EXCEPT ![15] = ExchangeAddress(r)]
        /\ thumb' = (r % 2 = 1)
        /\ KeepFlags /\ UNCHANGED <<mem, fault>>
     \/ /\ i.op = "blx"
        /\ regs' = [regs EXCEPT ![14] = Marked(Plus(Pc, 2)), ![15] = Aligned(r, 4)]
        /\ thumb' = FALSE
        /\ KeepFlags /\ UNCHANGED <<mem, fault>>

-----------------------------------------------------------------------------
(* Memory. *)

(* A load or a store of w bytes at a, which need not be aligned. *)
ThumbAccess(load, rd, a, w) ==
  IF ~Mapped(a, w) THEN Failing("memory")
  ELSE /\ IF load THEN Writes([regs EXCEPT ![rd] = Read(a, w)]) /\ UNCHANGED mem
                  ELSE Writes(regs) /\ mem' = Write(a, w, regs[rd])
       /\ KeepFlags /\ UNCHANGED <<thumb, fault>>

ThumbLiteralLoad(i) == ThumbAccess(TRUE, i.rd, Plus(LiteralBase, i.offset), 4)
ThumbLoadStoreSpRelative(i) == ThumbAccess(i.load, i.rd, Plus(Sp, i.offset), 4)
ThumbLoadStoreRegisterOffset(i) ==
  ThumbAccess(i.load, i.rd, Plus(regs[i.base], regs[i.offset]), IF i.byte THEN 1 ELSE 4)
ThumbLoadStoreByteImmediate(i) == ThumbAccess(i.load, i.rd, Plus(regs[i.base], i.offset), 1)
ThumbLoadStoreWordImmediate(i) == ThumbAccess(i.load, i.rd, Plus(regs[i.base], i.offset), 4)

(* Several words, in the order of the registers up to the first that       *)
(* faults; then the base is the address after them, also when it is one of *)
(* the registers that were loaded.                                         *)
ThumbLoadStoreMultiple(i) ==
  LET S == i.registers \cap 0 .. 7
      addr(r) == (regs[i.base] + 4 * Slot(S, r)) % M
      done == {r \in S : \A q \in S : q <= r => Mapped(addr(q), 4)}
      loaded == [r \in Registers |-> IF i.load /\ r \in done THEN Read(addr(r), 4) ELSE regs[r]]
  IN /\ mem' = IF i.load THEN mem ELSE WriteAll([r \in done |-> addr(r)])
     /\ IF done # S THEN regs' = loaded /\ fault' = "memory"
        ELSE /\ Writes([loaded EXCEPT ![i.base] = (regs[i.base] + 4 * Cardinality(S)) % M])
             /\ UNCHANGED fault
     /\ KeepFlags /\ UNCHANGED thumb

(* Mutant of ThumbPush: sp is moved with every register that is written.   *)
ThumbPushMoving(i) ==
  LET S == i.registers \cup (IF i.lr THEN {14} ELSE {})
      addr(r) == (Sp - 4 * (Cardinality(S) - Slot(S, r))) % M
      done == {r \in S : \A q \in S : r <= q => Mapped(addr(q), 4)}
      moved == [regs EXCEPT ![13] = (Sp - 4 * Cardinality(done)) % M]
  IN /\ mem' = WriteAll([r \in done |-> addr(r)])
     /\ IF done # S THEN fault' = "memory" /\ regs' = moved ELSE Writes(moved) /\ UNCHANGED fault
     /\ KeepFlags /\ UNCHANGED thumb

(* PUSH writes the highest register first and moves sp when all are there. *)
ThumbPush(i) ==
  LET S == i.registers \cup (IF i.lr THEN {14} ELSE {})
      addr(r) == (Sp - 4 * (Cardinality(S) - Slot(S, r))) % M
      done == {r \in S : \A q \in S : r <= q => Mapped(addr(q), 4)}
  IN /\ mem' = WriteAll([r \in done |-> addr(r)])
     /\ IF done # S THEN fault' = "memory" /\ UNCHANGED regs
        ELSE /\ Writes([regs EXCEPT ![13] = (Sp - 4 * Cardinality(S)) % M])
             /\ UNCHANGED fault
     /\ KeepFlags /\ UNCHANGED thumb

(* POP moves sp when all are read, and exchanges the mode if one is the pc.*)
ThumbPop(i) ==
  LET S == i.registers \cup (IF i.pc THEN {15} ELSE {})
      addr(r) == (Sp + 4 * Slot(S, r)) % M
      done == {r \in S : \A q \in S : q <= r => Mapped(addr(q), 4)}
      loaded == [r \in Registers |-> IF r \in done \ {15} THEN Read(addr(r), 4) ELSE regs[r]]
      popped == [loaded EXCEPT ![13] = (Sp + 4 * Cardinality(S)) % M]
  IN /\ \/ done # S /\ regs' = loaded /\ fault' = "memory" /\ UNCHANGED thumb
        \/ done = S /\ ~i.pc /\ Writes(popped) /\ UNCHANGED <<thumb, fault>>
        \/ /\ done = S /\ i.pc
           /\ regs' = [popped EXCEPT ![15] = ExchangeAddress(Read(addr(15), 4))]
           /\ thumb' = (Read(addr(15), 4) % 2 = 1)
           /\ UNCHANGED fault
     /\ KeepFlags /\ UNCHANGED mem

-----------------------------------------------------------------------------
(* execute_instruction in Thumb mode. *)
ExecuteThumb(op) ==
  LET i == DecodeThumb(op)
  IN \/ i.class = "ThumbAddSub" /\ ThumbAddSub(i)
     \/ i.class = "ThumbAdjustSp" /\ ThumbAdjustSp(i)
     \/ i.class = "ThumbAluRegister" /\ ThumbAluRegister(i)
     \/ i.class = "ThumbShiftImmediate" /\ ThumbShiftImmediate(i)
     \/ i.class = "ThumbCmpImmediate" /\ ThumbCmpImmediate(i)
     \/ i.class = "ThumbSubImmediate" /\ ThumbSubImmediate(i)
     \/ i.class = "ThumbAddImmediate" /\ ThumbAddImmediate(i)
     \/ i.class = "ThumbMovImmediate" /\ ThumbMovImmediate(i)
     \/ i.class = "ThumbLoadAddress" /\ ThumbLoadAddress(i)
     \/ i.class = "ThumbLongBranchPrefix" /\ ThumbLongBranchPrefix(i)
     \/ i.class = "ThumbLongBranchSuffix" /\ ThumbLongBranchSuffix(i)
     \/ i.class = "ThumbBranch" /\ ThumbBranch(i)
     \/ i.class = "ThumbConditionalBranch" /\ ThumbConditionalBranch(i)
     \/ i.class = "ThumbHiRegisterOp" /\ ThumbHiRegisterOp(i)
     \/ i.class = "ThumbLiteralLoad" /\ ThumbLiteralLoad(i)
     \/ i.class = "ThumbLoadStoreSpRelative" /\ ThumbLoadStoreSpRelative(i)
     \/ i.class = "ThumbLoadStoreRegisterOffset" /\ ThumbLoadStoreRegisterOffset(i)
     \/ i.class = "ThumbLoadStoreByteImmediate" /\ ThumbLoadStoreByteImmediate(i)
     \/ i.class = "ThumbLoadStoreWordImmediate" /\ ThumbLoadStoreWordImmediate(i)
     \/ i.class = "ThumbLoadStoreMultiple" /\ ThumbLoadStoreMultiple(i)
     \/ i.class = "ThumbPush" /\ ThumbPush(i)
     \/ i.class = "ThumbPop" /\ ThumbPop(i)
     \/ i.class = "Unknown" /\ Unimplemented
=============================================================================
