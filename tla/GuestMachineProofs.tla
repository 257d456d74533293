------------------------- MODULE GuestMachineProofs -------------------------
(***************************************************************************)
(* The guest's machine for every program, memory and word size.  What the  *)
(* flags mean after a comparison or a sum, and that a step that ends in an *)
(* error has not moved on, go through all the instructions: what one does  *)
(* to the flags, and how one fails.  The types need all they compute: that *)
(* what is decoded has the fields of its class, that what the shifter, the *)
(* sums, the loads and the C library of the host make are words, and under *)
(* these, facts of the powers of two, of sums over a set and of folds, by  *)
(* induction with the least of some numbers.  That the shifts are those of *)
(* the integers is arithmetic of quotients, kind by kind.  That the C      *)
(* library does what the C standard says rests on where a loop of the host *)
(* first stops, on that what is mapped does not go round, on the readings  *)
(* of a text and of a format as functions of what was read, and on the     *)
(* first difference of two strings.                                        *)
(***************************************************************************)
EXTENDS GuestMachine, TLAPS, WellFoundedInduction, FiniteSetTheorems, SequenceTheorems

-----------------------------------------------------------------------------
(* What the flags mean, for words of any width.                            *)

LEMMA HalfFact == Half \in Nat /\ Half > 0 /\ M = 2 * Half /\ M \in Nat
  BY WordAssumption, SMT DEF M

(* The wrapping operations give words. *)
LEMMA PlusMinusWords ==
  ASSUME NEW l \in Word, NEW r \in Word
  PROVE  Plus(l, r) \in Word /\ Minus(l, r) \in Word
  BY HalfFact, SMT DEF Word, Plus, Minus

(* After a comparison the conditions of equality, below and less are the   *)
(* order of the words, unsigned and signed (update_nzcv_sub with           *)
(* arm_condition_passed).                                                  *)
THEOREM ComparisonTells ==
  ASSUME NEW l \in Word, NEW r \in Word
  PROVE  TellsOrder(SubFlags(l, r, Minus(l, r)), l, r)
  <1> DEFINE x == Minus(l, r)
             f == SubFlags(l, r, x)
  <1>1. l \in Int /\ r \in Int /\ 0 <= l /\ l < M /\ 0 <= r /\ r < M
    BY HalfFact, SMT DEF Word
  <1>2. x = IF r <= l THEN l - r ELSE l - r + M
    BY DEF Minus
  <1>3. /\ f.n <=> Half <= x
        /\ f.z <=> x = 0
        /\ f.c <=> r <= l
        /\ f.v <=> ((Half <= l) # (Half <= r)) /\ ((Half <= l) # (Half <= x))
    BY DEF SubFlags, Negative
  <1>4. f.z <=> l = r
    BY HalfFact, <1>1, <1>2, <1>3
  <1>5. /\ Signed(l) = IF Half <= l THEN l - M ELSE l
        /\ Signed(r) = IF Half <= r THEN r - M ELSE r
        /\ Signed(l) \in Int /\ Signed(r) \in Int
    BY HalfFact, <1>1 DEF Signed, Negative
  <1>6. (f.n <=> f.v) <=> Signed(r) <= Signed(l)
    BY HalfFact, <1>1, <1>2, <1>3, <1>5
  <1>7. f.n \in BOOLEAN /\ f.v \in BOOLEAN
    BY DEF SubFlags, Negative
  <1>8. (f.n = f.v) <=> Signed(r) <= Signed(l)
    BY <1>6, <1>7
  <1>9. /\ l < r <=> ~(r <= l)
        /\ r < l <=> r <= l /\ l # r
        /\ l <= r <=> ~(r <= l) \/ l = r
        /\ Signed(l) = Signed(r) <=> l = r
        /\ Signed(l) < Signed(r) <=> ~(Signed(r) <= Signed(l))
        /\ Signed(r) < Signed(l) <=> Signed(r) <= Signed(l) /\ l # r
        /\ Signed(l) <= Signed(r) <=> ~(Signed(r) <= Signed(l)) \/ l = r
    BY HalfFact, <1>1, <1>5
  <1> HIDE DEF f, x
  <1>a. /\ Passed(f, 0) <=> f.z
        /\ Passed(f, 1) <=> ~f.z
        /\ Passed(f, 2) <=> f.c
        /\ Passed(f, 3) <=> ~f.c
        /\ Passed(f, 8) <=> f.c /\ ~f.z
        /\ Passed(f, 9) <=> ~f.c \/ f.z
    BY DEF Passed
  <1>b. /\ Passed(f, 10) <=> f.n = f.v
        /\ Passed(f, 11) <=> f.n # f.v
        /\ Passed(f, 12) <=> ~f.z /\ f.n = f.v
        /\ Passed(f, 13) <=> (f.z \/ f.n # f.v)
    BY DEF Passed
  <1>c. TellsOrder(f, l, r)
    BY <1>3, <1>4, <1>8, <1>9, <1>a, <1>b DEF TellsOrder
  <1> QED
    BY <1>c DEF f, x

-----------------------------------------------------------------------------
(* What a sum of two words and a carry leaves, whoever computes it.        *)
LEMMA SumTells ==
  ASSUME NEW l \in Word, NEW r \in Word, NEW carry \in {0, 1},
         NEW x, x = IF l + r + carry < M THEN l + r + carry ELSE l + r + carry - M,
         NEW f,
         f.n <=> Negative(x), f.z <=> x = 0, f.c <=> M <= l + r + carry,
         f.v <=> Negative(l) # Negative(x) /\ Negative(r) # Negative(x),
         f.n \in BOOLEAN, f.v \in BOOLEAN
  PROVE  TellsSum(f, l, r, carry)
  <1> DEFINE sum == Signed(l) + Signed(r) + carry
  <1>1. l \in Int /\ r \in Int /\ 0 <= l /\ l < M /\ 0 <= r /\ r < M
    BY HalfFact, SMT DEF Word
  <1>2. /\ Signed(l) = IF Half <= l THEN l - M ELSE l
        /\ Signed(r) = IF Half <= r THEN r - M ELSE r
        /\ Signed(l) \in Int /\ Signed(r) \in Int
    BY HalfFact, <1>1 DEF Signed, Negative
  <1>3. /\ f.n <=> Half <= x
        /\ f.v <=> ((Half <= l) # (Half <= x)) /\ ((Half <= r) # (Half <= x))
    BY DEF Negative
  <1>4. f.v <=> sum < -Half \/ Half <= sum
    BY HalfFact, <1>1, <1>2, <1>3
  <1>5. ~(f.n <=> f.v) <=> sum < 0
    BY HalfFact, <1>1, <1>2, <1>3
  <1>6. (f.n # f.v) <=> sum < 0
    BY <1>5
  <1>7. f.z <=> l + r + carry \in {0, M}
    BY HalfFact, <1>1
  <1> QED
    BY <1>4, <1>6, <1>7 DEF TellsSum

(* The same of the two ways in which the code computes sums: with          *)
(* wrapping_add and update_nzcv_add, and with add_with_carry.              *)
THEOREM AdditionTells ==
  ASSUME NEW l \in Word, NEW r \in Word
  PROVE  TellsSum(AddFlags(l, r, Plus(l, r)), l, r, 0)
  <1> DEFINE x == Plus(l, r)
             f == AddFlags(l, r, x)
  <1>1. l \in Int /\ r \in Int
    BY HalfFact, SMT DEF Word
  <1>2. l + r + 0 = l + r
    BY <1>1
  <1>3. x = IF l + r + 0 < M THEN l + r + 0 ELSE l + r + 0 - M
    BY <1>1, HalfFact DEF Plus
  <1>4. /\ f.n <=> Negative(x)
        /\ f.z <=> x = 0
        /\ f.c <=> M <= l + r
        /\ f.v <=> Negative(l) # Negative(x) /\ Negative(r) # Negative(x)
    BY DEF AddFlags
  <1>5. f.c <=> M <= l + r + 0
    BY <1>2, <1>4
  <1>6. f.n \in BOOLEAN /\ f.v \in BOOLEAN
    BY DEF AddFlags, Negative
  <1> HIDE DEF f, x
  <1>7. TellsSum(f, l, r, 0)
    BY <1>3, <1>4, <1>5, <1>6, SumTells
  <1> QED
    BY <1>7 DEF f, x

THEOREM AddWithCarryTells ==
  ASSUME NEW l \in Word, NEW r \in Word, NEW carry \in {0, 1}
  PROVE  TellsSum(CarriedFlags(l, r, carry, CarriedSum(l, r, carry)), l, r, carry)
  <1> DEFINE x == CarriedSum(l, r, carry)
             f == CarriedFlags(l, r, carry, x)
  <1>1. x = IF l + r + carry < M THEN l + r + carry ELSE l + r + carry - M
    BY DEF CarriedSum
  <1>2. /\ f.n <=> Negative(x)
        /\ f.z <=> x = 0
        /\ f.c <=> M <= l + r + carry
        /\ f.v <=> Negative(l) # Negative(x) /\ Negative(r) # Negative(x)
    BY DEF CarriedFlags
  <1>3. f.n \in BOOLEAN /\ f.v \in BOOLEAN
    BY DEF CarriedFlags, Negative
  <1> HIDE DEF f, x
  <1>4. TellsSum(f, l, r, carry)
    BY <1>1, <1>2, <1>3, SumTells
  <1> QED
    BY <1>4 DEF f, x

-----------------------------------------------------------------------------
(* What an instruction may do to the flags: leave them, set them in a way  *)
(* that says nothing of an order, or set all four from two words.          *)
Kept == UNCHANGED <<flags, told>>
Forgotten == told' = Untold
Compared ==
  \E l, r : flags' = SubFlags(l, r, Minus(l, r)) /\ Tell("sub", l, r, 0)
Summed ==
  \E l, r : flags' = AddFlags(l, r, Plus(l, r)) /\ Tell("add", l, r, 0)
SummedWithCarry ==
  \E l, r : \E c \in {0, 1} :
    flags' = CarriedFlags(l, r, c, CarriedSum(l, r, c)) /\ Tell("add", l, r, c)
FlagsEffect == Kept \/ Forgotten \/ Compared \/ Summed \/ SummedWithCarry

(* How a step ends: well, or with an error at its place. *)
Stays == fault' # fault => regs' = regs /\ thumb' = thumb /\ flags' = flags
(* A load of several, which may have filled some registers of its list.    *)
StaysBut(S) ==
  fault' # fault =>
    /\ regs'[15] = regs[15] /\ thumb' = thumb /\ flags' = flags
    /\ \A r \in Registers : regs'[r] # regs[r] => r \in S

LEMMA FailingEffect ==
  ASSUME NEW kind, Failing(kind)
  PROVE  FlagsEffect /\ Stays
  BY DEF Failing, FlagsEffect, Kept, Stays

LEMMA DataProcessingEffect ==
  ASSUME NEW i, NEW l, NEW r, NEW carry, DataProcessing(i, l, r, carry)
  PROVE  FlagsEffect /\ Stays
  <1>1. Stays
    BY DEF DataProcessing, OnlyFlagsToo, Stays
  <1>2. CASE LogicStep(i, l, r, carry)
    BY <1>1, <1>2 DEF LogicStep, KeepFlags, FlagsEffect, Kept, Forgotten
  <1>3. CASE AddStep(i, l, r)
    BY <1>1, <1>3 DEF AddStep, KeepFlags, FlagsEffect, Kept, Summed
  <1>4. CASE AdcStep(i, l, r)
    <2> DEFINE c == IF flags.c THEN 1 ELSE 0
    <2>1. c \in {0, 1}
      OBVIOUS
    <2>2. CASE i.setFlags
      <3>1. flags' = CarriedFlags(l, r, c, CarriedSum(l, r, c)) /\ Tell("add", l, r, c)
        BY <1>4, <2>2 DEF AdcStep
      <3> QED
        BY <1>1, <2>1, <3>1 DEF FlagsEffect, SummedWithCarry
    <2>3. CASE ~i.setFlags
      BY <1>1, <1>4, <2>3 DEF AdcStep, KeepFlags, FlagsEffect, Kept
    <2> QED
      BY <2>2, <2>3
  <1>5. CASE SubStep(i, l, r)
    BY <1>1, <1>5 DEF SubStep, KeepFlags, FlagsEffect, Kept, Compared
  <1> QED
    BY <1>2, <1>3, <1>4, <1>5 DEF DataProcessing

LEMMA ArmTransferEffect ==
  ASSUME NEW i, NEW offset, SingleDataTransfer(i, offset) \/ HalfwordTransfer(i, offset)
  PROVE  FlagsEffect /\ Stays
  <1>1. CASE SingleDataTransfer(i, offset)
    BY <1>1, FailingEffect DEF SingleDataTransfer, KeepFlags, FlagsEffect, Kept, Stays
  <1>2. CASE HalfwordTransfer(i, offset)
    BY <1>2, FailingEffect DEF HalfwordTransfer, KeepFlags, FlagsEffect, Kept, Stays
  <1> QED
    BY <1>1, <1>2

LEMMA BlockTransferEffect ==
  ASSUME NEW i, BlockTransfer(i)
  PROVE  FlagsEffect /\ StaysBut(i.registers)
  <1> DEFINE addr(r) == (BlockStart(i) + 4 * Slot(i.registers, r)) % M
             done == {r \in i.registers : \A q \in i.registers : q <= r => Mapped(addr(q), 4)}
             loaded == [r \in Registers |->
                          IF i.load /\ r \in done \ {15} THEN Read(addr(r), 4) ELSE regs[r]]
  <1>1. FlagsEffect
    BY DEF BlockTransfer, KeepFlags, FlagsEffect, Kept
  <1>2. /\ flags' = flags
        /\ fault' # fault => regs' = loaded /\ thumb' = thumb
    BY DEF BlockTransfer, KeepFlags
  <1>3. done \subseteq i.registers
    OBVIOUS
  <1>4. \A r \in Registers : loaded[r] # regs[r] => r \in i.registers
    BY <1>3
  <1>5. loaded[15] = regs[15]
    BY DEF Registers
  <1> QED
    BY <1>1, <1>2, <1>4, <1>5 DEF StaysBut

LEMMA ArmOthersEffect ==
  ASSUME NEW i,
         \/ Multiply(i) \/ MultiplyLong(i) \/ Branch(i) \/ PassedOver
         \/ BranchLinkExchangeImmediate(i) \/ BranchExchange(i) \/ Unimplemented
  PROVE  FlagsEffect /\ Stays
  <1>1. CASE Multiply(i)
    BY <1>1 DEF Multiply, KeepFlags, OnlyFlagsToo, FlagsEffect, Kept, Forgotten, Stays
  <1>2. CASE MultiplyLong(i)
    BY <1>2 DEF MultiplyLong, KeepFlags, OnlyFlagsToo, FlagsEffect, Kept, Forgotten, Stays
  <1>3. CASE Branch(i) \/ PassedOver
    BY <1>3 DEF Branch, PassedOver, OnlyRegisters, FlagsEffect, Kept, Stays
  <1>4. CASE BranchLinkExchangeImmediate(i)
    BY <1>4 DEF BranchLinkExchangeImmediate, KeepFlags, FlagsEffect, Kept, Stays
  <1>5. CASE BranchExchange(i)
    BY <1>5 DEF BranchExchange, KeepFlags, FlagsEffect, Kept, Stays
  <1>6. CASE Unimplemented
    BY <1>6, FailingEffect DEF Unimplemented
  <1> QED
    BY <1>1, <1>2, <1>3, <1>4, <1>5, <1>6

(* What any instruction of the ARM set does to the flags and with an error.*)
LEMMA ArmEffect ==
  ASSUME NEW op, ExecuteArm(op)
  PROVE  /\ FlagsEffect
         /\ \/ Stays
            \/ /\ DecodeArm(op).class = "BlockTransfer"
               /\ StaysBut(DecodeArm(op).registers)
  <1> DEFINE i == DecodeArm(op)
  <1>1. CASE DataProcessingRegister(i) \/ DataProcessingImmediate(i)
    BY <1>1, DataProcessingEffect DEF DataProcessingRegister, DataProcessingImmediate
  <1>2. CASE \/ SingleDataTransferImmediate(i) \/ SingleDataTransferRegister(i)
             \/ HalfwordTransferImmediate(i) \/ HalfwordTransferRegister(i)
    BY <1>2, ArmTransferEffect
       DEF SingleDataTransferImmediate, SingleDataTransferRegister,
           HalfwordTransferImmediate, HalfwordTransferRegister
  <1>3. CASE i.class = "BlockTransfer" /\ BlockTransfer(i)
    BY <1>3, BlockTransferEffect
  <1>4. CASE \/ Multiply(i) \/ MultiplyLong(i) \/ Branch(i) \/ PassedOver
             \/ BranchLinkExchangeImmediate(i) \/ BranchExchange(i) \/ Unimplemented
    BY <1>4, ArmOthersEffect
  <1> QED
    BY <1>1, <1>2, <1>3, <1>4 DEF ExecuteArm

-----------------------------------------------------------------------------
(* The Thumb set. *)

LEMMA ThumbArithmeticEffect ==
  ASSUME NEW i,
         \/ ThumbAddSub(i) \/ ThumbAdjustSp(i) \/ ThumbAluRegister(i) \/ ThumbShiftImmediate(i)
         \/ ThumbCmpImmediate(i) \/ ThumbSubImmediate(i) \/ ThumbAddImmediate(i)
         \/ ThumbMovImmediate(i) \/ ThumbLoadAddress(i)
  PROVE  FlagsEffect /\ Stays
  <1> USE DEF FlagsEffect, Stays
  <1>1. CASE ThumbAddSub(i)
    BY <1>1 DEF ThumbAddSub, FlagsOfSum, FlagsOfDifference, OnlyFlagsToo, Compared, Summed
  <1>2. CASE ThumbAdjustSp(i) \/ ThumbLoadAddress(i)
    BY <1>2 DEF ThumbAdjustSp, ThumbLoadAddress, Unchecked, KeepFlags, Kept
  <1>3. CASE ThumbAluRegister(i)
    BY <1>3 DEF ThumbAluRegister, FlagsOfDifference, FlagsOfResult, OnlyFlagsToo, Compared,
                Forgotten
  <1>4. CASE ThumbShiftImmediate(i)
    BY <1>4 DEF ThumbShiftImmediate, OnlyFlagsToo, Forgotten
  <1>5. CASE ThumbCmpImmediate(i) \/ ThumbSubImmediate(i)
    BY <1>5 DEF ThumbCmpImmediate, ThumbSubImmediate, FlagsOfDifference, OnlyFlagsToo, Compared
  <1>6. CASE ThumbAddImmediate(i) \/ ThumbMovImmediate(i)
    BY <1>6 DEF ThumbAddImmediate, ThumbMovImmediate, FlagsOfResult, OnlyFlagsToo, Forgotten
  <1> QED
    BY <1>1, <1>2, <1>3, <1>4, <1>5, <1>6

LEMMA ThumbBranchEffect ==
  ASSUME NEW i,
         \/ ThumbLongBranchPrefix(i) \/ ThumbLongBranchSuffix(i) \/ ThumbBranch(i)
         \/ ThumbConditionalBranch(i) \/ ThumbHiRegisterOp(i)
  PROVE  FlagsEffect /\ Stays
  <1> USE DEF FlagsEffect, Stays, KeepFlags, Kept
  <1>1. CASE ThumbLongBranchPrefix(i) \/ ThumbBranch(i) \/ ThumbConditionalBranch(i)
    BY <1>1 DEF ThumbLongBranchPrefix, ThumbBranch, ThumbConditionalBranch, Unchecked
  <1>2. CASE ThumbLongBranchSuffix(i)
    BY <1>2 DEF ThumbLongBranchSuffix
  <1>3. CASE ThumbHiRegisterOp(i)
    BY <1>3 DEF ThumbHiRegisterOp, Unchecked, OnlyFlagsToo, FlagsOfDifference, Compared
  <1> QED
    BY <1>1, <1>2, <1>3

LEMMA ThumbAccessEffect ==
  ASSUME NEW i,
         \/ ThumbLiteralLoad(i) \/ ThumbLoadStoreSpRelative(i)
         \/ ThumbLoadStoreRegisterOffset(i) \/ ThumbLoadStoreByteImmediate(i)
         \/ ThumbLoadStoreWordImmediate(i) \/ ThumbPush(i)
  PROVE  FlagsEffect /\ Stays
  <1>1. ASSUME NEW load, NEW rd, NEW a, NEW w, ThumbAccess(load, rd, a, w)
        PROVE  FlagsEffect /\ Stays
    BY <1>1, FailingEffect DEF ThumbAccess, KeepFlags, FlagsEffect, Kept, Stays
  <1>2. CASE ThumbPush(i)
    BY <1>2 DEF ThumbPush, KeepFlags, FlagsEffect, Kept, Stays
  <1>3. CASE ThumbLiteralLoad(i) \/ ThumbLoadStoreSpRelative(i)
    BY <1>1, <1>3 DEF ThumbLiteralLoad, ThumbLoadStoreSpRelative
  <1>4. CASE ThumbLoadStoreRegisterOffset(i)
    BY <1>1, <1>4 DEF ThumbLoadStoreRegisterOffset
  <1>5. CASE ThumbLoadStoreByteImmediate(i) \/ ThumbLoadStoreWordImmediate(i)
    BY <1>1, <1>5 DEF ThumbLoadStoreByteImmediate, ThumbLoadStoreWordImmediate
  <1> QED
    BY <1>2, <1>3, <1>4, <1>5

LEMMA ThumbMultipleEffect ==
  ASSUME NEW i, ThumbLoadStoreMultiple(i)
  PROVE  FlagsEffect /\ StaysBut(i.registers)
  <1> DEFINE S == i.registers \cap 0 .. 7
             addr(r) == (regs[i.base] + 4 * Slot(S, r)) % M
             done == {r \in S : \A q \in S : q <= r => Mapped(addr(q), 4)}
             loaded == [r \in Registers |->
                          IF i.load /\ r \in done THEN Read(addr(r), 4) ELSE regs[r]]
  <1>1. FlagsEffect
    BY DEF ThumbLoadStoreMultiple, KeepFlags, FlagsEffect, Kept
  <1>2. /\ flags' = flags /\ thumb' = thumb
        /\ fault' # fault => regs' = loaded
    BY DEF ThumbLoadStoreMultiple, KeepFlags
  <1>3. \A r \in Registers : loaded[r] # regs[r] => r \in i.registers
    OBVIOUS
  <1>4. loaded[15] = regs[15]
    BY DEF Registers
  <1> QED
    BY <1>1, <1>2, <1>3, <1>4 DEF StaysBut

LEMMA ThumbPopEffect ==
  ASSUME NEW i, ThumbPop(i)
  PROVE  FlagsEffect /\ StaysBut(i.registers)
  <1> DEFINE S == i.registers \cup (IF i.pc THEN {15} ELSE {})
             addr(r) == (Sp + 4 * Slot(S, r)) % M
             done == {r \in S : \A q \in S : q <= r => Mapped(addr(q), 4)}
             loaded == [r \in Registers |->
                          IF r \in done \ {15} THEN Read(addr(r), 4) ELSE regs[r]]
  <1>1. FlagsEffect
    BY DEF ThumbPop, KeepFlags, FlagsEffect, Kept
  <1>2. /\ flags' = flags
        /\ fault' # fault => regs' = loaded /\ thumb' = thumb
    BY DEF ThumbPop, KeepFlags, Writes
  <1>3. done \ {15} \subseteq i.registers
    OBVIOUS
  <1>4. \A r \in Registers : loaded[r] # regs[r] => r \in i.registers
    BY <1>3
  <1>5. loaded[15] = regs[15]
    BY DEF Registers
  <1> QED
    BY <1>1, <1>2, <1>4, <1>5 DEF StaysBut

(* What any instruction of the Thumb set does to the flags and with an     *)
(* error.                                                                  *)
LEMMA ThumbEffect ==
  ASSUME NEW op, ExecuteThumb(op)
  PROVE  /\ FlagsEffect
         /\ \/ Stays
            \/ /\ DecodeThumb(op).class \in {"ThumbLoadStoreMultiple", "ThumbPop"}
               /\ StaysBut(DecodeThumb(op).registers)
  <1> DEFINE i == DecodeThumb(op)
  <1>1. CASE \/ ThumbAddSub(i) \/ ThumbAdjustSp(i) \/ ThumbAluRegister(i)
             \/ ThumbShiftImmediate(i) \/ ThumbCmpImmediate(i) \/ ThumbSubImmediate(i)
             \/ ThumbAddImmediate(i) \/ ThumbMovImmediate(i) \/ ThumbLoadAddress(i)
    BY <1>1, ThumbArithmeticEffect
  <1>2. CASE \/ ThumbLongBranchPrefix(i) \/ ThumbLongBranchSuffix(i) \/ ThumbBranch(i)
             \/ ThumbConditionalBranch(i) \/ ThumbHiRegisterOp(i)
    BY <1>2, ThumbBranchEffect
  <1>3. CASE \/ ThumbLiteralLoad(i) \/ ThumbLoadStoreSpRelative(i)
             \/ ThumbLoadStoreRegisterOffset(i) \/ ThumbLoadStoreByteImmediate(i)
             \/ ThumbLoadStoreWordImmediate(i) \/ ThumbPush(i)
    BY <1>3, ThumbAccessEffect
  <1>4. CASE i.class = "ThumbLoadStoreMultiple" /\ ThumbLoadStoreMultiple(i)
    BY <1>4, ThumbMultipleEffect
  <1>5. CASE i.class = "ThumbPop" /\ ThumbPop(i)
    BY <1>5, ThumbPopEffect
  <1>6. CASE Unimplemented
    BY <1>6, ArmOthersEffect
  <1> QED
    BY <1>1, <1>2, <1>3, <1>4, <1>5, <1>6 DEF ExecuteThumb

-----------------------------------------------------------------------------
(* The steps of the machine. *)

(* What the flags say is still true after anything that an instruction may *)
(* do to them.                                                             *)
LEMMA EffectMeans ==
  ASSUME ConditionsMean, FlagsEffect
  PROVE  ConditionsMean'
  <1> SUFFICES ASSUME ToldOK'
               PROVE  /\ told'.sum = "sub" => TellsOrder(flags', told'.l, told'.r)
                      /\ told'.sum = "add" =>
                           TellsSum(flags', told'.l, told'.r, told'.carry)
    BY DEF ConditionsMean
  <1>1. told'.l \in Word /\ told'.r \in Word /\ told'.carry \in {0, 1}
    BY DEF ToldOK
  <1>2. CASE Kept
    BY <1>2 DEF Kept, ConditionsMean, ToldOK
  <1>3. CASE Forgotten
    BY <1>3 DEF Forgotten, Untold
  <1>4. CASE Compared
    <2>1. PICK l, r : flags' = SubFlags(l, r, Minus(l, r)) /\ Tell("sub", l, r, 0)
      BY <1>4 DEF Compared
    <2>2. told'.sum = "sub" /\ told'.l = l /\ told'.r = r
      BY <2>1 DEF Tell
    <2> QED
      BY <1>1, <2>1, <2>2, ComparisonTells
  <1>5. CASE Summed
    <2>1. PICK l, r : flags' = AddFlags(l, r, Plus(l, r)) /\ Tell("add", l, r, 0)
      BY <1>5 DEF Summed
    <2>2. told'.sum = "add" /\ told'.l = l /\ told'.r = r /\ told'.carry = 0
      BY <2>1 DEF Tell
    <2> QED
      BY <1>1, <2>1, <2>2, AdditionTells
  <1>6. CASE SummedWithCarry
    <2>0. PICK l, r : \E c \in {0, 1} :
             flags' = CarriedFlags(l, r, c, CarriedSum(l, r, c)) /\ Tell("add", l, r, c)
      BY <1>6 DEF SummedWithCarry
    <2>1. PICK c \in {0, 1} :
             flags' = CarriedFlags(l, r, c, CarriedSum(l, r, c)) /\ Tell("add", l, r, c)
      BY <2>0
    <2>2. told'.sum = "add" /\ told'.l = l /\ told'.r = r /\ told'.carry = c
      BY <2>1 DEF Tell
    <2> QED
      BY <1>1, <2>1, <2>2, AddWithCarryTells
  <1> QED
    BY <1>2, <1>3, <1>4, <1>5, <1>6 DEF FlagsEffect

LEMMA HostCallEffect ==
  ASSUME HostCall
  PROVE  FlagsEffect /\ Stays
  BY DEF HostCall, FlagsEffect, Kept, Stays

LEMMA GuestStepEffect ==
  ASSUME GuestStep
  PROVE  FlagsEffect
  BY FailingEffect, ArmEffect, ThumbEffect DEF GuestStep

(* The property of FaultsStay, of one step. *)
StepStays ==
  fault' # fault =>
    /\ regs'[15] = Pc /\ thumb' = thumb /\ flags' = flags
    /\ (\E r \in Registers : regs'[r] # regs[r]) =>
         /\ Executes
         /\ Instruction.class \in {"BlockTransfer", "ThumbLoadStoreMultiple", "ThumbPop"}
         /\ \A r \in Registers : regs'[r] # regs[r] => r \in Instruction.registers

LEMMA StaysEnough ==
  ASSUME Stays
  PROVE  StepStays
  BY DEF Stays, StepStays, Pc

LEMMA StepsStay ==
  ASSUME [Next]_vars
  PROVE  StepStays
  <1>1. CASE HostCall
    BY <1>1, HostCallEffect, StaysEnough
  <1>2. CASE GuestStep
    <2>1. CASE ~Fetched /\ Failing("wild")
      BY <2>1, FailingEffect, StaysEnough
    <2>2. CASE Fetched /\ ~thumb /\ ExecuteArm(Opcode)
      <3>1. Executes /\ Instruction = DecodeArm(Opcode)
        BY <1>2, <2>2 DEF GuestStep, Executes, Instruction
      <3>2. CASE Stays
        BY <3>2, StaysEnough
      <3>3. CASE /\ DecodeArm(Opcode).class = "BlockTransfer"
                 /\ StaysBut(DecodeArm(Opcode).registers)
        BY <3>1, <3>3 DEF StaysBut, StepStays, Pc
      <3> QED
        BY <2>2, <3>2, <3>3, ArmEffect
    <2>3. CASE Fetched /\ thumb /\ ExecuteThumb(Opcode)
      <3>1. Executes /\ Instruction = DecodeThumb(Opcode)
        BY <1>2, <2>3 DEF GuestStep, Executes, Instruction
      <3>2. CASE Stays
        BY <3>2, StaysEnough
      <3>3. CASE /\ DecodeThumb(Opcode).class \in {"ThumbLoadStoreMultiple", "ThumbPop"}
                 /\ StaysBut(DecodeThumb(Opcode).registers)
        BY <3>1, <3>3 DEF StaysBut, StepStays, Pc
      <3> QED
        BY <2>3, <3>2, <3>3, ThumbEffect
    <2> QED
      BY <1>2, <2>1, <2>2, <2>3 DEF GuestStep
  <1>3. CASE UNCHANGED vars
    BY <1>3 DEF vars, StepStays
  <1> QED
    BY <1>1, <1>2, <1>3 DEF Next

-----------------------------------------------------------------------------
(* Whatever programs run, on whatever memory and with words of any width,  *)
(* the conditions that instructions are executed on are the relations of   *)
(* the words that were last compared or added.                             *)
THEOREM ConditionsAlwaysMean == Spec => []ConditionsMean
  <1>1. Init => ConditionsMean
    BY DEF Init, ConditionsMean, Untold
  <1>2. ConditionsMean /\ [Next]_vars => ConditionsMean'
    <2> SUFFICES ASSUME ConditionsMean, [Next]_vars
                 PROVE  ConditionsMean'
      OBVIOUS
    <2>1. CASE HostCall
      BY <2>1, HostCallEffect, EffectMeans
    <2>2. CASE GuestStep
      BY <2>2, GuestStepEffect, EffectMeans
    <2>3. CASE UNCHANGED vars
      BY <2>3 DEF vars, ConditionsMean, ToldOK
    <2> QED
      BY <2>1, <2>2, <2>3 DEF Next
  <1> QED
    BY <1>1, <1>2, PTL DEF Spec

(* Whatever programs run, the error that ends one leaves the machine at the*)
(* instruction that made it.                                               *)
THEOREM FaultsAlwaysStay == Spec => FaultsStay
  <1>1. [Next]_vars => StepStays
    BY StepsStay
  <1>2. [Next]_vars => [StepStays]_vars
    BY <1>1
  <1> QED
    BY <1>2, PTL DEF Spec, FaultsStay, StepStays

LEMMA LeastOfNats ==
  ASSUME NEW T \in SUBSET Nat, T # {}
  PROVE  \E x \in T : \A y \in T : x <= y
<1> DEFINE R == {ss \in Nat \X Nat : ss[1] < ss[2]}
<1>1. IsWellFoundedOn(R, Nat)
  <2>1. OpToRel(<, Nat) = R
    BY DEF OpToRel
  <2> QED BY <2>1, NatLessThanWellFounded, Zenon
<1>2. \A x, y \in Nat : ~ (<<y, x>> \in R) => x <= y
  OBVIOUS
<1> HIDE DEF R
<1>3. \E x \in T : \A y \in T : ~ (<<y, x>> \in R)
  BY <1>1, WFMin
<1> QED BY <1>2, <1>3

(* Induction up to n, on a set of numbers. *)
LEMMA UpTo ==
  ASSUME NEW n \in Nat, NEW P, 0 \in P, \A k \in 0 .. n - 1 : k \in P => k + 1 \in P
  PROVE  \A k \in 0 .. n : k \in P
<1> SUFFICES ASSUME (0 .. n) \ P # {}
             PROVE  FALSE
  OBVIOUS
<1>1. PICK x \in (0 .. n) \ P : \A y \in (0 .. n) \ P : x <= y
  <2>1. (0 .. n) \ P \in SUBSET Nat
    OBVIOUS
  <2> QED BY <2>1, LeastOfNats
<1>2. x # 0 /\ x - 1 \in 0 .. n - 1 /\ ~ (x <= x - 1)
  OBVIOUS
<1>3. x - 1 \in P
  BY <1>1, <1>2
<1> QED BY <1>2, <1>3, <1>1

LEMMA MaxOfSegment ==
  ASSUME NEW n \in Nat, NEW T \in SUBSET (1 .. n), T # {}
  PROVE  Max(T) \in T /\ \A y \in T : y <= Max(T)
<1> DEFINE U == {n - x : x \in T}
<1>0. \A x \in T : x \in Nat /\ n - x \in Nat
  OBVIOUS
<1>1. U \in SUBSET Nat /\ U # {}
  BY <1>0
<1>2. PICK u \in U : \A v \in U : u <= v
  BY <1>1, LeastOfNats
<1>3. PICK x \in T : u = n - x
  BY <1>2
<1>4. \A y \in T : x >= y
  <2> TAKE y \in T
  <2>1. n - y \in U
    OBVIOUS
  <2>2. n - x <= n - y
    BY <2>1, <1>2, <1>3
  <2> QED BY <2>2, <1>0
<1>5. Max(T) \in T /\ \A y \in T : Max(T) >= y
  BY <1>4, Zenon DEF Max
<1>6. Max(T) \in Nat
  BY <1>5, <1>0
<1> QED BY <1>5, <1>6, <1>0

LEMMA FoldExists ==
  ASSUME NEW n \in Nat, NEW S, NEW base \in S, NEW G \in [S \X (1 .. n) -> S]
  PROVE  \E f \in [SUBSET (1 .. n) -> S] : \A T \in SUBSET (1 .. n) :
           f[T] = IF T = {} THEN base ELSE G[<<f[T \ {Max(T)}], Max(T)>>]
<1> DEFINE Good(k, f) == \A T \in SUBSET (1 .. k) :
             f[T] = IF T = {} THEN base ELSE G[<<f[T \ {Max(T)}], Max(T)>>]
           P == {k \in 0 .. n : \E f \in [SUBSET (1 .. k) -> S] : Good(k, f)}
<1>1. 0 \in P
  <2> DEFINE f == [T \in SUBSET (1 .. 0) |-> base]
  <2>1. \A T \in SUBSET (1 .. 0) : T = {}
    OBVIOUS
  <2>2. f \in [SUBSET (1 .. 0) -> S] /\ Good(0, f)
    BY <2>1
  <2>3. 0 \in 0 .. n
    OBVIOUS
  <2> HIDE DEF f, Good
  <2> QED BY <2>2, <2>3
<1>2. ASSUME NEW k \in 0 .. n - 1, k \in P
      PROVE  k + 1 \in P
  <2>1. PICK f \in [SUBSET (1 .. k) -> S] : Good(k, f)
    BY <1>2
  <2> DEFINE g == [T \in SUBSET (1 .. k + 1) |->
                     IF k + 1 \in T THEN G[<<f[T \ {k + 1}], k + 1>>] ELSE f[T]]
  <2>2. \A T \in SUBSET (1 .. k + 1) : T \ {k + 1} \in SUBSET (1 .. k)
    OBVIOUS
  <2>3. \A T \in SUBSET (1 .. k + 1) : k + 1 \notin T => T \in SUBSET (1 .. k)
    OBVIOUS
  <2>4. g \in [SUBSET (1 .. k + 1) -> S]
    BY <2>2, <2>3
  <2>5. ASSUME NEW T \in SUBSET (1 .. k + 1)
        PROVE  g[T] = IF T = {} THEN base ELSE G[<<g[T \ {Max(T)}], Max(T)>>]
    <3>1. CASE T = {}
      BY <3>1, <2>1, <2>3
    <3>2. CASE T # {} /\ k + 1 \in T
      <4>0. k + 1 \in Nat
        OBVIOUS
      <4>1. Max(T) \in T /\ \A y \in T : y <= Max(T)
        BY <3>2, <4>0, MaxOfSegment
      <4>2. Max(T) = k + 1
        <5>1. Max(T) \in 1 .. k + 1 /\ k + 1 <= Max(T)
          BY <3>2, <4>1
        <5> QED BY <5>1
      <4>3. g[T \ {k + 1}] = f[T \ {k + 1}]
        BY <2>2
      <4> QED BY <3>2, <4>2, <4>3
    <3>3. CASE T # {} /\ k + 1 \notin T
      <4>1. T \in SUBSET (1 .. k)
        BY <2>3, <3>3
      <4>2. f[T] = G[<<f[T \ {Max(T)}], Max(T)>>]
        BY <4>1, <3>3, <2>1
      <4>3. g[T] = f[T] /\ g[T \ {Max(T)}] = f[T \ {Max(T)}]
        BY <3>3
      <4> QED BY <3>3, <4>2, <4>3
    <3> QED BY <3>1, <3>2, <3>3
  <2>6. Good(k + 1, g)
    BY <2>5
  <2>7. k + 1 \in 0 .. n
    OBVIOUS
  <2> HIDE DEF g, Good
  <2> QED BY <2>4, <2>6, <2>7
<1> HIDE DEF P
<1>3. n \in P
  BY <1>1, <1>2, UpTo
<1> QED BY <1>3 DEF P

-----------------------------------------------------------------------------
(* Powers of two. *)

LEMMA BitsFact ==
  /\ Bits \in Nat /\ 12 <= Bits
  /\ ByteBits \in Nat /\ 3 <= ByteBits /\ Bits = 4 * ByteBits
  BY CpuAssumption, WordAssumption

LEMMA PowerNat == \A k \in 0 .. Bits + 1 : 2 ^ k \in Nat \ {0}
<1> DEFINE P == {k \in 0 .. Bits + 1 : 2 ^ k \in Nat \ {0}}
<1>1. 0 \in P
  <2>1. 2 ^ 0 = 1
    OBVIOUS
  <2> QED BY <2>1, BitsFact
<1>2. ASSUME NEW k \in 0 .. Bits + 1 - 1, k \in P
      PROVE  k + 1 \in P
  <2>1. 2 ^ (k + 1) = 2 * 2 ^ k /\ 2 ^ k \in Nat \ {0} /\ k + 1 \in 0 .. Bits + 1
    BY <1>2, PowersAssumption, BitsFact
  <2> QED BY <2>1
<1> HIDE DEF P
<1>3. \A k \in 0 .. Bits + 1 : k \in P
  BY <1>1, <1>2, UpTo, BitsFact
<1> QED BY <1>3 DEF P

LEMMA PowerSum ==
  ASSUME NEW j \in Nat, NEW k \in Nat, j + k <= Bits + 1
  PROVE  2 ^ (j + k) = 2 ^ j * 2 ^ k
<1> DEFINE n == Bits + 1 - j
           P == {i \in 0 .. n : 2 ^ (j + i) = 2 ^ j * 2 ^ i}
<1>0. n \in Nat /\ k \in 0 .. n
  BY BitsFact
<1>1. 0 \in P
  <2>1. 2 ^ 0 = 1 /\ j + 0 = j /\ 2 ^ j \in Nat
    BY PowerNat, BitsFact
  <2> QED BY <1>0, <2>1
<1>2. ASSUME NEW i \in 0 .. n - 1, i \in P
      PROVE  i + 1 \in P
  <2>1. 2 ^ (i + 1) = 2 * 2 ^ i /\ 2 ^ ((j + i) + 1) = 2 * 2 ^ (j + i)
    BY PowersAssumption, BitsFact
  <2>2. j + (i + 1) = (j + i) + 1 /\ i + 1 \in 0 .. n
    BY BitsFact
  <2>3. 2 ^ (j + i) = 2 ^ j * 2 ^ i
    BY <1>2
  <2>4. 2 ^ j \in Nat /\ 2 ^ i \in Nat
    BY PowerNat, BitsFact
  <2>5. 2 * (2 ^ j * 2 ^ i) = 2 ^ j * (2 * 2 ^ i)
    BY <2>4
  <2> QED BY <2>1, <2>2, <2>3, <2>5
<1> HIDE DEF P, n
<1>3. \A i \in 0 .. n : i \in P
  BY <1>0, <1>1, <1>2, UpTo
<1> QED BY <1>0, <1>3 DEF P

(* The larger power is a multiple of the smaller one. *)
LEMMA PowerSplit ==
  ASSUME NEW k \in 0 .. Bits
  PROVE  2 ^ k * 2 ^ (Bits - k) = M /\ 2 ^ k \in 1 .. M /\ 2 ^ (Bits - k) \in 1 .. M
<1>1. k \in Nat /\ Bits - k \in Nat /\ k + (Bits - k) = Bits /\ Bits <= Bits + 1
  BY BitsFact
<1>2. 2 ^ k * 2 ^ (Bits - k) = M
  BY <1>1, PowerSum, WordAssumption
<1>3. 2 ^ k \in Nat \ {0} /\ 2 ^ (Bits - k) \in Nat \ {0}
  BY PowerNat, BitsFact
<1>4. ASSUME NEW x \in Nat \ {0}, NEW y \in Nat \ {0}
      PROVE  x <= x * y /\ y <= x * y
  OBVIOUS
<1> QED BY <1>2, <1>3, <1>4, HalfFact

LEMMA PowerFacts ==
  /\ Byte \in Nat /\ 8 <= Byte /\ M = Byte * Byte * Byte * Byte /\ M \in Nat /\ 4096 <= M
  /\ M = 2 ^ Bits /\ M % 4 = 0
<1> DEFINE b == ByteBits
<1>1. Byte \in Nat \ {0}
  BY PowerNat, BitsFact DEF Byte
<1>2. 2 ^ (b + b) = Byte * Byte /\ 2 ^ ((b + b) + (b + b)) = 2 ^ (b + b) * 2 ^ (b + b)
  BY PowerSum, BitsFact DEF Byte
<1>3. Bits = (b + b) + (b + b)
  BY BitsFact
<1>4. M = (Byte * Byte) * (Byte * Byte)
  BY <1>2, <1>3, WordAssumption
<1>5. Byte = 8 * 2 ^ (b - 3)
  <2>1. b - 3 \in Nat /\ 3 \in Nat /\ 3 + (b - 3) = b /\ b <= Bits + 1
    BY BitsFact
  <2>2. 2 ^ 3 = 8
    OBVIOUS
  <2> QED BY <2>1, <2>2, PowerSum DEF Byte
<1>6. 2 ^ (b - 3) \in Nat \ {0}
  BY PowerNat, BitsFact
<1>7. PICK d \in Nat \ {0} : Byte = 8 * d
  BY <1>5, <1>6
<1>8. M = 4096 * ((d * d) * (d * d))
  BY <1>4, <1>7
<1>9. (d * d) * (d * d) \in Nat \ {0}
  OBVIOUS
<1>10. PICK e \in Nat \ {0} : M = 4096 * e
  BY <1>8, <1>9
<1>11. M \in Nat /\ 4096 <= M /\ M % 4 = 0
  BY <1>10
<1>12. M = Byte * Byte * Byte * Byte
  BY <1>1, <1>4
<1>13. 8 <= Byte
  BY <1>7
<1> QED BY <1>1, <1>11, <1>12, <1>13, WordAssumption

-----------------------------------------------------------------------------
(* Sums over finite sets, added up in whatever order CHOOSE takes.         *)

Taken(T) == CHOOSE x \in T : TRUE
SumOf(f, w, T) == IF T = {} THEN 0 ELSE w[Taken(T)] + f[T \ {Taken(T)}]
IsSum(f, w, S) == \A T \in SUBSET S : f[T] = SumOf(f, w, T)
AddsUp(f, w, S) ==
  /\ f[{}] = 0
  /\ \A T \in SUBSET S : f[T] \in Nat
  /\ \A T \in SUBSET S : \A x \in S \ T : f[T \cup {x}] = w[x] + f[T]

LEMMA TakenIn == ASSUME NEW T, T # {} PROVE Taken(T) \in T
  BY Zenon DEF Taken

LEMMA SumExists ==
  ASSUME NEW S, IsFiniteSet(S), NEW w \in [S -> Nat]
  PROVE  \E f \in [SUBSET S -> Nat] : IsSum(f, w, S)
<1> DEFINE N == Cardinality(S)
           D(n) == {T \in SUBSET S : Cardinality(T) <= n}
           P == {n \in 0 .. N : \E f \in [D(n) -> Nat] : \A T \in D(n) : f[T] = SumOf(f, w, T)}
<1>0. /\ N \in Nat
      /\ \A T \in SUBSET S : /\ IsFiniteSet(T) /\ Cardinality(T) \in Nat /\ Cardinality(T) <= N
                             /\ Cardinality(T) = 0 <=> T = {}
                             /\ \A x \in T : Cardinality(T \ {x}) = Cardinality(T) - 1
  BY FS_CardinalityType, FS_Subset, FS_EmptySet, FS_RemoveElement
<1>1. 0 \in P
  <2> DEFINE f == [T \in D(0) |-> 0]
  <2>1. \A T \in D(0) : T = {}
    BY <1>0
  <2>2. f \in [D(0) -> Nat] /\ \A T \in D(0) : f[T] = SumOf(f, w, T)
    BY <2>1 DEF SumOf
  <2>3. 0 \in 0 .. N
    BY <1>0
  <2> HIDE DEF f, D, N
  <2> QED BY <2>2, <2>3
<1>2. ASSUME NEW n \in 0 .. N - 1, n \in P
      PROVE  n + 1 \in P
  <2>1. PICK f \in [D(n) -> Nat] : \A T \in D(n) : f[T] = SumOf(f, w, T)
    BY <1>2
  <2> DEFINE g == [T \in D(n + 1) |->
                     IF T \in D(n) THEN f[T] ELSE w[Taken(T)] + f[T \ {Taken(T)}]]
  <2>2. ASSUME NEW T \in D(n + 1), T # {}
        PROVE  T \ {Taken(T)} \in D(n) /\ w[Taken(T)] \in Nat
    BY <2>2, <1>0, TakenIn
  <2>3. D(n) \subseteq D(n + 1) /\ {} \in D(n)
    BY <1>0
  <2>4. g \in [D(n + 1) -> Nat]
    <3>1. ASSUME NEW T \in D(n + 1)
          PROVE  (IF T \in D(n) THEN f[T] ELSE w[Taken(T)] + f[T \ {Taken(T)}]) \in Nat
      <4>1. CASE T \in D(n)
        <5> HIDE DEF D
        <5> QED BY <4>1
      <4>2. CASE T \notin D(n)
        <5>1. T # {}
          BY <4>2, <2>3
        <5>2. T \ {Taken(T)} \in D(n) /\ w[Taken(T)] \in Nat
          BY <5>1, <2>2
        <5> HIDE DEF D
        <5> QED BY <4>2, <5>2
      <4> QED BY <4>1, <4>2
    <3> HIDE DEF D
    <3> QED BY <3>1
  <2>5. ASSUME NEW T \in D(n + 1)
        PROVE  g[T] = SumOf(g, w, T)
    <3>1. CASE T = {}
      BY <3>1, <2>1, <2>3 DEF SumOf
    <3>2. CASE T # {}
      <4>1. g[T] = w[Taken(T)] + f[T \ {Taken(T)}]
        BY <3>2, <2>1 DEF SumOf
      <4>2. g[T \ {Taken(T)}] = f[T \ {Taken(T)}]
        BY <3>2, <2>2, <2>3
      <4> QED BY <3>2, <4>1, <4>2 DEF SumOf
    <3> QED BY <3>1, <3>2
  <2>6. n + 1 \in 0 .. N
    BY <1>0
  <2> HIDE DEF g, D
  <2> QED BY <2>4, <2>5, <2>6
<1> HIDE DEF P
<1>3. N \in P
  BY <1>0, <1>1, <1>2, UpTo
<1>4. D(N) = SUBSET S
  BY <1>0
<1> QED BY <1>3, <1>4 DEF P, IsSum

(* The order does not matter: one more member adds its weight. *)
LEMMA SumAdds ==
  ASSUME NEW S, IsFiniteSet(S), NEW w \in [S -> Nat], NEW f \in [SUBSET S -> Nat],
         IsSum(f, w, S)
  PROVE  AddsUp(f, w, S)
<1> USE DEF IsSum
<1> DEFINE N == Cardinality(S)
           Adds(T) == \A x \in S \ T : f[T \cup {x}] = w[x] + f[T]
           P == {n \in 0 .. N : \A T \in SUBSET S : Cardinality(T) = n => Adds(T)}
<1>0. /\ N \in Nat
      /\ \A T \in SUBSET S : /\ IsFiniteSet(T) /\ Cardinality(T) \in Nat /\ Cardinality(T) <= N
                             /\ Cardinality(T) = 0 <=> T = {}
                             /\ \A x \in T : Cardinality(T \ {x}) = Cardinality(T) - 1
  BY FS_CardinalityType, FS_Subset, FS_EmptySet, FS_RemoveElement
<1>s. ASSUME NEW T \in SUBSET S, NEW x \in S \ T, T = {} \/ Adds(T \ {Taken(T \cup {x})})
      PROVE  f[T \cup {x}] = w[x] + f[T]
  <2> DEFINE U == T \cup {x}
             c == Taken(U)
  <2>1. U \in SUBSET S /\ U # {} /\ c \in U
    BY TakenIn
  <2>2. f[U] = w[c] + f[U \ {c}]
    BY <2>1 DEF SumOf
  <2>3. CASE c = x
    <3>1. U \ {c} = T
      BY <2>3
    <3> QED BY <2>2, <2>3, <3>1
  <2>4. CASE c # x
    <3>1. c \in T /\ T # {}
      BY <2>1, <2>4
    <3>2. Adds(T \ {c})
      BY <3>1, <1>s
    <3>3. U \ {c} = (T \ {c}) \cup {x} /\ x \in S \ (T \ {c})
      BY <2>4
    <3>4. f[U \ {c}] = w[x] + f[T \ {c}]
      BY <3>2, <3>3
    <3>5. T = (T \ {c}) \cup {c} /\ c \in S \ (T \ {c})
      BY <3>1
    <3>6. f[T] = w[c] + f[T \ {c}]
      BY <3>2, <3>5
    <3>7. w[c] \in Nat /\ w[x] \in Nat /\ f[T \ {c}] \in Nat
      BY <3>1
    <3> QED BY <2>2, <3>4, <3>6, <3>7
  <2> QED BY <2>3, <2>4
<1>1. 0 \in P
  <2>1. ASSUME NEW T \in SUBSET S, Cardinality(T) = 0, NEW x \in S \ T
        PROVE  f[T \cup {x}] = w[x] + f[T]
    <3>1. T = {}
      BY <2>1, <1>0
    <3> QED BY <3>1, <1>s
  <2>2. 0 \in 0 .. N
    BY <1>0
  <2> HIDE DEF N
  <2> QED BY <2>1, <2>2
<1>2. ASSUME NEW n \in 0 .. N - 1, n \in P
      PROVE  n + 1 \in P
  <2>1. ASSUME NEW T \in SUBSET S, Cardinality(T) = n + 1, NEW x \in S \ T
        PROVE  f[T \cup {x}] = w[x] + f[T]
    <3>1. CASE Taken(T \cup {x}) \in T
      <4>1. Cardinality(T \ {Taken(T \cup {x})}) = n
        <5>1. Cardinality(T \ {Taken(T \cup {x})}) = (n + 1) - 1
          BY <3>1, <2>1, <1>0
        <5>2. (n + 1) - 1 = n
          BY <1>0
        <5> QED BY <5>1, <5>2
      <4>2. Adds(T \ {Taken(T \cup {x})})
        BY <4>1, <1>2
      <4> HIDE DEF Adds
      <4> QED BY <4>2, <1>s
    <3>2. CASE Taken(T \cup {x}) \notin T
      <4>1. Taken(T \cup {x}) = x
        BY <3>2, TakenIn
      <4>2. (T \cup {x}) \ {x} = T /\ T \cup {x} \in SUBSET S /\ T \cup {x} # {}
        OBVIOUS
      <4> QED BY <4>1, <4>2 DEF SumOf
    <3> QED BY <3>1, <3>2
  <2>2. n + 1 \in 0 .. N
    BY <1>0
  <2> HIDE DEF N
  <2> QED BY <2>1, <2>2
<1> HIDE DEF P
<1>3. \A n \in 0 .. N : n \in P
  BY <1>0, <1>1, <1>2, UpTo
<1>4. ASSUME NEW T \in SUBSET S
      PROVE  Adds(T)
  <2>1. Cardinality(T) \in 0 .. N
    BY <1>0
  <2>2. Cardinality(T) \in P
    BY <1>3, <2>1
  <2> HIDE DEF Adds
  <2> QED BY <2>2 DEF P
<1>5. \A T \in SUBSET S : \A x \in S \ T : f[T \cup {x}] = w[x] + f[T]
  <2> TAKE T \in SUBSET S
  <2>1. Adds(T)
    BY <1>4
  <2> QED BY <2>1
<1>6. f[{}] = 0
  BY DEF SumOf
<1> QED BY <1>5, <1>6 DEF AddsUp

LEMMA SumUnique ==
  ASSUME NEW S, IsFiniteSet(S), NEW w, NEW f, NEW g, IsSum(f, w, S), IsSum(g, w, S)
  PROVE  \A T \in SUBSET S : g[T] = f[T]
<1> USE DEF IsSum
<1> DEFINE N == Cardinality(S)
           P == {n \in 0 .. N : \A T \in SUBSET S : Cardinality(T) = n => g[T] = f[T]}
<1>0. /\ N \in Nat
      /\ \A T \in SUBSET S : /\ IsFiniteSet(T) /\ Cardinality(T) \in 0 .. N
                             /\ Cardinality(T) = 0 <=> T = {}
                             /\ \A x \in T : Cardinality(T \ {x}) = Cardinality(T) - 1
  BY FS_CardinalityType, FS_Subset, FS_EmptySet, FS_RemoveElement
<1>1. 0 \in P
  <2>1. 0 \in 0 .. N
    BY <1>0
  <2>2. \A T \in SUBSET S : Cardinality(T) = 0 => g[T] = f[T]
    BY <1>0 DEF SumOf
  <2> HIDE DEF N
  <2> QED BY <2>1, <2>2
<1>2. ASSUME NEW n \in 0 .. N - 1, n \in P
      PROVE  n + 1 \in P
  <2>1. ASSUME NEW T \in SUBSET S, Cardinality(T) = n + 1
        PROVE  g[T] = f[T]
    <3>1. T # {} /\ (n + 1) - 1 = n
      BY <2>1, <1>0
    <3>2. Taken(T) \in T
      BY <3>1, TakenIn
    <3>3. Cardinality(T \ {Taken(T)}) = n /\ T \ {Taken(T)} \in SUBSET S
      BY <3>1, <3>2, <2>1, <1>0
    <3>4. g[T \ {Taken(T)}] = f[T \ {Taken(T)}]
      BY <3>3, <1>2
    <3> QED BY <3>1, <3>4 DEF SumOf
  <2>2. n + 1 \in 0 .. N
    BY <1>0
  <2> HIDE DEF N
  <2> QED BY <2>1, <2>2
<1> HIDE DEF P
<1>3. \A n \in 0 .. N : n \in P
  BY <1>0, <1>1, <1>2, UpTo
<1> QED
  <2> TAKE T \in SUBSET S
  <2>1. Cardinality(T) \in 0 .. N
    BY <1>0
  <2>2. Cardinality(T) \in P
    BY <1>3, <2>1
  <2> QED BY <2>2 DEF P

(* What a sum is, whoever defines it. *)

(* A sum over a function that the library adds up is such a sum.           *)
LEMMA SumFunctionAddsUp ==
  ASSUME NEW S, IsFiniteSet(S), NEW w \in [S -> Nat]
  PROVE  \E f : AddsUp(f, w, S) /\ SumFunction(w) = f[S]
<1> DEFINE Iter(g) == g = [s \in SUBSET S |->
                             IF s = {} THEN 0
                             ELSE w[CHOOSE x \in s : TRUE] + g[s \ {CHOOSE x \in s : TRUE}]]
           it == CHOOSE g : Iter(g)
<1>1. PICK f \in [SUBSET S -> Nat] : IsSum(f, w, S)
  BY SumExists
<1>2. Iter(f)
  BY <1>1 DEF IsSum, SumOf, Taken
<1>3. Iter(it)
  <2> HIDE DEF Iter
  <2> QED BY <1>2, Zenon
<1>4. DOMAIN w = S
  OBVIOUS
<1>5. SumFunction(w) = it[S]
  BY <1>4, Zenon DEF SumFunction, SumFunctionOnSet, FoldFunctionOnSet, MapThenFoldSet
<1> HIDE DEF it
<1>6. IsSum(it, w, S)
  BY <1>3 DEF IsSum, SumOf, Taken
<1>7. \A T \in SUBSET S : it[T] \in Nat
  BY <1>1, <1>6, SumUnique
<1>8. it = [T \in SUBSET S |-> it[T]]
  BY <1>3
<1>9. it \in [SUBSET S -> Nat]
  BY <1>7, <1>8
<1>10. AddsUp(it, w, S)
  BY <1>6, <1>9, SumAdds
<1> QED BY <1>5, <1>10

(* The number of a set of bits is a word; and below the sum of the bits.   *)
LEMMA OfBitsWord ==
  ASSUME NEW S \in SUBSET (0 .. Bits - 1)
  PROVE  OfBits(S) \in Word
<1> DEFINE w == [k \in S |-> 2 ^ k]
<1>0. IsFiniteSet(S)
  <2>1. IsFiniteSet(0 .. Bits - 1)
    BY FS_Interval, BitsFact
  <2> QED BY <2>1, FS_Subset
<1>1. w \in [S -> Nat]
  BY PowerNat, BitsFact
<1>2. PICK it : AddsUp(it, w, S) /\ SumFunction(w) = it[S]
  <2> HIDE DEF w
  <2> QED BY <1>0, <1>1, SumFunctionAddsUp
<1>7. OfBits(S) = it[S]
  BY <1>2 DEF OfBits
<1> HIDE DEF w
<1>10. /\ it[{}] = 0
       /\ \A T \in SUBSET S : it[T] \in Nat
       /\ \A T \in SUBSET S : \A x \in S \ T : it[T \cup {x}] = w[x] + it[T]
  BY <1>2 DEF AddsUp
<1> DEFINE below(n) == S \cap (0 .. n - 1)
           P == {n \in 0 .. Bits : it[below(n)] < 2 ^ n}
<1>12. 0 \in P
  <2>1. below(0) = {} /\ 2 ^ 0 = 1 /\ 0 \in 0 .. Bits
    BY BitsFact
  <2>2. it[{}] = 0
    BY <1>10
  <2> QED BY <2>1, <2>2
<1>13. ASSUME NEW n \in 0 .. Bits - 1, n \in P
       PROVE  n + 1 \in P
  <2>1. 2 ^ (n + 1) = 2 * 2 ^ n /\ 2 ^ n \in Nat
    BY PowersAssumption, PowerNat, BitsFact
  <2>2. it[below(n)] < 2 ^ n /\ it[below(n)] \in Nat
    BY <1>13, <1>10
  <2>3. CASE n \in S
    <3>1. below(n + 1) = below(n) \cup {n} /\ n \in S \ below(n) /\ below(n) \in SUBSET S
      BY <2>3
    <3>2. it[below(n + 1)] = w[n] + it[below(n)]
      BY <3>1, <1>10
    <3>3. w[n] = 2 ^ n
      BY <2>3 DEF w
    <3> HIDE DEF below
    <3> QED BY <2>1, <2>2, <3>2, <3>3, BitsFact
  <2>4. CASE n \notin S
    <3>1. below(n + 1) = below(n)
      BY <2>4
    <3> HIDE DEF below
    <3> QED BY <2>1, <2>2, <3>1, BitsFact
  <2> QED BY <2>3, <2>4
<1> HIDE DEF P
<1>14. Bits \in P
  BY <1>12, <1>13, UpTo, BitsFact
<1>15. below(Bits) = S
  OBVIOUS
<1>16. it[S] < 2 ^ Bits /\ it[S] \in Nat
  BY <1>10, <1>14, <1>15 DEF P
<1> QED BY <1>7, <1>16, PowerFacts DEF Word

(* The little-endian number of the bytes of an access. *)
LEMMA ReadWord ==
  ASSUME NEW a \in Int, NEW w \in {1, 2, 4}, Mapped(a, w),
         \A b \in DOMAIN mem : mem[b] \in 0 .. Byte - 1
  PROVE  /\ Read(a, w) \in 0 .. Byte ^ w - 1 \/ w = 4
         /\ Read(a, w) \in Word
         /\ w = 1 => Read(a, w) = mem[a]
         /\ w = 2 => Read(a, w) = mem[a] + mem[a + 1] * Byte
         /\ w = 4 => Read(a, w) = mem[a] + mem[a + 1] * Byte
                + mem[a + 2] * (Byte * Byte) + mem[a + 3] * (Byte * Byte * Byte)
<1> DEFINE S == 0 .. w - 1
           v == [k \in S |-> mem[a + k] * Byte ^ k]
<1>0. IsFiniteSet(S)
  BY FS_Interval
<1>p. /\ Byte \in Nat /\ Byte ^ 0 = 1 /\ Byte ^ 1 = Byte /\ Byte ^ 2 = Byte * Byte
      /\ Byte ^ 3 = Byte * Byte * Byte
      /\ Byte * Byte \in Nat /\ Byte * Byte * Byte \in Nat
  BY CpuAssumption, PowerFacts
<1>m. \A k \in S : mem[a + k] \in Nat /\ mem[a + k] <= Byte - 1
  BY <1>p DEF Mapped
<1>1. v \in [S -> Nat]
  <2>1. \A k \in S : k \in {0, 1, 2, 3}
    OBVIOUS
  <2>2. \A k \in S : Byte ^ k \in Nat
    BY <2>1, <1>p
  <2>3. \A x, y \in Nat : x * y \in Nat
    OBVIOUS
  <2> QED BY <1>m, <2>2, <2>3
<1>2. PICK it : AddsUp(it, v, S) /\ SumFunction(v) = it[S]
  <2> HIDE DEF v, S
  <2> QED BY <1>0, <1>1, SumFunctionAddsUp
<1>7. Read(a, w) = it[S]
  BY <1>2 DEF Read
<1>b. /\ w >= 1 => 0 \in S /\ v[0] = mem[a] /\ mem[a] \in Nat
      /\ w # 1 => 1 \in S /\ v[1] = mem[a + 1] * Byte /\ mem[a + 1] \in Nat
      /\ w = 4 => /\ 2 \in S /\ v[2] = mem[a + 2] * (Byte * Byte) /\ mem[a + 2] \in Nat
                  /\ 3 \in S /\ v[3] = mem[a + 3] * (Byte * Byte * Byte) /\ mem[a + 3] \in Nat
  <2>1. 0 \in S /\ (w # 1 => 1 \in S) /\ (w = 4 => 2 \in S /\ 3 \in S)
    OBVIOUS
  <2>2. \A k \in S : v[k] = mem[a + k] * Byte ^ k /\ mem[a + k] \in Nat
    BY <1>m
  <2>3. a + 0 = a /\ \A x \in Nat : x * 1 = x
    OBVIOUS
  <2> HIDE DEF S, v
  <2> QED BY <2>1, <2>2, <2>3, <1>p
<1>c. /\ w = 1 => S = {0}
      /\ w = 2 => S = {0, 1}
      /\ w = 4 => S = {0, 1, 2, 3}
  OBVIOUS
<1> HIDE DEF v, S
<1>10. /\ it[{}] = 0
       /\ \A T \in SUBSET S : it[T] \in Nat
       /\ \A T \in SUBSET S : \A x \in S \ T : it[T \cup {x}] = v[x] + it[T]
  BY <1>2 DEF AddsUp
<1>13. it[{0}] = mem[a]
  <2>1. {} \in SUBSET S /\ 0 \in S \ {} /\ {} \cup {0} = {0} /\ v[0] = mem[a] /\ mem[a] \in Nat
    BY <1>b
  <2>2. it[{} \cup {0}] = v[0] + it[{}]
    BY ONLY <2>1, <1>10, Zenon
  <2>3. it[{0}] = v[0] + 0 /\ v[0] = mem[a] /\ mem[a] \in Nat
    BY ONLY <2>1, <2>2, <1>10, Zenon
  <2> QED BY ONLY <2>3
<1>14. w # 1 => it[{0, 1}] = mem[a] + mem[a + 1] * Byte
  <2> HAVE w # 1
  <2>1. {0} \in SUBSET S /\ 1 \in S \ {0} /\ {0} \cup {1} = {0, 1}
    BY <1>b
  <2>2. it[{0} \cup {1}] = v[1] + it[{0}]
    BY ONLY <2>1, <1>10, Zenon
  <2>3. v[1] = mem[a + 1] * Byte /\ v[1] \in Nat /\ it[{0}] \in Nat
    BY <1>b, <1>1, <1>10, <2>1
  <2>4. it[{0, 1}] = v[1] + it[{0}]
    BY ONLY <2>1, <2>2, Zenon
  <2>5. v[1] + it[{0}] = it[{0}] + v[1]
    BY ONLY <2>3
  <2> QED BY ONLY <1>13, <2>3, <2>4, <2>5, Zenon
<1>15. w = 4 => it[{0, 1, 2, 3}] = mem[a] + mem[a + 1] * Byte
           + mem[a + 2] * (Byte * Byte) + mem[a + 3] * (Byte * Byte * Byte)
  <2> HAVE w = 4
  <2>1. {0, 1} \in SUBSET S /\ 2 \in S \ {0, 1} /\ {0, 1} \cup {2} = {0, 1, 2}
    BY <1>b
  <2>2. {0, 1, 2} \in SUBSET S /\ 3 \in S \ {0, 1, 2} /\ {0, 1, 2} \cup {3} = {0, 1, 2, 3}
    BY <1>b
  <2>3. it[{0, 1, 2}] = v[2] + it[{0, 1}]
    <3>1. it[{0, 1} \cup {2}] = v[2] + it[{0, 1}]
      BY ONLY <2>1, <1>10, Zenon
    <3> QED BY ONLY <3>1, <2>1, Zenon
  <2>4. it[{0, 1, 2, 3}] = v[3] + it[{0, 1, 2}]
    <3>1. it[{0, 1, 2} \cup {3}] = v[3] + it[{0, 1, 2}]
      BY ONLY <2>2, <1>10, Zenon
    <3> QED BY ONLY <3>1, <2>2, Zenon
  <2>5. it[{0, 1}] \in Nat /\ v[2] \in Nat /\ v[3] \in Nat
    BY <2>1, <2>2, <1>1, <1>10
  <2>6. it[{0, 1, 2, 3}] = it[{0, 1}] + v[2] + v[3]
    BY ONLY <2>3, <2>4, <2>5
  <2>7. /\ v[2] = mem[a + 2] * (Byte * Byte) /\ v[3] = mem[a + 3] * (Byte * Byte * Byte)
        /\ w # 1
    BY <1>b
  <2> QED BY ONLY <1>14, <2>6, <2>7, Zenon
<1>17. /\ w = 1 => Read(a, w) = mem[a]
       /\ w = 2 => Read(a, w) = mem[a] + mem[a + 1] * Byte
       /\ w = 4 => Read(a, w) = mem[a] + mem[a + 1] * Byte
              + mem[a + 2] * (Byte * Byte) + mem[a + 3] * (Byte * Byte * Byte)
  <2>1. w = 1 => it[S] = mem[a]
    BY <1>c, <1>13
  <2>2. w = 2 => it[S] = mem[a] + mem[a + 1] * Byte
    <3> HAVE w = 2
    <3>1. S = {0, 1} /\ w # 1
      BY <1>c
    <3>2. it[{0, 1}] = mem[a] + mem[a + 1] * Byte
      BY <3>1, <1>14
    <3> QED BY <3>1, <3>2, Zenon
  <2>3. w = 4 => it[S] = mem[a] + mem[a + 1] * Byte
            + mem[a + 2] * (Byte * Byte) + mem[a + 3] * (Byte * Byte * Byte)
    BY <1>c, <1>15
  <2> QED BY <2>1, <2>2, <2>3, <1>7, Zenon
<1>18. ASSUME NEW x \in Nat, NEW c \in Nat, x <= c - 1, NEW y \in Nat, NEW d \in Nat \ {0}, y <= d - 1
      PROVE  y + x * d \in Nat /\ y + x * d <= c * d - 1
  <2>1. PICK e \in Nat : c - 1 = x + e
    <3> DEFINE e == (c - 1) - x
    <3>1. e \in Nat /\ c - 1 = x + e
      BY <1>18
    <3> QED BY <3>1
  <2>3. x * d + e * d = (c - 1) * d /\ e * d \in Nat
    BY <1>18, <2>1
  <2>2. (c - 1) * d = c * d - d /\ x * d \in Nat /\ c * d \in Nat
    BY <1>18
  <2> DEFINE xd == x * d
             cd == c * d
  <2>6. xd \in Nat /\ cd \in Nat
    BY <1>18, <2>2
  <2>4. xd <= cd - d
    BY <1>18, <2>2, <2>3
  <2> HIDE DEF xd, cd
  <2>5. y + xd \in Nat /\ y + xd <= cd - 1
    BY <1>18, <2>4, <2>6
  <2> QED BY <1>18, <2>5 DEF xd, cd
<1>19. Byte \in Nat \ {0} /\ Byte * Byte \in Nat \ {0} /\ Byte * Byte * Byte \in Nat \ {0}
  BY PowerFacts
<1>20. w # 1 => mem[a] + mem[a + 1] * Byte \in Nat /\ mem[a] + mem[a + 1] * Byte <= Byte * Byte - 1
  <2> HAVE w # 1
  <2>1. mem[a] \in Nat /\ mem[a] <= Byte - 1 /\ mem[a + 1] \in Nat /\ mem[a + 1] <= Byte - 1
    BY <1>m, <1>b, <1>p
  <2> QED BY <2>1, <1>18, <1>19
<1>21. w = 4 => LET y == mem[a] + mem[a + 1] * Byte
                    z == y + mem[a + 2] * (Byte * Byte)
                    u == z + mem[a + 3] * (Byte * Byte * Byte)
                IN u \in Nat /\ u <= Byte * (Byte * Byte * Byte) - 1
  <2> HAVE w = 4
  <2> DEFINE y == mem[a] + mem[a + 1] * Byte
             z == y + mem[a + 2] * (Byte * Byte)
  <2>1. mem[a + 2] \in Nat /\ mem[a + 2] <= Byte - 1 /\ mem[a + 3] \in Nat /\ mem[a + 3] <= Byte - 1
    BY <1>m, <1>b, <1>p
  <2>2. y \in Nat /\ y <= Byte * Byte - 1
    BY <1>20
  <2> HIDE DEF y
  <2>3. z \in Nat /\ z <= Byte * (Byte * Byte) - 1
    BY <2>1, <2>2, <1>18, <1>19
  <2>4. Byte * (Byte * Byte) = Byte * Byte * Byte
    BY <1>p
  <2> HIDE DEF z
  <2>5. z + mem[a + 3] * (Byte * Byte * Byte) \in Nat /\ z + mem[a + 3] * (Byte * Byte * Byte) <= Byte * (Byte * Byte * Byte) - 1
    BY <2>1, <2>3, <2>4, <1>18, <1>19
  <2> QED BY <2>5 DEF y, z
<1>22. w = 1 => mem[a] \in Nat /\ mem[a] <= Byte - 1
  <2>1. a + 0 = a /\ 0 \in S
    BY <1>b
  <2> QED BY <1>m, <2>1
<1>23. /\ Byte * Byte <= M /\ Byte <= M /\ Byte * (Byte * Byte * Byte) = M /\ M \in Nat
  <2>1. ASSUME NEW x \in Nat \ {0}, NEW y \in Nat \ {0}
        PROVE  x <= x * y
    OBVIOUS
  <2>2. Byte <= Byte * (Byte * Byte * Byte) /\ Byte * Byte <= (Byte * Byte) * (Byte * Byte) 
    BY <1>19, <2>1
  <2>3. Byte * (Byte * Byte * Byte) = M /\ (Byte * Byte) * (Byte * Byte) = M
    BY PowerFacts
  <2> QED BY <2>2, <2>3, PowerFacts
<1>24. Read(a, w) \in Word
  <2>1. w = 1 => Read(a, w) \in Nat /\ Read(a, w) <= Byte - 1
    BY <1>17, <1>22
  <2>2. w = 2 => Read(a, w) \in Nat /\ Read(a, w) <= Byte * Byte - 1
    BY <1>17, <1>20
  <2>3. w = 4 => Read(a, w) \in Nat /\ Read(a, w) <= Byte * (Byte * Byte * Byte) - 1
    BY <1>17, <1>21
  <2>4. Byte \in Nat /\ Byte * Byte \in Nat
    BY <1>p
  <2> QED BY <2>1, <2>2, <2>3, <2>4, <1>23 DEF Word
<1>25. w = 4 \/ Read(a, w) \in 0 .. Byte ^ w - 1
  BY <1>17, <1>20, <1>22, <1>p, <1>19
<1> QED BY <1>17, <1>24, <1>25

-----------------------------------------------------------------------------
(* The decoder. *)

LEMMA DivMod ==
  ASSUME NEW x \in Int, NEW m \in Nat \ {0}
  PROVE  /\ x % m \in 0 .. m - 1 /\ x \div m \in Int
         /\ x = m * (x \div m) + (x % m)
         /\ 0 <= x => x \div m \in Nat
  OBVIOUS

(* The digits of an opcode of n digits. *)
IsOpcode(op, n) == n \in {4, 8} /\ op \in [1 .. n -> 0 .. 15]

LEMMA DigitRange ==
  ASSUME NEW n, NEW op, IsOpcode(op, n), NEW i \in 0 .. n - 1
  PROVE  Digit(op, i) \in 0 .. 15
<1>1. Len(op) = n
  BY DEF IsOpcode
<1>2. n - i \in 1 .. n
  BY DEF IsOpcode
<1> QED BY <1>1, <1>2 DEF Digit, IsOpcode

LEMMA BitBoolean == \A op, k : Bit(op, k) \in BOOLEAN
  BY DEF Bit, BitOf

(* 2 ^ w, whose value the provers see only for a literal w.               *)
Pow2(w) == 2 ^ w

LEMMA FieldRange ==
  ASSUME NEW n, NEW op, IsOpcode(op, n), NEW k \in Nat, NEW w \in Nat \ {0}, k + w <= 4 * n,
         Pow2(w) \in Nat \ {0}
  PROVE  Field(op, k, w) \in 0 .. Pow2(w) - 1
<1> DEFINE low == k \div 4
           high == (k + w - 1) \div 4
           S == low .. high
           digits == [i \in S |-> Digit(op, i) * 16 ^ (i - low)]
<1>1. low \in Nat /\ high \in Nat /\ high <= n - 1 /\ high - low <= 7
  BY DEF IsOpcode
<1>2. \A j \in 0 .. 7 : 16 ^ j \in Nat
  <2>1. /\ 16 ^ 0 \in Nat /\ 16 ^ 1 \in Nat /\ 16 ^ 2 \in Nat /\ 16 ^ 3 \in Nat
        /\ 16 ^ 4 \in Nat /\ 16 ^ 5 \in Nat /\ 16 ^ 6 \in Nat /\ 16 ^ 7 \in Nat
    OBVIOUS
  <2>2. \A j \in 0 .. 7 : j \in {0, 1, 2, 3, 4, 5, 6, 7}
    OBVIOUS
  <2> QED BY <2>1, <2>2
<1>3. digits \in [S -> Nat]
  <2>1. ASSUME NEW i \in S
        PROVE  Digit(op, i) * 16 ^ (i - low) \in Nat
    <3>1. i \in 0 .. n - 1 /\ i - low \in 0 .. 7
      BY <1>1 DEF IsOpcode
    <3>2. Digit(op, i) \in Nat
      BY <3>1, DigitRange
    <3>3. 16 ^ (i - low) \in Nat
      BY <3>1, <1>2
    <3> HIDE DEF low
    <3> QED BY <3>2, <3>3
  <2> HIDE DEF low, high
  <2> QED BY <2>1
<1>4. IsFiniteSet(S)
  BY <1>1, FS_Interval
<1>5. SumFunction(digits) \in Nat
  <2> HIDE DEF S, digits
  <2>1. PICK f : AddsUp(f, digits, S) /\ SumFunction(digits) = f[S]
    BY <1>3, <1>4, SumFunctionAddsUp
  <2> QED BY <2>1 DEF AddsUp
<1>6. 2 ^ (k % 4) \in Nat \ {0}
  BY PowerNat, BitsFact
<1> HIDE DEF digits
<1>7. SumFunction(digits) \div 2 ^ (k % 4) \in Int
  BY <1>5, <1>6, DivMod
<1>8. Field(op, k, w) = (SumFunction(digits) \div 2 ^ (k % 4)) % Pow2(w)
  BY SMTT(40) DEF Field, digits, Pow2
<1> QED BY <1>7, <1>8, DivMod

(* The fields that the decoders read. *)
LEMMA ArmFields ==
  ASSUME NEW op, IsOpcode(op, 8)
  PROVE  /\ Field(op, 25, 3) \in 0 .. 7 /\ Field(op, 5, 2) \in 0 .. 3
         /\ Field(op, 21, 4) \in 0 .. 15 /\ Field(op, 7, 5) \in 0 .. 31
         /\ Field(op, 0, 8) \in 0 .. 255 /\ Field(op, 0, 12) \in 0 .. 4095
         /\ Field(op, 0, 24) \in Nat
<1>1. /\ Pow2(2) = 4 /\ Pow2(3) = 8 /\ Pow2(4) = 16 /\ Pow2(5) = 32 /\ Pow2(8) = 256
      /\ Pow2(12) = 4096 /\ Pow2(24) \in Nat \ {0}
  BY DEF Pow2
<1>2. ASSUME NEW k \in 0 .. 31, NEW w \in 1 .. 24, k + w <= 32, Pow2(w) \in Nat \ {0}
      PROVE  Field(op, k, w) \in 0 .. Pow2(w) - 1
  BY <1>2, FieldRange
<1> HIDE DEF Pow2
<1>3. Field(op, 25, 3) \in 0 .. 7 /\ Field(op, 5, 2) \in 0 .. 3
  <2>1. Field(op, 25, 3) \in 0 .. Pow2(3) - 1 /\ Field(op, 5, 2) \in 0 .. Pow2(2) - 1
    BY <1>1, <1>2
  <2> QED BY <1>1, <2>1
<1>4. Field(op, 21, 4) \in 0 .. 15 /\ Field(op, 7, 5) \in 0 .. 31
  <2>1. Field(op, 21, 4) \in 0 .. Pow2(4) - 1 /\ Field(op, 7, 5) \in 0 .. Pow2(5) - 1
    BY <1>1, <1>2
  <2> QED BY <1>1, <2>1
<1>5. Field(op, 0, 8) \in 0 .. 255
  <2>1. Field(op, 0, 8) \in 0 .. Pow2(8) - 1 /\ Pow2(8) = 256
    BY <1>1, <1>2
  <2> QED BY <2>1, SMT
<1>7. Field(op, 0, 12) \in 0 .. 4095
  <2>1. Field(op, 0, 12) \in 0 .. Pow2(12) - 1 /\ Pow2(12) = 4096
    BY <1>1, <1>2
  <2> DEFINE x == Field(op, 0, 12)
             p == Pow2(12)
  <2>2. x \in 0 .. p - 1 /\ p = 4096
    BY <2>1
  <2> HIDE DEF x, p
  <2>3. x \in 0 .. 4095
    BY <2>2, SMT
  <2> QED BY <2>3 DEF x
<1>6. Field(op, 0, 24) \in Nat
  <2>1. Field(op, 0, 24) \in 0 .. Pow2(24) - 1
    BY <1>1, <1>2
  <2> QED BY <1>1, <2>1
<1> QED BY <1>3, <1>4, <1>5, <1>6, <1>7

(* What an instruction gives to the step that executes it.                 *)
ShiftOK(s) ==
  /\ s.kind \in {"lsl", "lsr", "asr", "ror"} /\ s.n \in Nat
  /\ s.byRegister \in BOOLEAN /\ (s.byRegister => s.n \in Registers)
  /\ ~s.byRegister /\ s.kind \in {"lsr", "asr"} => s.n # 0

ArmOK(i) ==
  /\ i.class = "BranchExchange" => i.register \in Registers
  /\ i.class = "Multiply" =>
       i.rd \in Registers /\ i.rn \in Registers /\ i.rs \in Registers /\ i.rm \in Registers
  /\ i.class = "MultiplyLong" =>
       i.rdHi \in Registers /\ i.rdLo \in Registers /\ i.rs \in Registers /\ i.rm \in Registers
  /\ i.class \in {"Branch", "BranchLinkExchangeImmediate"} => i.offset \in Int
  /\ i.class = "BlockTransfer" => i.base \in Registers /\ i.registers \in SUBSET Registers
  /\ i.class \in {"DataProcessingImmediate", "DataProcessingRegister"} =>
       i.rd \in Registers /\ i.rn \in Registers
  /\ i.class = "DataProcessingImmediate" => i.immediate \in Word
  /\ i.class = "DataProcessingRegister" => i.rm \in Registers /\ ShiftOK(i.shift)
  /\ i.class \in {"HalfwordTransferImmediate", "HalfwordTransferRegister",
                  "SingleDataTransferImmediate", "SingleDataTransferRegister"} =>
       i.base \in Registers /\ i.rd \in Registers
  /\ i.class \in {"HalfwordTransferImmediate", "SingleDataTransferImmediate"} =>
       i.offset \in Word
  /\ i.class \in {"HalfwordTransferRegister", "SingleDataTransferRegister"} =>
       i.rm \in Registers
  /\ i.class = "SingleDataTransferRegister" => ShiftOK(i.shift)

LEMMA AmountShiftOK ==
  ASSUME NEW type \in 0 .. 3, NEW n \in Nat
  PROVE  ShiftOK(AmountShift(type, n))
<1>1. <<"lsl", "lsr", "asr", "ror">>[type + 1] \in {"lsl", "lsr", "asr", "ror"}
  <2>1. type \in {0, 1, 2, 3}
    OBVIOUS
  <2> QED BY <2>1
<1>2. (IF type \in {1, 2} /\ n = 0 THEN Bits ELSE n) \in Nat
  BY BitsFact
<1>3. type \in {0, 3} <=> <<"lsl", "lsr", "asr", "ror">>[type + 1] \in {"lsl", "ror"}
  <2>1. type \in {0, 1, 2, 3}
    OBVIOUS
  <2> QED BY <2>1
<1>4. type \notin {1, 2} => type \in {0, 3}
  OBVIOUS
<1>5. Bits # 0
  BY BitsFact
<1> QED BY <1>1, <1>2, <1>3, <1>4, <1>5 DEF ShiftOK, AmountShift

LEMMA RotatedWord ==
  ASSUME NEW x \in Nat, NEW k \in 0 .. Bits
  PROVE  RotateRight(x, k) \in Word
<1> DEFINE p == 2 ^ k
           q == 2 ^ (Bits - k)
<1>1. p \in Nat \ {0} /\ q \in Nat \ {0}
  BY PowerNat, BitsFact
<1> HIDE DEF p, q
<1>2. x \div p \in Nat /\ x * q \in Nat
  BY <1>1, DivMod
<1> DEFINE y == (x \div p) + x * q
<1>3. y \in Int
  BY <1>2
<1> HIDE DEF y
<1>4. y % M \in 0 .. M - 1
  BY <1>3, HalfFact, DivMod
<1> QED BY <1>4 DEF RotateRight, y, p, q, Word

LEMMA ArmDecodedOK ==
  ASSUME NEW op, IsOpcode(op, 8)
  PROVE  ArmOK(DecodeArm(op))
<1>d. /\ Digit(op, 0) \in Registers /\ Digit(op, 2) \in Registers
      /\ Digit(op, 3) \in Registers /\ Digit(op, 4) \in Registers
  BY DigitRange DEF Registers
<1>f. /\ Field(op, 5, 2) \in 0 .. 3 /\ Field(op, 7, 5) \in Nat
      /\ Field(op, 0, 8) \in Nat /\ Field(op, 0, 12) \in 0 .. 4095 /\ Field(op, 0, 24) \in Nat
  BY ArmFields
<1>w. \A x \in 0 .. 4095 : x \in Word
  BY PowerFacts DEF Word
<1>s. ShiftOK(AmountShift(Field(op, 5, 2), Field(op, 7, 5)))
  BY <1>f, AmountShiftOK
<1>e. SignExtend(Field(op, 0, 24), 24) \in Int
  BY <1>f DEF SignExtend
<1> HIDE DEF Registers
<1>1. ASSUME NEW d, NEW l
      PROVE  ArmOK([class |-> "BranchExchange", link |-> l, register |-> Digit(op, 0)])
  BY <1>d, SMTT(40) DEF ArmOK
<1>2. ArmOK(DecodeMultiplyLong(op)) /\ ArmOK(DecodeMultiply(op))
  BY <1>d, SMTT(40) DEF ArmOK, DecodeMultiplyLong, DecodeMultiply
<1>3. ArmOK(DecodeBlxImmediate(op)) /\ ArmOK(DecodeBranch(op))
  BY <1>e, SMTT(40) DEF ArmOK, DecodeBlxImmediate, DecodeBranch
<1>4. ArmOK(DecodeHalfwordTransfer(op))
  <2>1. 16 * Digit(op, 2) + Digit(op, 0) \in Word
    BY <1>d, <1>w DEF Registers
  <2> QED BY <1>d, <2>1, Zenon
         DEF ArmOK, DecodeHalfwordTransfer, Transfer, Joined
<1>5. ArmOK(DecodeBlockTransfer(op))
  <2>1. Listed(op, 16) \in SUBSET Registers
    BY DEF Listed, Registers
  <2> QED BY <1>d, <2>1, SMTT(40)
         DEF ArmOK, DecodeBlockTransfer
<1>6. ArmOK(DecodeDataProcessingImmediate(op))
  <2>1. (2 * Digit(op, 2)) % Bits \in 0 .. Bits
    <3>1. 2 * Digit(op, 2) \in Int /\ Bits \in Nat \ {0}
      BY <1>d, BitsFact DEF Registers
    <3> DEFINE y == (2 * Digit(op, 2)) % Bits
    <3>2. y \in 0 .. Bits - 1
      BY <3>1, DivMod
    <3> HIDE DEF y
    <3>3. y \in 0 .. Bits
      BY <3>2, BitsFact
    <3> QED BY <3>3 DEF y
  <2>2. RotateRight(Field(op, 0, 8), (2 * Digit(op, 2)) % Bits) \in Word
    BY <2>1, <1>f, RotatedWord
  <2> QED BY <1>d, <2>2, Zenon
         DEF ArmOK, DecodeDataProcessingImmediate, DecodeDataProcessing, Unknown, Joined
<1>7. ArmOK(DecodeDataProcessingRegister(op))
  <2>1. ShiftOK(DecodeDataProcessingShift(op))
    <3>1. ShiftOK(AmountShift(Field(op, 5, 2), 1))
      BY <1>f, AmountShiftOK
    <3>2. Digit(op, 2) \in Nat
      BY <1>d DEF Registers
    <3>3. ShiftOK([AmountShift(Field(op, 5, 2), 1) EXCEPT !.byRegister = TRUE, !.n = Digit(op, 2)])
      BY <3>1, <3>2, <1>d, SMTT(40) DEF ShiftOK, AmountShift
    <3> QED BY <3>3, <1>s DEF DecodeDataProcessingShift
  <2> HIDE DEF ShiftOK
  <2> QED BY <1>d, <2>1, SMTT(40)
         DEF ArmOK, DecodeDataProcessingRegister, DecodeDataProcessing, Unknown, Joined
<1>8. ArmOK(DecodeSingleDataTransferImmediate(op))
  <2> DEFINE x == Field(op, 0, 12)
  <2>0. x \in 0 .. 4095
    BY <1>f
  <2> HIDE DEF x
  <2>3. x \in Nat /\ x < 4096
    BY <2>0, SMT
  <2>4. 4096 <= M /\ M \in Nat
    BY PowerFacts
  <2>2. x \in Word
    BY <2>3, <2>4, SMT DEF Word
  <2>1. Field(op, 0, 12) \in Word
    BY <2>2 DEF x
  <2> QED BY <1>d, <2>1, SMTT(40)
         DEF ArmOK, DecodeSingleDataTransferImmediate, Transfer, Joined
<1>9. ArmOK(DecodeSingleDataTransferRegister(op))
  BY <1>d, <1>s, Zenon
     DEF ArmOK, DecodeSingleDataTransferRegister, Transfer, Unknown, Joined
<1> HIDE DEF ArmOK
<1> QED BY <1>1, <1>2, <1>3, <1>4, <1>5, <1>6, <1>7, <1>8, <1>9 DEF DecodeArm

(* The same for the Thumb set, whose registers are the low ones but for    *)
(* one class.                                                              *)
Low == 0 .. 7

ThumbOK(i) ==
  /\ i.class \in {"ThumbShiftImmediate", "ThumbAddSub", "ThumbAluRegister"} =>
       i.rd \in Low /\ i.rs \in Low
  /\ i.class = "ThumbShiftImmediate" => ShiftOK(i.shift)
  /\ i.class = "ThumbAddSub" => i.operand \in Low
  /\ i.class = "ThumbHiRegisterOp" => i.rd \in Registers /\ i.rs \in Registers
  /\ i.class \in {"ThumbMovImmediate", "ThumbCmpImmediate", "ThumbAddImmediate",
                  "ThumbSubImmediate"} => i.rd \in Low /\ i.immediate \in Word
  /\ i.class = "ThumbAdjustSp" => i.immediate \in Word
  /\ i.class \in {"ThumbLiteralLoad", "ThumbLoadStoreSpRelative", "ThumbLoadAddress",
                  "ThumbLoadStoreByteImmediate", "ThumbLoadStoreWordImmediate"} =>
       i.rd \in Low /\ i.offset \in Word
  /\ i.class \in {"ThumbLoadStoreByteImmediate", "ThumbLoadStoreWordImmediate"} =>
       i.base \in Low
  /\ i.class = "ThumbLoadStoreRegisterOffset" =>
       i.rd \in Low /\ i.base \in Low /\ i.offset \in Low
  /\ i.class \in {"ThumbBranch", "ThumbConditionalBranch"} =>
       i.offset \in Int /\ i.offset % 2 = 0
  /\ i.class = "ThumbLongBranchPrefix" => i.offset \in Int
  /\ i.class = "ThumbLongBranchSuffix" => i.offset \in Word
  /\ i.class = "ThumbLoadStoreMultiple" => i.base \in Low
  /\ i.class \in {"ThumbLoadStoreMultiple", "ThumbPush", "ThumbPop"} =>
       i.registers \in SUBSET Low

LEMMA ThumbFields ==
  ASSUME NEW op, IsOpcode(op, 4)
  PROVE  /\ Low3(op, 0) \in Low /\ Low3(op, 3) \in Low /\ Low3(op, 6) \in Low /\ Low3(op, 8) \in Low
         /\ Field(op, 11, 2) \in 0 .. 3 /\ Field(op, 6, 5) \in 0 .. 31 /\ Field(op, 3, 4) \in 0 .. 15
         /\ Field(op, 0, 8) \in 0 .. 255 /\ Field(op, 0, 7) \in 0 .. 127
         /\ Field(op, 0, 11) \in Nat /\ Field(op, 0, 11) < 2048
<1>1. /\ Pow2(2) = 4 /\ Pow2(3) = 8 /\ Pow2(4) = 16 /\ Pow2(5) = 32 /\ Pow2(7) = 128
      /\ Pow2(8) = 256 /\ Pow2(11) = 2048
  BY DEF Pow2
<1> HIDE DEF Pow2
<1>2. ASSUME NEW k \in 0 .. 15, NEW w \in 1 .. 11, k + w <= 16, Pow2(w) \in Nat \ {0}
      PROVE  Field(op, k, w) \in 0 .. Pow2(w) - 1
  BY <1>2, FieldRange
<1>3. ASSUME NEW k \in {0, 3, 6, 8}
      PROVE  Low3(op, k) \in Low
  <2>1. Pow2(3) = 8
    BY <1>1
  <2>2. Field(op, k, 3) \in 0 .. Pow2(3) - 1
    BY <2>1, <1>2
  <2> QED BY <2>1, <2>2 DEF Low3, Low
<1>4. Field(op, 11, 2) \in 0 .. 3 /\ Field(op, 6, 5) \in 0 .. 31
  <2>1. Pow2(2) = 4 /\ Pow2(5) = 32
    BY <1>1
  <2>2. Field(op, 11, 2) \in 0 .. Pow2(2) - 1 /\ Field(op, 6, 5) \in 0 .. Pow2(5) - 1
    BY <2>1, <1>2
  <2> QED BY <2>1, <2>2
<1>5. Field(op, 3, 4) \in 0 .. 15 /\ Field(op, 0, 7) \in 0 .. 127
  <2>1. Pow2(4) = 16 /\ Pow2(7) = 128
    BY <1>1
  <2>2. Field(op, 3, 4) \in 0 .. Pow2(4) - 1 /\ Field(op, 0, 7) \in 0 .. Pow2(7) - 1
    BY <2>1, <1>2
  <2> QED BY <2>1, <2>2
<1>6. Field(op, 0, 8) \in 0 .. 255
  <2>1. Pow2(8) = 256
    BY <1>1
  <2>2. Field(op, 0, 8) \in 0 .. Pow2(8) - 1
    BY <2>1, <1>2
  <2> QED BY <2>1, <2>2, SMT
<1>7. Field(op, 0, 11) \in Nat /\ Field(op, 0, 11) < 2048
  <2>1. Pow2(11) = 2048
    BY <1>1
  <2>2. Field(op, 0, 11) \in 0 .. Pow2(11) - 1
    BY <2>1, <1>2
  <2> QED BY <2>1, <2>2, SMT
<1> QED BY <1>3, <1>4, <1>5, <1>6, <1>7

LEMMA ThumbDecodedOK ==
  ASSUME NEW op, IsOpcode(op, 4)
  PROVE  ThumbOK(DecodeThumb(op))
<1>f. /\ Low3(op, 0) \in Low /\ Low3(op, 3) \in Low /\ Low3(op, 6) \in Low /\ Low3(op, 8) \in Low
      /\ Field(op, 11, 2) \in 0 .. 3 /\ Field(op, 6, 5) \in 0 .. 31 /\ Field(op, 3, 4) \in 0 .. 15
      /\ Field(op, 0, 8) \in 0 .. 255 /\ Field(op, 0, 7) \in 0 .. 127
      /\ Field(op, 0, 11) \in Nat /\ Field(op, 0, 11) < 2048
  BY ThumbFields
<1>w. ASSUME NEW x \in Nat, x < 4096
      PROVE  x \in Word
  BY <1>w, PowerFacts DEF Word
<1>o. /\ Field(op, 0, 8) \in Word /\ 4 * Field(op, 0, 8) \in Word /\ 4 * Field(op, 0, 7) \in Word
      /\ 2 * Field(op, 0, 11) \in Word
      /\ 1 * Field(op, 6, 5) \in Word /\ 4 * Field(op, 6, 5) \in Word
  BY <1>f, <1>w
<1>e. /\ 2 * SignExtend(Field(op, 0, 8), 8) \in Int
      /\ (2 * SignExtend(Field(op, 0, 8), 8)) % 2 = 0
      /\ 2 * SignExtend(Field(op, 0, 11), 11) \in Int
      /\ (2 * SignExtend(Field(op, 0, 11), 11)) % 2 = 0
      /\ 4096 * SignExtend(Field(op, 0, 11), 11) \in Int
  <2>1. SignExtend(Field(op, 0, 8), 8) \in Int /\ SignExtend(Field(op, 0, 11), 11) \in Int
    BY <1>f DEF SignExtend
  <2>2. \A x \in Int : 2 * x \in Int /\ (2 * x) % 2 = 0 /\ 4096 * x \in Int
    BY SMT
  <2> QED BY <2>1, <2>2
<1>s. ShiftOK(AmountShift(Field(op, 11, 2), Field(op, 6, 5)))
  BY <1>f, AmountShiftOK
<1>l. Listed(op, 8) \in SUBSET Low
  BY DEF Listed, Low
<1>h. /\ Low3(op, 0) + (IF Bit(op, 7) THEN 8 ELSE 0) \in Registers
      /\ Field(op, 3, 4) \in Registers
  BY <1>f DEF Low, Registers
<1> HIDE DEF Low, Registers
<1>1. ThumbOK(DecodeThumbShiftImmediate(op)) /\ ThumbOK(DecodeThumbAddSub(op))
  BY <1>f, <1>s DEF ThumbOK, DecodeThumbShiftImmediate, DecodeThumbAddSub
<1>2. ThumbOK(DecodeThumbAluRegister(op)) /\ ThumbOK(DecodeThumbHiRegisterOp(op))
  BY <1>f, <1>h DEF ThumbOK, DecodeThumbAluRegister, DecodeThumbHiRegisterOp, Unknown
<1>3. \A c : c \in {"ThumbMovImmediate", "ThumbCmpImmediate", "ThumbAddImmediate", "ThumbSubImmediate"} =>
        ThumbOK(ThumbImmediate8(c, op))
  BY <1>f, <1>o DEF ThumbOK, ThumbImmediate8
<1>4. \A x : ThumbOK(ThumbSuffix(op, x))
  BY <1>o DEF ThumbOK, ThumbSuffix
<1>5. /\ ThumbOK(ThumbOffset5("ThumbLoadStoreByteImmediate", op, 1))
      /\ ThumbOK(ThumbOffset5("ThumbLoadStoreWordImmediate", op, 4))
  BY <1>f, <1>o DEF ThumbOK, ThumbOffset5
<1>6. ThumbOK(Unknown)
  BY DEF ThumbOK, Unknown
<1>7. ThumbOK(DecodeThumbLoadStore(op))
  <2>1. /\ ThumbOK([class |-> "ThumbLoadStoreRegisterOffset", load |-> Bit(op, 11),
                    byte |-> Bit(op, 10), offset |-> Low3(op, 6), base |-> Low3(op, 3),
                    rd |-> Low3(op, 0)])
        /\ ThumbOK([class |-> "ThumbLoadStoreMultiple", load |-> Bit(op, 11),
                    base |-> Low3(op, 8), registers |-> Listed(op, 8)])
    BY <1>f, <1>l DEF ThumbOK
  <2> HIDE DEF ThumbOK
  <2> QED
    BY <1>5, <1>6, <2>1 DEF DecodeThumbLoadStore
<1>8. ThumbOK(DecodeThumbStack(op))
  <2>1. /\ ThumbOK([class |-> "ThumbPush", registers |-> Listed(op, 8), lr |-> Bit(op, 8)])
        /\ ThumbOK([class |-> "ThumbPop", registers |-> Listed(op, 8), pc |-> Bit(op, 8)])
        /\ ThumbOK([class |-> "ThumbAdjustSp", subtract |-> Bit(op, 7),
                    immediate |-> 4 * Field(op, 0, 7)])
    BY <1>o, <1>l DEF ThumbOK
  <2> HIDE DEF ThumbOK
  <2> QED
    BY <1>6, <2>1 DEF DecodeThumbStack
<1>9. ThumbOK(DecodeThumbFallback(op))
  <2>1. ThumbOK([class |-> "ThumbConditionalBranch", condition |-> Digit(op, 2),
                 offset |-> 2 * SignExtend(Field(op, 0, 8), 8)])
    BY <1>e DEF ThumbOK
  <2> HIDE DEF ThumbOK
  <2> QED
    BY <1>2, <1>4, <1>6, <1>7, <1>8, <2>1 DEF DecodeThumbFallback
<1>10. ThumbOK(DecodeThumbRelative(op))
  BY <1>f, <1>o DEF ThumbOK, DecodeThumbRelative
<1>11. ThumbOK(DecodeThumbBranch(op))
  <2> DEFINE top == Field(op, 11, 5)
             near == [class |-> "ThumbBranch", offset |-> 2 * SignExtend(Field(op, 0, 11), 11)]
             far == [class |-> "ThumbLongBranchPrefix",
                     offset |-> 4096 * SignExtend(Field(op, 0, 11), 11)]
  <2>1. ThumbOK(near) /\ ThumbOK(far)
    BY <1>e DEF ThumbOK
  <2>2. DecodeThumbBranch(op) =
          IF top = 28 THEN near ELSE IF top = 30 THEN far ELSE ThumbSuffix(op, FALSE)
    BY DEF DecodeThumbBranch
  <2> HIDE DEF ThumbOK, top, near, far
  <2>3. CASE top = 28
    BY <2>1, <2>2, <2>3, Zenon
  <2>4. CASE top # 28 /\ top = 30
    BY <2>1, <2>2, <2>4, Zenon
  <2>5. CASE top # 28 /\ top # 30
    BY <1>4, <2>2, <2>5, Zenon
  <2> QED
    BY <2>3, <2>4, <2>5, Zenon
<1>12. Field(op, 11, 5) \in 4 .. 7 =>
         ThumbOK(ThumbImmediate8(<<"ThumbMovImmediate", "ThumbCmpImmediate", "ThumbAddImmediate",
                                   "ThumbSubImmediate">>[Field(op, 11, 5) - 3], op))
  BY <1>3
<1> HIDE DEF ThumbOK
<1> QED
  BY <1>1, <1>9, <1>10, <1>11, <1>12 DEF DecodeThumb

-----------------------------------------------------------------------------
(* What the operations make is a word, and the flags are flags.            *)

LEMMA WordIs == \A x : x \in Word <=> x \in Nat /\ x < M
  BY HalfFact DEF Word

LEMMA ModWord ==
  ASSUME NEW x \in Int
  PROVE  x % M \in Word
  BY HalfFact, DivMod DEF Word

LEMMA AlignedWord ==
  ASSUME NEW x \in Word, NEW k \in {2, 4}
  PROVE  Aligned(x, k) \in Word
<1>1. x \in Nat /\ x < M
  BY WordIs
<1>2. CASE k = 2
  <2>1. x - (x % 2) \in Nat /\ x - (x % 2) <= x
    BY <1>1
  <2> QED BY <1>1, <1>2, <2>1, WordIs, HalfFact DEF Aligned
<1>3. CASE k = 4
  <2>1. x - (x % 4) \in Nat /\ x - (x % 4) <= x
    BY <1>1
  <2> QED BY <1>1, <1>3, <2>1, WordIs, HalfFact DEF Aligned
<1> QED BY <1>2, <1>3

LEMMA ExchangeWord ==
  ASSUME NEW x \in Word
  PROVE  ExchangeAddress(x) \in Word
  BY AlignedWord DEF ExchangeAddress

LEMMA MarkedWord ==
  ASSUME NEW x \in Word
  PROVE  Marked(x) \in Word
<1>1. x \in Nat /\ x < 2 * Half /\ Half \in Nat
  BY WordIs, HalfFact
<1>2. x - (x % 2) + 1 \in Nat /\ x - (x % 2) + 1 < 2 * Half
  BY <1>1
<1> QED BY <1>2, WordIs, HalfFact DEF Marked, Aligned

LEMMA SmallWords ==
  /\ 0 \in Word /\ 2 \in Word /\ 4 \in Word /\ 8 \in Word /\ M - 1 \in Word
  /\ \A x \in Registers : x \in Word
  /\ \A x \in 0 .. Byte - 1 : x \in Word
<1>1. 8 <= Byte /\ Byte <= M /\ Byte \in Nat
  <2>1. \A b \in Nat : 8 <= b => b * b \in Nat /\ 8 <= b * b /\ b <= b * b
    OBVIOUS
  <2>2. Byte * Byte \in Nat /\ 8 <= Byte * Byte /\ Byte <= Byte * Byte
    BY <2>1, PowerFacts
  <2>3. M = (Byte * Byte) * (Byte * Byte)
    BY PowerFacts
  <2>4. Byte * Byte <= M
    BY <2>1, <2>2, <2>3
  <2> QED BY <2>2, <2>4, PowerFacts
<1>2. 4096 <= M /\ M \in Nat
  BY PowerFacts
<1> QED BY <1>1, <1>2, WordIs DEF Registers

LEMMA QuotientWord ==
  ASSUME NEW x \in Word, NEW p \in Nat \ {0}
  PROVE  x \div p \in Word
<1>1. x \in Nat /\ x < M
  BY WordIs
<1>2. x \div p \in Nat /\ x % p \in Nat /\ x = p * (x \div p) + (x % p)
  <2>1. x % p \in 0 .. p - 1 /\ x \div p \in Nat /\ x = p * (x \div p) + (x % p)
    <3>1. x \in Int /\ 0 <= x
      BY <1>1
    <3> QED BY <3>1, DivMod, Zenon
  <2> QED BY <2>1
<1>3. \A q \in Nat : q <= p * q /\ p * q \in Nat
  OBVIOUS
<1>4. x \div p <= p * (x \div p) /\ p * (x \div p) \in Nat
  BY <1>2, <1>3
<1>5. x \div p <= x
  BY <1>1, <1>2, <1>4
<1> QED BY <1>1, <1>2, <1>5, WordIs, HalfFact

LEMMA SignedInt ==
  ASSUME NEW x \in Word
  PROVE  Signed(x) \in Int /\ -Half <= Signed(x) /\ Signed(x) < Half
  BY HalfFact, WordIs DEF Signed, Negative

Shift(s) == s.out \in Word /\ s.carry \in BOOLEAN

(* The shifter makes a word and a carry, for every amount.                 *)
LEMMA ShiftWord ==
  ASSUME NEW kind \in {"lsl", "lsr", "asr", "ror"}, NEW x \in Word, NEW n \in Nat,
         NEW carry \in BOOLEAN
  PROVE  Shift(ShiftBy(kind, x, n, carry))
<1>1. \A y, k : BitOf(y, k) \in BOOLEAN /\ Negative(y) \in BOOLEAN
  BY DEF BitOf, Negative
<1>2. \A y \in Word, b \in BOOLEAN : Shift(Made(y, b))
  BY DEF Shift, Made
<1>3. n < Bits => 2 ^ n \in Nat \ {0}
  BY PowerNat, BitsFact
<1>4. x \in Nat /\ x < M
  BY WordIs
<1>5. CASE kind = "lsl"
  <2>1. n < Bits => (x * 2 ^ n) % M \in Word
    <3>1. ASSUME n < Bits PROVE x * 2 ^ n \in Int
      BY <1>3, <1>4, <3>1
    <3> QED BY <3>1, ModWord
  <2>2. ShiftBy(kind, x, n, carry) =
          IF n = 0 THEN Made(x, carry)
          ELSE IF n < Bits THEN Made((x * 2 ^ n) % M, BitOf(x, Bits - n))
          ELSE Made(0, n = Bits /\ BitOf(x, 0))
    BY <1>5 DEF ShiftBy
  <2>3. 0 \in Word /\ (n = Bits /\ BitOf(x, 0)) \in BOOLEAN
    BY SmallWords
  <2> QED BY <1>1, <1>2, <2>1, <2>2, <2>3, Zenon
<1>6. CASE kind = "lsr"
  <2>1. n < Bits => x \div 2 ^ n \in Word
    BY <1>3, QuotientWord
  <2>2. ShiftBy(kind, x, n, carry) =
          IF n < Bits THEN Made(x \div 2 ^ n, BitOf(x, n - 1))
          ELSE Made(0, n = Bits /\ Negative(x))
    BY <1>6 DEF ShiftBy
  <2>3. 0 \in Word /\ (n = Bits /\ Negative(x)) \in BOOLEAN
    BY SmallWords
  <2> QED BY <1>1, <1>2, <2>1, <2>2, <2>3, Zenon
<1>7. CASE kind = "asr"
  <2>1. n < Bits => (Signed(x) \div 2 ^ n) % M \in Word
    <3>1. ASSUME n < Bits PROVE Signed(x) \div 2 ^ n \in Int
      BY <1>3, <3>1, SignedInt, DivMod
    <3> QED BY <3>1, ModWord
  <2>2. ShiftBy(kind, x, n, carry) =
          IF n < Bits THEN Made((Signed(x) \div 2 ^ n) % M, BitOf(x, n - 1))
          ELSE Made(IF Negative(x) THEN M - 1 ELSE 0, Negative(x))
    BY <1>7 DEF ShiftBy
  <2>3. (IF Negative(x) THEN M - 1 ELSE 0) \in Word
    BY SmallWords
  <2> QED BY <1>1, <1>2, <2>1, <2>2, <2>3, Zenon
<1>8. CASE kind = "ror"
  <2>1. (IF carry THEN Half ELSE 0) + x \div 2 \in Word
    BY <1>4, HalfFact, WordIs
  <2>2. RotateRight(x, n % Bits) \in Word
    <3>1. n % Bits \in 0 .. Bits
      BY BitsFact
    <3> QED BY <1>4, <3>1, RotatedWord
  <2>3. ShiftBy(kind, x, n, carry) =
          IF n = 0 THEN Made((IF carry THEN Half ELSE 0) + x \div 2, BitOf(x, 0))
          ELSE Made(RotateRight(x, n % Bits), Negative(RotateRight(x, n % Bits)))
    BY <1>8 DEF ShiftBy
  <2> QED BY <1>1, <1>2, <2>1, <2>2, <2>3, Zenon
<1> QED BY <1>5, <1>6, <1>7, <1>8

LEMMA LogicWord ==
  ASSUME NEW l \in Word, NEW r \in Word,
         NEW op \in {"and", "tst", "eor", "orr", "bic", "mov", "mvn"}
  PROVE  Logic(op, l, r) \in Word
<1>1. \A x : BitsOf(x) \in SUBSET (0 .. Bits - 1)
  BY DEF BitsOf
<1>2. /\ BitsOf(l) \cap BitsOf(r) \in SUBSET (0 .. Bits - 1)
      /\ (BitsOf(l) \cup BitsOf(r)) \ (BitsOf(l) \cap BitsOf(r)) \in SUBSET (0 .. Bits - 1)
      /\ BitsOf(l) \cup BitsOf(r) \in SUBSET (0 .. Bits - 1)
      /\ BitsOf(l) \ BitsOf(r) \in SUBSET (0 .. Bits - 1)
  BY <1>1, Zenon
<1>3. /\ OfBits(BitsOf(l) \cap BitsOf(r)) \in Word
      /\ OfBits((BitsOf(l) \cup BitsOf(r)) \ (BitsOf(l) \cap BitsOf(r))) \in Word
      /\ OfBits(BitsOf(l) \cup BitsOf(r)) \in Word
      /\ OfBits(BitsOf(l) \ BitsOf(r)) \in Word
  BY <1>2, OfBitsWord
<1>4. M - 1 - r \in Word
  BY HalfFact, WordIs
<1> QED BY <1>3, <1>4 DEF Logic

LEMMA FlagsTyped ==
  ASSUME NEW l, NEW r, NEW x, NEW c
  PROVE  /\ \A f \in Flags : NZ(f, x) \in Flags
         /\ \A f \in Flags : \A b \in BOOLEAN : [NZ(f, x) EXCEPT !.c = b] \in Flags
         /\ AddFlags(l, r, x) \in Flags /\ SubFlags(l, r, x) \in Flags
         /\ CarriedFlags(l, r, c, x) \in Flags
<1>1. Negative(x) \in BOOLEAN /\ (x = 0) \in BOOLEAN
  BY DEF Negative
<1>2. \A f \in Flags : NZ(f, x) \in Flags
  BY <1>1 DEF Flags, NZ
<1>3. \A f \in Flags : \A b \in BOOLEAN : [f EXCEPT !.c = b] \in Flags
  BY DEF Flags
<1>4. /\ AddFlags(l, r, x) \in Flags /\ SubFlags(l, r, x) \in Flags
      /\ CarriedFlags(l, r, c, x) \in Flags
  BY DEF Flags, AddFlags, SubFlags, CarriedFlags, Negative
<1> QED BY <1>2, <1>3, <1>4

LEMMA CarriedWord ==
  ASSUME NEW l \in Word, NEW r \in Word, NEW c \in {0, 1}
  PROVE  CarriedSum(l, r, c) \in Word
  BY HalfFact, WordIs DEF CarriedSum

(* A byte or a halfword extended with its sign is a word.                  *)
LEMMA ExtendedWord ==
  ASSUME NEW x \in Nat, NEW bits \in 1 .. Bits, x < 2 ^ bits
  PROVE  Extended(x, bits) \in Word
<1> DEFINE p == 2 ^ bits
           h == 2 ^ (bits - 1)
<1>1. p \in 1 .. M /\ h \in Nat
  BY PowerSplit, PowerNat, BitsFact
<1>2. x < p
  OBVIOUS
<1>3. Extended(x, bits) = IF h <= x THEN x + M - p ELSE x
  BY DEF Extended
<1> HIDE DEF p, h
<1> QED BY <1>1, <1>2, <1>3, HalfFact, WordIs

-----------------------------------------------------------------------------
(* The memory.                                                             *)

(* The bytes of a memory on the addresses D.                               *)
Memory(D) == [D -> 0 .. Byte - 1]

LEMMA ByteOfRange ==
  ASSUME NEW x \in Word, NEW k \in 0 .. 3
  PROVE  ByteOf(x, k) \in 0 .. Byte - 1
<1>1. Byte \in Nat \ {0} /\ x \in Nat
  BY PowerFacts, WordIs
<1>2. Byte ^ k \in Nat \ {0}
  <2>1. Byte ^ 0 = 1 /\ Byte ^ 1 = Byte /\ Byte ^ 2 = Byte * Byte /\ Byte ^ 3 = (Byte * Byte) * Byte
    BY CpuAssumption
  <2>2. Byte * Byte \in Nat \ {0}
    BY <1>1
  <2>3. (Byte * Byte) * Byte \in Nat \ {0}
    BY <1>1, <2>2
  <2>4. k \in {0, 1, 2, 3}
    OBVIOUS
  <2> QED BY <1>1, <2>1, <2>2, <2>3, <2>4
<1>3. x \div Byte ^ k \in Int
  BY <1>1, <1>2, DivMod
<1> QED BY <1>1, <1>3, DivMod DEF ByteOf

LEMMA WriteMemory ==
  ASSUME NEW D, mem \in Memory(D), NEW a \in Word, NEW w \in 1 .. 4, NEW x \in Word
  PROVE  Write(a, w, x) \in Memory(D)
<1>1. D = DOMAIN mem /\ \A b \in D : mem[b] \in 0 .. Byte - 1
  BY DEF Memory
<1>2. ASSUME NEW b, b \in a .. a + w - 1
      PROVE  ByteOf(x, b - a) \in 0 .. Byte - 1
  <2>1. b - a \in 0 .. 3
    BY <1>2, WordIs
  <2> QED BY <2>1, ByteOfRange
<1> QED BY <1>1, <1>2, Zenon DEF Write, Memory

(* Words of registers at addresses.                                        *)
LEMMA WriteAllMemory ==
  ASSUME NEW D, mem \in Memory(D), regs \in [Registers -> Word], NEW S \in SUBSET Registers,
         NEW at \in [S -> Word]
  PROVE  WriteAll(at) \in Memory(D)
<1>1. D = DOMAIN mem /\ \A b \in D : mem[b] \in 0 .. Byte - 1
  BY DEF Memory
<1>2. ASSUME NEW r \in S, NEW b, b \in at[r] .. at[r] + 3
      PROVE  ByteOf(regs[r], b - at[r]) \in 0 .. Byte - 1
  <2>1. b - at[r] \in 0 .. 3 /\ regs[r] \in Word
    BY <1>2, WordIs
  <2> QED BY <2>1, ByteOfRange
<1>3. ASSUME NEW b, \E r \in DOMAIN at : b \in at[r] .. at[r] + 3
      PROVE  LET r == CHOOSE r \in DOMAIN at : b \in at[r] .. at[r] + 3
             IN ByteOf(regs[r], b - at[r]) \in 0 .. Byte - 1
  <2> DEFINE r == CHOOSE q \in DOMAIN at : b \in at[q] .. at[q] + 3
  <2>1. r \in DOMAIN at /\ b \in at[r] .. at[r] + 3
    BY <1>3, Zenon
  <2>2. DOMAIN at = S
    OBVIOUS
  <2> HIDE DEF r
  <2>3. ByteOf(regs[r], b - at[r]) \in 0 .. Byte - 1
    BY <1>2, <2>1, <2>2, Zenon
  <2> QED BY <2>3, Zenon DEF r
<1> QED BY <1>1, <1>3, Zenon DEF WriteAll, Memory

LEMMA SlotNat ==
  ASSUME NEW S \in SUBSET Registers
  PROVE  Cardinality(S) \in Nat /\ \A r : Slot(S, r) \in Nat
<1>1. IsFiniteSet(Registers)
  <2>1. 0 \in Int /\ 15 \in Int
    OBVIOUS
  <2> QED BY <2>1, FS_Interval, Zenon DEF Registers
<1>2. IsFiniteSet(S) /\ \A r : IsFiniteSet({q \in S : q < r})
  BY <1>1, FS_Subset
<1> QED BY <1>2, FS_CardinalityType DEF Slot

(* A loaded word, byte or halfword.                                        *)
LEMMA LoadedWord ==
  ASSUME NEW D, mem \in Memory(D), NEW a \in Word, NEW w \in {1, 2, 4}, Mapped(a, w)
  PROVE  Read(a, w) \in Word
<1>1. \A b \in DOMAIN mem : mem[b] \in 0 .. Byte - 1
  BY DEF Memory
<1> QED BY <1>1, ReadWord, WordIs

-----------------------------------------------------------------------------
(* The types through the instructions of the ARM set.                      *)

RegisterFile == [Registers -> Word]
Faults == {"none", "memory", "unimplemented", "wild"}

(* The types, with the addresses D of the memory.                          *)
Good(D) ==
  /\ regs \in RegisterFile /\ thumb \in BOOLEAN /\ flags \in Flags /\ mem \in Memory(D)
  /\ fault \in Faults /\ ToldOK

LEMMA GoodStep ==
  ASSUME NEW D,
         regs' \in RegisterFile, thumb' \in BOOLEAN, flags' \in Flags, mem' \in Memory(D),
         fault' \in Faults, ToldOK'
  PROVE  Good(D)'
  BY DEF Good

LEMMA WrittenRegister ==
  ASSUME NEW r \in RegisterFile, NEW k \in Registers, NEW x \in Word
  PROVE  [r EXCEPT ![k] = x] \in RegisterFile
  BY DEF RegisterFile

LEMMA RegisterWord ==
  ASSUME NEW r \in RegisterFile, NEW k \in Registers
  PROVE  r[k] \in Word
  BY DEF RegisterFile

LEMMA ToldUntold ==
  ASSUME told' = Untold
  PROVE  ToldOK'
  BY SmallWords DEF ToldOK, Untold

LEMMA ToldTell ==
  ASSUME NEW sum \in {"add", "sub"}, NEW l \in Word, NEW r \in Word, NEW c \in {0, 1},
         Tell(sum, l, r, c)
  PROVE  ToldOK'
  BY DEF ToldOK, Tell

LEMMA ToldKept ==
  ASSUME ToldOK, told' = told
  PROVE  ToldOK'
  BY DEF ToldOK

LEMMA PcWords ==
  ASSUME NEW D, Good(D)
  PROVE  /\ Pc \in Word /\ Sp \in Word /\ Plus(Pc, 2) \in Word /\ Plus(Pc, 4) \in Word
         /\ Plus(Pc, 8) \in Word /\ Marked(Plus(Pc, 2)) \in Word
<1>1. Pc \in Word /\ Sp \in Word
  BY DEF Good, Pc, Sp, RegisterFile, Registers
<1>2. Plus(Pc, 2) \in Word /\ Plus(Pc, 4) \in Word /\ Plus(Pc, 8) \in Word
  BY <1>1, SmallWords, PlusMinusWords
<1> QED BY <1>1, <1>2, MarkedWord

LEMMA Advanced ==
  ASSUME NEW D, Good(D), NEW r \in RegisterFile
  PROVE  /\ NextArm(r) \in RegisterFile
         /\ NextThumb(r) \in RegisterFile
<1>1. 15 \in Registers
  BY DEF Registers
<1>2. Plus(Pc, 2) \in Word /\ Plus(Pc, 4) \in Word
  BY PcWords
<1> QED BY <1>1, <1>2, WrittenRegister DEF NextArm, NextThumb

LEMMA ResultWritten ==
  ASSUME NEW D, Good(D), NEW rd \in Registers, NEW x \in Word
  PROVE  WithResult(rd, x) \in RegisterFile
<1>1. regs \in RegisterFile /\ 15 \in Registers
  BY DEF Good, Registers
<1>2. [regs EXCEPT ![15] = x] \in RegisterFile /\ NextArm([regs EXCEPT ![rd] = x]) \in RegisterFile
  BY <1>1, WrittenRegister, Advanced
<1> QED BY <1>2 DEF WithResult

LEMMA VisibleWord ==
  ASSUME NEW D, Good(D), NEW r \in Registers
  PROVE  Visible(r) \in Word /\ regs[r] \in Word
  BY PcWords, RegisterWord DEF Visible, Good

LEMMA ShiftedWord ==
  ASSUME NEW D, Good(D), NEW x \in Word, NEW s, ShiftOK(s)
  PROVE  Shifted(x, s).out \in Word /\ Shifted(x, s).carry \in BOOLEAN
<1>1. flags.c \in BOOLEAN
  BY DEF Good, Flags
<1>2. s.kind \in {"lsl", "lsr", "asr", "ror"} /\ s.n \in Nat /\ s.byRegister \in BOOLEAN
  BY DEF ShiftOK
<1>3. CASE s.byRegister
  <2>1. regs[s.n] \in Word
    BY <1>3, VisibleWord DEF ShiftOK
  <2>2. regs[s.n] % 256 \in Nat
    BY <2>1, WordIs
  <2>3. Shift(ShiftBy(s.kind, x, regs[s.n] % 256, flags.c)) /\ Shift(Made(x, flags.c))
    <3>1. Shift(ShiftBy(s.kind, x, regs[s.n] % 256, flags.c))
      BY <1>1, <1>2, <2>2, ShiftWord
    <3>2. Shift(Made(x, flags.c))
      BY <1>1 DEF Shift, Made
    <3> QED BY <3>1, <3>2
  <2>4. Shift(Shifted(x, s))
    BY <1>3, <2>3, Zenon DEF Shifted, ShiftByRegister
  <2> QED BY <2>4 DEF Shift
<1>4. CASE ~s.byRegister
  <2>1. Shift(ShiftBy(s.kind, x, s.n, flags.c))
    BY <1>1, <1>2, ShiftWord
  <2>2. Shift(Shifted(x, s))
    BY <1>4, <2>1, Zenon DEF Shifted
  <2> QED BY <2>2 DEF Shift
<1> QED BY <1>2, <1>3, <1>4

LEMMA FailingGood ==
  ASSUME NEW D, Good(D), NEW kind \in Faults, Failing(kind)
  PROVE  Good(D)'
<1>1. /\ regs' \in RegisterFile /\ thumb' \in BOOLEAN /\ flags' \in Flags /\ mem' \in Memory(D)
      /\ fault' \in Faults
  BY DEF Failing, Good
<1>2. ToldOK'
  BY ToldKept DEF Failing, Good
<1> QED BY <1>1, <1>2, GoodStep

(* What a step needs that stays in its mode.                               *)
LEMMA SameModeGood ==
  ASSUME NEW D, Good(D), thumb' = thumb, fault' \in Faults, mem' \in Memory(D),
         regs' \in RegisterFile, flags' \in Flags, ToldOK'
  PROVE  Good(D)'
<1>1. thumb' \in BOOLEAN
  BY DEF Good
<1> QED BY <1>1, GoodStep

LEMMA DataProcessingGood ==
  ASSUME NEW D, Good(D), NEW i, i.rd \in Registers,
         NEW l \in Word, NEW r \in Word, NEW carry \in BOOLEAN, DataProcessing(i, l, r, carry)
  PROVE  Good(D)'
<1>1. /\ thumb' = thumb /\ mem' \in Memory(D) /\ fault' \in Faults
      /\ regs \in RegisterFile /\ flags \in Flags /\ ToldOK
  BY DEF DataProcessing, OnlyFlagsToo, Good
<1>k. KeepFlags => flags' \in Flags /\ ToldOK'
  <2>1. KeepFlags => told' = told /\ flags' = flags
    BY DEF KeepFlags
  <2> QED BY <1>1, <2>1, ToldKept
<1>n. NextArm(regs) \in RegisterFile
  BY <1>1, Advanced
<1>2. CASE LogicStep(i, l, r, carry)
  <2> DEFINE x == Logic(i.op, l, r)
  <2>1. x \in Word
    BY <1>2, LogicWord DEF LogicStep
  <2>2. WithResult(i.rd, x) \in RegisterFile
    BY <2>1, ResultWritten
  <2>3. [NZ(flags, x) EXCEPT !.c = carry] \in Flags
    BY <1>1, FlagsTyped
  <2>4. regs' = IF i.op = "tst" THEN NextArm(regs) ELSE WithResult(i.rd, x)
    BY <1>2 DEF LogicStep
  <2>5. \/ flags' = [NZ(flags, x) EXCEPT !.c = carry] /\ told' = Untold
        \/ KeepFlags
    BY <1>2 DEF LogicStep
  <2> HIDE DEF x
  <2>6. regs' \in RegisterFile
    BY <1>n, <2>2, <2>4
  <2>7. flags' \in Flags /\ ToldOK'
    BY <1>k, <2>3, <2>5, ToldUntold
  <2> QED BY <1>1, <2>6, <2>7, SameModeGood
<1>3. CASE AddStep(i, l, r)
  <2> DEFINE x == Plus(l, r)
  <2>1. x \in Word
    BY PlusMinusWords
  <2>2. WithResult(i.rd, x) \in RegisterFile
    BY <2>1, ResultWritten
  <2>3. AddFlags(l, r, x) \in Flags
    BY FlagsTyped
  <2>4. regs' = IF i.op = "cmn" THEN NextArm(regs) ELSE WithResult(i.rd, x)
    BY <1>3 DEF AddStep
  <2>5. (flags' = AddFlags(l, r, x) /\ Tell("add", l, r, 0)) \/ KeepFlags
    BY <1>3 DEF AddStep
  <2> HIDE DEF x
  <2>6. regs' \in RegisterFile
    BY <1>n, <2>2, <2>4
  <2>7. flags' \in Flags /\ ToldOK'
    BY <1>k, <2>3, <2>5, ToldTell
  <2> QED BY <1>1, <2>6, <2>7, SameModeGood
<1>4. CASE AdcStep(i, l, r)
  <2> DEFINE c == IF flags.c THEN 1 ELSE 0
             x == CarriedSum(l, r, c)
  <2>0. c \in {0, 1}
    OBVIOUS
  <2> HIDE DEF c
  <2>1. x \in Word
    BY <2>0, CarriedWord
  <2>2. WithResult(i.rd, x) \in RegisterFile
    BY <2>1, ResultWritten
  <2>3. CarriedFlags(l, r, c, x) \in Flags
    BY FlagsTyped
  <2>4. regs' = WithResult(i.rd, x)
    BY <1>4 DEF AdcStep, c
  <2>5. (flags' = CarriedFlags(l, r, c, x) /\ Tell("add", l, r, c)) \/ KeepFlags
    BY <1>4 DEF AdcStep, c
  <2> HIDE DEF x
  <2>6. regs' \in RegisterFile
    BY <2>2, <2>4
  <2>7. flags' \in Flags /\ ToldOK'
    BY <1>k, <2>0, <2>3, <2>5, ToldTell
  <2> QED BY <1>1, <2>6, <2>7, SameModeGood
<1>5. CASE SubStep(i, l, r)
  <2> DEFINE a == IF i.op = "rsb" THEN r ELSE l
             b == IF i.op = "rsb" THEN l ELSE r
             x == Minus(a, b)
  <2>0. a \in Word /\ b \in Word
    OBVIOUS
  <2>4. regs' = IF i.op = "cmp" THEN NextArm(regs) ELSE WithResult(i.rd, x)
    BY <1>5 DEF SubStep
  <2>5. (flags' = SubFlags(a, b, x) /\ Tell("sub", a, b, 0)) \/ KeepFlags
    BY <1>5 DEF SubStep
  <2> HIDE DEF a, b
  <2>1. x \in Word
    BY <2>0, PlusMinusWords
  <2>2. WithResult(i.rd, x) \in RegisterFile
    BY <2>1, ResultWritten
  <2>3. SubFlags(a, b, x) \in Flags
    BY FlagsTyped
  <2> HIDE DEF x
  <2>6. regs' \in RegisterFile
    BY <1>n, <2>2, <2>4
  <2>7. flags' \in Flags /\ ToldOK'
    BY <1>k, <2>0, <2>3, <2>5, ToldTell
  <2> QED BY <1>1, <2>6, <2>7, SameModeGood
<1> QED BY <1>2, <1>3, <1>4, <1>5 DEF DataProcessing

LEMMA DataProcessingBothGood ==
  ASSUME NEW D, Good(D), NEW i, ArmOK(i),
         \/ i.class = "DataProcessingRegister" /\ DataProcessingRegister(i)
         \/ i.class = "DataProcessingImmediate" /\ DataProcessingImmediate(i)
  PROVE  Good(D)'
<1>1. CASE i.class = "DataProcessingRegister" /\ DataProcessingRegister(i)
  <2>1. i.rd \in Registers /\ i.rn \in Registers /\ i.rm \in Registers /\ ShiftOK(i.shift)
    BY <1>1 DEF ArmOK
  <2>2. Visible(i.rn) \in Word /\ Visible(i.rm) \in Word
    BY <2>1, VisibleWord
  <2> DEFINE s == Shifted(Visible(i.rm), i.shift)
  <2>3. s.out \in Word /\ s.carry \in BOOLEAN
    BY <2>1, <2>2, ShiftedWord
  <2>4. DataProcessing(i, Visible(i.rn), s.out, s.carry)
    BY <1>1 DEF DataProcessingRegister
  <2> HIDE DEF s
  <2> QED BY <2>1, <2>2, <2>3, <2>4, DataProcessingGood
<1>2. CASE i.class = "DataProcessingImmediate" /\ DataProcessingImmediate(i)
  <2>1. i.rd \in Registers /\ i.rn \in Registers /\ i.immediate \in Word
    BY <1>2 DEF ArmOK
  <2>2. regs[i.rn] \in Word
    BY <2>1, VisibleWord
  <2> DEFINE c == IF i.rotated THEN Negative(i.immediate) ELSE flags.c
  <2>3. c \in BOOLEAN
    <3>1. flags.c \in BOOLEAN
      BY DEF Good, Flags
    <3>2. Negative(i.immediate) \in BOOLEAN
      BY DEF Negative
    <3> QED BY <3>1, <3>2
  <2>4. DataProcessing(i, regs[i.rn], i.immediate, c)
    BY <1>2 DEF DataProcessingImmediate
  <2> HIDE DEF c
  <2> QED BY <2>1, <2>2, <2>3, <2>4, DataProcessingGood
<1> QED BY <1>1, <1>2

LEMMA MultiplyGood ==
  ASSUME NEW D, Good(D), NEW i, ArmOK(i), i.class = "Multiply", Multiply(i)
  PROVE  Good(D)'
<1>1. /\ thumb' = thumb /\ mem' \in Memory(D) /\ fault' \in Faults
      /\ regs \in RegisterFile /\ flags \in Flags /\ ToldOK
  BY DEF Multiply, OnlyFlagsToo, Good
<1>2. i.rd \in Registers /\ regs[i.rm] \in Word /\ regs[i.rs] \in Word /\ regs[i.rn] \in Word
  BY VisibleWord DEF ArmOK
<1> DEFINE a == IF i.accumulate THEN regs[i.rn] ELSE 0
           x == (regs[i.rm] * regs[i.rs] + a) % M
<1>3. x \in Word
  <2>1. regs[i.rm] \in Int /\ regs[i.rs] \in Int /\ a \in Int
    BY <1>2, WordIs
  <2> HIDE DEF a
  <2>2. regs[i.rm] * regs[i.rs] + a \in Int
    BY <2>1
  <2> QED BY <2>2, ModWord
<1>4. /\ regs' = WithResult(i.rd, x)
      /\ \/ flags' = NZ(flags, x) /\ told' = Untold
         \/ flags' = flags /\ told' = told
  <2>1. /\ regs' = WithResult(i.rd, x)
        /\ IF i.setFlags THEN flags' = NZ(flags, x) /\ told' = Untold ELSE KeepFlags
    BY Zenon DEF Multiply
  <2> HIDE DEF x
  <2> QED BY <2>1 DEF KeepFlags
<1> HIDE DEF x
<1>5. regs' \in RegisterFile
  BY <1>2, <1>3, <1>4, ResultWritten
<1>6. flags' \in Flags /\ ToldOK'
  BY <1>1, <1>4, FlagsTyped, ToldUntold, ToldKept
<1> QED BY <1>1, <1>5, <1>6, SameModeGood

(* The high word of a product modulo the square of the words.              *)
LEMMA WideWords ==
  ASSUME NEW y \in Int
  PROVE  (y % (M * M)) % M \in Word /\ (y % (M * M)) \div M \in Word
<1>1. M \in Nat \ {0} /\ M * M \in Nat \ {0}
  BY HalfFact
<1>2. y % (M * M) \in 0 .. M * M - 1
  BY <1>1, DivMod
<1> DEFINE z == y % (M * M)
<1>3. z \in Nat /\ z < M * M
  BY <1>1, <1>2
<1> HIDE DEF z
<1>4. z % M \in 0 .. M - 1 /\ z \div M \in Nat /\ z = M * (z \div M) + (z % M)
  <2>1. z \in Int /\ 0 <= z
    BY <1>3
  <2> QED BY <1>1, <2>1, DivMod, Zenon
<1>5. \A q \in Nat : M <= q => M * M <= M * q
  BY <1>1
<1>6. z \div M < M
  <2>1. M * (z \div M) <= z /\ M * (z \div M) \in Nat
    BY <1>1, <1>3, <1>4
  <2> QED BY <1>1, <1>3, <1>4, <1>5, <2>1
<1>7. z % M \in Word /\ z \div M \in Word
  BY <1>1, <1>3, <1>4, <1>6, WordIs, ModWord
<1> QED BY <1>7, Zenon DEF z

LEMMA MultiplyLongGood ==
  ASSUME NEW D, Good(D), NEW i, ArmOK(i), i.class = "MultiplyLong", MultiplyLong(i)
  PROVE  Good(D)'
<1>1. /\ thumb' = thumb /\ mem' \in Memory(D) /\ fault' \in Faults
      /\ regs \in RegisterFile /\ flags \in Flags /\ ToldOK
  BY DEF MultiplyLong, OnlyFlagsToo, Good
<1>2. /\ i.rdHi \in Registers /\ i.rdLo \in Registers
      /\ i.rs \in Registers /\ i.rm \in Registers
  BY DEF ArmOK
<1> DEFINE value(r) == IF i.signed THEN Signed(regs[r]) ELSE regs[r]
           added == IF i.accumulate THEN regs[i.rdHi] * M + regs[i.rdLo] ELSE 0
           wide == (value(i.rm) * value(i.rs) + added) % (M * M)
<1>3. value(i.rm) \in Int /\ value(i.rs) \in Int
  BY <1>2, VisibleWord, SignedInt, WordIs
<1>4. added \in Int
  <2>1. regs[i.rdHi] \in Int /\ regs[i.rdLo] \in Int
    BY <1>2, VisibleWord, WordIs
  <2>2. regs[i.rdHi] * M + regs[i.rdLo] \in Int
    BY <2>1, HalfFact
  <2> QED BY <2>2
<1>5. wide % M \in Word /\ wide \div M \in Word
  <2> HIDE DEF value, added
  <2>1. value(i.rm) * value(i.rs) + added \in Int
    BY <1>3, <1>4
  <2> QED BY <2>1, WideWords
<1>6. /\ regs' = NextArm([regs EXCEPT ![i.rdLo] = wide % M, ![i.rdHi] = wide \div M])
      /\ \/ /\ flags' = [flags EXCEPT !.n = Negative(wide \div M), !.z = (wide = 0)]
            /\ told' = Untold
         \/ flags' = flags /\ told' = told
  BY DEF MultiplyLong, KeepFlags
<1> HIDE DEF wide
<1>7. regs' \in RegisterFile
  <2>1. [regs EXCEPT ![i.rdLo] = wide % M] \in RegisterFile
    BY <1>1, <1>2, <1>5, WrittenRegister
  <2>2. [regs EXCEPT ![i.rdLo] = wide % M, ![i.rdHi] = wide \div M] \in RegisterFile
    BY <1>2, <1>5, <2>1, WrittenRegister
  <2> QED BY <1>6, <2>2, Advanced
<1>8. [flags EXCEPT !.n = Negative(wide \div M), !.z = (wide = 0)] \in Flags
  <2>1. Negative(wide \div M) \in BOOLEAN /\ (wide = 0) \in BOOLEAN
    BY DEF Negative
  <2>2. \A f \in Flags : \A a \in BOOLEAN : \A b \in BOOLEAN :
          [f EXCEPT !.n = a, !.z = b] \in Flags
    BY DEF Flags
  <2> QED BY <1>1, <2>1, <2>2, Zenon
<1>9. flags' \in Flags /\ ToldOK'
  BY <1>1, <1>6, <1>8, ToldUntold, ToldKept
<1> QED BY <1>1, <1>7, <1>9, SameModeGood

LEMMA ArmBranchesGood ==
  ASSUME NEW D, Good(D), NEW i, ArmOK(i),
         \/ i.class = "Branch" /\ Branch(i)
         \/ i.class = "BranchLinkExchangeImmediate" /\ BranchLinkExchangeImmediate(i)
         \/ i.class = "BranchExchange" /\ BranchExchange(i)
         \/ PassedOver
  PROVE  Good(D)'
<1>1. regs \in RegisterFile /\ flags \in Flags /\ ToldOK /\ mem \in Memory(D) /\ fault \in Faults
      /\ 14 \in Registers /\ 15 \in Registers
  BY DEF Good, Registers
<1>2. Plus(Pc, 4) \in Word /\ Pc \in Int
  BY PcWords, WordIs
<1>l. /\ [regs EXCEPT ![14] = Plus(Pc, 4)] \in RegisterFile
      /\ \A b : [regs EXCEPT ![14] = IF b THEN Plus(Pc, 4) ELSE @] \in RegisterFile
  <2>1. regs[14] \in Word
    BY <1>1, RegisterWord
  <2> QED BY <1>1, <1>2, <2>1, WrittenRegister
<1>3. CASE i.class = "Branch" /\ Branch(i)
  <2>1. (Pc + 8 + i.offset) % M \in Word
    <3>1. i.offset \in Int
      BY <1>3 DEF ArmOK
    <3>2. Pc + 8 + i.offset \in Int
      BY <1>2, <3>1
    <3> QED BY <3>2, ModWord
  <2>2. /\ regs' = [regs EXCEPT ![14] = IF i.link THEN Plus(Pc, 4) ELSE @,
                                ![15] = (Pc + 8 + i.offset) % M]
        /\ thumb' = thumb /\ flags' = flags /\ mem' = mem /\ fault' = fault /\ told' = told
    BY <1>3 DEF Branch, OnlyRegisters
  <2>3. regs' \in RegisterFile
    BY <1>1, <1>l, <2>1, <2>2, WrittenRegister
  <2> QED BY <1>1, <2>2, <2>3, ToldKept, SameModeGood
<1>4. CASE i.class = "BranchLinkExchangeImmediate" /\ BranchLinkExchangeImmediate(i)
  <2> DEFINE to == Aligned((Pc + 8 + i.offset) % M, 2)
  <2>1. to \in Word
    <3>1. i.offset \in Int
      BY <1>4 DEF ArmOK
    <3>2. Pc + 8 + i.offset \in Int
      BY <1>2, <3>1
    <3> QED BY <3>2, ModWord, AlignedWord
  <2>2. /\ regs' = [regs EXCEPT ![14] = Plus(Pc, 4), ![15] = to]
        /\ thumb' = TRUE /\ flags' = flags /\ mem' = mem /\ fault' = fault /\ told' = told
    BY <1>4 DEF BranchLinkExchangeImmediate, KeepFlags
  <2> HIDE DEF to
  <2>3. regs' \in RegisterFile
    BY <1>1, <1>l, <2>1, <2>2, WrittenRegister
  <2> QED BY <1>1, <2>1, <2>2, <2>3, ToldKept, GoodStep
<1>5. CASE i.class = "BranchExchange" /\ BranchExchange(i)
  <2> DEFINE to == ExchangeAddress(regs[i.register])
  <2>1. to \in Word
    BY <1>5, VisibleWord, ExchangeWord DEF ArmOK
  <2>2. /\ regs' = [regs EXCEPT ![14] = IF i.link THEN Plus(Pc, 4) ELSE @, ![15] = to]
        /\ thumb' = (regs[i.register] % 2 = 1)
        /\ flags' = flags /\ mem' = mem /\ fault' = fault /\ told' = told
    BY <1>5 DEF BranchExchange, KeepFlags
  <2> HIDE DEF to
  <2>3. regs' \in RegisterFile
    BY <1>1, <1>l, <2>1, <2>2, WrittenRegister
  <2>4. thumb' \in BOOLEAN
    BY <2>2
  <2> QED BY <1>1, <2>1, <2>2, <2>3, <2>4, ToldKept, GoodStep
<1>6. CASE PassedOver
  <2>1. /\ regs' = NextArm(regs) /\ thumb' = thumb /\ flags' = flags /\ mem' = mem
        /\ fault' = fault /\ told' = told
    BY <1>6 DEF PassedOver, OnlyRegisters
  <2>2. regs' \in RegisterFile
    BY <1>1, <2>1, Advanced
  <2> QED BY <1>1, <2>1, <2>2, ToldKept, SameModeGood
<1> QED BY <1>3, <1>4, <1>5, <1>6

LEMMA OffsetWord ==
  ASSUME NEW D, Good(D), NEW i, i.base \in Registers, NEW offset \in Word
  PROVE  /\ Offset(i, offset) \in Word /\ AccessAt(i, offset) \in Word
         /\ \A r \in RegisterFile : WrittenBack(i, offset, r) \in RegisterFile
<1>1. Visible(i.base) \in Word
  BY VisibleWord
<1>2. Offset(i, offset) \in Word
  BY <1>1, PlusMinusWords DEF Offset
<1> QED BY <1>1, <1>2, WrittenRegister DEF AccessAt, WrittenBack

LEMMA TransferredWord ==
  ASSUME NEW D, Good(D), NEW i, NEW a \in Word,
         Mapped(IF i.byte THEN a ELSE Aligned(a, 4), IF i.byte THEN 1 ELSE 4)
  PROVE  Transferred(i, a) \in Word
<1>1. mem \in Memory(D) /\ Aligned(a, 4) \in Word
  BY AlignedWord DEF Good
<1>2. CASE i.byte
  <2>1. Mapped(a, 1)
    BY <1>2
  <2>2. Read(a, 1) \in Word
    BY <1>1, <2>1, LoadedWord
  <2> QED BY <1>2, <2>2 DEF Transferred
<1>3. CASE ~i.byte
  <2>1. Mapped(Aligned(a, 4), 4)
    BY <1>3
  <2>2. Read(Aligned(a, 4), 4) \in Word
    BY <1>1, <2>1, LoadedWord
  <2>3. (a % 4) * ByteBits \in 0 .. Bits
    <3>1. a % 4 \in {0, 1, 2, 3}
      BY WordIs
    <3> QED BY <3>1, BitsFact
  <2>4. RotateRight(Read(Aligned(a, 4), 4), (a % 4) * ByteBits) \in Word
    BY <2>2, <2>3, WordIs, RotatedWord
  <2> QED BY <1>3, <2>4 DEF Transferred
<1> QED BY <1>2, <1>3

LEMMA SingleTransferGood ==
  ASSUME NEW D, Good(D), NEW i, i.base \in Registers, i.rd \in Registers, NEW offset \in Word,
         SingleDataTransfer(i, offset)
  PROVE  Good(D)'
<1> DEFINE a == AccessAt(i, offset)
           at == IF i.byte THEN a ELSE Aligned(a, 4)
           w == IF i.byte THEN 1 ELSE 4
           x == Transferred(i, a)
           toPc == i.load /\ i.rd = 15 /\ ~i.byte
<1>0. /\ regs \in RegisterFile /\ flags \in Flags /\ ToldOK /\ mem \in Memory(D)
      /\ fault \in Faults /\ thumb \in BOOLEAN /\ 15 \in Registers
  BY DEF Good, Registers
<1>1. a \in Word /\ at \in Word /\ w \in {1, 4}
  BY OffsetWord, AlignedWord
<1>2. CASE ~Mapped(at, w)
  <2>1. Failing("memory")
    BY <1>2 DEF SingleDataTransfer
  <2> QED BY <2>1, FailingGood DEF Faults
<1>3. CASE Mapped(at, w)
  <2>1. x \in Word
    BY <1>1, <1>3, TransferredWord
  <2>2. /\ regs' =
             IF toPc THEN WrittenBack(i, offset, [regs EXCEPT ![15] = ExchangeAddress(x)])
             ELSE NextArm(WrittenBack(i, offset, IF i.load THEN [regs EXCEPT ![i.rd] = x]
                                                           ELSE regs))
        /\ thumb' = IF toPc THEN x % 2 = 1 ELSE thumb
        /\ mem' = IF i.load THEN mem ELSE Write(at, w, regs[i.rd])
        /\ flags' = flags /\ told' = told /\ fault' = fault
    BY <1>3, Zenon DEF SingleDataTransfer, KeepFlags
  <2> HIDE DEF x, at, w, toPc
  <2>3. regs' \in RegisterFile
    <3>1. [regs EXCEPT ![15] = ExchangeAddress(x)] \in RegisterFile
      BY <1>0, <2>1, ExchangeWord, WrittenRegister
    <3> DEFINE r == IF i.load THEN [regs EXCEPT ![i.rd] = x] ELSE regs
    <3>2. r \in RegisterFile
      BY <1>0, <2>1, WrittenRegister
    <3> HIDE DEF r
    <3>3. NextArm(WrittenBack(i, offset, r)) \in RegisterFile
      BY <3>2, OffsetWord, Advanced
    <3>4. WrittenBack(i, offset, [regs EXCEPT ![15] = ExchangeAddress(x)]) \in RegisterFile
      BY <3>1, OffsetWord
    <3> QED BY <2>2, <3>3, <3>4 DEF r
  <2>4. mem' \in Memory(D)
    <3>1. regs[i.rd] \in Word /\ w \in 1 .. 4
      BY <1>1, VisibleWord
    <3>2. Write(at, w, regs[i.rd]) \in Memory(D)
      BY <1>0, <1>1, <3>1, WriteMemory
    <3> QED BY <1>0, <2>2, <3>2
  <2>5. thumb' \in BOOLEAN
    BY <1>0, <2>2
  <2> QED BY <1>0, <2>2, <2>3, <2>4, <2>5, ToldKept, GoodStep
<1> QED BY <1>2, <1>3

LEMMA HalfwordTransferGood ==
  ASSUME NEW D, Good(D), NEW i, i.base \in Registers, i.rd \in Registers, NEW offset \in Word,
         HalfwordTransfer(i, offset)
  PROVE  Good(D)'
<1> DEFINE a == AccessAt(i, offset)
           w == IF i.halfword THEN 2 ELSE 1
           x == IF i.signed THEN Extended(Read(a, w), w * ByteBits) ELSE Read(a, w)
           loaded == WrittenBack(i, offset, IF i.load THEN [regs EXCEPT ![i.rd] = x] ELSE regs)
<1>0. /\ regs \in RegisterFile /\ flags \in Flags /\ ToldOK /\ mem \in Memory(D)
      /\ fault \in Faults /\ 15 \in Registers
  BY DEF Good, Registers
<1>1. a \in Word /\ w \in {1, 2}
  BY OffsetWord
<1>2. CASE Failing("unimplemented") \/ Failing("memory")
  BY <1>2, FailingGood DEF Faults
<1>3. CASE ~Failing("unimplemented") /\ ~Failing("memory")
  <2>1. /\ Mapped(a, w)
        /\ regs' = IF i.load /\ i.rd = 15 THEN loaded ELSE NextArm(loaded)
        /\ mem' = IF i.load THEN mem ELSE Write(a, 2, regs[i.rd])
        /\ flags' = flags /\ told' = told /\ thumb' = thumb /\ fault' = fault
    BY <1>3, Zenon DEF HalfwordTransfer, KeepFlags
  <2>2. x \in Word
    <3>1. Read(a, w) \in Word /\ Read(a, w) \in 0 .. Byte ^ w - 1
      <4>1. \A b \in DOMAIN mem : mem[b] \in 0 .. Byte - 1
        BY <1>0 DEF Memory
      <4>2. a \in Int /\ w \in {1, 2, 4} /\ w # 4
        BY <1>1, WordIs
      <4> HIDE DEF a, w
      <4> QED BY <2>1, <4>1, <4>2, ReadWord
    <3>2. w * ByteBits \in 1 .. Bits /\ Byte ^ w = 2 ^ (w * ByteBits)
      <4>1. Byte ^ 1 = Byte /\ Byte ^ 2 = Byte * Byte
        BY CpuAssumption
      <4>2. 2 ^ (ByteBits + ByteBits) = 2 ^ ByteBits * 2 ^ ByteBits
        BY PowerSum, BitsFact
      <4>3. 1 * ByteBits = ByteBits /\ 2 * ByteBits = ByteBits + ByteBits
        BY BitsFact
      <4>4. w = 1 => Byte ^ w = 2 ^ (w * ByteBits)
        BY <4>1, <4>3 DEF Byte
      <4>5. w = 2 => Byte ^ w = 2 ^ (w * ByteBits)
        BY <4>1, <4>2, <4>3 DEF Byte
      <4>6. w * ByteBits \in 1 .. Bits
        BY <1>1, BitsFact
      <4> QED BY <1>1, <4>4, <4>5, <4>6
    <3>3. 2 ^ (w * ByteBits) \in Nat
      BY <3>2, PowerNat, BitsFact
    <3> DEFINE y == Read(a, w)
               bits == w * ByteBits
    <3>4. y \in Word /\ y \in 0 .. 2 ^ bits - 1 /\ bits \in 1 .. Bits /\ 2 ^ bits \in Nat
      BY <3>1, <3>2, <3>3
    <3>5. x = IF i.signed THEN Extended(y, bits) ELSE y
      OBVIOUS
    <3> HIDE DEF y, bits, x
    <3>6. y \in Nat /\ y < 2 ^ bits
      BY <3>4
    <3>7. Extended(y, bits) \in Word
      BY <3>4, <3>6, ExtendedWord
    <3> QED BY <3>4, <3>5, <3>7
  <2> HIDE DEF x
  <2>3. loaded \in RegisterFile
    <3> DEFINE r == IF i.load THEN [regs EXCEPT ![i.rd] = x] ELSE regs
    <3>1. r \in RegisterFile
      BY <1>0, <2>2, WrittenRegister
    <3>2. loaded = WrittenBack(i, offset, r)
      OBVIOUS
    <3> HIDE DEF r, loaded
    <3> QED BY <3>1, <3>2, OffsetWord
  <2> HIDE DEF loaded
  <2>4. regs' \in RegisterFile
    BY <2>1, <2>3, Advanced
  <2>5. mem' \in Memory(D)
    <3>1. regs[i.rd] \in Word /\ 2 \in 1 .. 4
      BY VisibleWord
    <3>2. Write(a, 2, regs[i.rd]) \in Memory(D)
      BY <1>0, <1>1, <3>1, WriteMemory
    <3> QED BY <1>0, <2>1, <3>2
  <2> QED BY <1>0, <2>1, <2>4, <2>5, ToldKept, SameModeGood
<1> QED BY <1>2, <1>3

LEMMA ArmTransfersGood ==
  ASSUME NEW D, Good(D), NEW i, ArmOK(i),
         \/ i.class = "SingleDataTransferImmediate" /\ SingleDataTransferImmediate(i)
         \/ i.class = "SingleDataTransferRegister" /\ SingleDataTransferRegister(i)
         \/ i.class = "HalfwordTransferImmediate" /\ HalfwordTransferImmediate(i)
         \/ i.class = "HalfwordTransferRegister" /\ HalfwordTransferRegister(i)
  PROVE  Good(D)'
<1>1. CASE i.class = "SingleDataTransferImmediate" /\ SingleDataTransferImmediate(i)
  BY <1>1, SingleTransferGood DEF ArmOK, SingleDataTransferImmediate
<1>2. CASE i.class = "SingleDataTransferRegister" /\ SingleDataTransferRegister(i)
  <2>1. i.rm \in Registers /\ i.base \in Registers /\ i.rd \in Registers /\ ShiftOK(i.shift)
    BY <1>2 DEF ArmOK
  <2>2. Shifted(Visible(i.rm), i.shift).out \in Word
    BY <2>1, VisibleWord, ShiftedWord
  <2>3. SingleDataTransfer(i, Shifted(Visible(i.rm), i.shift).out)
    BY <1>2 DEF SingleDataTransferRegister
  <2> QED BY <2>1, <2>2, <2>3, SingleTransferGood
<1>3. CASE i.class = "HalfwordTransferImmediate" /\ HalfwordTransferImmediate(i)
  BY <1>3, HalfwordTransferGood DEF ArmOK, HalfwordTransferImmediate
<1>4. CASE i.class = "HalfwordTransferRegister" /\ HalfwordTransferRegister(i)
  BY <1>4, VisibleWord, HalfwordTransferGood DEF ArmOK, HalfwordTransferRegister
<1> QED BY <1>1, <1>2, <1>3, <1>4

LEMMA BlockStartWord ==
  ASSUME NEW D, Good(D), NEW i, i.base \in Registers, i.registers \in SUBSET Registers
  PROVE  BlockStart(i) \in Word
<1>1. regs[i.base] \in Word /\ Cardinality(i.registers) \in Nat
  BY VisibleWord, SlotNat
<1> DEFINE n == Cardinality(i.registers)
           base == regs[i.base]
           k == IF n = 0 THEN 0 ELSE n - 1
<1>2. Plus(base, 4) \in Word
  BY <1>1, SmallWords, PlusMinusWords
<1>3. (base - 4 * n) % M \in Word /\ (base - 4 * k) % M \in Word
  <2>1. base - 4 * n \in Int /\ base - 4 * k \in Int
    BY <1>1, WordIs
  <2> HIDE DEF base, n, k
  <2> QED BY <2>1, ModWord
<1>4. /\ i.add /\ i.pre => BlockStart(i) = Plus(base, 4)
      /\ i.add /\ ~i.pre => BlockStart(i) = base
      /\ ~i.add /\ i.pre => BlockStart(i) = (base - 4 * n) % M
      /\ ~i.add /\ ~i.pre => BlockStart(i) = (base - 4 * k) % M
  BY DEF BlockStart
<1> HIDE DEF base, n, k
<1> QED BY <1>1, <1>2, <1>3, <1>4 DEF base

LEMMA BlockTransferGood ==
  ASSUME NEW D, Good(D), NEW i, ArmOK(i), i.class = "BlockTransfer", BlockTransfer(i)
  PROVE  Good(D)'
<1> DEFINE addr(r) == (BlockStart(i) + 4 * Slot(i.registers, r)) % M
           done == {r \in i.registers : \A q \in i.registers : q <= r => Mapped(addr(q), 4)}
           n == 4 * Cardinality(i.registers)
           base == (IF i.add THEN regs[i.base] + n ELSE regs[i.base] - n) % M
           moved(r) == IF i.writeBack THEN [r EXCEPT ![i.base] = base] ELSE r
           toPc == i.load /\ 15 \in i.registers
           loaded == [r \in Registers |->
                        IF i.load /\ r \in done \ {15} THEN Read(addr(r), 4) ELSE regs[r]]
           at == [r \in done |-> addr(r)]
<1>0. /\ regs \in RegisterFile /\ flags \in Flags /\ ToldOK /\ mem \in Memory(D)
      /\ fault \in Faults /\ thumb \in BOOLEAN /\ 15 \in Registers
      /\ i.base \in Registers /\ i.registers \in SUBSET Registers
  BY DEF Good, Registers, ArmOK
<1>1. \A r : addr(r) \in Word
  <2> SUFFICES ASSUME NEW r
               PROVE  (BlockStart(i) + 4 * Slot(i.registers, r)) % M \in Word
    OBVIOUS
  <2>1. BlockStart(i) \in Int /\ Slot(i.registers, r) \in Int
    <3>1. BlockStart(i) \in Word
      BY <1>0, BlockStartWord
    <3>2. Slot(i.registers, r) \in Nat
      BY <1>0, SlotNat
    <3> QED BY <3>1, <3>2, WordIs
  <2>2. BlockStart(i) + 4 * Slot(i.registers, r) \in Int
    BY <2>1
  <2> QED BY <2>2, ModWord
<1>2. \A r \in done : Mapped(addr(r), 4) /\ r \in Registers
  <2>1. \A r \in Registers : r <= r
    BY DEF Registers
  <2> HIDE DEF addr
  <2> QED BY <1>0, <2>1
<1>3. \A r \in done : Read(addr(r), 4) \in Word
  <2> HIDE DEF addr, done
  <2> QED BY <1>0, <1>1, <1>2, LoadedWord
<1>4. loaded \in RegisterFile
  <2>1. \A r \in Registers : regs[r] \in Word
    BY <1>0, RegisterWord
  <2> HIDE DEF addr, done
  <2> QED BY <1>3, <2>1 DEF RegisterFile
<1>5. base \in Word
  <2>1. (IF i.add THEN regs[i.base] + n ELSE regs[i.base] - n) \in Int
    BY <1>0, VisibleWord, SlotNat, WordIs
  <2> QED BY <2>1, ModWord
<1>6. WriteAll(at) \in Memory(D)
  <2>1. at \in [done -> Word] /\ done \in SUBSET Registers
    BY <1>1, <1>2
  <2> HIDE DEF at, done
  <2> QED BY <1>0, <2>1, WriteAllMemory DEF RegisterFile
<1>7. /\ mem' = IF i.load THEN mem ELSE WriteAll(at)
      /\ \/ done # i.registers /\ regs' = loaded /\ fault' = "memory" /\ thumb' = thumb
         \/ /\ done = i.registers /\ toPc
            /\ regs' = moved([loaded EXCEPT ![15] = ExchangeAddress(Read(addr(15), 4))])
            /\ thumb' = (Read(addr(15), 4) % 2 = 1) /\ fault' = fault
         \/ /\ done = i.registers /\ ~toPc
            /\ regs' = NextArm(moved(loaded)) /\ thumb' = thumb /\ fault' = fault
      /\ flags' = flags /\ told' = told
  BY Zenon DEF BlockTransfer, KeepFlags
<1>8. \A r \in RegisterFile : moved(r) \in RegisterFile
  <2> HIDE DEF base
  <2> QED BY <1>0, <1>5, WrittenRegister
<1>9. done = i.registers /\ toPc =>
        moved([loaded EXCEPT ![15] = ExchangeAddress(Read(addr(15), 4))]) \in RegisterFile
  <2> HIDE DEF addr, loaded, moved, base, done
  <2> SUFFICES ASSUME done = i.registers, toPc
               PROVE  moved([loaded EXCEPT ![15] = ExchangeAddress(Read(addr(15), 4))])
                        \in RegisterFile
    OBVIOUS
  <2>1. 15 \in done
    OBVIOUS
  <2>2. ExchangeAddress(Read(addr(15), 4)) \in Word
    BY <1>3, <2>1, ExchangeWord
  <2>3. [loaded EXCEPT ![15] = ExchangeAddress(Read(addr(15), 4))] \in RegisterFile
    BY <1>0, <1>4, <2>2, WrittenRegister
  <2> QED BY <1>8, <2>3
<1>10. NextArm(moved(loaded)) \in RegisterFile
  <2> HIDE DEF addr, loaded, moved, base, done
  <2> QED BY <1>4, <1>8, Advanced
<1> HIDE DEF addr, loaded, moved, base, done, at, toPc
<1>11. regs' \in RegisterFile /\ fault' \in Faults /\ thumb' \in BOOLEAN
  BY <1>0, <1>4, <1>7, <1>9, <1>10 DEF Faults
<1>12. mem' \in Memory(D)
  BY <1>0, <1>6, <1>7
<1> QED BY <1>0, <1>7, <1>11, <1>12, ToldKept, GoodStep

(* Every instruction of the ARM set keeps the types.                       *)
LEMMA ArmStepGood ==
  ASSUME NEW D, Good(D), NEW op, IsOpcode(op, 8), ExecuteArm(op)
  PROVE  Good(D)'
<1> DEFINE i == DecodeArm(op)
<1>1. ArmOK(i)
  BY ArmDecodedOK
<1> HIDE DEF i
<1>3. CASE \/ i.class = "DataProcessingRegister" /\ DataProcessingRegister(i)
           \/ i.class = "DataProcessingImmediate" /\ DataProcessingImmediate(i)
  BY <1>1, <1>3, DataProcessingBothGood
<1>4. CASE i.class = "Multiply" /\ Multiply(i)
  BY <1>1, <1>4, MultiplyGood
<1>5. CASE i.class = "MultiplyLong" /\ MultiplyLong(i)
  BY <1>1, <1>5, MultiplyLongGood
<1>6. CASE \/ i.class = "SingleDataTransferImmediate" /\ SingleDataTransferImmediate(i)
           \/ i.class = "SingleDataTransferRegister" /\ SingleDataTransferRegister(i)
           \/ i.class = "HalfwordTransferImmediate" /\ HalfwordTransferImmediate(i)
           \/ i.class = "HalfwordTransferRegister" /\ HalfwordTransferRegister(i)
  BY <1>1, <1>6, ArmTransfersGood
<1>7. CASE i.class = "BlockTransfer" /\ BlockTransfer(i)
  BY <1>1, <1>7, BlockTransferGood
<1>8. CASE \/ i.class = "Branch" /\ Branch(i)
           \/ i.class = "BranchLinkExchangeImmediate" /\ BranchLinkExchangeImmediate(i)
           \/ i.class = "BranchExchange" /\ BranchExchange(i)
           \/ PassedOver
  BY <1>1, <1>8, ArmBranchesGood
<1>9. CASE Unimplemented
  BY <1>9, FailingGood DEF Unimplemented, Faults
<1> QED BY <1>3, <1>4, <1>5, <1>6, <1>7, <1>8, <1>9 DEF ExecuteArm, i

-----------------------------------------------------------------------------
(* The types through the instructions of the Thumb set.                    *)

LEMMA LowRegister == \A r \in Low : r \in Registers
  BY DEF Low, Registers

LEMMA WritesGood ==
  ASSUME NEW D, Good(D), NEW r \in RegisterFile, Writes(r)
  PROVE  regs' \in RegisterFile
  BY Advanced DEF Writes

(* A step that writes registers and sets the flags, from words.            *)
LEMMA FlagStepGood ==
  ASSUME NEW D, Good(D), OnlyFlagsToo, regs' \in RegisterFile, flags' \in Flags, ToldOK'
  PROVE  Good(D)'
<1>1. thumb' = thumb /\ mem' \in Memory(D) /\ fault' \in Faults
  BY DEF OnlyFlagsToo, Good
<1> QED BY <1>1, SameModeGood

LEMMA UncheckedGood ==
  ASSUME NEW D, Good(D), Unchecked, regs' \in RegisterFile
  PROVE  Good(D)'
<1>1. /\ thumb' = thumb /\ mem' \in Memory(D) /\ fault' \in Faults /\ flags' \in Flags
      /\ ToldOK /\ told' = told
  BY DEF Unchecked, KeepFlags, Good
<1> QED BY <1>1, ToldKept, SameModeGood

LEMMA FlagsWord ==
  ASSUME NEW l \in Word, NEW r \in Word, FlagsOfSum(l, r) \/ FlagsOfDifference(l, r)
  PROVE  flags' \in Flags /\ ToldOK'
<1>1. CASE FlagsOfSum(l, r)
  <2>1. flags' = AddFlags(l, r, Plus(l, r)) /\ Tell("add", l, r, 0)
    BY <1>1 DEF FlagsOfSum
  <2> QED BY <2>1, FlagsTyped, ToldTell
<1>2. CASE FlagsOfDifference(l, r)
  <2>1. flags' = SubFlags(l, r, Minus(l, r)) /\ Tell("sub", l, r, 0)
    BY <1>2 DEF FlagsOfDifference
  <2> QED BY <2>1, FlagsTyped, ToldTell
<1> QED BY <1>1, <1>2

LEMMA FlagsResult ==
  ASSUME NEW D, Good(D), NEW x, FlagsOfResult(x)
  PROVE  flags' \in Flags /\ ToldOK'
<1>1. flags \in Flags /\ flags' = NZ(flags, x) /\ told' = Untold
  BY DEF FlagsOfResult, Good
<1> QED BY <1>1, FlagsTyped, ToldUntold

LEMMA ThumbArithmeticGood ==
  ASSUME NEW D, Good(D), NEW i, ThumbOK(i),
         \/ i.class = "ThumbAddSub" /\ ThumbAddSub(i)
         \/ i.class = "ThumbAluRegister" /\ ThumbAluRegister(i)
         \/ i.class = "ThumbShiftImmediate" /\ ThumbShiftImmediate(i)
  PROVE  Good(D)'
<1>0. regs \in RegisterFile /\ flags \in Flags
  BY DEF Good
<1>1. i.rd \in Registers /\ i.rs \in Registers
  BY LowRegister DEF ThumbOK
<1>2. regs[i.rd] \in Word /\ regs[i.rs] \in Word
  BY <1>1, VisibleWord
<1>3. CASE i.class = "ThumbAddSub" /\ ThumbAddSub(i)
  <2> DEFINE l == regs[i.rs]
             r == IF i.immediate THEN i.operand ELSE regs[i.operand]
  <2>1. r \in Word
    BY <1>3, LowRegister, VisibleWord, SmallWords DEF ThumbOK
  <2>2. /\ OnlyFlagsToo
        /\ \/ Writes([regs EXCEPT ![i.rd] = Minus(l, r)]) /\ FlagsOfDifference(l, r)
           \/ Writes([regs EXCEPT ![i.rd] = Plus(l, r)]) /\ FlagsOfSum(l, r)
    BY <1>3 DEF ThumbAddSub
  <2> HIDE DEF r
  <2>3. Plus(l, r) \in Word /\ Minus(l, r) \in Word
    BY <1>2, <2>1, PlusMinusWords
  <2>4. /\ [regs EXCEPT ![i.rd] = Minus(l, r)] \in RegisterFile
        /\ [regs EXCEPT ![i.rd] = Plus(l, r)] \in RegisterFile
    BY <1>0, <1>1, <2>3, WrittenRegister
  <2>5. regs' \in RegisterFile
    BY <2>2, <2>4, WritesGood
  <2>6. flags' \in Flags /\ ToldOK'
    BY <1>2, <2>1, <2>2, FlagsWord
  <2> QED BY <2>2, <2>5, <2>6, FlagStepGood
<1>4. CASE i.class = "ThumbAluRegister" /\ ThumbAluRegister(i)
  <2> DEFINE x == Logic(i.op, regs[i.rd], regs[i.rs])
  <2>1. /\ OnlyFlagsToo
        /\ \/ Writes(regs) /\ FlagsOfDifference(regs[i.rd], regs[i.rs])
           \/ /\ i.op \in {"orr", "mvn"}
              /\ Writes([regs EXCEPT ![i.rd] = x]) /\ FlagsOfResult(x)
    BY <1>4 DEF ThumbAluRegister
  <2>2. i.op \in {"orr", "mvn"} => x \in Word
    BY <1>2, LogicWord
  <2> HIDE DEF x
  <2>3. regs' \in RegisterFile
    BY <1>0, <1>1, <2>1, <2>2, WrittenRegister, WritesGood
  <2>4. flags' \in Flags /\ ToldOK'
    BY <1>2, <2>1, FlagsWord, FlagsResult
  <2> QED BY <2>1, <2>3, <2>4, FlagStepGood
<1>5. CASE i.class = "ThumbShiftImmediate" /\ ThumbShiftImmediate(i)
  <2> DEFINE s == Shifted(regs[i.rs], i.shift)
  <2>1. s.out \in Word /\ s.carry \in BOOLEAN
    BY <1>2, <1>5, ShiftedWord DEF ThumbOK
  <2>2. /\ OnlyFlagsToo /\ Writes([regs EXCEPT ![i.rd] = s.out])
        /\ flags' = [NZ(flags, s.out) EXCEPT !.c = s.carry] /\ told' = Untold
    BY <1>5 DEF ThumbShiftImmediate
  <2> HIDE DEF s
  <2>3. regs' \in RegisterFile
    BY <1>0, <1>1, <2>1, <2>2, WrittenRegister, WritesGood
  <2>4. flags' \in Flags /\ ToldOK'
    BY <1>0, <2>1, <2>2, FlagsTyped, ToldUntold
  <2> QED BY <2>2, <2>3, <2>4, FlagStepGood
<1> QED BY <1>3, <1>4, <1>5

LEMMA ThumbImmediateGood ==
  ASSUME NEW D, Good(D), NEW i, ThumbOK(i),
         \/ i.class = "ThumbCmpImmediate" /\ ThumbCmpImmediate(i)
         \/ i.class = "ThumbSubImmediate" /\ ThumbSubImmediate(i)
         \/ i.class = "ThumbAddImmediate" /\ ThumbAddImmediate(i)
         \/ i.class = "ThumbMovImmediate" /\ ThumbMovImmediate(i)
  PROVE  Good(D)'
<1>0. regs \in RegisterFile /\ flags \in Flags
  BY DEF Good
<1>1. i.rd \in Registers /\ i.immediate \in Word
  BY LowRegister DEF ThumbOK
<1>2. regs[i.rd] \in Word
  BY <1>1, VisibleWord
<1>3. Plus(regs[i.rd], i.immediate) \in Word /\ Minus(regs[i.rd], i.immediate) \in Word
  BY <1>1, <1>2, PlusMinusWords
<1>4. /\ [regs EXCEPT ![i.rd] = Minus(@, i.immediate)] \in RegisterFile
      /\ [regs EXCEPT ![i.rd] = Plus(regs[i.rd], i.immediate)] \in RegisterFile
      /\ [regs EXCEPT ![i.rd] = i.immediate] \in RegisterFile
  BY <1>0, <1>1, <1>3, WrittenRegister
<1>5. OnlyFlagsToo
  BY DEF ThumbCmpImmediate, ThumbSubImmediate, ThumbAddImmediate, ThumbMovImmediate
<1>6. \/ Writes(regs) \/ Writes([regs EXCEPT ![i.rd] = Minus(@, i.immediate)])
      \/ Writes([regs EXCEPT ![i.rd] = Plus(regs[i.rd], i.immediate)])
      \/ Writes([regs EXCEPT ![i.rd] = i.immediate])
  BY DEF ThumbCmpImmediate, ThumbSubImmediate, ThumbAddImmediate, ThumbMovImmediate
<1>7. \/ FlagsOfDifference(regs[i.rd], i.immediate)
      \/ \E x : FlagsOfResult(x)
  BY DEF ThumbCmpImmediate, ThumbSubImmediate, ThumbAddImmediate, ThumbMovImmediate
<1>8. regs' \in RegisterFile
  BY <1>0, <1>4, <1>6, WritesGood
<1>9. flags' \in Flags /\ ToldOK'
  BY <1>1, <1>2, <1>7, FlagsWord, FlagsResult
<1> QED BY <1>5, <1>8, <1>9, FlagStepGood

LEMMA LiteralBaseWord ==
  ASSUME NEW D, Good(D)
  PROVE  LiteralBase \in Word
  BY PcWords, AlignedWord DEF LiteralBase

LEMMA ThumbAddressGood ==
  ASSUME NEW D, Good(D), NEW i, ThumbOK(i),
         \/ i.class = "ThumbAdjustSp" /\ ThumbAdjustSp(i)
         \/ i.class = "ThumbLoadAddress" /\ ThumbLoadAddress(i)
  PROVE  Good(D)'
<1>0. regs \in RegisterFile /\ 13 \in Registers
  BY DEF Good, Registers
<1>1. CASE i.class = "ThumbAdjustSp" /\ ThumbAdjustSp(i)
  <2>1. i.immediate \in Word /\ regs[13] \in Word
    BY <1>0, <1>1, VisibleWord DEF ThumbOK
  <2> DEFINE x == IF i.subtract THEN Minus(regs[13], i.immediate) ELSE Plus(regs[13], i.immediate)
  <2>2. x \in Word
    BY <2>1, PlusMinusWords
  <2>3. Writes([regs EXCEPT ![13] = x]) /\ Unchecked
    BY <1>1 DEF ThumbAdjustSp
  <2> HIDE DEF x
  <2>4. regs' \in RegisterFile
    BY <1>0, <2>2, <2>3, WrittenRegister, WritesGood
  <2> QED BY <2>3, <2>4, UncheckedGood
<1>2. CASE i.class = "ThumbLoadAddress" /\ ThumbLoadAddress(i)
  <2>1. i.rd \in Registers /\ i.offset \in Word /\ LiteralBase \in Word /\ Sp \in Word
    BY <1>2, LowRegister, LiteralBaseWord, PcWords DEF ThumbOK
  <2> DEFINE x == Plus(IF i.sp THEN Sp ELSE LiteralBase, i.offset)
  <2>2. x \in Word
    <3>1. (IF i.sp THEN Sp ELSE LiteralBase) \in Word
      BY <2>1
    <3> QED BY <2>1, <3>1, PlusMinusWords
  <2>3. Writes([regs EXCEPT ![i.rd] = x]) /\ Unchecked
    BY <1>2 DEF ThumbLoadAddress
  <2> HIDE DEF x
  <2>4. regs' \in RegisterFile
    BY <1>0, <2>1, <2>2, <2>3, WrittenRegister, WritesGood
  <2> QED BY <2>3, <2>4, UncheckedGood
<1> QED BY <1>1, <1>2

LEMMA ThumbBranchesGood ==
  ASSUME NEW D, Good(D), NEW i, ThumbOK(i),
         \/ i.class = "ThumbLongBranchPrefix" /\ ThumbLongBranchPrefix(i)
         \/ i.class = "ThumbBranch" /\ ThumbBranch(i)
         \/ i.class = "ThumbConditionalBranch" /\ ThumbConditionalBranch(i)
  PROVE  Good(D)'
<1> DEFINE to == (Pc + 4 + i.offset) % M
<1>0. regs \in RegisterFile /\ 14 \in Registers /\ 15 \in Registers
  BY DEF Good, Registers
<1>1. to \in Word
  <2>1. i.offset \in Int /\ Pc \in Int
    BY PcWords, WordIs DEF ThumbOK
  <2>2. Pc + 4 + i.offset \in Int
    BY <2>1
  <2> QED BY <2>2, ModWord
<1>2. /\ Unchecked
      /\ \/ Writes([regs EXCEPT ![14] = to]) \/ Writes(regs) \/ regs' = [regs EXCEPT ![15] = to]
  BY DEF ThumbLongBranchPrefix, ThumbBranch, ThumbConditionalBranch
<1> HIDE DEF to
<1>3. regs' \in RegisterFile
  BY <1>0, <1>1, <1>2, WrittenRegister, WritesGood
<1> QED BY <1>2, <1>3, UncheckedGood

(* A step that writes lr and the pc, in another mode perhaps.              *)
LEMMA CallGood ==
  ASSUME NEW D, Good(D), KeepFlags, mem' = mem, fault' = fault, thumb' \in BOOLEAN,
         regs' \in RegisterFile
  PROVE  Good(D)'
<1>1. /\ mem' \in Memory(D) /\ fault' \in Faults /\ flags' \in Flags /\ ToldOK
      /\ told' = told
  BY DEF KeepFlags, Good
<1> QED BY <1>1, ToldKept, GoodStep

LEMMA ThumbSuffixGood ==
  ASSUME NEW D, Good(D), NEW i, ThumbOK(i),
         i.class = "ThumbLongBranchSuffix", ThumbLongBranchSuffix(i)
  PROVE  Good(D)'
<1> DEFINE to == Aligned(Plus(regs[14], i.offset), IF i.exchange THEN 4 ELSE 2)
<1>0. regs \in RegisterFile /\ 14 \in Registers /\ 15 \in Registers
  BY DEF Good, Registers
<1>1. to \in Word
  <2>1. i.offset \in Word /\ regs[14] \in Word
    BY <1>0, VisibleWord DEF ThumbOK
  <2>2. Plus(regs[14], i.offset) \in Word /\ (IF i.exchange THEN 4 ELSE 2) \in {2, 4}
    BY <2>1, PlusMinusWords
  <2> QED BY <2>2, AlignedWord
<1>2. Marked(Plus(Pc, 2)) \in Word
  BY PcWords
<1>3. /\ regs' = [regs EXCEPT ![14] = Marked(Plus(Pc, 2)), ![15] = to]
      /\ thumb' = ~i.exchange /\ KeepFlags /\ mem' = mem /\ fault' = fault
  BY DEF ThumbLongBranchSuffix
<1> HIDE DEF to
<1>4. [regs EXCEPT ![14] = Marked(Plus(Pc, 2))] \in RegisterFile
  BY <1>0, <1>2, WrittenRegister
<1>5. regs' \in RegisterFile
  BY <1>0, <1>1, <1>3, <1>4, WrittenRegister
<1>6. thumb' \in BOOLEAN
  BY <1>3
<1> QED BY <1>3, <1>5, <1>6, CallGood

LEMMA HiResultWritten ==
  ASSUME NEW D, Good(D), NEW rd \in Registers, NEW x \in Word, ThumbHiResult(rd, x)
  PROVE  regs' \in RegisterFile
<1>0. regs \in RegisterFile /\ 15 \in Registers
  BY DEF Good, Registers
<1>1. Aligned(x, 2) \in Word
  BY AlignedWord
<1>2. /\ [regs EXCEPT ![15] = Aligned(x, 2)] \in RegisterFile
      /\ [regs EXCEPT ![rd] = x] \in RegisterFile
  BY <1>0, <1>1, WrittenRegister
<1> QED BY <1>2, WritesGood DEF ThumbHiResult

LEMMA ThumbHiGood ==
  ASSUME NEW D, Good(D), NEW i, ThumbOK(i),
         i.class = "ThumbHiRegisterOp", ThumbHiRegisterOp(i)
  PROVE  Good(D)'
<1> DEFINE l == ThumbVisible(i.rd)
           r == ThumbVisible(i.rs)
<1>0. regs \in RegisterFile /\ 14 \in Registers /\ 15 \in Registers
  BY DEF Good, Registers
<1>1. i.rd \in Registers /\ i.rs \in Registers
  BY DEF ThumbOK
<1>2. l \in Word /\ r \in Word
  BY <1>1, VisibleWord, PcWords DEF ThumbVisible
<1>3. CASE ThumbHiResult(i.rd, Plus(l, r)) /\ Unchecked
  <2>1. Plus(l, r) \in Word
    BY <1>2, PlusMinusWords
  <2> QED BY <1>1, <1>3, <2>1, HiResultWritten, UncheckedGood
<1>4. CASE ThumbHiResult(i.rd, r) /\ Unchecked
  BY <1>1, <1>2, <1>4, HiResultWritten, UncheckedGood
<1>5. CASE Writes(regs) /\ FlagsOfDifference(l, r) /\ OnlyFlagsToo
  BY <1>0, <1>2, <1>5, WritesGood, FlagsWord, FlagStepGood
<1>6. CASE /\ regs' = [regs EXCEPT ![15] = ExchangeAddress(r)]
           /\ thumb' = (r % 2 = 1)
           /\ KeepFlags /\ UNCHANGED <<mem, fault>>
  <2>1. ExchangeAddress(r) \in Word
    BY <1>2, ExchangeWord
  <2>2. regs' \in RegisterFile /\ thumb' \in BOOLEAN
    BY <1>0, <1>6, <2>1, WrittenRegister
  <2> QED BY <1>6, <2>2, CallGood
<1>7. CASE /\ regs' = [regs EXCEPT ![14] = Marked(Plus(Pc, 2)), ![15] = Aligned(r, 4)]
           /\ thumb' = FALSE
           /\ KeepFlags /\ UNCHANGED <<mem, fault>>
  <2>1. Aligned(r, 4) \in Word /\ Marked(Plus(Pc, 2)) \in Word
    BY <1>2, AlignedWord, PcWords
  <2>2. [regs EXCEPT ![14] = Marked(Plus(Pc, 2))] \in RegisterFile
    BY <1>0, <2>1, WrittenRegister
  <2>3. regs' \in RegisterFile
    BY <1>0, <1>7, <2>1, <2>2, WrittenRegister
  <2> QED BY <1>7, <2>3, CallGood
<1> QED BY <1>3, <1>4, <1>5, <1>6, <1>7 DEF ThumbHiRegisterOp

LEMMA AccessGood ==
  ASSUME NEW D, Good(D), NEW load, NEW rd \in Registers, NEW a \in Word, NEW w \in {1, 4},
         ThumbAccess(load, rd, a, w)
  PROVE  Good(D)'
<1>0. /\ regs \in RegisterFile /\ flags \in Flags /\ ToldOK /\ mem \in Memory(D) /\ fault \in Faults
  BY DEF Good
<1>1. CASE ~Mapped(a, w)
  BY <1>1, FailingGood DEF ThumbAccess, Faults
<1>2. CASE Mapped(a, w)
  <2>1. /\ \/ Writes([regs EXCEPT ![rd] = Read(a, w)]) /\ mem' = mem
           \/ Writes(regs) /\ mem' = Write(a, w, regs[rd])
        /\ flags' = flags /\ told' = told /\ thumb' = thumb /\ fault' = fault
    BY <1>2 DEF ThumbAccess, KeepFlags
  <2>2. Read(a, w) \in Word
    BY <1>0, <1>2, LoadedWord
  <2>3. regs' \in RegisterFile
    BY <1>0, <2>1, <2>2, WrittenRegister, WritesGood
  <2>4. mem' \in Memory(D)
    <3>1. regs[rd] \in Word /\ w \in 1 .. 4
      BY VisibleWord
    <3>2. Write(a, w, regs[rd]) \in Memory(D)
      BY <1>0, <3>1, WriteMemory
    <3> QED BY <1>0, <2>1, <3>2
  <2> QED BY <1>0, <2>1, <2>3, <2>4, ToldKept, SameModeGood
<1> QED BY <1>1, <1>2

LEMMA ThumbAccessesGood ==
  ASSUME NEW D, Good(D), NEW i, ThumbOK(i),
         \/ i.class = "ThumbLiteralLoad" /\ ThumbLiteralLoad(i)
         \/ i.class = "ThumbLoadStoreSpRelative" /\ ThumbLoadStoreSpRelative(i)
         \/ i.class = "ThumbLoadStoreRegisterOffset" /\ ThumbLoadStoreRegisterOffset(i)
         \/ i.class = "ThumbLoadStoreByteImmediate" /\ ThumbLoadStoreByteImmediate(i)
         \/ i.class = "ThumbLoadStoreWordImmediate" /\ ThumbLoadStoreWordImmediate(i)
  PROVE  Good(D)'
<1>1. i.rd \in Registers
  BY LowRegister DEF ThumbOK
<1>2. CASE i.class = "ThumbLiteralLoad" /\ ThumbLiteralLoad(i)
  <2>1. Plus(LiteralBase, i.offset) \in Word
    BY <1>2, LiteralBaseWord, PlusMinusWords DEF ThumbOK
  <2> QED BY <1>1, <1>2, <2>1, AccessGood DEF ThumbLiteralLoad
<1>3. CASE i.class = "ThumbLoadStoreSpRelative" /\ ThumbLoadStoreSpRelative(i)
  <2>1. Plus(Sp, i.offset) \in Word
    BY <1>3, PcWords, PlusMinusWords DEF ThumbOK
  <2> QED BY <1>1, <1>3, <2>1, AccessGood DEF ThumbLoadStoreSpRelative
<1>4. CASE i.class = "ThumbLoadStoreRegisterOffset" /\ ThumbLoadStoreRegisterOffset(i)
  <2>1. i.base \in Registers /\ i.offset \in Registers
    BY <1>4, LowRegister DEF ThumbOK
  <2>2. Plus(regs[i.base], regs[i.offset]) \in Word
    BY <2>1, VisibleWord, PlusMinusWords
  <2>3. (IF i.byte THEN 1 ELSE 4) \in {1, 4}
    OBVIOUS
  <2> QED BY <1>1, <1>4, <2>2, <2>3, AccessGood DEF ThumbLoadStoreRegisterOffset
<1>5. CASE \/ i.class = "ThumbLoadStoreByteImmediate" /\ ThumbLoadStoreByteImmediate(i)
           \/ i.class = "ThumbLoadStoreWordImmediate" /\ ThumbLoadStoreWordImmediate(i)
  <2>1. i.base \in Registers /\ i.offset \in Word
    BY <1>5, LowRegister DEF ThumbOK
  <2>2. Plus(regs[i.base], i.offset) \in Word
    BY <2>1, VisibleWord, PlusMinusWords
  <2>3. \E w \in {1, 4} : ThumbAccess(i.load, i.rd, Plus(regs[i.base], i.offset), w)
    BY <1>5 DEF ThumbLoadStoreByteImmediate, ThumbLoadStoreWordImmediate
  <2> QED BY <1>1, <2>2, <2>3, AccessGood
<1> QED BY <1>2, <1>3, <1>4, <1>5

(* An address in front of or behind a register by some words.              *)
LEMMA SlotWord ==
  ASSUME NEW D, Good(D), NEW b \in Registers, NEW n \in Int
  PROVE  (regs[b] + 4 * n) % M \in Word /\ (regs[b] - 4 * n) % M \in Word
<1>1. regs[b] \in Int
  BY VisibleWord, WordIs
<1>2. regs[b] + 4 * n \in Int /\ regs[b] - 4 * n \in Int
  BY <1>1
<1> QED BY <1>2, ModWord

LEMMA ThumbMultipleGood ==
  ASSUME NEW D, Good(D), NEW i, ThumbOK(i),
         i.class = "ThumbLoadStoreMultiple", ThumbLoadStoreMultiple(i)
  PROVE  Good(D)'
<1> DEFINE S == i.registers \cap 0 .. 7
           addr(r) == (regs[i.base] + 4 * Slot(S, r)) % M
           done == {r \in S : \A q \in S : q <= r => Mapped(addr(q), 4)}
           loaded == [r \in Registers |->
                        IF i.load /\ r \in done THEN Read(addr(r), 4) ELSE regs[r]]
           at == [r \in done |-> addr(r)]
           base == (regs[i.base] + 4 * Cardinality(S)) % M
<1>0. /\ regs \in RegisterFile /\ flags \in Flags /\ ToldOK /\ mem \in Memory(D)
      /\ fault \in Faults /\ i.base \in Registers
  BY LowRegister DEF Good, ThumbOK
<1>s. S \in SUBSET Registers
  BY DEF Registers
<1>1. \A r : addr(r) \in Word
  <2>1. \A r : Slot(S, r) \in Int
    BY <1>s, SlotNat
  <2> HIDE DEF S
  <2> QED BY <1>0, <2>1, SlotWord
<1>b. base \in Word
  <2>1. Cardinality(S) \in Int
    BY <1>s, SlotNat
  <2> HIDE DEF S
  <2> QED BY <1>0, <2>1, SlotWord
<1>2. done \in SUBSET Registers /\ \A r \in done : Mapped(addr(r), 4)
  <2>1. \A r \in Registers : r <= r
    BY DEF Registers
  <2> HIDE DEF addr, S
  <2> QED BY <1>s, <2>1
<1>3. \A r \in done : Read(addr(r), 4) \in Word
  <2> HIDE DEF addr, done, S
  <2> QED BY <1>0, <1>1, <1>2, LoadedWord
<1>4. loaded \in RegisterFile
  <2>1. \A r \in Registers : regs[r] \in Word
    BY <1>0, RegisterWord
  <2> HIDE DEF addr, done, S
  <2> QED BY <1>3, <2>1 DEF RegisterFile
<1>6. WriteAll(at) \in Memory(D)
  <2>1. at \in [done -> Word]
    BY <1>1, <1>2
  <2> HIDE DEF at, done, S
  <2> QED BY <1>0, <1>2, <2>1, WriteAllMemory DEF RegisterFile
<1>7. /\ mem' = IF i.load THEN mem ELSE WriteAll(at)
      /\ \/ regs' = loaded /\ fault' = "memory"
         \/ Writes([loaded EXCEPT ![i.base] = base]) /\ fault' = fault
      /\ flags' = flags /\ told' = told /\ thumb' = thumb
  BY Zenon DEF ThumbLoadStoreMultiple, KeepFlags
<1> HIDE DEF S, addr, done, loaded, at, base
<1>8. regs' \in RegisterFile /\ fault' \in Faults
  BY <1>0, <1>b, <1>4, <1>7, WrittenRegister, WritesGood DEF Faults
<1>9. mem' \in Memory(D)
  BY <1>0, <1>6, <1>7
<1> QED BY <1>0, <1>7, <1>8, <1>9, ToldKept, SameModeGood

LEMMA ThumbPushGood ==
  ASSUME NEW D, Good(D), NEW i, ThumbOK(i), i.class = "ThumbPush", ThumbPush(i)
  PROVE  Good(D)'
<1> DEFINE S == i.registers \cup (IF i.lr THEN {14} ELSE {})
           addr(r) == (Sp - 4 * (Cardinality(S) - Slot(S, r))) % M
           done == {r \in S : \A q \in S : r <= q => Mapped(addr(q), 4)}
           at == [r \in done |-> addr(r)]
           base == (Sp - 4 * Cardinality(S)) % M
<1>0. /\ regs \in RegisterFile /\ flags \in Flags /\ ToldOK /\ mem \in Memory(D)
      /\ fault \in Faults /\ 13 \in Registers
  BY DEF Good, Registers
<1>s. S \in SUBSET Registers
  <2>1. i.registers \in SUBSET Registers /\ 14 \in Registers
    BY LowRegister DEF ThumbOK, Registers
  <2> QED BY <2>1
<1>1. (\A r : addr(r) \in Word) /\ base \in Word
  <2>1. Cardinality(S) \in Int /\ \A r : Cardinality(S) - Slot(S, r) \in Int
    <3>1. Cardinality(S) \in Nat /\ \A r : Slot(S, r) \in Nat
      BY <1>s, SlotNat
    <3> HIDE DEF S
    <3> QED BY <3>1
  <2> HIDE DEF S
  <2> QED BY <1>0, <2>1, SlotWord DEF Sp
<1>6. WriteAll(at) \in Memory(D)
  <2>1. at \in [done -> Word] /\ done \in SUBSET Registers
    BY <1>s, <1>1
  <2> HIDE DEF at, done, S
  <2> QED BY <1>0, <2>1, WriteAllMemory DEF RegisterFile
<1>7. /\ mem' = WriteAll(at)
      /\ \/ regs' = regs /\ fault' = "memory"
         \/ Writes([regs EXCEPT ![13] = base]) /\ fault' = fault
      /\ flags' = flags /\ told' = told /\ thumb' = thumb
  BY Zenon DEF ThumbPush, KeepFlags
<1> HIDE DEF S, addr, done, at, base
<1>8. regs' \in RegisterFile /\ fault' \in Faults
  BY <1>0, <1>1, <1>7, WrittenRegister, WritesGood DEF Faults
<1> QED BY <1>0, <1>6, <1>7, <1>8, ToldKept, SameModeGood

LEMMA ThumbPopGood ==
  ASSUME NEW D, Good(D), NEW i, ThumbOK(i), i.class = "ThumbPop", ThumbPop(i)
  PROVE  Good(D)'
<1> DEFINE S == i.registers \cup (IF i.pc THEN {15} ELSE {})
           addr(r) == (Sp + 4 * Slot(S, r)) % M
           done == {r \in S : \A q \in S : q <= r => Mapped(addr(q), 4)}
           loaded == [r \in Registers |->
                        IF r \in done \ {15} THEN Read(addr(r), 4) ELSE regs[r]]
           base == (Sp + 4 * Cardinality(S)) % M
           popped == [loaded EXCEPT ![13] = base]
<1>0. /\ regs \in RegisterFile /\ flags \in Flags /\ ToldOK /\ mem \in Memory(D)
      /\ fault \in Faults /\ thumb \in BOOLEAN /\ 13 \in Registers /\ 15 \in Registers
  BY DEF Good, Registers
<1>s. S \in SUBSET Registers
  <2>1. i.registers \in SUBSET Registers /\ 15 \in Registers
    BY LowRegister DEF ThumbOK, Registers
  <2> QED BY <2>1
<1>1. (\A r : addr(r) \in Word) /\ base \in Word
  <2>1. Cardinality(S) \in Int /\ \A r : Slot(S, r) \in Int
    BY <1>s, SlotNat
  <2> HIDE DEF S
  <2> QED BY <1>0, <2>1, SlotWord DEF Sp
<1>2. done \in SUBSET Registers /\ \A r \in done : Mapped(addr(r), 4)
  <2>1. \A r \in Registers : r <= r
    BY DEF Registers
  <2> HIDE DEF addr, S
  <2> QED BY <1>s, <2>1
<1>3. \A r \in done : Read(addr(r), 4) \in Word
  <2> HIDE DEF addr, done, S
  <2> QED BY <1>0, <1>1, <1>2, LoadedWord
<1>4. loaded \in RegisterFile
  <2>1. \A r \in Registers : regs[r] \in Word
    BY <1>0, RegisterWord
  <2> HIDE DEF addr, done, S
  <2> QED BY <1>3, <2>1 DEF RegisterFile
<1>5. popped \in RegisterFile
  <2> HIDE DEF loaded, base
  <2> QED BY <1>0, <1>1, <1>4, WrittenRegister
<1>6. i.pc /\ done = S => [popped EXCEPT ![15] = ExchangeAddress(Read(addr(15), 4))] \in RegisterFile
  <2>1. i.pc => 15 \in S
    OBVIOUS
  <2> HIDE DEF addr, done, S, popped
  <2>2. i.pc /\ done = S => ExchangeAddress(Read(addr(15), 4)) \in Word
    BY <1>3, <2>1, ExchangeWord
  <2> QED BY <1>0, <1>5, <2>2, WrittenRegister
<1>7. /\ \/ regs' = loaded /\ fault' = "memory" /\ thumb' = thumb
         \/ Writes(popped) /\ fault' = fault /\ thumb' = thumb
         \/ /\ done = S /\ i.pc
            /\ regs' = [popped EXCEPT ![15] = ExchangeAddress(Read(addr(15), 4))]
            /\ thumb' = (Read(addr(15), 4) % 2 = 1) /\ fault' = fault
      /\ flags' = flags /\ told' = told /\ mem' = mem
  BY Zenon DEF ThumbPop, KeepFlags
<1> HIDE DEF S, addr, done, loaded, base, popped
<1>8. regs' \in RegisterFile /\ fault' \in Faults /\ thumb' \in BOOLEAN
  BY <1>0, <1>4, <1>5, <1>6, <1>7, WritesGood DEF Faults
<1> QED BY <1>0, <1>7, <1>8, ToldKept, GoodStep

(* Every instruction of the Thumb set keeps the types.                     *)
LEMMA ThumbStepGood ==
  ASSUME NEW D, Good(D), NEW op, IsOpcode(op, 4), ExecuteThumb(op)
  PROVE  Good(D)'
<1> DEFINE i == DecodeThumb(op)
<1>1. ThumbOK(i)
  BY ThumbDecodedOK
<1> HIDE DEF i
<1>2. CASE \/ i.class = "ThumbAddSub" /\ ThumbAddSub(i)
           \/ i.class = "ThumbAluRegister" /\ ThumbAluRegister(i)
           \/ i.class = "ThumbShiftImmediate" /\ ThumbShiftImmediate(i)
  BY <1>1, <1>2, ThumbArithmeticGood
<1>3. CASE \/ i.class = "ThumbCmpImmediate" /\ ThumbCmpImmediate(i)
           \/ i.class = "ThumbSubImmediate" /\ ThumbSubImmediate(i)
           \/ i.class = "ThumbAddImmediate" /\ ThumbAddImmediate(i)
           \/ i.class = "ThumbMovImmediate" /\ ThumbMovImmediate(i)
  BY <1>1, <1>3, ThumbImmediateGood
<1>4. CASE \/ i.class = "ThumbAdjustSp" /\ ThumbAdjustSp(i)
           \/ i.class = "ThumbLoadAddress" /\ ThumbLoadAddress(i)
  BY <1>1, <1>4, ThumbAddressGood
<1>5. CASE \/ i.class = "ThumbLongBranchPrefix" /\ ThumbLongBranchPrefix(i)
           \/ i.class = "ThumbBranch" /\ ThumbBranch(i)
           \/ i.class = "ThumbConditionalBranch" /\ ThumbConditionalBranch(i)
  BY <1>1, <1>5, ThumbBranchesGood
<1>6. CASE i.class = "ThumbLongBranchSuffix" /\ ThumbLongBranchSuffix(i)
  BY <1>1, <1>6, ThumbSuffixGood
<1>7. CASE i.class = "ThumbHiRegisterOp" /\ ThumbHiRegisterOp(i)
  BY <1>1, <1>7, ThumbHiGood
<1>8. CASE \/ i.class = "ThumbLiteralLoad" /\ ThumbLiteralLoad(i)
           \/ i.class = "ThumbLoadStoreSpRelative" /\ ThumbLoadStoreSpRelative(i)
           \/ i.class = "ThumbLoadStoreRegisterOffset" /\ ThumbLoadStoreRegisterOffset(i)
           \/ i.class = "ThumbLoadStoreByteImmediate" /\ ThumbLoadStoreByteImmediate(i)
           \/ i.class = "ThumbLoadStoreWordImmediate" /\ ThumbLoadStoreWordImmediate(i)
  BY <1>1, <1>8, ThumbAccessesGood
<1>9. CASE i.class = "ThumbLoadStoreMultiple" /\ ThumbLoadStoreMultiple(i)
  BY <1>1, <1>9, ThumbMultipleGood
<1>10. CASE i.class = "ThumbPush" /\ ThumbPush(i)
  BY <1>1, <1>10, ThumbPushGood
<1>11. CASE i.class = "ThumbPop" /\ ThumbPop(i)
  BY <1>1, <1>11, ThumbPopGood
<1>12. CASE Unimplemented
  BY <1>12, FailingGood DEF Unimplemented, Faults
<1> QED
  BY <1>2, <1>3, <1>4, <1>5, <1>6, <1>7, <1>8, <1>9, <1>10, <1>11, <1>12 DEF ExecuteThumb, i

-----------------------------------------------------------------------------
(* The C library of the host leaves bytes in the memory and a word in r0.  *)

Outcome(D, f) == f.mem \in Memory(D) /\ f.r0 \in Word

(* What the functions find: the memory of a guest and its registers.       *)
Guest(D) == D \in SUBSET Word /\ IsFiniteSet(D) /\ mem \in Memory(D) /\ regs \in RegisterFile

(* The first of some offsets, or their end.                                *)
LEMMA FirstIs ==
  ASSUME NEW n \in Nat, NEW S \in SUBSET Offsets(n)
  PROVE  /\ FirstOf(S, n) \in 0 .. n
         /\ FirstOf(S, n) \in S \cup {n}
         /\ \A k \in Offsets(FirstOf(S, n)) : k \in Offsets(n) /\ k \notin S
<1> DEFINE T == S \cup {n}
           x == FirstOf(S, n)
<1>1. T \in SUBSET Nat /\ T # {} /\ T \subseteq 0 .. n
  BY DEF Offsets
<1>2. \E y \in T : \A z \in T : y <= z
  BY <1>1, LeastOfNats
<1>3. x \in T /\ \A y \in T : x <= y
  BY <1>2, Zenon DEF FirstOf, Min
<1> HIDE DEF x
<1>4. x \in 0 .. n /\ x \in S \cup {n}
  BY <1>1, <1>3
<1>5. ASSUME NEW k \in Offsets(x)
      PROVE  k \in Offsets(n) /\ k \notin S
  BY <1>3, <1>4 DEF Offsets
<1> QED BY <1>4, <1>5 DEF x

LEMMA BytesRead ==
  ASSUME NEW D, Guest(D)
  PROVE  DOMAIN mem = D /\ \A b \in D : mem[b] \in 0 .. Byte - 1 /\ mem[b] \in Word
  BY SmallWords DEF Guest, Memory

LEMMA OffsetNat ==
  ASSUME NEW D, Guest(D), NEW a \in Word
  PROVE  \A b \in D : (b - a) % M \in Nat
<1>1. \A b \in D : b - a \in Int
  BY WordIs DEF Guest
<1> QED BY <1>1, ModWord, WordIs

LEMMA EndsGood ==
  ASSUME NEW D, Guest(D), NEW m \in Memory(D), NEW r, NEW ok, ok => r \in Word
  PROVE  Outcome(D, Ends(m, r, ok)) /\ Outcome(D, Broken(mem)) /\ Outcome(D, Broken(m))
<1>1. regs[0] \in Word
  BY DEF Guest, RegisterFile, Registers
<1> QED BY <1>1 DEF Outcome, Ends, Returned, Broken, Guest

LEMMA ReturnedGood ==
  ASSUME NEW D, Guest(D), NEW r \in Word
  PROVE  Outcome(D, Returned(mem, r)) /\ Outcome(D, Broken(mem))
<1>1. regs[0] \in Word
  BY DEF Guest, RegisterFile, Registers
<1> QED BY <1>1 DEF Outcome, Returned, Broken, Guest

(* A memory in which some places have a byte of their own. *)
LEMMA WrittenGood ==
  ASSUME NEW D, Guest(D), NEW a, NEW n, NEW bytes \in [Offsets(n) -> 0 .. Byte - 1]
  PROVE  Written(a, bytes) \in Memory(D)
  BY BytesRead, Zenon DEF Memory, Written

LEMMA MemcpyGood ==
  ASSUME NEW D, Guest(D), NEW dst \in Word, NEW src \in Word, NEW len \in Word
  PROVE  Outcome(D, Memcpy(dst, src, len))
<1> DEFINE S == {k \in Offsets(len) : Stops(dst, src, k)}
           n == FirstOf(S, len)
           bytes == [k \in Offsets(n) |-> mem[Source(dst, src, k)]]
<1>1. \A k \in Offsets(n) : k \in Offsets(len) /\ k \notin S
  BY FirstIs, WordIs
<1> HIDE DEF n
<1>2. bytes \in [Offsets(n) -> 0 .. Byte - 1]
  BY <1>1, BytesRead DEF Stops, SourceUnmapped
<1> QED BY <1>2, WrittenGood, EndsGood DEF Memcpy, n

LEMMA MemmoveGood ==
  ASSUME NEW D, Guest(D), NEW dst \in Word, NEW src \in Word, NEW len \in Word
  PROVE  Outcome(D, Memmove(dst, src, len))
<1> DEFINE S == {k \in Offsets(len) : Unmapped(dst, k)}
           n == FirstOf(S, len)
           bytes == [k \in Offsets(n) |-> mem[At(src, k)]]
<1>1. CASE \E k \in Offsets(len) : Unmapped(src, k)
  BY <1>1, EndsGood DEF Memmove, Guest
<1>2. CASE \A k \in Offsets(len) : ~Unmapped(src, k)
  <2>1. \A k \in Offsets(n) : k \in Offsets(len)
    BY FirstIs, WordIs
  <2> HIDE DEF n
  <2>2. bytes \in [Offsets(n) -> 0 .. Byte - 1]
    BY <1>2, <2>1, BytesRead DEF Unmapped
  <2>3. Outcome(D, Ends(Written(dst, bytes), dst, n = len))
    BY <2>2, WrittenGood, EndsGood
  <2> QED BY <1>2, <2>3 DEF Memmove, n
<1> QED BY <1>1, <1>2

LEMMA MemsetGood ==
  ASSUME NEW D, Guest(D), NEW dst \in Word, NEW value \in Word, NEW len \in Word
  PROVE  Outcome(D, Memset(dst, value, len))
<1> DEFINE n == FirstOf({k \in Offsets(len) : Unmapped(dst, k)}, len)
           bytes == [k \in Offsets(n) |-> value % Byte]
<1>1. value % Byte \in 0 .. Byte - 1
  BY PowerFacts, WordIs
<1>2. bytes \in [Offsets(n) -> 0 .. Byte - 1]
  BY <1>1
<1> HIDE DEF n
<1> QED BY <1>2, WrittenGood, EndsGood DEF Memset, n

(* How much of the source is read before its end. *)
LEMMA SourceLengthIs ==
  ASSUME NEW dst, NEW src, NEW n \in Nat
  PROVE  /\ SourceLength(dst, src, n) \in 0 .. n
         /\ \A k \in Offsets(SourceLength(dst, src, n)) : ~SourceUnmapped(dst, src, k)
<1> DEFINE S == {k \in Offsets(n) : SourceEnds(dst, src, k)}
<1>1. /\ FirstOf(S, n) \in 0 .. n
      /\ \A k \in Offsets(FirstOf(S, n)) : k \in Offsets(n) /\ k \notin S
  BY FirstIs
<1> QED BY <1>1 DEF SourceLength, SourceEnds

LEMMA StrncpyGood ==
  ASSUME NEW D, Guest(D), NEW dst \in Word, NEW src \in Word, NEW len \in Word
  PROVE  Outcome(D, Strncpy(dst, src, len))
<1> DEFINE end == SourceLength(dst, src, len)
           S == {k \in Offsets(len) :
                   Unmapped(dst, k) \/ (k <= end /\ SourceUnmapped(dst, src, k))}
           n == FirstOf(S, len)
           bytes == [k \in Offsets(n) |-> IF k < end THEN mem[Source(dst, src, k)] ELSE 0]
<1>1. end \in 0 .. len /\ \A k \in Offsets(end) : ~SourceUnmapped(dst, src, k)
  BY SourceLengthIs, WordIs
<1>2. \A k \in Offsets(n) : k \in Offsets(len)
  BY FirstIs, WordIs
<1>3. 0 \in 0 .. Byte - 1
  BY PowerFacts
<1> HIDE DEF n, end
<1>4. \A k \in Offsets(n) : k < end => k \in Offsets(end)
  BY <1>1, <1>2 DEF Offsets
<1>5. bytes \in [Offsets(n) -> 0 .. Byte - 1]
  BY <1>1, <1>3, <1>4, BytesRead DEF SourceUnmapped
<1> QED BY <1>5, WrittenGood, EndsGood DEF Strncpy, n, end

LEMMA StrcatGood ==
  ASSUME NEW D, Guest(D), NEW dst \in Word, NEW src \in Word
  PROVE  Outcome(D, Strcat(dst, src))
<1> DEFINE to == At(dst, Length(dst))
           end == SourceLength(to, src, Cardinality(DOMAIN mem))
           S == {k \in Offsets(end + 1) : Stops(to, src, k)}
           n == FirstOf(S, end + 1)
           bytes == [k \in Offsets(n) |-> mem[Source(to, src, k)]]
<1>1. end + 1 \in Nat
  <2>1. Cardinality(DOMAIN mem) \in Nat
    BY BytesRead, FS_CardinalityType DEF Guest
  <2> QED BY <2>1, SourceLengthIs
<1> HIDE DEF end, to
<1>2. \A k \in Offsets(n) : k \in Offsets(end + 1) /\ k \notin S
  BY <1>1, FirstIs
<1> HIDE DEF n
<1>3. bytes \in [Offsets(n) -> 0 .. Byte - 1]
  BY <1>2, BytesRead DEF Stops, SourceUnmapped
<1>4. Outcome(D, Ends(Written(to, bytes), dst, n = end + 1)) /\ Outcome(D, Broken(mem))
  BY <1>3, WrittenGood, EndsGood
<1> QED BY <1>4 DEF Strcat, n, end, to

LEMMA StrncatGood ==
  ASSUME NEW D, Guest(D), NEW dst \in Word, NEW src \in Word, NEW max \in Word
  PROVE  Outcome(D, Strncat(dst, src, max))
<1> DEFINE to == At(dst, Length(dst))
           end == SourceLength(to, src, max)
           n == FirstOf({k \in Offsets(end) : Unmapped(to, k)}, end)
           whole == n = end /\ (end = max \/ ~SourceUnmapped(to, src, end)) /\ ~Unmapped(to, end)
           i == IF whole THEN end + 1 ELSE n
           bytes == [k \in Offsets(i) |-> IF k < end THEN mem[Source(to, src, k)] ELSE 0]
<1>1. end \in 0 .. max /\ \A k \in Offsets(end) : ~SourceUnmapped(to, src, k)
  BY SourceLengthIs, WordIs
<1>2. end \in Nat
  BY <1>1, WordIs
<1>3. n \in 0 .. end
  BY <1>2, FirstIs
<1>4. 0 \in 0 .. Byte - 1
  BY PowerFacts
<1> HIDE DEF n, end, to, whole
<1>5. \A k \in Offsets(i) : k < end => k \in Offsets(end)
  BY <1>2, <1>3 DEF Offsets
<1> HIDE DEF i
<1>6. bytes \in [Offsets(i) -> 0 .. Byte - 1]
  BY <1>1, <1>4, <1>5, BytesRead DEF SourceUnmapped
<1>7. Outcome(D, Ends(Written(to, bytes), dst, whole)) /\ Outcome(D, Broken(mem))
  BY <1>6, WrittenGood, EndsGood
<1> QED BY <1>7 DEF Strncat, n, end, to, whole, i

LEMMA ComparedGood ==
  ASSUME NEW D, Guest(D), NEW left, NEW right, NEW k, NEW limit
  PROVE  Outcome(D, ComparedAt(left, right, k, limit))
<1>1. CASE k # limit /\ BothReadable(left, right, k)
  <2>1. mem[At(left, k)] \in Word /\ mem[At(right, k)] \in Word
    BY <1>1, BytesRead DEF BothReadable, Unmapped
  <2>2. Difference(mem[At(left, k)], mem[At(right, k)]) \in Word
    BY <2>1, PlusMinusWords DEF Difference
  <2> QED BY <1>1, <2>2, ReturnedGood DEF ComparedAt
<1>2. CASE k = limit \/ ~BothReadable(left, right, k)
  <2>1. 0 \in Word
    BY SmallWords
  <2>2. Outcome(D, Returned(mem, 0)) /\ Outcome(D, Broken(mem))
    BY <2>1, ReturnedGood
  <2> QED BY <1>2, <2>2 DEF ComparedAt
<1> QED BY <1>1, <1>2

LEMMA MemchrGood ==
  ASSUME NEW D, Guest(D), NEW a \in Word, NEW value, NEW len \in Word
  PROVE  Outcome(D, Memchr(a, value, len))
<1> DEFINE S == {j \in Offsets(len) : Unmapped(a, j) \/ mem[At(a, j)] = value % Byte}
           k == FirstOf(S, len)
<1>1. k \in Int
  BY FirstIs, WordIs
<1> HIDE DEF k
<1>2. a + k \in Int
  BY <1>1, WordIs
<1>3. At(a, k) \in Word /\ 0 \in Word
  BY <1>2, ModWord, SmallWords DEF At
<1>4. Outcome(D, Returned(mem, 0)) /\ Outcome(D, Ends(mem, At(a, k), ~Unmapped(a, k)))
  BY <1>3, EndsGood, ReturnedGood DEF Guest
<1> QED BY <1>4 DEF Memchr, k

(* A string is read up to its end, the end of the memory or the limit. *)
LEMMA LengthIs ==
  ASSUME NEW a
  PROVE  /\ Length(a) \in 0 .. TextLimit /\ Length(a) \in Word
         /\ \A k \in Offsets(Length(a)) : At(a, k) \in DOMAIN mem
<1> DEFINE S == {k \in Offsets(TextLimit) : Ended(a, k)}
<1>1. TextLimit \in Nat /\ TextLimit < M
  BY MachineAssumption, WordIs
<1>2. /\ FirstOf(S, TextLimit) \in 0 .. TextLimit
      /\ \A k \in Offsets(FirstOf(S, TextLimit)) : k \in Offsets(TextLimit) /\ k \notin S
  BY <1>1, FirstIs
<1>3. /\ Length(a) \in 0 .. TextLimit
      /\ \A k \in Offsets(Length(a)) : At(a, k) \in DOMAIN mem
  BY <1>2 DEF Length, Ended
<1>4. \A x \in 0 .. TextLimit : x \in Word
  BY <1>1, WordIs, HalfFact
<1> QED BY <1>3, <1>4, Zenon

LEMMA StrlenGood ==
  ASSUME NEW D, Guest(D), NEW a
  PROVE  Outcome(D, Strlen(a))
  BY LengthIs, EndsGood DEF Strlen, Guest

LEMMA MaxOfUpTo ==
  ASSUME NEW n \in Nat
  PROVE  \A k \in 1 .. n : Max(1 .. k) = k
<1> TAKE k \in 1 .. n
<1>1. 1 .. k \in SUBSET (1 .. n) /\ 1 .. k # {} /\ k \in 1 .. k
  OBVIOUS
<1>2. Max(1 .. k) \in 1 .. k /\ \A y \in 1 .. k : y <= Max(1 .. k)
  BY <1>1, MaxOfSegment, Zenon
<1> QED BY <1>1, <1>2

Folds(f, n, base, G) ==
  \A T \in SUBSET (1 .. n) : f[T] = IF T = {} THEN base ELSE G[<<f[T \ {Max(T)}], Max(T)>>]

LEMMA FoldOf ==
  \A n \in Nat : \A S : \A base \in S, G \in [S \X (1 .. n) -> S] :
    \E f \in [SUBSET (1 .. n) -> S] : Folds(f, n, base, G)
  BY FoldExists DEF Folds

Bytes8 == 0 .. Byte - 1
Lossies == [out : Seq(Bytes8), open : Seq(Bytes8)]

LEMMA ConstantBytes ==
  /\ \A x \in {0, Percent, LetterS, DigitByte} : x \in Bytes8
  /\ Replacement \in Seq(Bytes8) /\ <<>> \in Seq(Bytes8)
<1>1. \A x \in 0 .. 7 : x \in Bytes8
  BY PowerFacts DEF Bytes8
<1>2. 0 \in Bytes8 /\ 1 \in Bytes8 /\ 2 \in Bytes8 /\ 3 \in Bytes8 /\ 5 \in Bytes8
      /\ 6 \in Bytes8 /\ 7 \in Bytes8
  BY <1>1
<1> QED BY <1>2 DEF Replacement, Percent, LetterS, DigitByte

LEMMA LossyStep ==
  ASSUME NEW s \in Lossies, NEW b \in Bytes8
  PROVE  LossyByte(s, b) \in Lossies
<1> DEFINE cut == IF s.open = <<>> THEN s.out ELSE s.out \o Replacement
<1>1. s.out \in Seq(Bytes8) /\ s.open \in Seq(Bytes8)
  BY DEF Lossies
<1>2. cut \in Seq(Bytes8) /\ cut \o Replacement \in Seq(Bytes8) /\ Append(cut, b) \in Seq(Bytes8)
  BY <1>1, ConstantBytes
<1>3. /\ s.out \o s.open \o <<b>> \in Seq(Bytes8) /\ Append(s.open, b) \in Seq(Bytes8)
      /\ <<b>> \in Seq(Bytes8) /\ <<>> \in Seq(Bytes8)
  BY <1>1
<1> HIDE DEF cut
<1>4. LossyByte(s, b) \in {[out |-> s.out \o s.open \o <<b>>, open |-> <<>>],
                           [s EXCEPT !.open = Append(@, b)],
                           [out |-> cut, open |-> <<b>>],
                           [out |-> Append(cut, b), open |-> <<>>],
                           [out |-> cut \o Replacement, open |-> <<>>]}
  BY Zenon DEF LossyByte, cut
<1>5. [s EXCEPT !.open = Append(@, b)] \in Lossies
  BY <1>3 DEF Lossies
<1>6. /\ [out |-> s.out \o s.open \o <<b>>, open |-> <<>>] \in Lossies
      /\ [out |-> cut, open |-> <<b>>] \in Lossies
      /\ [out |-> Append(cut, b), open |-> <<>>] \in Lossies
      /\ [out |-> cut \o Replacement, open |-> <<>>] \in Lossies
  BY <1>2, <1>3 DEF Lossies
<1> QED BY <1>4, <1>5, <1>6, Zenon

(* The reading of a text byte after byte, and what is left at its end.     *)
LEMMA LossyFold ==
  ASSUME NEW n \in Nat, NEW bytes \in [1 .. n -> Bytes8]
  PROVE  \E h : /\ h[0] = [out |-> <<>>, open |-> <<>>]
                /\ \A k \in 1 .. n : h[k] = LossyByte(h[k - 1], bytes[k])
                /\ \A k \in 0 .. n : h[k] \in Lossies
                /\ Lossy(bytes) = IF h[n].open = <<>> THEN h[n].out ELSE h[n].out \o Replacement
<1> DEFINE I == SUBSET (1 .. n)
           base == [out |-> <<>>, open |-> <<>>]
           G == [x \in Lossies \X (1 .. n) |-> LossyByte(x[1], bytes[x[2]])]
           Iter(g) == g = [s \in I |-> IF s = {} THEN base
                                        ELSE LossyByte(g[s \ {Max(s)}], bytes[Max(s)])]
           it == CHOOSE g : Iter(g)
           h == [k \in 0 .. n |-> it[1 .. k]]
<1>1. base \in Lossies
  BY ConstantBytes DEF Lossies
<1>2. G \in [Lossies \X (1 .. n) -> Lossies]
  BY LossyStep
<1>0. \A x \in Lossies, k \in 1 .. n : G[<<x, k>>] = LossyByte(x, bytes[k])
  OBVIOUS
<1> HIDE DEF G, base
<1>3. PICK f \in [I -> Lossies] :
        \A T \in I : f[T] = IF T = {} THEN base ELSE G[<<f[T \ {Max(T)}], Max(T)>>]
  <2>1. \E f \in [I -> Lossies] : Folds(f, n, base, G)
    BY <1>1, <1>2, FoldOf
  <2> QED BY <2>1 DEF Folds
<1>4. \A T \in I : T # {} => T \ {Max(T)} \in I /\ Max(T) \in 1 .. n /\ f[T \ {Max(T)}] \in Lossies
  BY MaxOfSegment
<1>5. Iter(f)
  <2>1. \A T \in I : f[T] = IF T = {} THEN base ELSE LossyByte(f[T \ {Max(T)}], bytes[Max(T)])
    BY <1>0, <1>3, <1>4
  <2> QED BY <2>1
<1>6. Iter(it)
  BY <1>5, Zenon
<1>7. FoldLeft(LossyByte, base, bytes) = it[1 .. n]
  <2>1. DOMAIN bytes = 1 .. n
    OBVIOUS
  <2> QED BY <2>1, Zenon DEF FoldLeft, MapThenFoldSet
<1> HIDE DEF it
<1>8. it[{}] = base /\ 1 .. 0 = {}
  BY <1>1, <1>6
<1>9. ASSUME NEW k \in 1 .. n
      PROVE  h[k] = LossyByte(h[k - 1], bytes[k])
  <2>1. 1 .. k \in I /\ 1 .. k # {} /\ Max(1 .. k) = k
    BY MaxOfUpTo
  <2>2. it[1 .. k] = LossyByte(it[(1 .. k) \ {k}], bytes[k])
    BY <1>6, <2>1
  <2>3. (1 .. k) \ {k} = 1 .. k - 1 /\ k \in 0 .. n /\ k - 1 \in 0 .. n
    OBVIOUS
  <2> QED BY <2>2, <2>3
<1>10. h[0] = base /\ h[n] = it[1 .. n]
  BY <1>8
<1> HIDE DEF h
<1>11. \A k \in 0 .. n : h[k] \in Lossies
  <2> DEFINE P == {k \in 0 .. n : h[k] \in Lossies}
  <2>1. 0 \in P
    BY <1>1, <1>10
  <2>2. ASSUME NEW k \in 0 .. n - 1, k \in P
        PROVE  k + 1 \in P
    <3>1. k + 1 \in 1 .. n /\ (k + 1) - 1 = k /\ k + 1 \in 0 .. n
      OBVIOUS
    <3>2. h[k + 1] = LossyByte(h[k], bytes[k + 1])
      BY <1>9, <3>1
    <3> QED BY <2>2, <3>1, <3>2, LossyStep
  <2> HIDE DEF P
  <2>3. \A k \in 0 .. n : k \in P
    BY <2>1, <2>2, UpTo
  <2> QED BY <2>3 DEF P
<1>12. Lossy(bytes) = IF h[n].open = <<>> THEN h[n].out ELSE h[n].out \o Replacement
  BY <1>7, <1>10, Zenon DEF Lossy, base
<1> QED BY <1>9, <1>10, <1>11, <1>12, Zenon DEF base

LEMMA LossyTyped ==
  ASSUME NEW n \in Nat, NEW bytes \in [1 .. n -> Bytes8]
  PROVE  Lossy(bytes) \in Seq(Bytes8)
<1>1. PICK h : /\ \A k \in 0 .. n : h[k] \in Lossies
               /\ Lossy(bytes) = IF h[n].open = <<>> THEN h[n].out ELSE h[n].out \o Replacement
  BY LossyFold
<1>2. h[n].out \in Seq(Bytes8) /\ h[n].out \o Replacement \in Seq(Bytes8)
  BY <1>1, ConstantBytes DEF Lossies
<1> QED BY <1>1, <1>2, Zenon

(* The texts that the host reads are bytes.                                *)
LEMMA TextBytes ==
  ASSUME NEW D, Guest(D), NEW a
  PROVE  Text(a) \in Seq(Bytes8)
<1> DEFINE n == Length(a)
           bytes == [k \in 1 .. n |-> mem[At(a, k - 1)]]
<1>1. n \in Nat /\ \A k \in Offsets(n) : At(a, k) \in DOMAIN mem
  BY LengthIs
<1> HIDE DEF n
<1>2. \A k \in 1 .. n : k - 1 \in Offsets(n)
  BY <1>1 DEF Offsets
<1>3. bytes \in [1 .. n -> Bytes8]
  BY <1>1, <1>2, BytesRead DEF Bytes8
<1>4. Lossy(bytes) \in Seq(Bytes8) /\ <<>> \in Seq(Bytes8)
  BY <1>1, <1>3, LossyTyped, ConstantBytes
<1> QED BY <1>4, Zenon DEF Text, n

LEMMA StoreTextGood ==
  ASSUME NEW D, Guest(D), NEW a, NEW text \in Seq(Bytes8)
  PROVE  StoreText(a, text).mem \in Memory(D)
<1> DEFINE bytes == Append(text, 0)
           S == {k \in Offsets(Len(bytes)) : Unmapped(a, k)}
           n == FirstOf(S, Len(bytes))
           out == [k \in Offsets(n) |-> bytes[k + 1]]
<1>1. bytes \in Seq(Bytes8) /\ Len(bytes) \in Nat
  BY ConstantBytes
<1> HIDE DEF bytes
<1>2. \A k \in Offsets(n) : k \in Offsets(Len(bytes))
  BY <1>1, FirstIs
<1>3. \A k \in Offsets(Len(bytes)) : bytes[k + 1] \in Bytes8
  BY <1>1 DEF Offsets
<1> HIDE DEF n
<1>4. out \in [Offsets(n) -> 0 .. Byte - 1]
  BY <1>2, <1>3 DEF Bytes8
<1>5. Written(a, out) \in Memory(D)
  BY <1>4, WrittenGood
<1> QED BY <1>5 DEF StoreText, Store, n, bytes

LEMMA StrcpyGood ==
  ASSUME NEW D, Guest(D), NEW dst \in Word, NEW src
  PROVE  Outcome(D, Strcpy(dst, src))
<1> DEFINE s == StoreText(dst, Text(src))
<1>1. s.mem \in Memory(D)
  BY TextBytes, StoreTextGood
<1> HIDE DEF s
<1>2. Outcome(D, Ends(s.mem, dst, s.ok)) /\ Outcome(D, Broken(mem))
  BY <1>1, EndsGood
<1> QED BY <1>2 DEF Strcpy, s

LEMMA StrstrGood ==
  ASSUME NEW D, Guest(D), NEW hay \in Word, NEW needle
  PROVE  Outcome(D, Strstr(hay, needle))
<1> DEFINE h == Text(hay)
           n == Text(needle)
           places == {k \in 0 .. Len(h) - Len(n) : SubSeq(h, k + 1, k + Len(n)) = n}
           r == IF places = {} THEN 0 ELSE At(hay, Min(places))
<1>1. Len(h) \in Nat /\ Len(n) \in Nat
  BY TextBytes
<1> HIDE DEF h, n
<1>2. places \in SUBSET Nat
  BY <1>1
<1> HIDE DEF places
<1>3. ASSUME places # {}
      PROVE  At(hay, Min(places)) \in Word
  <2>1. \E x \in places : \A y \in places : x <= y
    BY <1>2, <1>3, LeastOfNats
  <2>2. Min(places) \in places
    BY <2>1, Zenon DEF Min
  <2>3. hay + Min(places) \in Int
    <3>1. hay \in Nat
      BY WordIs
    <3>2. Min(places) \in Nat
      BY <1>2, <2>2, Zenon
    <3> QED BY <3>1, <3>2
  <2> QED BY <2>3, ModWord DEF At
<1>4. r \in Word
  BY <1>3, SmallWords
<1> HIDE DEF r
<1>5. Outcome(D, Returned(mem, r)) /\ Outcome(D, Broken(mem))
  BY <1>4, ReturnedGood
<1> QED BY <1>5 DEF Strstr, h, n, places, r

LEMMA ArgumentWord ==
  ASSUME NEW D, Guest(D), NEW j \in Nat, ArgumentReadable(j)
  PROVE  Argument(j) \in Word
<1>1. CASE j < 2
  <2>1. 2 + j \in Registers
    BY <1>1 DEF Registers
  <2> QED BY <1>1, <2>1, RegisterWord DEF Argument, Guest
<1>2. CASE ~(j < 2)
  <2>1. Sp \in Int
    BY RegisterWord, WordIs DEF Guest, Sp, Registers
  <2>2. Sp + 4 * (j - 2) \in Int
    BY <2>1
  <2>3. ArgumentAt(j) \in Word
    BY <2>2, ModWord DEF ArgumentAt, At
  <2>4. Read(ArgumentAt(j), 4) \in Word
    BY <1>2, <2>3, LoadedWord DEF Guest, ArgumentReadable
  <2> QED BY <1>2, <2>4 DEF Argument
<1> QED BY <1>1, <1>2

Formats == [mode : {"text", "percent", "spec"}, out : Seq(Bytes8), used : Nat, ok : BOOLEAN]

LEMMA FormatStep ==
  ASSUME NEW D, Guest(D), NEW s \in Formats, NEW b \in Bytes8
  PROVE  FormatByte(s, b) \in Formats
<1> DEFINE text == [s EXCEPT !.mode = "text"]
           more == Text(Argument(s.used))
<1>1. /\ s.mode \in {"text", "percent", "spec"} /\ s.out \in Seq(Bytes8)
      /\ s.used \in Nat /\ s.used + 1 \in Nat /\ s.ok \in BOOLEAN
  BY DEF Formats
<1>2. more \in Seq(Bytes8) /\ Percent \in Bytes8
  BY TextBytes, ConstantBytes
<1> HIDE DEF more
<1>3. /\ Append(s.out, b) \in Seq(Bytes8) /\ Append(s.out, Percent) \in Seq(Bytes8)
      /\ s.out \o more \in Seq(Bytes8) /\ s.out \o <<Percent, b>> \in Seq(Bytes8)
  BY <1>1, <1>2
<1>4. FormatByte(s, b) \in {[s EXCEPT !.mode = "percent"], [s EXCEPT !.out = Append(@, b)],
                            [text EXCEPT !.out = Append(@, Percent)], [s EXCEPT !.mode = "spec"],
                            [text EXCEPT !.out = @ \o more, !.used = @ + 1],
                            [text EXCEPT !.ok = FALSE], [text EXCEPT !.out = @ \o <<Percent, b>>]}
  BY Zenon DEF FormatByte, more
<1>5. text \in Formats /\ text.out = s.out /\ text.used = s.used
  BY <1>1 DEF Formats
<1>6. /\ [s EXCEPT !.mode = "percent"] \in Formats /\ [s EXCEPT !.mode = "spec"] \in Formats
      /\ [s EXCEPT !.out = Append(@, b)] \in Formats
  BY <1>3 DEF Formats
<1> HIDE DEF text
<1>7. /\ [text EXCEPT !.out = Append(@, Percent)] \in Formats
      /\ [text EXCEPT !.ok = FALSE] \in Formats
      /\ [text EXCEPT !.out = @ \o <<Percent, b>>] \in Formats
  BY <1>3, <1>5 DEF Formats
<1>8. [text EXCEPT !.out = @ \o more, !.used = @ + 1] \in Formats
  BY <1>1, <1>3, <1>5 DEF Formats
<1> QED BY <1>4, <1>6, <1>7, <1>8, Zenon

(* The reading of a format byte after byte, up to the first error.         *)
LEMMA FormatFold ==
  ASSUME NEW D, Guest(D), NEW fmt
  PROVE  LET bytes == Text(fmt)
             n == Len(bytes)
         IN \E h : /\ h[0] = [mode |-> "text", out |-> <<>>, used |-> 0, ok |-> TRUE]
                   /\ \A k \in 1 .. n :
                        h[k] = IF h[k - 1].ok THEN FormatByte(h[k - 1], bytes[k]) ELSE h[k - 1]
                   /\ \A k \in 0 .. n : h[k] \in Formats
                   /\ Format(fmt) = [out |-> IF h[n].mode = "text" THEN h[n].out
                                             ELSE h[n].out \o <<Percent, Percent>>,
                                     ok |-> h[n].ok]
<1> DEFINE bytes == Text(fmt)
           n == Len(bytes)
           I == SUBSET (1 .. n)
           base == [mode |-> "text", out |-> <<>>, used |-> 0, ok |-> TRUE]
           Step(t, b) == IF t.ok THEN FormatByte(t, b) ELSE t
           G == [x \in Formats \X (1 .. n) |-> Step(x[1], bytes[x[2]])]
           Iter(g) == g = [s \in I |-> IF s = {} THEN base ELSE Step(g[s \ {Max(s)}], bytes[Max(s)])]
           it == CHOOSE g : Iter(g)
           h == [k \in 0 .. n |-> it[1 .. k]]
<1>0. n \in Nat /\ bytes \in [1 .. n -> Bytes8]
  BY TextBytes
<1>1. base \in Formats
  BY ConstantBytes DEF Formats
<1> HIDE DEF bytes, n
<1>2. \A t \in Formats, k \in 1 .. n : Step(t, bytes[k]) \in Formats
  BY <1>0, FormatStep
<1> HIDE DEF Step
<1>3. G \in [Formats \X (1 .. n) -> Formats]
  BY <1>2
<1>4. \A t \in Formats, k \in 1 .. n : G[<<t, k>>] = Step(t, bytes[k])
  OBVIOUS
<1> HIDE DEF G, base
<1>5. PICK f \in [I -> Formats] :
        \A T \in I : f[T] = IF T = {} THEN base ELSE G[<<f[T \ {Max(T)}], Max(T)>>]
  <2>1. \E f \in [I -> Formats] : Folds(f, n, base, G)
    BY <1>0, <1>1, <1>3, FoldOf
  <2> QED BY <2>1 DEF Folds
<1>6. \A T \in I : T # {} => T \ {Max(T)} \in I /\ Max(T) \in 1 .. n /\ f[T \ {Max(T)}] \in Formats
  BY <1>0, MaxOfSegment
<1>7. Iter(f)
  <2>1. \A T \in I : f[T] = IF T = {} THEN base ELSE Step(f[T \ {Max(T)}], bytes[Max(T)])
    BY <1>4, <1>5, <1>6
  <2> QED BY <2>1
<1>8. Iter(it)
  BY <1>7, Zenon
<1> HIDE DEF I
<1>9. FoldLeft(LAMBDA t, b : IF t.ok THEN FormatByte(t, b) ELSE t, base, bytes) = it[1 .. n]
  <2>1. DOMAIN bytes = 1 .. n
    BY <1>0
  <2> QED BY <2>1, Zenon DEF FoldLeft, MapThenFoldSet, Step, I
<1> HIDE DEF it
<1>10. it[{}] = base /\ 1 .. 0 = {}
  BY <1>1, <1>8 DEF I
<1>11. ASSUME NEW k \in 1 .. n
       PROVE  h[k] = Step(h[k - 1], bytes[k])
  <2>1. 1 .. k \in I /\ 1 .. k # {} /\ Max(1 .. k) = k
    <3>1. Max(1 .. k) = k
      BY <1>0, MaxOfUpTo, Zenon
    <3>2. 1 .. k \in I /\ 1 .. k # {}
      BY <1>0 DEF I
    <3> QED BY <3>1, <3>2
  <2>2. it[1 .. k] = Step(it[(1 .. k) \ {k}], bytes[k])
    BY <1>8, <2>1
  <2>3. (1 .. k) \ {k} = 1 .. k - 1 /\ k \in 0 .. n /\ k - 1 \in 0 .. n
    BY <1>0
  <2> QED BY <2>2, <2>3
<1>12. h[0] = base /\ h[n] = it[1 .. n]
  BY <1>0, <1>10
<1> HIDE DEF h
<1>13. \A k \in 0 .. n : h[k] \in Formats
  <2> DEFINE P == {k \in 0 .. n : h[k] \in Formats}
  <2>1. 0 \in P
    BY <1>0, <1>1, <1>12
  <2>2. ASSUME NEW k \in 0 .. n - 1, k \in P
        PROVE  k + 1 \in P
    <3>1. k + 1 \in 1 .. n /\ (k + 1) - 1 = k /\ k + 1 \in 0 .. n
      BY <1>0
    <3>2. h[k + 1] = Step(h[k], bytes[k + 1])
      BY <1>11, <3>1
    <3> QED BY <1>2, <2>2, <3>1, <3>2
  <2> HIDE DEF P
  <2>3. \A k \in 0 .. n : k \in P
    BY <1>0, <2>1, <2>2, UpTo
  <2> QED BY <2>3 DEF P
<1>14. Format(fmt) = [out |-> IF h[n].mode = "text" THEN h[n].out
                              ELSE h[n].out \o <<Percent, Percent>>,
                      ok |-> h[n].ok]
  BY <1>9, <1>12, Zenon DEF Format, base, bytes
<1>15. \A k \in 1 .. n :
         h[k] = IF h[k - 1].ok THEN FormatByte(h[k - 1], bytes[k]) ELSE h[k - 1]
  BY <1>11 DEF Step
<1> QED BY <1>12, <1>13, <1>14, <1>15, Zenon DEF base, bytes, n

LEMMA FormatTyped ==
  ASSUME NEW D, Guest(D), NEW fmt
  PROVE  Format(fmt).out \in Seq(Bytes8)
<1> DEFINE n == Len(Text(fmt))
<1>1. \E h : /\ \A k \in 0 .. n : h[k] \in Formats
             /\ Format(fmt) = [out |-> IF h[n].mode = "text" THEN h[n].out
                                       ELSE h[n].out \o <<Percent, Percent>>,
                               ok |-> h[n].ok]
  <2>1. LET bytes == Text(fmt)
            m == Len(bytes)
        IN \E h : /\ h[0] = [mode |-> "text", out |-> <<>>, used |-> 0, ok |-> TRUE]
                  /\ \A k \in 1 .. m :
                       h[k] = IF h[k - 1].ok THEN FormatByte(h[k - 1], bytes[k]) ELSE h[k - 1]
                  /\ \A k \in 0 .. m : h[k] \in Formats
                  /\ Format(fmt) = [out |-> IF h[m].mode = "text" THEN h[m].out
                                            ELSE h[m].out \o <<Percent, Percent>>,
                                    ok |-> h[m].ok]
    BY FormatFold, Zenon
  <2> QED BY <2>1, Zenon
<1>2. n \in Nat
  BY TextBytes
<1> HIDE DEF n
<1>3. PICK h : /\ h[n] \in Formats
               /\ Format(fmt) = [out |-> IF h[n].mode = "text" THEN h[n].out
                                         ELSE h[n].out \o <<Percent, Percent>>,
                                 ok |-> h[n].ok]
  <2>1. n \in 0 .. n
    BY <1>2
  <2> QED BY <1>1, <2>1, Zenon
<1>4. h[n].out \in Seq(Bytes8) /\ h[n].out \o <<Percent, Percent>> \in Seq(Bytes8)
  BY <1>3, ConstantBytes DEF Formats
<1>5. Format(fmt).out = IF h[n].mode = "text" THEN h[n].out ELSE h[n].out \o <<Percent, Percent>>
  BY <1>3
<1> QED BY <1>4, <1>5, Zenon

LEMMA SprintfGood ==
  ASSUME NEW D, Guest(D), NEW dst, NEW fmt
  PROVE  Outcome(D, Sprintf(dst, fmt))
<1> DEFINE f == Format(fmt)
           s == StoreText(dst, f.out)
           r == Len(f.out) % M
<1>1. f.out \in Seq(Bytes8)
  BY FormatTyped
<1>2. r \in Word
  BY <1>1, ModWord
<1> HIDE DEF f
<1>3. s.mem \in Memory(D)
  BY <1>1, StoreTextGood
<1> HIDE DEF s, r
<1>4. Outcome(D, Ends(s.mem, r, s.ok)) /\ Outcome(D, Broken(mem))
  BY <1>2, <1>3, EndsGood
<1> QED BY <1>4 DEF Sprintf, f, s, r

LEMMA CopyGood ==
  ASSUME NEW D, Guest(D), NEW name \in Copying, NEW a \in Word, NEW b \in Word, NEW c \in Word
  PROVE  Outcome(D, Copy(name, a, b, c))
<1>1. CASE name = "memcpy"
  BY <1>1, MemcpyGood DEF Copy
<1>2. CASE name = "memmove"
  BY <1>2, MemmoveGood DEF Copy
<1>3. CASE name = "memset"
  BY <1>3, MemsetGood DEF Copy
<1>4. CASE name = "strncpy"
  BY <1>4, StrncpyGood DEF Copy
<1> QED BY <1>1, <1>2, <1>3, <1>4 DEF Copying

LEMMA MakeTextGood ==
  ASSUME NEW D, Guest(D), NEW name \in Texts, NEW a \in Word, NEW b \in Word, NEW c \in Word
  PROVE  Outcome(D, MakeText(name, a, b, c))
<1>1. CASE name = "strcpy"
  BY <1>1, StrcpyGood DEF MakeText
<1>2. CASE name = "strcat"
  BY <1>2, StrcatGood DEF MakeText
<1>3. CASE name = "strncat"
  BY <1>3, StrncatGood DEF MakeText
<1>4. CASE name = "sprintf"
  BY <1>4, SprintfGood DEF MakeText
<1> QED BY <1>1, <1>2, <1>3, <1>4 DEF Texts

LEMMA SearchGood ==
  ASSUME NEW D, Guest(D), NEW name \in Searching, NEW a \in Word, NEW b \in Word, NEW c \in Word
  PROVE  Outcome(D, Search(name, a, b, c))
<1>1. CASE name = "memcmp"
  BY <1>1, ComparedGood DEF Search, Memcmp
<1>2. CASE name \in {"strcmp", "strcoll"}
  BY <1>2, ComparedGood DEF Search, Strcmp, Strncmp
<1>3. CASE name = "strncmp"
  BY <1>3, ComparedGood DEF Search, Strncmp
<1>4. CASE name = "memchr"
  BY <1>4, MemchrGood DEF Search
<1>5. CASE name = "strlen"
  BY <1>5, StrlenGood DEF Search
<1>6. CASE name = "strstr"
  BY <1>6, StrstrGood DEF Search
<1> QED BY <1>1, <1>2, <1>3, <1>4, <1>5, <1>6 DEF Searching

LEMMA LibraryGood ==
  ASSUME NEW D, Guest(D), NEW name \in Copying \cup Texts \cup Searching
  PROVE  Outcome(D, Library(name))
<1> DEFINE a == regs[0]
           b == regs[1]
           c == regs[2]
<1>1. a \in Word /\ b \in Word /\ c \in Word
  BY DEF Guest, RegisterFile, Registers
<1> HIDE DEF a, b, c
<1>2. CASE name \in Copying
  <2>1. Library(name) = Copy(name, a, b, c)
    BY <1>2 DEF Library, a, b, c, Copying, Texts, Searching
  <2> QED BY <1>1, <1>2, <2>1, CopyGood
<1>3. CASE name \in Texts
  <2>1. Library(name) = MakeText(name, a, b, c)
    BY <1>3 DEF Library, a, b, c, Copying, Texts, Searching
  <2> QED BY <1>1, <1>3, <2>1, MakeTextGood
<1>4. CASE name \in Searching
  <2>1. Library(name) = Search(name, a, b, c)
    BY <1>4 DEF Library, a, b, c, Copying, Texts, Searching
  <2> QED BY <1>1, <1>4, <2>1, SearchGood
<1> QED BY <1>2, <1>3, <1>4

-----------------------------------------------------------------------------
(* The types hold of every state.                                          *)

LEMMA HostCallGood ==
  ASSUME NEW D, Good(D), D \in SUBSET Word, IsFiniteSet(D), HostCall
  PROVE  Good(D)'
<1> DEFINE f == Library(HostAt[Pc])
<1>1. Outcome(D, f)
  <2>1. HostAt[Pc] \in Copying \cup Texts \cup Searching
    BY MachineAssumption DEF HostCall
  <2>2. Guest(D)
    BY DEF Guest, Good
  <2> QED BY <2>1, <2>2, LibraryGood
<1> HIDE DEF f
<1>2. /\ mem' = f.mem /\ flags' = flags /\ told' = told
      /\ \/ /\ regs' = [regs EXCEPT ![0] = f.r0, ![15] = Aligned(regs[14], 2)]
            /\ thumb' = (regs[14] % 2 = 1) /\ fault' = fault
         \/ regs' = regs /\ thumb' = thumb /\ fault' = "memory"
  BY DEF HostCall, f
<1>3. mem' \in Memory(D) /\ f.r0 \in Word
  BY <1>1, <1>2 DEF Outcome
<1>4. regs' \in RegisterFile
  <2>1. 0 \in Registers /\ 14 \in Registers /\ 15 \in Registers /\ regs \in RegisterFile
    BY DEF Good, Registers
  <2>2. Aligned(regs[14], 2) \in Word
    BY <2>1, RegisterWord, AlignedWord
  <2>3. [regs EXCEPT ![0] = f.r0] \in RegisterFile
    BY <1>3, <2>1, WrittenRegister
  <2>4. [[regs EXCEPT ![0] = f.r0] EXCEPT ![15] = Aligned(regs[14], 2)] \in RegisterFile
    BY <2>1, <2>2, <2>3, WrittenRegister
  <2> QED BY <1>2, <2>1, <2>4
<1>5. thumb' \in BOOLEAN /\ fault' \in Faults /\ flags' \in Flags
  BY <1>2 DEF Good, Faults
<1>6. ToldOK'
  BY <1>2, ToldKept DEF Good
<1> QED BY <1>3, <1>4, <1>5, <1>6, GoodStep

(* The types, with what a program and its start are. *)
MachineInv ==
  /\ prog \in DOMAIN Images /\ begun \in Starts[prog]
  /\ Good(DOMAIN begun.mem)

LEMMA StartsAre ==
  ASSUME MachineInv
  PROVE  /\ DOMAIN begun.mem \in SUBSET Word /\ IsFiniteSet(DOMAIN begun.mem)
         /\ begun.regs \in RegisterFile
  BY CpuAssumption, StartsAssumption DEF MachineInv, RegisterFile

LEMMA OpcodeIs ==
  ASSUME MachineInv, Fetched
  PROVE  /\ ~thumb => IsOpcode(Opcode, 8)
         /\ thumb => IsOpcode(Opcode, 4)
<1> DEFINE code == Images[prog][Pc]
<1>1. code.thumb \in BOOLEAN /\ code.op \in [1 .. (IF code.thumb THEN 4 ELSE 8) -> 0 .. 15]
  BY ImagesAssumption DEF MachineInv, Fetched
<1> QED BY <1>1 DEF Fetched, Opcode, IsOpcode

LEMMA InitGood ==
  ASSUME Init
  PROVE  MachineInv
<1>1. PICK s \in Starts[prog] :
        regs = s.regs /\ thumb = s.thumb /\ flags = s.flags /\ mem = s.mem /\ begun = s
  BY DEF Init
<1>2. /\ s.regs \in RegisterFile /\ s.thumb \in BOOLEAN /\ s.flags \in Flags
      /\ s.mem \in Memory(DOMAIN s.mem)
  BY <1>1, CpuAssumption, StartsAssumption DEF Init, RegisterFile, Memory
<1>3. ToldOK
  BY SmallWords DEF Init, ToldOK, Untold
<1> QED BY <1>1, <1>2, <1>3 DEF Init, MachineInv, Good, Faults

LEMMA NextGood ==
  ASSUME MachineInv, [Next]_vars
  PROVE  MachineInv'
<1>0. PICK D : D = DOMAIN begun.mem
  OBVIOUS
<1>1. Good(D) /\ D \in SUBSET Word /\ IsFiniteSet(D)
  BY <1>0, StartsAre DEF MachineInv
<1>2. prog' = prog /\ begun' = begun
  BY DEF vars, Next, HostCall, GuestStep
<1>3. Good(D)'
  <2>1. CASE HostCall
    BY <1>1, <2>1, HostCallGood
  <2>2. CASE GuestStep
    <3>1. CASE Failing("wild")
      BY <1>1, <3>1, FailingGood DEF Faults
    <3>2. CASE Fetched /\ ~thumb /\ ExecuteArm(Opcode)
      BY <1>1, <3>2, OpcodeIs, ArmStepGood
    <3>3. CASE Fetched /\ thumb /\ ExecuteThumb(Opcode)
      BY <1>1, <3>3, OpcodeIs, ThumbStepGood
    <3> QED BY <2>2, <3>1, <3>2, <3>3 DEF GuestStep
  <2>3. CASE UNCHANGED vars
    BY <1>1, <2>3 DEF vars, Good, ToldOK
  <2> QED BY <2>1, <2>2, <2>3 DEF Next
<1> QED BY <1>0, <1>2, <1>3 DEF MachineInv, Good

(* The registers and flags of every program keep their width, and its      *)
(* memory its bytes, whatever the instructions and the functions of the    *)
(* host do (Cpu::step and ExtHost::handle).                                *)
THEOREM TypesHold == Spec => []TypeOK
<1>1. Init => MachineInv
  BY InitGood
<1>2. MachineInv /\ [Next]_vars => MachineInv'
  BY NextGood
<1>3. MachineInv => TypeOK
  BY StartsAre DEF MachineInv, Good, TypeOK, RegisterFile, Memory, Faults
<1> QED BY <1>1, <1>2, <1>3, PTL DEF Spec

-----------------------------------------------------------------------------
(* The shifter in the integers.                                            *)

LEMMA MultipleGrows ==
  ASSUME NEW m \in Nat \ {0}, NEW d \in Int
  PROVE  /\ d >= 1 => m * d >= m
         /\ d <= -1 => m * d <= -m
  OBVIOUS

(* A quotient and a remainder are the ones. *)
LEMMA DivUnique ==
  ASSUME NEW x \in Int, NEW m \in Nat \ {0}, NEW q \in Int, NEW r \in 0 .. m - 1, x = m * q + r
  PROVE  x \div m = q /\ x % m = r
<1> DEFINE p == x \div m
           s == x % m
           d == q - p
<1>1. p \in Int /\ s \in 0 .. m - 1 /\ x = m * p + s
  BY DivMod
<1> HIDE DEF p, s
<1>2. d \in Int /\ m * d = m * q - m * p
  BY <1>1
<1>3. m * p \in Int /\ m * q \in Int /\ m * d \in Int
  BY <1>1
<1>4. m * q - m * p = s - r
  BY <1>1, <1>3
<1>5. m * d < m /\ -m < m * d
  BY <1>1, <1>2, <1>4
<1>6. ~(d >= 1) /\ ~(d <= -1)
  BY <1>2, <1>3, <1>5, MultipleGrows
<1>7. q = p
  BY <1>1, <1>2, <1>6
<1>8. s = r
  BY <1>1, <1>3, <1>7
<1> QED BY <1>7, <1>8 DEF p, s

(* Bits that are shifted out on both sides. *)
LEMMA DivScaled ==
  ASSUME NEW x \in Int, NEW p \in Nat \ {0}, NEW q \in Nat \ {0}
  PROVE  (x * p) \div (p * q) = x \div q
<1> DEFINE a == x \div q
           b == x % q
<1>1. a \in Int /\ b \in 0 .. q - 1 /\ x = q * a + b
  BY DivMod
<1> HIDE DEF a, b
<1>2. p * q \in Nat \ {0} /\ x * p \in Int /\ b * p \in Int
  BY <1>1
<1>3. x * p = (p * q) * a + b * p
  BY <1>1
<1>4. b * p \in 0 .. p * q - 1
  <2>1. p * (q - 1 - b) >= 0 /\ p * b >= 0
    BY <1>1
  <2>2. p * (q - 1 - b) = p * q - p - p * b /\ p * b = b * p
    BY <1>1
  <2> QED BY <1>2, <2>1, <2>2
<1>5. (x * p) \div (p * q) = a
  BY <1>1, <1>2, <1>3, <1>4, DivUnique
<1> QED BY <1>5 DEF a

(* A multiple more, or less, of what a number is divided by. *)
LEMMA DivLess ==
  ASSUME NEW x \in Int, NEW p \in Nat \ {0}, NEW k \in Int
  PROVE  (x - p * k) \div p = x \div p - k /\ (x - p * k) % p = x % p
<1> DEFINE a == x \div p
           b == x % p
<1>1. a \in Int /\ b \in 0 .. p - 1 /\ x = p * a + b
  BY DivMod
<1> HIDE DEF a, b
<1>2. x - p * k \in Int /\ a - k \in Int /\ x - p * k = p * (a - k) + b
  BY <1>1
<1>3. (x - p * k) \div p = a - k /\ (x - p * k) % p = b
  BY <1>1, <1>2, DivUnique
<1> QED BY <1>3 DEF a, b

LEMMA DivSmall ==
  ASSUME NEW x \in Int, NEW m \in Nat \ {0}
  PROVE  /\ 0 <= x /\ x < m => x \div m = 0 /\ x % m = x
         /\ -m <= x /\ x < 0 => x \div m = -1 /\ x % m = x + m
<1>1. ASSUME 0 <= x, x < m
      PROVE  x \div m = 0 /\ x % m = x
  <2>1. x \in 0 .. m - 1 /\ x = m * 0 + x /\ 0 \in Int
    BY <1>1
  <2> QED BY <2>1, DivUnique
<1>2. ASSUME -m <= x, x < 0
      PROVE  x \div m = -1 /\ x % m = x + m
  <2>1. x + m \in 0 .. m - 1 /\ x = m * (-1) + (x + m) /\ -1 \in Int
    BY <1>2
  <2> QED BY <2>1, DivUnique
<1> QED BY <1>1, <1>2

(* What is rotated is the number, but for multiples of M - 1. *)
LEMMA RotatedIs ==
  ASSUME NEW x \in Nat, NEW p \in Nat \ {0}, NEW q \in Nat \ {0}, x < p * q, 1 < p * q
  PROVE  LET out == ((x \div p) + x * q) % (p * q)
         IN (out * p) % (p * q - 1) = x % (p * q - 1)
<1> DEFINE m == p * q
           a == x \div p
           t == x % p
           out == a + t * q
<1>1. a \in Nat /\ t \in 0 .. p - 1 /\ x = p * a + t
  <2>1. x \in Int /\ 0 <= x
    OBVIOUS
  <2> QED BY <2>1, DivMod, Zenon
<1> HIDE DEF a, t
<1>2. m \in Nat \ {0} /\ m - 1 \in Nat \ {0} /\ t * q \in Nat
  BY <1>1
<1>3. a <= q - 1
  <2>1. SUFFICES ASSUME a >= q
                 PROVE  FALSE
    BY <1>1
  <2>2. p * (a - q) >= 0 /\ p * (a - q) = p * a - p * q
    BY <1>1, <2>1
  <2> QED BY <1>1, <2>2
<1>4. out \in 0 .. m - 1
  <2>1. (p - 1 - t) * q >= 0 /\ (p - 1 - t) * q = p * q - q - t * q
    BY <1>1
  <2> QED BY <1>1, <1>2, <1>3, <2>1
<1>5. a + x * q = m * a + out
  BY <1>1
<1>6. (a + x * q) % m = out
  <2>1. a + x * q \in Int /\ a \in Int
    BY <1>1
  <2> HIDE DEF out, m
  <2> QED BY <1>2, <1>4, <1>5, <2>1, DivUnique
<1>7. out * p = x - (m - 1) * (-t)
  BY <1>1
<1>8. (out * p) % (m - 1) = x % (m - 1)
  <2>1. -t \in Int /\ x \in Int
    BY <1>1
  <2> DEFINE k == -t
             l == m - 1
  <2>2. l \in Nat \ {0} /\ k \in Int /\ out * p = x - l * k
    BY <1>2, <1>7, <2>1
  <2> HIDE DEF out, m, k, l
  <2>3. (x - l * k) % l = x % l
    BY <2>1, <2>2, DivLess
  <2> QED BY <2>2, <2>3 DEF l
<1> QED BY <1>6, <1>8 DEF a

LEMMA CappedIs ==
  ASSUME NEW n \in Nat
  PROVE  Min({n, Bits + 1}) = IF n <= Bits THEN n ELSE Bits + 1
<1>1. {n, Bits + 1} \in SUBSET Nat /\ {n, Bits + 1} # {}
  BY BitsFact
<1>2. \E x \in {n, Bits + 1} : \A y \in {n, Bits + 1} : x <= y
  BY <1>1, LeastOfNats, Zenon
<1>3. Min({n, Bits + 1}) \in {n, Bits + 1} /\ \A y \in {n, Bits + 1} : Min({n, Bits + 1}) <= y
  BY <1>2, Zenon DEF Min
<1>4. Min({n, Bits + 1}) \in {n, Bits + 1} /\ Min({n, Bits + 1}) <= n /\ Min({n, Bits + 1}) <= Bits + 1
  BY <1>3, Zenon
<1> QED BY <1>4, BitsFact

(* The powers that a shift by fewer than all bits meets. *)
LEMMA ShiftPowers ==
  ASSUME NEW n \in 1 .. Bits - 1
  PROVE  /\ 2 ^ n \in Nat \ {0} /\ 2 ^ (Bits - n) \in Nat \ {0} /\ 2 ^ (n - 1) \in Nat \ {0}
         /\ 2 ^ n * 2 ^ (Bits - n) = M /\ 2 ^ (n - 1) * (2 * 2 ^ (Bits - n)) = M
<1>1. n \in 0 .. Bits /\ Bits - n \in Nat /\ n - 1 \in Nat /\ Bits - n <= Bits + 1
  BY BitsFact
<1>2. 2 ^ n \in Nat \ {0} /\ 2 ^ (Bits - n) \in Nat \ {0} /\ 2 ^ (n - 1) \in Nat \ {0}
  BY <1>1, PowerNat, BitsFact
<1>3. 2 ^ n * 2 ^ (Bits - n) = M
  BY <1>1, PowerSplit
<1>4. 2 ^ n = 2 * 2 ^ (n - 1)
  <2>1. (n - 1) + 1 = n /\ n - 1 \in 0 .. Bits
    BY BitsFact
  <2> QED BY <2>1, PowersAssumption
<1>5. 2 ^ (n - 1) * (2 * 2 ^ (Bits - n)) = (2 * 2 ^ (n - 1)) * 2 ^ (Bits - n)
  BY <1>2
<1> QED BY <1>2, <1>3, <1>4, <1>5

LEMMA WidthPowers ==
  /\ 2 ^ 0 = 1 /\ 2 ^ Bits = M /\ 2 ^ (Bits + 1) = 2 * M /\ 2 ^ (Bits - 1) = Half
  /\ Half \in Nat /\ 0 < Half /\ M = 2 * Half /\ M \in Nat \ {0} /\ 2 * M \in Nat \ {0}
<1>1. 2 ^ (Bits + 1) = 2 * 2 ^ Bits
  BY PowersAssumption, BitsFact
<1>2. 2 ^ 0 = 1
  OBVIOUS
<1> QED BY <1>1, <1>2, HalfFact, WordAssumption DEF Half

(* No shift at all. *)
LEMMA ZeroExact ==
  ASSUME NEW kind \in {"lsl", "lsr", "asr", "ror"}, NEW x \in Word, NEW carry \in BOOLEAN
  PROVE  ShiftsExactly(kind, x, 0, carry, Made(x, carry))
<1>1. Min({0, Bits + 1}) = 0
  BY CappedIs, BitsFact
<1>2. x \in Int /\ 0 <= x /\ x < M
  BY WordIs
<1>3. 2 ^ 0 = 1 /\ x * 1 = x /\ x \div 1 = x /\ Signed(x) \div 1 = Signed(x)
  <2>1. Signed(x) \in Int
    BY SignedInt
  <2> QED BY <1>2, <2>1
<1>4. x % M = x /\ Signed(x) % M = x
  <2>1. x % M = x
    BY <1>2, DivSmall, WidthPowers
  <2>2. CASE Negative(x)
    <3>1. x - M \in Int /\ -M <= x - M /\ x - M < 0 /\ (x - M) + M = x
      BY <1>2, WidthPowers
    <3>2. (x - M) % M = x
      BY <3>1, DivSmall, WidthPowers
    <3> QED BY <2>1, <2>2, <3>2 DEF Signed
  <2>3. CASE ~Negative(x)
    BY <2>1, <2>3 DEF Signed
  <2> QED BY <2>2, <2>3
<1>5. 0 % Bits = 0
  BY BitsFact
<1>6. CASE kind = "lsl"
  BY <1>1, <1>3, <1>4, <1>6 DEF ShiftsExactly, Made
<1>7. CASE kind = "lsr"
  BY <1>1, <1>3, <1>4, <1>7 DEF ShiftsExactly, Made
<1>8. CASE kind = "asr"
  BY <1>1, <1>3, <1>4, <1>8 DEF ShiftsExactly, Made
<1>9. CASE kind = "ror"
  BY <1>3, <1>5, <1>9 DEF ShiftsExactly, Made
<1> QED BY <1>6, <1>7, <1>8, <1>9

LEMMA LeftExact ==
  ASSUME NEW x \in Word, NEW n \in Nat \ {0}, NEW carry \in BOOLEAN
  PROVE  ShiftsExactly("lsl", x, n, carry, ShiftBy("lsl", x, n, carry))
<1> DEFINE k == Min({n, Bits + 1})
           s == ShiftBy("lsl", x, n, carry)
<1>1. k = IF n <= Bits THEN n ELSE Bits + 1
  BY CappedIs
<1>2. x \in Int /\ 0 <= x /\ x < M
  BY WordIs
<1>3. s = IF n < Bits THEN Made((x * 2 ^ n) % M, BitOf(x, Bits - n))
          ELSE Made(0, n = Bits /\ BitOf(x, 0))
  BY DEF ShiftBy
<1> HIDE DEF k, s
<1>4. s.out = (x * 2 ^ k) % M /\ s.carry = BitOf(x * 2 ^ k, Bits)
  <2>1. CASE n < Bits
    <3> DEFINE p == 2 ^ n
               q == 2 ^ (Bits - n)
    <3>1. k = n /\ s = Made((x * p) % M, BitOf(x, Bits - n)) /\ n \in 1 .. Bits - 1
      BY <1>1, <1>3, <2>1, BitsFact
    <3>2. p \in Nat \ {0} /\ q \in Nat \ {0} /\ p * q = M
      BY <3>1, ShiftPowers
    <3>3. (x * p) \div (p * q) = x \div q
      <4> HIDE DEF p, q
      <4> QED BY <1>2, <3>2, DivScaled
    <3>4. BitOf(x * p, Bits) = BitOf(x, Bits - n)
      BY <3>2, <3>3, WidthPowers DEF BitOf
    <3> QED BY <3>1, <3>4 DEF Made
  <2>2. CASE n = Bits
    <3>1. k = Bits /\ s = Made(0, BitOf(x, 0))
      <4>1. k = Bits /\ s = Made(0, n = Bits /\ BitOf(x, 0))
        BY <1>1, <1>3, <2>2, BitsFact
      <4>2. (n = Bits /\ BitOf(x, 0)) = BitOf(x, 0)
        BY <2>2, Zenon DEF BitOf
      <4> QED BY <4>1, <4>2, Zenon
    <3>2. (x * M) % M = 0 /\ (x * M) \div M = x
      <4>1. x * M \in Int /\ 0 \in 0 .. M - 1 /\ x * M = M * x + 0
        BY <1>2, WidthPowers
      <4> QED BY <1>2, <4>1, DivUnique, WidthPowers
    <3>3. x \div 1 = x
      BY <1>2
    <3>4. BitOf(x * M, Bits) = BitOf(x, 0)
      BY <3>2, <3>3, WidthPowers DEF BitOf
    <3> QED BY <3>1, <3>2, <3>4, WidthPowers DEF Made
  <2>3. CASE Bits < n
    <3>1. k = Bits + 1 /\ s = Made(0, FALSE)
      <4>1. k = Bits + 1 /\ s = Made(0, n = Bits /\ BitOf(x, 0)) /\ n # Bits
        BY <1>1, <1>3, <2>3, BitsFact
      <4>2. (n = Bits /\ BitOf(x, 0)) = FALSE
        BY <4>1, Zenon
      <4> QED BY <4>1, <4>2, Zenon
    <3>2. (x * (2 * M)) % M = 0 /\ (x * (2 * M)) \div M = 2 * x
      <4> DEFINE y == x * (2 * M)
                 z == 2 * x
      <4>1. y \in Int /\ z \in Int /\ y = M * z + 0 /\ M \in Nat \ {0} /\ 0 \in 0 .. M - 1
        BY <1>2, WidthPowers
      <4> HIDE DEF y, z
      <4>2. y % M = 0 /\ y \div M = z
        BY <4>1, DivUnique
      <4> QED BY <4>2 DEF y, z
    <3>3. (2 * x) % 2 = 0
      BY <1>2
    <3>4. BitOf(x * (2 * M), Bits) = FALSE
      BY <3>2, <3>3, WidthPowers DEF BitOf
    <3> QED BY <3>1, <3>2, <3>4, WidthPowers DEF Made
  <2> QED BY <2>1, <2>2, <2>3, BitsFact
<1> QED BY <1>4 DEF ShiftsExactly, k, s

LEMMA RightExact ==
  ASSUME NEW x \in Word, NEW n \in Nat \ {0}, NEW carry \in BOOLEAN
  PROVE  ShiftsExactly("lsr", x, n, carry, ShiftBy("lsr", x, n, carry))
<1> DEFINE k == Min({n, Bits + 1})
           s == ShiftBy("lsr", x, n, carry)
<1>1. k = IF n <= Bits THEN n ELSE Bits + 1
  BY CappedIs
<1>2. x \in Int /\ 0 <= x /\ x < M
  BY WordIs
<1>3. s = IF n < Bits THEN Made(x \div 2 ^ n, BitOf(x, n - 1))
          ELSE Made(0, n = Bits /\ Negative(x))
  BY DEF ShiftBy
<1> HIDE DEF k, s
<1>4. s.out = (x \div 2 ^ k) % M /\ s.carry = BitOf(x, k - 1)
  <2>1. CASE n < Bits
    <3>1. k = n /\ s = Made(x \div 2 ^ n, BitOf(x, n - 1)) /\ n \in 1 .. Bits - 1
      BY <1>1, <1>3, <2>1, BitsFact
    <3>2. x \div 2 ^ n \in Word
      BY <3>1, ShiftPowers, QuotientWord
    <3>3. x \div 2 ^ n \in Int /\ 0 <= x \div 2 ^ n /\ x \div 2 ^ n < M
      BY <3>2, WordIs
    <3>4. (x \div 2 ^ n) % M = x \div 2 ^ n
      BY <3>3, DivSmall, WidthPowers
    <3> QED BY <3>1, <3>4 DEF Made
  <2>2. CASE n = Bits
    <3>1. k = Bits /\ s = Made(0, Negative(x))
      <4>1. k = Bits /\ s = Made(0, n = Bits /\ Negative(x))
        BY <1>1, <1>3, <2>2, BitsFact
      <4>2. (n = Bits /\ Negative(x)) = Negative(x)
        <5>1. Negative(x) \in BOOLEAN
          BY DEF Negative
        <5> QED BY <2>2, <5>1, Zenon
      <4> QED BY <4>1, <4>2, Zenon
    <3>2. x \div M = 0 /\ 0 % M = 0
      BY <1>2, DivSmall, WidthPowers
    <3>3. BitOf(x, Bits - 1) <=> Negative(x)
      <4>1. ~Negative(x) => x \div Half = 0
        BY <1>2, DivSmall, WidthPowers DEF Negative
      <4>2. ASSUME Negative(x) PROVE x \div Half = 1
        <5>1. x - Half \in 0 .. Half - 1 /\ x = Half * 1 + (x - Half)
          BY <1>2, <4>2, WidthPowers DEF Negative
        <5> QED BY <1>2, <5>1, DivUnique, WidthPowers
      <4>3. 0 % 2 = 0 /\ 1 % 2 = 1
        OBVIOUS
      <4> QED BY <4>1, <4>2, <4>3, WidthPowers DEF BitOf
    <3>4. Negative(x) \in BOOLEAN /\ BitOf(x, Bits - 1) \in BOOLEAN
      BY DEF Negative, BitOf
    <3> QED BY <3>1, <3>2, <3>3, <3>4, WidthPowers DEF Made
  <2>3. CASE Bits < n
    <3>1. k = Bits + 1 /\ s = Made(0, FALSE) /\ k - 1 = Bits
      <4>1. k = Bits + 1 /\ s = Made(0, n = Bits /\ Negative(x)) /\ n # Bits /\ k - 1 = Bits
        BY <1>1, <1>3, <2>3, BitsFact
      <4>2. (n = Bits /\ Negative(x)) = FALSE
        BY <4>1, Zenon
      <4> QED BY <4>1, <4>2, Zenon
    <3>2. x \div M = 0 /\ x \div (2 * M) = 0 /\ 0 % M = 0
      BY <1>2, DivSmall, WidthPowers
    <3>3. BitOf(x, Bits) = FALSE
      BY <3>2, WidthPowers DEF BitOf
    <3> QED BY <3>1, <3>2, <3>3, WidthPowers DEF Made
  <2> QED BY <2>1, <2>2, <2>3, BitsFact
<1> QED BY <1>4 DEF ShiftsExactly, k, s

LEMMA SignedRightExact ==
  ASSUME NEW x \in Word, NEW n \in Nat \ {0}, NEW carry \in BOOLEAN
  PROVE  ShiftsExactly("asr", x, n, carry, ShiftBy("asr", x, n, carry))
<1> DEFINE k == Min({n, Bits + 1})
           s == ShiftBy("asr", x, n, carry)
           y == Signed(x)
<1>1. k = IF n <= Bits THEN n ELSE Bits + 1
  BY CappedIs
<1>2. x \in Int /\ 0 <= x /\ x < M /\ y \in Int /\ -Half <= y /\ y < Half
  BY WordIs, SignedInt
<1>3. s = IF n < Bits THEN Made((y \div 2 ^ n) % M, BitOf(x, n - 1))
          ELSE Made(IF Negative(x) THEN M - 1 ELSE 0, Negative(x))
  BY DEF ShiftBy
<1>4. y = (IF Negative(x) THEN x - M ELSE x) /\ (Negative(x) <=> y < 0)
  BY <1>2, WidthPowers DEF Signed, Negative
<1>5. Negative(x) \in BOOLEAN
  BY DEF Negative
<1> HIDE DEF k, s, y
<1>6. s.out = (y \div 2 ^ k) % M /\ s.carry = BitOf(y, k - 1)
  <2>1. CASE n < Bits
    <3> DEFINE p == 2 ^ (n - 1)
               q == 2 * 2 ^ (Bits - n)
    <3>1. k = n /\ s = Made((y \div 2 ^ n) % M, BitOf(x, n - 1)) /\ n \in 1 .. Bits - 1
      BY <1>1, <1>3, <2>1, BitsFact
    <3>2. p \in Nat \ {0} /\ p * q = M /\ 2 ^ (Bits - n) \in Nat
      BY <3>1, ShiftPowers
    <3>3. q \in Int
      BY <3>2
    <3>4. ASSUME Negative(x) PROVE y \div p = x \div p - q
      <4>1. y = x - p * q
        BY <1>4, <3>2, <3>4
      <4> HIDE DEF p, q
      <4> QED BY <1>2, <3>2, <3>3, <4>1, DivLess
    <3>5. (x \div p - q) % 2 = (x \div p) % 2
      <4>1. x \div p \in Int
        BY <1>2, <3>2, DivMod
      <4>2. 2 \in Nat \ {0} /\ 2 ^ (Bits - n) \in Int
        BY <3>2
      <4> DEFINE z == x \div p
                 h == 2 ^ (Bits - n)
      <4>3. (z - 2 * h) % 2 = z % 2
        <5>1. z \in Int /\ h \in Int
          BY <4>1, <4>2
        <5> HIDE DEF z, h
        <5> QED BY <5>1
      <4> QED BY <4>3
    <3>6. ~Negative(x) => y = x
      BY <1>4
    <3>7. BitOf(y, n - 1) = BitOf(x, n - 1)
      BY <3>4, <3>5, <3>6 DEF BitOf
    <3> HIDE DEF p, q
    <3> QED BY <3>1, <3>7 DEF Made
  <2>2. ASSUME n >= Bits
        PROVE  s.out = (y \div 2 ^ k) % M /\ s.carry = BitOf(y, k - 1)
    <3> DEFINE p == 2 ^ k
               q == 2 ^ (k - 1)
    <3>1. k \in {Bits, Bits + 1} /\ s = Made(IF Negative(x) THEN M - 1 ELSE 0, Negative(x))
      BY <1>1, <1>3, <2>2, BitsFact
    <3>2. p \in Nat \ {0} /\ q \in Nat \ {0} /\ Half <= q /\ Half <= p
      <4>1. CASE k = Bits
        BY <4>1, WidthPowers
      <4>2. CASE k = Bits + 1
        <5>1. k - 1 = Bits
          BY <4>2, BitsFact
        <5> QED BY <4>2, <5>1, WidthPowers
      <4> QED BY <3>1, <4>1, <4>2
    <3> HIDE DEF p, q
    <3>3. CASE Negative(x)
      <4>1. y \div p = -1 /\ y \div q = -1
        <5>1. -p <= y /\ -q <= y /\ y < 0
          BY <1>2, <1>4, <3>2, <3>3, WidthPowers
        <5> QED BY <1>2, <3>2, <5>1, DivSmall
      <4>2. (-1) % M = M - 1 /\ (-1) % 2 = 1
        <5>1. -1 \in Int /\ -M <= -1 /\ -1 < 0 /\ M \in Nat \ {0} /\ -1 + M = M - 1
          BY WidthPowers
        <5>2. (-1) % M = M - 1
          BY <5>1, DivSmall
        <5>3. (-1) % 2 = 1
          <6>1. -1 \in Int /\ -2 <= -1 /\ -1 < 0 /\ 2 \in Nat \ {0} /\ -1 + 2 = 1
            OBVIOUS
          <6> QED BY <6>1, DivSmall
        <5> QED BY <5>2, <5>3
      <4>3. BitOf(y, k - 1) = TRUE
        BY <4>1, <4>2 DEF BitOf, q
      <4>4. Negative(x) = TRUE
        BY <1>5, <3>3, Zenon
      <4>5. s.out = M - 1 /\ s.carry = Negative(x)
        BY <3>1, <3>3 DEF Made
      <4> QED BY <4>1, <4>2, <4>3, <4>4, <4>5 DEF p
    <3>4. CASE ~Negative(x)
      <4>1. y \div p = 0 /\ y \div q = 0
        <5>1. 0 <= y /\ y < p /\ y < q
          BY <1>2, <1>4, <3>2, <3>4, WidthPowers
        <5> QED BY <1>2, <3>2, <5>1, DivSmall
      <4>2. 0 % M = 0 /\ 0 % 2 = 0
        BY DivSmall, WidthPowers
      <4>3. BitOf(y, k - 1) = FALSE
        BY <4>1, <4>2 DEF BitOf, q
      <4>4. Negative(x) = FALSE
        BY <1>5, <3>4, Zenon
      <4>5. s.out = 0 /\ s.carry = Negative(x)
        BY <3>1, <3>4 DEF Made
      <4> QED BY <4>1, <4>2, <4>3, <4>4, <4>5 DEF p
    <3> QED BY <3>3, <3>4
  <2> QED BY <2>1, <2>2, BitsFact
<1> QED BY <1>6 DEF ShiftsExactly, k, s, y

LEMMA RotateExact ==
  ASSUME NEW x \in Word, NEW n \in Nat \ {0}, NEW carry \in BOOLEAN
  PROVE  ShiftsExactly("ror", x, n, carry, ShiftBy("ror", x, n, carry))
<1> DEFINE r == n % Bits
           p == 2 ^ r
           q == 2 ^ (Bits - r)
           out == ((x \div p) + x * q) % (p * q)
           s == ShiftBy("ror", x, n, carry)
<1>1. x \in Nat /\ x < M
  BY WordIs
<1>2. r \in 0 .. Bits
  BY BitsFact
<1> HIDE DEF r
<1>3. p * q = M /\ p \in Nat \ {0} /\ q \in Nat \ {0} /\ 1 < M
  BY <1>2, PowerSplit, PowerFacts
<1>4. s = Made(out, Negative(out))
  BY <1>3 DEF ShiftBy, RotateRight, r
<1>5. (out * p) % (M - 1) = x % (M - 1)
  <2> HIDE DEF p, q
  <2>1. (out * p) % (p * q - 1) = x % (p * q - 1)
    BY <1>1, <1>3, RotatedIs
  <2> QED BY <1>3, <2>1
<1>6. s.out = out /\ s.carry = Negative(out)
  BY <1>4 DEF Made
<1> HIDE DEF s, out
<1> QED BY <1>5, <1>6 DEF ShiftsExactly, s, r

LEMMA ExtendedRotateExact ==
  ASSUME NEW x \in Word, NEW carry \in BOOLEAN
  PROVE  ShiftsExactly("rrx", x, 0, carry, ShiftBy("ror", x, 0, carry))
<1> DEFINE top == IF carry THEN M ELSE 0
           low == IF carry THEN Half ELSE 0
<1>1. x \in Nat
  BY WordIs
<1>2. low + (x \div 2) = (top + x) \div 2
  BY <1>1, WidthPowers
<1>3. BitOf(x, 0) = (x % 2 = 1)
  BY <1>1, WidthPowers DEF BitOf
<1>4. ShiftBy("ror", x, 0, carry) = Made(low + (x \div 2), BitOf(x, 0))
  BY DEF ShiftBy
<1>5. ShiftBy("ror", x, 0, carry) = Made((top + x) \div 2, x % 2 = 1)
  BY <1>2, <1>3, <1>4, Zenon
<1> QED BY <1>5, Zenon DEF ShiftsExactly

(* What an instruction names a shift: the amount in a register, where no   *)
(* amount is no shift, or one of its own, where none is all or the shift   *)
(* through the carry.                                                      *)
LEMMA ShiftedExactly ==
  ASSUME NEW D, Good(D), NEW x \in Word, NEW s, ShiftOK(s)
  PROVE  LET n == IF s.byRegister THEN regs[s.n] % 256 ELSE s.n
             kind == IF s.kind = "ror" /\ n = 0 /\ ~s.byRegister THEN "rrx" ELSE s.kind
         IN ShiftsExactly(kind, x, n, flags.c, Shifted(x, s))
<1> DEFINE n == IF s.byRegister THEN regs[s.n] % 256 ELSE s.n
           kind == IF s.kind = "ror" /\ n = 0 /\ ~s.byRegister THEN "rrx" ELSE s.kind
           c == flags.c
<1>1. /\ s.kind \in {"lsl", "lsr", "asr", "ror"} /\ s.n \in Nat /\ s.byRegister \in BOOLEAN
      /\ s.byRegister => s.n \in Registers
      /\ ~s.byRegister /\ s.kind \in {"lsr", "asr"} => s.n # 0
  BY DEF ShiftOK
<1>2. c \in BOOLEAN
  BY DEF Good, Flags
<1>3. n \in Nat
  <2>1. ASSUME s.byRegister PROVE regs[s.n] % 256 \in Nat
    <3>1. regs[s.n] \in Nat
      BY <1>1, <2>1, VisibleWord, WordIs
    <3> QED BY <3>1
  <2> QED BY <1>1, <2>1
<1>4. Shifted(x, s) = IF s.byRegister /\ n = 0 THEN Made(x, c) ELSE ShiftBy(s.kind, x, n, c)
  BY DEF Shifted, ShiftByRegister
<1> HIDE DEF n, c
<1>5. CASE n # 0
  <2>1. kind = s.kind /\ Shifted(x, s) = ShiftBy(s.kind, x, n, c) /\ n \in Nat \ {0}
    BY <1>3, <1>4, <1>5
  <2>2. \A k \in {"lsl", "lsr", "asr", "ror"} : ShiftsExactly(k, x, n, c, ShiftBy(k, x, n, c))
    BY <1>2, <2>1, LeftExact, RightExact, SignedRightExact, RotateExact
  <2>3. ShiftsExactly(kind, x, n, c, Shifted(x, s))
    BY <1>1, <2>1, <2>2, Zenon
  <2> QED BY <2>3 DEF n, c
<1>6. CASE n = 0 /\ s.byRegister
  <2>1. kind = s.kind /\ Shifted(x, s) = Made(x, c)
    BY <1>4, <1>6
  <2>2. ShiftsExactly(kind, x, 0, c, Shifted(x, s))
    BY <1>1, <1>2, <2>1, ZeroExact
  <2> QED BY <1>6, <2>2 DEF n, c
<1>7. CASE n = 0 /\ ~s.byRegister
  <2>1. Shifted(x, s) = ShiftBy(s.kind, x, 0, c) /\ s.kind \in {"lsl", "ror"}
    BY <1>1, <1>4, <1>7 DEF n
  <2>2. CASE s.kind = "lsl"
    <3>1. ShiftBy("lsl", x, 0, c) = Made(x, c) /\ kind = "lsl"
      BY <2>2 DEF ShiftBy
    <3>2. ShiftsExactly(kind, x, 0, c, Shifted(x, s))
      BY <1>2, <2>1, <2>2, <3>1, ZeroExact
    <3> QED BY <1>7, <3>2 DEF n, c
  <2>3. CASE s.kind = "ror"
    <3>1. kind = "rrx"
      BY <1>7, <2>3
    <3>2. ShiftsExactly(kind, x, 0, c, Shifted(x, s))
      BY <1>2, <2>1, <2>3, <3>1, ExtendedRotateExact
    <3> QED BY <1>7, <3>2 DEF n, c
  <2> QED BY <2>1, <2>2, <2>3
<1> QED BY <1>1, <1>5, <1>6, <1>7

-----------------------------------------------------------------------------
(* The shifts of the instructions.                                         *)

LEMMA ShiftedMade ==
  ASSUME NEW x, NEW s, ShiftOK(s)
  PROVE  Shifted(x, s) = Made(Shifted(x, s).out, Shifted(x, s).carry)
<1> DEFINE IsMade(t) == \E a, b : t = Made(a, b)
<1>1. \A t : IsMade(t) => t = Made(t.out, t.carry)
  BY DEF Made
<1>2. ASSUME NEW kind \in {"lsl", "lsr", "asr", "ror"}, NEW n, NEW c
      PROVE  IsMade(ShiftBy(kind, x, n, c))
  <2>1. CASE kind = "lsl"
    BY <2>1, Zenon DEF ShiftBy
  <2>2. CASE kind = "lsr"
    BY <2>2, Zenon DEF ShiftBy
  <2>3. CASE kind = "asr"
    BY <2>3, Zenon DEF ShiftBy
  <2>4. CASE kind = "ror"
    BY <2>4, Zenon DEF ShiftBy
  <2> QED BY <1>2, <2>1, <2>2, <2>3, <2>4
<1>3. \A c : IsMade(Made(x, c))
  OBVIOUS
<1>4. s.kind \in {"lsl", "lsr", "asr", "ror"}
  BY DEF ShiftOK
<1> HIDE DEF IsMade
<1>5. IsMade(Shifted(x, s))
  <2>1. \A n, c : IsMade(ShiftBy(s.kind, x, n, c)) /\ IsMade(ShiftByRegister(s.kind, x, n, c))
    BY <1>2, <1>3, <1>4 DEF ShiftByRegister
  <2> QED BY <2>1 DEF Shifted
<1> QED BY <1>1, <1>5

LEMMA ArmClass ==
  ASSUME NEW op
  PROVE  DecodeArm(op).class # "ThumbShiftImmediate"
<1>1. DecodeHalfwordTransfer(op).class # "ThumbShiftImmediate"
  BY DEF DecodeHalfwordTransfer, Joined, Transfer
<1>2. /\ DecodeMultiply(op).class # "ThumbShiftImmediate"
      /\ DecodeMultiplyLong(op).class # "ThumbShiftImmediate"
      /\ DecodeBlxImmediate(op).class # "ThumbShiftImmediate"
      /\ DecodeBlockTransfer(op).class # "ThumbShiftImmediate"
      /\ DecodeBranch(op).class # "ThumbShiftImmediate"
  BY DEF DecodeMultiply, DecodeMultiplyLong, DecodeBlxImmediate, DecodeBlockTransfer, DecodeBranch
<1>3. DecodeDataProcessingImmediate(op).class # "ThumbShiftImmediate"
  BY DEF DecodeDataProcessingImmediate, DecodeDataProcessing, Unknown, Joined
<1>4. DecodeDataProcessingRegister(op).class # "ThumbShiftImmediate"
  BY DEF DecodeDataProcessingRegister, DecodeDataProcessing, Unknown, Joined
<1>5. DecodeSingleDataTransferImmediate(op).class # "ThumbShiftImmediate"
  BY DEF DecodeSingleDataTransferImmediate, Transfer, Joined
<1>6. DecodeSingleDataTransferRegister(op).class # "ThumbShiftImmediate"
  BY DEF DecodeSingleDataTransferRegister, Transfer, Unknown, Joined
<1> QED BY <1>1, <1>2, <1>3, <1>4, <1>5, <1>6 DEF DecodeArm

(* The move of a shifted register in ARM code.                             *)
LEMMA MoveMade ==
  ASSUME NEW D, Good(D), NEW i, NEW s, ArmOK(i), i.class = "DataProcessingRegister",
         i.op = "mov", i.setFlags, i.rd # 15, s = Shifted(Visible(i.rm), i.shift),
         DataProcessingRegister(i)
  PROVE  regs'[i.rd] = s.out /\ flags'.c = s.carry
<1>1. i.rd \in Registers /\ 15 \in Registers
  BY DEF ArmOK, Registers
<1>2. DataProcessing(i, Visible(i.rn), s.out, s.carry)
  BY DEF DataProcessingRegister
<1>3. LogicStep(i, Visible(i.rn), s.out, s.carry)
  BY <1>2 DEF DataProcessing, AddStep, AdcStep, SubStep
<1>4. Logic(i.op, Visible(i.rn), s.out) = s.out
  BY DEF Logic
<1>5. regs' = WithResult(i.rd, s.out) /\ flags' = [NZ(flags, s.out) EXCEPT !.c = s.carry]
  BY <1>3, <1>4 DEF LogicStep
<1>6. WithResult(i.rd, s.out)[i.rd] = s.out
  BY <1>1 DEF WithResult, NextArm, Good, RegisterFile
<1>7. [NZ(flags, s.out) EXCEPT !.c = s.carry].c = s.carry
  BY DEF Good, Flags, NZ
<1> QED BY <1>5, <1>6, <1>7

(* The shift of a register in Thumb code.                                  *)
LEMMA ThumbShiftMade ==
  ASSUME NEW D, Good(D), NEW i, NEW s, ThumbOK(i), i.class = "ThumbShiftImmediate",
         s = Shifted(regs[i.rs], i.shift), ThumbShiftImmediate(i)
  PROVE  regs'[i.rd] = s.out /\ flags'.c = s.carry
<1>1. i.rd \in Registers /\ i.rd # 15 /\ 15 \in Registers
  BY DEF ThumbOK, Registers, Low
<1>2. /\ regs' = NextThumb([regs EXCEPT ![i.rd] = s.out])
      /\ flags' = [NZ(flags, s.out) EXCEPT !.c = s.carry]
  BY DEF ThumbShiftImmediate, Writes
<1>3. NextThumb([regs EXCEPT ![i.rd] = s.out])[i.rd] = s.out
  BY <1>1 DEF NextThumb, Good, RegisterFile
<1>4. [NZ(flags, s.out) EXCEPT !.c = s.carry].c = s.carry
  BY DEF Good, Flags, NZ
<1> QED BY <1>2, <1>3, <1>4

ShiftedIn(i, x) ==
  LET n == IF i.shift.byRegister THEN regs[i.shift.n] % 256 ELSE i.shift.n
      kind == IF i.shift.kind = "ror" /\ n = 0 /\ ~i.shift.byRegister THEN "rrx"
              ELSE i.shift.kind
  IN ShiftsExactly(kind, x, n, flags.c, Made(regs'[i.rd], flags'.c))

LEMMA ShiftStep ==
  ASSUME MachineInv, Next, IsShift
  PROVE  LET i == Instruction
             x == IF thumb THEN regs[i.rs] ELSE Visible(i.rm)
         IN ShiftedIn(i, x)
<1> DEFINE i == Instruction
<1>1. PICK D : Good(D)
  BY DEF MachineInv
<1>2. Running /\ Pc \notin DOMAIN HostAt /\ Fetched
  BY DEF IsShift, Executes
<1>3. GuestStep
  BY <1>2 DEF Next, HostCall
<1>4. CASE thumb
  <2>1. IsOpcode(Opcode, 4) /\ i = DecodeThumb(Opcode) /\ ExecuteThumb(Opcode)
    BY <1>2, <1>3, <1>4, OpcodeIs DEF GuestStep, Instruction
  <2>2. ThumbOK(i)
    BY <2>1, ThumbDecodedOK
  <2>3. i.class \in {"ThumbShiftImmediate", "DataProcessingRegister"}
    BY DEF IsShift
  <2>4. ExecuteThumb(Opcode) <=> ExecuteThumb(Opcode) /\ i = DecodeThumb(Opcode)
    BY <2>1
  <2> HIDE DEF i
  <2>5. i.class = "ThumbShiftImmediate" /\ ThumbShiftImmediate(i)
    BY <2>1, <2>3 DEF ExecuteThumb
  <2> DEFINE s == Shifted(regs[i.rs], i.shift)
  <2>6. regs'[i.rd] = s.out /\ flags'.c = s.carry
    BY <1>1, <2>2, <2>5, ThumbShiftMade
  <2>7. regs[i.rs] \in Word /\ ShiftOK(i.shift)
    BY <1>1, <2>2, <2>5, VisibleWord, LowRegister DEF ThumbOK
  <2>8. ShiftedIn(i, regs[i.rs])
    BY <1>1, <2>6, <2>7, ShiftedExactly, ShiftedMade DEF ShiftedIn
  <2> QED BY <1>4, <2>8 DEF i
<1>5. CASE ~thumb
  <2>1. IsOpcode(Opcode, 8) /\ i = DecodeArm(Opcode) /\ ExecuteArm(Opcode)
    BY <1>2, <1>3, <1>5, OpcodeIs DEF GuestStep, Instruction
  <2>2. ArmOK(i)
    BY <2>1, ArmDecodedOK
  <2>3. /\ i.class = "DataProcessingRegister" /\ i.op = "mov" /\ i.setFlags /\ i.rd # 15
        /\ Passed(flags, Digit(Opcode, 7))
    BY <2>1, ArmClass DEF IsShift
  <2> HIDE DEF i
  <2>5. DataProcessingRegister(i)
    BY <2>1, <2>3 DEF ExecuteArm
  <2> DEFINE s == Shifted(Visible(i.rm), i.shift)
  <2>6. regs'[i.rd] = s.out /\ flags'.c = s.carry
    BY <1>1, <2>2, <2>3, <2>5, MoveMade
  <2>7. Visible(i.rm) \in Word /\ ShiftOK(i.shift)
    BY <1>1, <2>2, <2>3, VisibleWord DEF ArmOK
  <2>8. ShiftedIn(i, Visible(i.rm))
    BY <1>1, <2>6, <2>7, ShiftedExactly, ShiftedMade DEF ShiftedIn
  <2> QED BY <1>5, <2>8 DEF i
<1>6. thumb \in BOOLEAN
  BY <1>1 DEF Good
<1> QED BY <1>4, <1>5, <1>6

(* A shift in the instructions is the shift in the integers, for every     *)
(* width of the words, every word and every amount (apply_register_shift   *)
(* and the two decoders).                                                  *)
THEOREM ShiftsAreExact == Spec => ShiftsExact
<1>1. Init => MachineInv
  BY InitGood
<1>2. MachineInv /\ [Next]_vars => MachineInv'
  BY NextGood
<1>3. MachineInv /\ [Next]_vars =>
        [IsShift =>
           LET i == Instruction
               x == IF thumb THEN regs[i.rs] ELSE Visible(i.rm)
           IN ShiftedIn(i, x)]_vars
  BY ShiftStep
<1> QED BY <1>1, <1>2, <1>3, PTL DEF Spec, ShiftsExact, ShiftedIn

-----------------------------------------------------------------------------
(* The C library against the C standard.                                   *)

(* The memory of a guest has no null address.                              *)
Null(D) == Guest(D) /\ 0 \notin D

(* What is mapped one byte after the other does not go round.              *)
LEMMA NoWrap ==
  ASSUME NEW D, Null(D), NEW a \in Word, NEW n \in Nat, \A k \in Offsets(n) : At(a, k) \in D
  PROVE  a + n <= M /\ \A k \in Offsets(n) : At(a, k) = a + k
<1>1. a \in Nat /\ a < M /\ M \in Nat \ {0}
  BY WordIs, HalfFact
<1>2. a + n <= M
  <2> SUFFICES ASSUME a + n > M
               PROVE  FALSE
    BY <1>1
  <2>1. M - a \in Offsets(n) /\ a + (M - a) = M
    BY <1>1 DEF Offsets
  <2>2. M % M = 0
    <3>1. 0 \in 0 .. M - 1 /\ M = M * 1 + 0 /\ 1 \in Int /\ M \in Int
      BY <1>1
    <3> QED BY <1>1, <3>1, DivUnique
  <2> QED BY <2>1, <2>2 DEF At, Null
<1>3. ASSUME NEW k \in Offsets(n)
      PROVE  At(a, k) = a + k
  <2>1. a + k \in Int /\ 0 <= a + k /\ a + k < M
    BY <1>1, <1>2 DEF Offsets
  <2> QED BY <1>1, <2>1, DivSmall DEF At
<1> QED BY <1>2, <1>3

(* What is allocated is mapped where it is.                                *)
LEMMA AllocatedIs ==
  ASSUME NEW D, Guest(D), NEW a \in Word, NEW n \in Nat, Allocated(mem, a, n)
  PROVE  /\ a + n <= M
         /\ \A k \in Offsets(n) : At(a, k) = a + k /\ a + k \in D /\ ~Unmapped(a, k)
<1>1. a \in Nat /\ a < M /\ M \in Nat \ {0}
  BY WordIs, HalfFact
<1>2. DOMAIN mem = D /\ \A x \in D : x \in Nat /\ x < M
  BY BytesRead, WordIs DEF Guest
<1>3. a + n <= M
  <2>1. CASE n = 0
    BY <1>1, <2>1
  <2>2. CASE n # 0
    <3>1. a + n - 1 \in a .. a + n - 1
      BY <1>1, <2>2
    <3>2. a + n - 1 < M
      BY <1>2, <3>1 DEF Allocated
    <3> QED BY <1>1, <3>2
  <2> QED BY <2>1, <2>2
<1>4. ASSUME NEW k \in Offsets(n)
      PROVE  At(a, k) = a + k /\ a + k \in D
  <2>1. a + k \in a .. a + n - 1
    BY <1>1 DEF Offsets
  <2>2. a + k \in D
    BY <1>2, <2>1 DEF Allocated
  <2>3. a + k \in Int /\ 0 <= a + k /\ a + k < M
    BY <1>2, <2>2
  <2> QED BY <1>1, <2>2, <2>3, DivSmall DEF At
<1> QED BY <1>2, <1>3, <1>4 DEF Unmapped

(* Bytes are written where they are said to be.                            *)
LEMMA WrittenIs ==
  ASSUME NEW D, Guest(D), NEW a \in Word, NEW n \in Nat, a + n <= M,
         NEW bytes, DOMAIN bytes = Offsets(n)
  PROVE  Written(a, bytes) =
           [x \in D |-> IF x \in a .. a + n - 1 THEN bytes[x - a] ELSE mem[x]]
<1>1. a \in Nat /\ a < M /\ M \in Nat \ {0}
  BY WordIs, HalfFact
<1>2. DOMAIN mem = D /\ \A x \in D : x \in Nat /\ x < M
  BY BytesRead, WordIs DEF Guest
<1>3. ASSUME NEW x \in D
      PROVE  /\ (x - a) % M \in Offsets(n) <=> x \in a .. a + n - 1
             /\ x \in a .. a + n - 1 => (x - a) % M = x - a
  <2>1. x \in Nat /\ x < M /\ x - a \in Int
    BY <1>1, <1>2
  <2>2. CASE a <= x
    <3>1. 0 <= x - a /\ x - a < M
      BY <1>1, <2>1, <2>2
    <3>2. (x - a) % M = x - a
      BY <1>1, <2>1, <3>1, DivSmall
    <3> QED BY <1>1, <2>1, <2>2, <3>2 DEF Offsets
  <2>3. CASE ~(a <= x)
    <3>1. -M <= x - a /\ x - a < 0
      BY <1>1, <2>1, <2>3
    <3>2. (x - a) % M = x - a + M
      BY <1>1, <2>1, <3>1, DivSmall
    <3> QED BY <1>1, <2>1, <2>3, <3>2 DEF Offsets
  <2> QED BY <2>2, <2>3
<1> QED BY <1>2, <1>3 DEF Written

LEMMA WrittenOverlay ==
  ASSUME NEW D, Guest(D), NEW a \in Word, NEW e, Len(e) \in Nat, a + Len(e) <= M,
         NEW bytes, DOMAIN bytes = Offsets(Len(e)),
         \A k \in Offsets(Len(e)) : bytes[k] = e[k + 1]
  PROVE  Written(a, bytes) = Overlay(mem, a, e)
<1> DEFINE n == Len(e)
<1>1. a \in Nat /\ n \in Nat
  BY WordIs
<1>2. DOMAIN mem = D /\ \A x \in D : x \in Nat
  BY BytesRead, WordIs DEF Guest
<1>3. Written(a, bytes) = [x \in D |-> IF x \in a .. a + n - 1 THEN bytes[x - a] ELSE mem[x]]
  BY WrittenIs
<1>4. ASSUME NEW x \in D, x \in a .. a + n - 1
      PROVE  bytes[x - a] = e[x - a + 1]
  <2>1. x - a \in Offsets(n)
    BY <1>1, <1>4 DEF Offsets
  <2> QED BY <2>1
<1> QED BY <1>2, <1>3, <1>4 DEF Overlay

(* Bytes that are all mapped change nothing but themselves.                *)
LEMMA WrittenChanges ==
  ASSUME NEW D, Null(D), NEW a \in Word, NEW n \in Nat, \A k \in Offsets(n) : ~Unmapped(a, k),
         NEW bytes, DOMAIN bytes = Offsets(n)
  PROVE  \A x \in D : Written(a, bytes)[x] # mem[x] => a <= x /\ x < a + n
<1>1. DOMAIN mem = D /\ Guest(D)
  BY BytesRead DEF Null
<1>2. a + n <= M
  BY <1>1, NoWrap DEF Unmapped
<1>3. Written(a, bytes) = [x \in D |-> IF x \in a .. a + n - 1 THEN bytes[x - a] ELSE mem[x]]
  BY <1>1, <1>2, WrittenIs
<1>4. a \in Nat /\ \A x \in D : x \in Nat
  BY <1>1, WordIs DEF Guest
<1> QED BY <1>3, <1>4

(* A loop that nothing stops, and one that stops first at k.               *)
LEMMA FirstNone ==
  ASSUME NEW n \in Nat, NEW S \in SUBSET Offsets(n), S = {}
  PROVE  FirstOf(S, n) = n
  BY FirstIs

LEMMA FirstAt ==
  ASSUME NEW n \in Nat, NEW S \in SUBSET Offsets(n), NEW k \in S, \A j \in Offsets(k) : j \notin S
  PROVE  FirstOf(S, n) = k
<1>1. /\ FirstOf(S, n) \in 0 .. n /\ FirstOf(S, n) \in S \cup {n}
      /\ \A j \in Offsets(FirstOf(S, n)) : j \notin S
  BY FirstIs
<1>2. k \in Nat /\ k < n
  BY DEF Offsets
<1>3. ~(k < FirstOf(S, n))
  BY <1>1, <1>2 DEF Offsets
<1>4. ~(FirstOf(S, n) < k)
  BY <1>1, <1>2, <1>3 DEF Offsets
<1> QED BY <1>1, <1>2, <1>3, <1>4

LEMMA LeastIs ==
  ASSUME NEW T \in SUBSET Nat, NEW x \in T, \A y \in T : x <= y
  PROVE  Min(T) = x
<1>1. Min(T) \in T /\ \A y \in T : Min(T) <= y
  BY Zenon DEF Min
<1>2. Min(T) \in Nat /\ x \in Nat
  BY <1>1
<1> QED BY <1>1, <1>2

-----------------------------------------------------------------------------
(* The functions that copy.                                                *)

(* What a call of a function that copies leaves, error or not: f.          *)
Within(name, a, c, f) ==
  \A x \in DOMAIN mem : f.mem[x] # mem[x] => a <= x /\ (name \in Copying => x < a + c)
CopyLikeC(name, a, b, c, f) == Within(name, a, c, f) /\ CopiesLikeC(name, a, b, c, f)

LEMMA WithinIs ==
  ASSUME NEW D, Null(D), NEW a \in Word, NEW len \in Nat, NEW n \in 0 .. len,
         NEW bytes, DOMAIN bytes = Offsets(n), \A k \in Offsets(n) : ~Unmapped(a, k),
         NEW name, NEW r, NEW ok
  PROVE  /\ Within(name, a, len, Ends(Written(a, bytes), r, ok))
         /\ Within(name, a, len, Broken(mem))
<1>1. n \in Nat /\ DOMAIN mem = D
  BY BytesRead DEF Null
<1>2. \A x \in D : Written(a, bytes)[x] # mem[x] => a <= x /\ x < a + n
  BY <1>1, WrittenChanges
<1>3. \A x \in D : x \in Nat /\ a \in Nat
  BY WordIs DEF Null, Guest
<1>4. \A x \in D : x < a + n => x < a + len
  BY <1>1, <1>3
<1>5. Ends(Written(a, bytes), r, ok).mem = Written(a, bytes) /\ Broken(mem).mem = mem
  BY DEF Ends, Returned, Broken
<1> QED BY <1>1, <1>2, <1>4, <1>5 DEF Within

(* A source that the copy does not reach is read as it was.                *)
LEMMA SourceApart ==
  ASSUME NEW dst \in Word, NEW src \in Word, NEW n \in Nat, src + n <= M,
         src + n <= dst \/ dst < src, NEW k \in Offsets(n)
  PROVE  Source(dst, src, k) = At(src, k)
<1> DEFINE ahead == (dst - src) % M
<1>1. /\ dst \in Nat /\ dst < M /\ src \in Nat /\ src < M /\ M \in Nat \ {0}
      /\ k \in Nat /\ k < n
  BY WordIs, HalfFact DEF Offsets
<1>2. ahead \in Nat /\ k < ahead
  <2>1. CASE src + n <= dst
    <3>1. dst - src \in Int /\ 0 <= dst - src /\ dst - src < M /\ k < dst - src
      BY <1>1, <2>1
    <3>2. ahead = dst - src
      BY <1>1, <3>1, DivSmall
    <3> QED BY <1>1, <3>1, <3>2
  <2>2. CASE dst < src
    <3>1. dst - src \in Int /\ -M <= dst - src /\ dst - src < 0 /\ k < dst - src + M
      BY <1>1, <2>2
    <3>2. ahead = dst - src + M
      BY <1>1, <3>1, DivSmall
    <3> QED BY <1>1, <3>1, <3>2
  <2> QED BY <2>1, <2>2
<1> HIDE DEF ahead
<1>3. k % ahead = k /\ ahead # 0
  BY <1>1, <1>2, DivSmall
<1> QED BY <1>3 DEF Source, ahead

LEMMA MemcpyLikeC ==
  ASSUME NEW D, Null(D), NEW a \in Word, NEW b \in Word, NEW c \in Word
  PROVE  CopyLikeC("memcpy", a, b, c, Memcpy(a, b, c))
<1> DEFINE S == {k \in Offsets(c) : Stops(a, b, k)}
           n == FirstOf(S, c)
           bytes == [k \in Offsets(n) |-> mem[Source(a, b, k)]]
<1>0. c \in Nat /\ Guest(D)
  BY WordIs DEF Null
<1>1. n \in 0 .. c /\ \A k \in Offsets(n) : k \in Offsets(c) /\ k \notin S
  BY <1>0, FirstIs
<1>2. Memcpy(a, b, c) = Ends(Written(a, bytes), a, n = c)
  BY DEF Memcpy
<1>3. DOMAIN bytes = Offsets(n) /\ \A k \in Offsets(n) : ~Unmapped(a, k)
  BY <1>1 DEF Stops
<1>4. Within("memcpy", a, c, Memcpy(a, b, c))
  <2> HIDE DEF n, bytes
  <2> QED BY <1>0, <1>1, <1>2, <1>3, WithinIs
<1>5. ASSUME Allocated(mem, b, c), Apart(a, c, b, c), Allocated(mem, a, Len(Bytes(mem, b, c)))
      PROVE  Memcpy(a, b, c) = [mem |-> Overlay(mem, a, Bytes(mem, b, c)), ok |-> TRUE, r0 |-> a]
  <2> DEFINE e == Bytes(mem, b, c)
  <2>1. Len(e) = c /\ \A k \in 1 .. c : e[k] = mem[b + k - 1]
    BY <1>0 DEF Bytes
  <2>2. /\ a + c <= M /\ b + c <= M
        /\ \A k \in Offsets(c) : ~Unmapped(a, k) /\ At(b, k) = b + k /\ b + k \in D
    BY <1>0, <1>5, <2>1, AllocatedIs
  <2>3. \A k \in Offsets(c) : Source(a, b, k) = b + k
    <3> TAKE k \in Offsets(c)
    <3>1. b + c <= a \/ a < b
      BY <1>0, <1>5, WordIs DEF Apart, Offsets
    <3> QED BY <1>0, <2>2, <3>1, SourceApart
  <2>4. S = {}
    BY <2>2, <2>3, BytesRead, <1>0 DEF Stops, SourceUnmapped
  <2>5. n = c
    BY <1>0, <2>4, FirstNone
  <2>6. \A k \in Offsets(c) : bytes[k] = e[k + 1]
    <3> TAKE k \in Offsets(c)
    <3>1. k + 1 \in 1 .. c /\ b + (k + 1) - 1 = b + k
      BY <1>0, WordIs DEF Offsets
    <3> QED BY <2>1, <2>3, <2>5, <3>1
  <2>7. DOMAIN bytes = Offsets(c) /\ n = c
    BY <2>5
  <2> HIDE DEF n, bytes, e
  <2>8. a \in Word /\ DOMAIN bytes = Offsets(Len(e)) /\ Len(e) \in Nat /\ a + Len(e) <= M
        /\ \A k \in Offsets(Len(e)) : bytes[k] = e[k + 1]
    BY <1>0, <2>1, <2>2, <2>6, <2>7
  <2>9. Written(a, bytes) = Overlay(mem, a, e)
    BY ONLY <1>0, <2>8, WrittenOverlay
  <2> QED BY <1>2, <2>7, <2>9 DEF Ends, Returned, e
<1> QED BY <1>4, <1>5 DEF CopyLikeC, CopiesLikeC, Copied, Wanted

LEMMA MemmoveLikeC ==
  ASSUME NEW D, Null(D), NEW a \in Word, NEW b \in Word, NEW c \in Word
  PROVE  CopyLikeC("memmove", a, b, c, Memmove(a, b, c))
<1> DEFINE S == {k \in Offsets(c) : Unmapped(a, k)}
           n == FirstOf(S, c)
           bytes == [k \in Offsets(n) |-> mem[At(b, k)]]
           broken == \E k \in Offsets(c) : Unmapped(b, k)
<1>0. c \in Nat /\ Guest(D)
  BY WordIs DEF Null
<1>1. n \in 0 .. c /\ \A k \in Offsets(n) : k \in Offsets(c) /\ k \notin S
  BY <1>0, FirstIs
<1>2. /\ broken => Memmove(a, b, c) = Broken(mem)
      /\ ~broken => Memmove(a, b, c) = Ends(Written(a, bytes), a, n = c)
  BY DEF Memmove
<1>3. DOMAIN bytes = Offsets(n) /\ \A k \in Offsets(n) : ~Unmapped(a, k)
  BY <1>1
<1>4. Within("memmove", a, c, Memmove(a, b, c))
  <2> HIDE DEF n, bytes, broken
  <2>1. /\ Within("memmove", a, c, Ends(Written(a, bytes), a, n = c))
        /\ Within("memmove", a, c, Broken(mem))
    BY <1>0, <1>1, <1>3, WithinIs
  <2> QED BY <2>1, <1>2
<1>5. ASSUME Allocated(mem, b, c), Allocated(mem, a, Len(Bytes(mem, b, c)))
      PROVE  Memmove(a, b, c) = [mem |-> Overlay(mem, a, Bytes(mem, b, c)), ok |-> TRUE, r0 |-> a]
  <2> DEFINE e == Bytes(mem, b, c)
  <2>1. Len(e) = c /\ \A k \in 1 .. c : e[k] = mem[b + k - 1]
    BY <1>0 DEF Bytes
  <2>2. /\ a + c <= M /\ \A k \in Offsets(c) : ~Unmapped(a, k)
        /\ \A k \in Offsets(c) : At(b, k) = b + k /\ ~Unmapped(b, k)
    BY <1>0, <1>5, <2>1, AllocatedIs
  <2>3. S = {} /\ ~broken
    BY <2>2
  <2>5. n = c
    BY <1>0, <2>3, FirstNone
  <2>6. \A k \in Offsets(c) : bytes[k] = e[k + 1]
    <3> TAKE k \in Offsets(c)
    <3>1. k + 1 \in 1 .. c /\ b + (k + 1) - 1 = b + k
      BY <1>0, WordIs DEF Offsets
    <3> QED BY <2>1, <2>2, <2>5, <3>1
  <2>7. DOMAIN bytes = Offsets(c)
    BY <2>5
  <2> HIDE DEF n, bytes, e, broken
  <2>8. a \in Word /\ DOMAIN bytes = Offsets(Len(e)) /\ Len(e) \in Nat /\ a + Len(e) <= M
        /\ \A k \in Offsets(Len(e)) : bytes[k] = e[k + 1]
    BY <1>0, <2>1, <2>2, <2>6, <2>7
  <2>9. Written(a, bytes) = Overlay(mem, a, e)
    BY ONLY <1>0, <2>8, WrittenOverlay
  <2> QED BY <1>2, <2>3, <2>5, <2>9 DEF Ends, Returned, e
<1> QED BY <1>4, <1>5 DEF CopyLikeC, CopiesLikeC, Copied, Wanted

LEMMA MemsetLikeC ==
  ASSUME NEW D, Null(D), NEW a \in Word, NEW b \in Word, NEW c \in Word
  PROVE  CopyLikeC("memset", a, b, c, Memset(a, b, c))
<1> DEFINE S == {k \in Offsets(c) : Unmapped(a, k)}
           n == FirstOf(S, c)
           bytes == [k \in Offsets(n) |-> b % Byte]
           e == [k \in 1 .. c |-> b % Byte]
<1>0. c \in Nat /\ Guest(D)
  BY WordIs DEF Null
<1>1. n \in 0 .. c /\ \A k \in Offsets(n) : k \in Offsets(c) /\ k \notin S
  BY <1>0, FirstIs
<1>2. Memset(a, b, c) = Ends(Written(a, bytes), a, n = c)
  BY DEF Memset
<1>3. DOMAIN bytes = Offsets(n) /\ \A k \in Offsets(n) : ~Unmapped(a, k)
  BY <1>1
<1>4. Within("memset", a, c, Memset(a, b, c))
  <2> HIDE DEF n, bytes
  <2> QED BY <1>0, <1>1, <1>2, <1>3, WithinIs
<1>5. ASSUME Allocated(mem, a, Len(e))
      PROVE  Memset(a, b, c) = [mem |-> Overlay(mem, a, e), ok |-> TRUE, r0 |-> a]
  <2>1. Len(e) = c /\ \A k \in Offsets(c) : e[k + 1] = b % Byte
    BY <1>0 DEF Offsets
  <2>2. a + c <= M /\ \A k \in Offsets(c) : ~Unmapped(a, k)
    BY <1>0, <1>5, <2>1, AllocatedIs
  <2>3. S = {}
    BY <2>2
  <2>5. n = c
    BY <1>0, <2>3, FirstNone
  <2>6. DOMAIN bytes = Offsets(c) /\ \A k \in Offsets(c) : bytes[k] = b % Byte
    BY <2>5
  <2> HIDE DEF n, bytes, e
  <2>8. a \in Word /\ DOMAIN bytes = Offsets(Len(e)) /\ Len(e) \in Nat /\ a + Len(e) <= M
        /\ \A k \in Offsets(Len(e)) : bytes[k] = e[k + 1]
    BY <1>0, <2>1, <2>2, <2>6
  <2>9. Written(a, bytes) = Overlay(mem, a, e)
    BY ONLY <1>0, <2>8, WrittenOverlay
  <2> QED BY <1>2, <2>5, <2>9 DEF Ends, Returned
<1> QED BY <1>4, <1>5 DEF CopyLikeC, CopiesLikeC, Copied, Wanted

LEMMA StrncpyLikeC ==
  ASSUME NEW D, Null(D), NEW a \in Word, NEW b \in Word, NEW c \in Word
  PROVE  CopyLikeC("strncpy", a, b, c, Strncpy(a, b, c))
<1> DEFINE end == SourceLength(a, b, c)
           S == {k \in Offsets(c) : Unmapped(a, k) \/ (k <= end /\ SourceUnmapped(a, b, k))}
           n == FirstOf(S, c)
           bytes == [k \in Offsets(n) |-> IF k < end THEN mem[Source(a, b, k)] ELSE 0]
           e == Copied("strncpy", a, b, c)
<1>0. c \in Nat /\ Guest(D)
  BY WordIs DEF Null
<1>1. n \in 0 .. c /\ \A k \in Offsets(n) : k \in Offsets(c) /\ k \notin S
  BY <1>0, FirstIs
<1>2. Strncpy(a, b, c) = Ends(Written(a, bytes), a, n = c)
  BY DEF Strncpy
<1>3. DOMAIN bytes = Offsets(n) /\ \A k \in Offsets(n) : ~Unmapped(a, k)
  BY <1>1
<1>4. Within("strncpy", a, c, Strncpy(a, b, c))
  <2> HIDE DEF n, bytes
  <2> QED BY <1>0, <1>1, <1>2, <1>3, WithinIs
<1>5. ASSUME Allocated(mem, b, c), Apart(a, c, b, c), Allocated(mem, a, Len(e))
      PROVE  Strncpy(a, b, c) = [mem |-> Overlay(mem, a, e), ok |-> TRUE, r0 |-> a]
  <2>1. /\ Len(e) = c
        /\ \A k \in 1 .. c :
             e[k] = IF \E j \in 1 .. k : mem[b + j - 1] = 0 THEN 0 ELSE mem[b + k - 1]
    BY <1>0 DEF Copied
  <2>2. /\ a + c <= M /\ b + c <= M
        /\ \A k \in Offsets(c) : ~Unmapped(a, k) /\ At(b, k) = b + k /\ b + k \in D
    BY <1>0, <1>5, <2>1, AllocatedIs
  <2>3. \A k \in Offsets(c) : Source(a, b, k) = b + k
    <3> TAKE k \in Offsets(c)
    <3>1. b + c <= a \/ a < b
      BY <1>0, <1>5, WordIs DEF Apart, Offsets
    <3> QED BY <1>0, <2>2, <3>1, SourceApart
  <2>4. /\ end \in 0 .. c /\ (end # c => mem[b + end] = 0)
        /\ \A k \in Offsets(end) : mem[b + k] # 0
    <3> DEFINE E == {k \in Offsets(c) : SourceEnds(a, b, k)}
    <3>1. \A k \in Offsets(c) : SourceEnds(a, b, k) <=> mem[b + k] = 0
      BY <1>0, <2>2, <2>3, BytesRead DEF SourceEnds, SourceUnmapped
    <3>2. FirstOf(E, c) \in 0 .. c /\ FirstOf(E, c) \in E \cup {c}
          /\ \A k \in Offsets(FirstOf(E, c)) : k \in Offsets(c) /\ k \notin E
      BY <1>0, FirstIs
    <3>3. end = FirstOf(E, c)
      BY DEF SourceLength
    <3> HIDE DEF end
    <3> QED BY <3>1, <3>2, <3>3
  <2>5. n = c
    <3>1. S = {}
      BY <2>2, <2>3, BytesRead, <1>0 DEF SourceUnmapped
    <3> QED BY <1>0, <3>1, FirstNone
  <2>6. ASSUME NEW k \in Offsets(c)
        PROVE  bytes[k] = e[k + 1]
    <3>1. /\ k \in Nat /\ b \in Nat /\ k < c /\ k + 1 \in 1 .. c /\ b + (k + 1) - 1 = b + k
          /\ bytes[k] = IF k < end THEN mem[b + k] ELSE 0
      BY <1>0, <2>3, <2>5, WordIs DEF Offsets
    <3>2. CASE k < end
      <4>1. ASSUME NEW j \in 1 .. k + 1
            PROVE  mem[b + j - 1] # 0
        <5>1. j - 1 \in Offsets(end) /\ b + (j - 1) = b + j - 1
          BY <3>1, <3>2, <2>4 DEF Offsets
        <5> QED BY <5>1, <2>4
      <4> QED BY <2>1, <3>1, <3>2, <4>1
    <3>3. CASE ~(k < end)
      <4>1. end + 1 \in 1 .. k + 1 /\ b + (end + 1) - 1 = b + end /\ end # c
        BY <3>1, <3>3, <2>4
      <4>2. \E j \in 1 .. k + 1 : mem[b + j - 1] = 0
        BY <4>1, <2>4
      <4> QED BY <2>1, <3>1, <3>3, <4>2
    <3> QED BY <3>2, <3>3
  <2>7. DOMAIN bytes = Offsets(c)
    BY <2>5
  <2> HIDE DEF n, bytes, e
  <2>8. a \in Word /\ DOMAIN bytes = Offsets(Len(e)) /\ Len(e) \in Nat /\ a + Len(e) <= M
        /\ \A k \in Offsets(Len(e)) : bytes[k] = e[k + 1]
    BY <1>0, <2>1, <2>2, <2>6, <2>7
  <2>9. Written(a, bytes) = Overlay(mem, a, e)
    BY ONLY <1>0, <2>8, WrittenOverlay
  <2> QED BY <1>2, <2>5, <2>9 DEF Ends, Returned
<1> QED BY <1>4, <1>5 DEF CopyLikeC, CopiesLikeC, Wanted

-----------------------------------------------------------------------------
(* Strings.                                                                *)

(* A string, its end and its bytes.                                        *)
LEMMA StringIs ==
  ASSUME NEW D, Null(D), NEW a \in Word, IsString(mem, a)
  PROVE  LET s == StringOf(mem, a)
             n == Len(s)
         IN /\ n \in Nat /\ a + n + 1 <= M /\ Allocated(mem, a, n + 1)
            /\ DOMAIN s = 1 .. n /\ s \in [1 .. n -> Bytes8] /\ s \in Seq(Bytes8)
            /\ \A k \in Offsets(n) : s[k + 1] = mem[a + k] /\ mem[a + k] # 0
            /\ mem[a + n] = 0
<1> DEFINE T == {x \in DOMAIN mem : a <= x /\ mem[x] = 0}
           e == Min(T)
           n == e - a
           s == StringOf(mem, a)
<1>0. a \in Nat /\ Guest(D) /\ DOMAIN mem = D /\ \A x \in D : x \in Nat /\ x < M
  BY BytesRead, WordIs DEF Null, Guest
<1>1. PICK x \in D : mem[x] = 0 /\ a .. x \subseteq D /\ a <= x
  BY <1>0 DEF IsString
<1>2. PICK y \in T : \A z \in T : y <= z
  <2>1. T \in SUBSET Nat /\ T # {}
    BY <1>0, <1>1
  <2> QED BY <2>1, LeastOfNats
<1>3. e = y
  <2>1. T \in SUBSET Nat
    BY <1>0
  <2> QED BY <2>1, <1>2, LeastIs
<1>4. /\ e \in D /\ e \in Nat /\ a <= e /\ e <= x /\ mem[e] = 0
      /\ \A z \in D : a <= z /\ z < e => mem[z] # 0
  BY <1>0, <1>1, <1>2, <1>3
<1> HIDE DEF e, T
<1>5. n \in Nat /\ a + n = e /\ e < M /\ e + 1 <= M /\ a + n + 1 = e + 1
  BY <1>0, <1>4, HalfFact
<1>6. a .. e \subseteq D
  BY <1>0, <1>1, <1>4
<1>7. s = [k \in 1 .. n |-> mem[a + k - 1]]
  BY DEF StringOf, Bytes, T, e
<1>8. ASSUME NEW k \in Offsets(n)
      PROVE  a + k \in D /\ s[k + 1] = mem[a + k] /\ mem[a + k] # 0
  <2>1. k \in Nat /\ k < n /\ k + 1 \in 1 .. n /\ a + (k + 1) - 1 = a + k /\ a + k \in a .. e
        /\ a <= a + k /\ a + k < e
    BY <1>0, <1>5 DEF Offsets
  <2> QED BY <2>1, <1>4, <1>6, <1>7
<1>9. \A k \in 1 .. n : mem[a + k - 1] \in Bytes8
  <2> TAKE k \in 1 .. n
  <2>1. a + k - 1 \in a .. e
    BY <1>0, <1>5
  <2> QED BY <1>0, <1>6, <2>1, BytesRead DEF Bytes8
<1>10. Len(s) = n /\ DOMAIN s = 1 .. n /\ s \in [1 .. n -> Bytes8] /\ s \in Seq(Bytes8)
  BY <1>5, <1>7, <1>9
<1>11. Allocated(mem, a, n + 1)
  <2>1. a + (n + 1) - 1 = e
    BY <1>0, <1>5
  <2> QED BY <1>0, <1>6, <2>1, Zenon DEF Allocated
<1> HIDE DEF n, s
<1> QED BY <1>4, <1>5, <1>8, <1>10, <1>11 DEF s

(* It is shorter than the memory.                                          *)
LEMMA StringFits ==
  ASSUME NEW D, Null(D), NEW a \in Word, IsString(mem, a)
  PROVE  Cardinality(DOMAIN mem) \in Nat /\ Len(StringOf(mem, a)) < Cardinality(DOMAIN mem)
<1> DEFINE n == Len(StringOf(mem, a))
           b == a + n
<1>1. n \in Nat /\ Allocated(mem, a, n + 1) /\ a \in Nat
  BY StringIs, WordIs
<1>2. a .. b \subseteq DOMAIN mem
  <2>1. a + (n + 1) - 1 = b
    BY <1>1
  <2> QED BY <1>1, <2>1, Zenon DEF Allocated
<1>3. IsFiniteSet(DOMAIN mem)
  BY BytesRead DEF Guest, Null
<1> HIDE DEF n
<1>4. Cardinality(a .. b) = n + 1
  <2>1. a \in Int /\ b \in Int /\ ~(a > b) /\ b - a + 1 = n + 1
    BY <1>1
  <2> QED BY <2>1, FS_Interval
<1>5. Cardinality(a .. b) <= Cardinality(DOMAIN mem) /\ Cardinality(DOMAIN mem) \in Nat
  BY <1>2, <1>3, FS_Subset, FS_CardinalityType
<1> QED BY <1>1, <1>4, <1>5 DEF n

(* A string that is no longer than the host reads has the length that it   *)
(* finds.                                                                  *)
LEMMA TextLength ==
  ASSUME NEW D, Null(D), NEW a \in Word, IsText(mem, a)
  PROVE  Length(a) = Len(StringOf(mem, a)) /\ Readable(a)
<1> DEFINE s == StringOf(mem, a)
           n == Len(s)
           S == {k \in Offsets(TextLimit) : Ended(a, k)}
<1>1. /\ n \in Nat /\ Allocated(mem, a, n + 1) /\ mem[a + n] = 0
      /\ \A k \in Offsets(n) : mem[a + k] # 0
  BY StringIs DEF IsText
<1>2. TextLimit \in Nat /\ n <= TextLimit /\ Guest(D) /\ DOMAIN mem = D
  <2>1. Guest(D) /\ TextLimit \in Nat
    BY MachineAssumption, WordIs DEF Null
  <2> QED BY <2>1, BytesRead DEF IsText
<1> HIDE DEF n
<1>3. \A k \in Offsets(n + 1) : At(a, k) = a + k /\ a + k \in D
  <2>1. n + 1 \in Nat
    BY <1>1
  <2> QED BY <1>1, <1>2, <2>1, AllocatedIs
<1>4. \A k \in Offsets(n) : k \notin S
  <2> TAKE k \in Offsets(n)
  <2>1. k \in Offsets(n + 1)
    BY <1>1 DEF Offsets
  <2> QED BY <2>1, <1>1, <1>2, <1>3 DEF Ended
<1>5. At(a, n) = a + n /\ a + n \in D
  <2>1. n \in Offsets(n + 1)
    BY <1>1 DEF Offsets
  <2> QED BY <2>1, <1>3
<1>6. FirstOf(S, TextLimit) = n
  <2>1. CASE n = TextLimit
    <3>1. S = {}
      BY <1>4, <2>1
    <3> QED BY <1>2, <2>1, <3>1, FirstNone
  <2>2. CASE n # TextLimit
    <3>1. n \in Offsets(TextLimit)
      BY <1>1, <1>2, <2>2 DEF Offsets
    <3>2. n \in S
      BY <1>1, <1>5, <3>1 DEF Ended
    <3> QED BY <1>2, <1>4, <3>2, FirstAt
  <2> QED BY <2>1, <2>2
<1>7. Length(a) = n
  BY <1>6 DEF Length
<1> QED BY <1>2, <1>5, <1>7 DEF Readable, n

(* How many bytes of a character are open after the byte k of a UTF-8 text.*)
OpenAt(s, k) ==
  IF k >= 1 /\ s[k] = Begins THEN 1 ELSE IF k >= 2 /\ s[k - 1] = Begins THEN 2 ELSE 0
(* What was read of it is the text up to k, the last bytes still open.     *)
ReadUpTo(s, k, h) ==
  LET p == OpenAt(s, k)
  IN /\ p <= k
     /\ h.out = [i \in 1 .. k - p |-> s[i]] /\ h.open = [i \in 1 .. p |-> s[k - p + i]]

LEMMA LossyCases ==
  ASSUME NEW h \in Lossies, NEW b \in Bytes8
  PROVE  /\ h.open = <<>> /\ b = Begins => LossyByte(h, b) = [out |-> h.out, open |-> <<b>>]
         /\ h.open = <<>> /\ b \in {Percent, LetterS, DigitByte} =>
              LossyByte(h, b) = [out |-> Append(h.out, b), open |-> <<>>]
         /\ Len(h.open) = 1 /\ b \in Continues =>
              LossyByte(h, b) = [out |-> h.out, open |-> Append(h.open, b)]
         /\ Len(h.open) = 2 /\ b \in Continues =>
              LossyByte(h, b) = [out |-> h.out \o h.open \o <<b>>, open |-> <<>>]
<1>1. /\ Begins \notin Continues
      /\ \A x \in {Percent, LetterS, DigitByte} : x \notin Continues /\ x # Begins
  BY DEF Begins, Continues, Percent, LetterS, DigitByte
<1>2. ASSUME h.open = <<>>, b = Begins
      PROVE  LossyByte(h, b) = [out |-> h.out, open |-> <<b>>]
  BY <1>1, <1>2, Zenon DEF LossyByte
<1>3. ASSUME h.open = <<>>, b \in {Percent, LetterS, DigitByte}
      PROVE  LossyByte(h, b) = [out |-> Append(h.out, b), open |-> <<>>]
  BY <1>1, <1>3, Zenon DEF LossyByte
<1>4. Len(<<>>) # 1 /\ Len(<<>>) # 2 /\ 1 # 2
  OBVIOUS
<1>5. ASSUME Len(h.open) = 1, b \in Continues
      PROVE  LossyByte(h, b) = [out |-> h.out, open |-> Append(h.open, b)]
  <2>1. h.open # <<>> /\ Len(h.open) # 2 /\ b # Begins /\ b \notin {Percent, LetterS, DigitByte}
    BY <1>1, <1>4, <1>5, Zenon
  <2>2. LossyByte(h, b) = [h EXCEPT !.open = Append(@, b)]
    BY <1>5, <2>1, Zenon DEF LossyByte
  <2>3. h = [out |-> h.out, open |-> h.open]
    BY Zenon DEF Lossies
  <2> QED BY <2>2, <2>3
<1>6. ASSUME Len(h.open) = 2, b \in Continues
      PROVE  LossyByte(h, b) = [out |-> h.out \o h.open \o <<b>>, open |-> <<>>]
  <2>1. h.open # <<>> /\ b # Begins /\ b \notin {Percent, LetterS, DigitByte}
    BY <1>1, <1>4, <1>6, Zenon
  <2> QED BY <1>6, <2>1, Zenon DEF LossyByte
<1> QED BY <1>2, <1>3, <1>5, <1>6

LEMMA SeqIs ==
  ASSUME NEW S, NEW x \in Seq(S), NEW n \in Nat, Len(x) = n
  PROVE  x = [i \in 1 .. n |-> x[i]]
  OBVIOUS

LEMMA LossyUtf8Step ==
  ASSUME NEW n \in Nat, NEW s \in [1 .. n -> Bytes8], IsUtf8(s), NEW k \in 0 .. n - 1,
         NEW h \in Lossies, ReadUpTo(s, k, h)
  PROVE  ReadUpTo(s, k + 1, LossyByte(h, s[k + 1]))
<1> DEFINE b == s[k + 1]
           p == OpenAt(s, k)
           q == OpenAt(s, k + 1)
           g == LossyByte(h, b)
           o == h.out
           w == h.open
<1>0. /\ k \in Nat /\ k + 1 \in 1 .. n /\ (k + 1) - 1 = k /\ DOMAIN s = 1 .. n /\ Len(s) = n
      /\ o \in Seq(Bytes8) /\ w \in Seq(Bytes8) /\ b \in Bytes8
      /\ \A j \in 1 .. n : s[j] \in Bytes8
  BY DEF Lossies
<1>1. /\ b \in {Percent, LetterS, DigitByte, Begins} \cup Continues
      /\ b \in Continues => \E j \in {k, k - 1} \cap (1 .. n) : s[j] = Begins
  <2>1. (k + 1) - 1 = k /\ (k + 1) - 2 = k - 1
    BY <1>0
  <2> QED BY <1>0, <2>1 DEF IsUtf8
<1>2. /\ k >= 1 /\ s[k] = Begins => b \in Continues
      /\ k >= 2 /\ s[k - 1] = Begins => s[k] \in Continues /\ b \in Continues
  <2>1. k >= 1 => k \in 1 .. n
    BY <1>0
  <2>2. k >= 2 => k - 1 \in 1 .. n /\ (k - 1) + 1 = k /\ (k - 1) + 2 = k + 1
    BY <1>0
  <2> QED BY <1>0, <2>1, <2>2 DEF IsUtf8
<1>3. Begins \notin Continues
  BY DEF Begins, Continues
<1>4. q = IF b = Begins THEN 1 ELSE IF k >= 1 /\ s[k] = Begins THEN 2 ELSE 0
  BY <1>0 DEF OpenAt
<1>5. /\ p <= k /\ p \in {0, 1, 2}
      /\ o = [i \in 1 .. k - p |-> s[i]] /\ w = [i \in 1 .. p |-> s[k - p + i]]
      /\ p = 0 => ~(k >= 1 /\ s[k] = Begins) /\ ~(k >= 2 /\ s[k - 1] = Begins)
      /\ p = 1 => k >= 1 /\ s[k] = Begins
      /\ p = 2 => k >= 2 /\ s[k - 1] = Begins
  BY DEF ReadUpTo, OpenAt
<1>6. Len(o) = k - p /\ Len(w) = p
  BY <1>0, <1>5
<1>7. /\ w = <<>> /\ b = Begins => g = [out |-> o, open |-> <<b>>]
      /\ w = <<>> /\ b \in {Percent, LetterS, DigitByte} => g = [out |-> Append(o, b), open |-> <<>>]
      /\ Len(w) = 1 /\ b \in Continues => g = [out |-> o, open |-> Append(w, b)]
      /\ Len(w) = 2 /\ b \in Continues => g = [out |-> o \o w \o <<b>>, open |-> <<>>]
  BY <1>0, LossyCases
<1>8. ASSUME q <= k + 1, g.out = [i \in 1 .. (k + 1) - q |-> s[i]],
             g.open = [i \in 1 .. q |-> s[(k + 1) - q + i]]
      PROVE  ReadUpTo(s, k + 1, g)
  BY <1>8 DEF ReadUpTo
<1> HIDE DEF p, q, g, o, w
<1> SUFFICES ReadUpTo(s, k + 1, g)
  BY Zenon DEF g
<1>9. CASE p = 0
  <2>1. w = <<>> /\ b \notin Continues /\ ~(k >= 1 /\ s[k] = Begins)
    <3>1. w = <<>>
      BY <1>0, <1>6, <1>9
    <3> QED BY <1>0, <1>1, <1>5, <1>9, <3>1
  <2>2. o = [i \in 1 .. k |-> s[i]] /\ Len(o) = k
    BY <1>0, <1>5, <1>6, <1>9
  <2>3. CASE b = Begins
    <3>1. q = 1 /\ g.out = o /\ g.open = <<b>>
      BY <1>4, <1>7, <2>1, <2>3
    <3>2. <<b>> = [i \in 1 .. 1 |-> s[(k + 1) - 1 + i]]
      BY <1>0
    <3>3. (k + 1) - q = k
      BY <1>0, <3>1
    <3> QED BY <1>0, <1>8, <2>2, <3>1, <3>2, <3>3
  <2>4. CASE b # Begins
    <3>1. q = 0 /\ g.out = Append(o, b) /\ g.open = <<>>
      BY <1>1, <1>4, <1>7, <2>1, <2>4
    <3>2. Append(o, b) = [i \in 1 .. k + 1 |-> s[i]]
      BY <1>0, <2>2
    <3>3. (k + 1) - q = k + 1 /\ <<>> = [i \in 1 .. 0 |-> s[(k + 1) - 0 + i]]
      BY <1>0, <3>1
    <3> QED BY <1>0, <1>8, <3>1, <3>2, <3>3
  <2> QED BY <2>3, <2>4
<1>10. CASE p = 1
  <2>1. k >= 1 /\ s[k] = Begins /\ b \in Continues /\ b # Begins
    BY <1>2, <1>3, <1>5, <1>10
  <2>2. q = 2 /\ g.out = o /\ g.open = Append(w, b)
    BY <1>4, <1>6, <1>7, <1>10, <2>1
  <2>3. Append(w, b) = [i \in 1 .. 2 |-> s[(k + 1) - 2 + i]]
    BY <1>0, <1>5, <1>6, <1>10
  <2>4. (k + 1) - q = k - 1 /\ o = [i \in 1 .. k - 1 |-> s[i]]
    BY <1>0, <1>5, <1>10, <2>2
  <2> QED BY <1>0, <1>8, <2>1, <2>2, <2>3, <2>4
<1>11. CASE p = 2
  <2>1. k >= 2 /\ s[k] \in Continues /\ b \in Continues /\ b # Begins /\ s[k] # Begins
    BY <1>2, <1>3, <1>5, <1>11
  <2>2. q = 0 /\ g.out = o \o w \o <<b>> /\ g.open = <<>>
    BY <1>4, <1>6, <1>7, <1>11, <2>1
  <2>3. o \o w \o <<b>> = [i \in 1 .. k + 1 |-> s[i]]
    <3>1. o \o w = [i \in 1 .. k |-> s[i]]
      <4>1. /\ o \o w \in Seq(Bytes8) /\ Len(o \o w) = Len(o) + Len(w)
            /\ \A i \in 1 .. Len(o) + Len(w) :
                 (o \o w)[i] = IF i <= Len(o) THEN o[i] ELSE w[i - Len(o)]
        BY <1>0, ConcatProperties
      <4>2. Len(o) + Len(w) = k /\ Len(o) = k - 2
        BY <1>0, <1>6, <1>11
      <4>3. ASSUME NEW i \in 1 .. k
            PROVE  (IF i <= k - 2 THEN o[i] ELSE w[i - (k - 2)]) = s[i]
        <5>1. i <= k - 2 => o[i] = s[i]
          BY <1>0, <1>5, <1>11
        <5>2. ~(i <= k - 2) => i - (k - 2) \in 1 .. 2 /\ k - 2 + (i - (k - 2)) = i
          BY <1>0, <2>1
        <5>3. ~(i <= k - 2) => w[i - (k - 2)] = s[i]
          BY <1>5, <1>11, <5>2
        <5> QED BY <5>1, <5>3
      <4>4. \A i \in 1 .. k : (o \o w)[i] = s[i]
        BY <4>1, <4>2, <4>3
      <4>5. o \o w = [i \in 1 .. k |-> (o \o w)[i]]
        BY <1>0, <4>1, <4>2, SeqIs
      <4> QED BY <4>4, <4>5
    <3>2. o \o w \in Seq(Bytes8) /\ Len(o \o w) = k
      <4>1. o \o w \in Seq(Bytes8)
        BY <1>0, ConcatProperties
      <4> QED BY <1>0, <3>1, <4>1
    <3> QED BY <1>0, <3>1, <3>2
  <2>4. (k + 1) - q = k + 1 /\ <<>> = [i \in 1 .. 0 |-> s[(k + 1) - 0 + i]]
    BY <1>0, <2>2
  <2>5. q <= k + 1 /\ g.out = [i \in 1 .. (k + 1) - q |-> s[i]]
    <3>1. q <= k + 1
      BY <1>0, <2>2
    <3>2. g.out = [i \in 1 .. k + 1 |-> s[i]]
      BY <2>2, <2>3, Zenon
    <3> QED BY <2>4, <3>1, <3>2, Zenon
  <2>6. g.open = [i \in 1 .. q |-> s[(k + 1) - q + i]]
    BY <2>2, <2>4
  <2> QED BY <1>8, <2>5, <2>6
<1> QED BY <1>5, <1>9, <1>10, <1>11

(* String::from_utf8_lossy leaves a UTF-8 text as it is.                   *)
LEMMA LossyUtf8 ==
  ASSUME NEW n \in Nat, NEW s \in [1 .. n -> Bytes8], IsUtf8(s)
  PROVE  Lossy(s) = s
<1>1. PICK h : /\ h[0] = [out |-> <<>>, open |-> <<>>]
               /\ \A k \in 1 .. n : h[k] = LossyByte(h[k - 1], s[k])
               /\ \A k \in 0 .. n : h[k] \in Lossies
               /\ Lossy(s) = IF h[n].open = <<>> THEN h[n].out ELSE h[n].out \o Replacement
  BY LossyFold
<1> DEFINE P == {k \in 0 .. n : ReadUpTo(s, k, h[k])}
<1>2. 0 \in P
  BY <1>1 DEF ReadUpTo, OpenAt
<1>3. ASSUME NEW k \in 0 .. n - 1, k \in P
      PROVE  k + 1 \in P
  <2>1. k + 1 \in 1 .. n /\ (k + 1) - 1 = k /\ k + 1 \in 0 .. n /\ k \in 0 .. n
    OBVIOUS
  <2>2. h[k + 1] = LossyByte(h[k], s[k + 1]) /\ h[k] \in Lossies
    BY <1>1, <2>1
  <2>3. ReadUpTo(s, k, h[k])
    BY <1>3
  <2>4. ReadUpTo(s, k + 1, h[k + 1])
    BY <2>2, <2>3, LossyUtf8Step
  <2> QED BY <2>1, <2>4
<1> HIDE DEF P
<1>4. \A k \in 0 .. n : k \in P
  BY <1>2, <1>3, UpTo
<1>5. ReadUpTo(s, n, h[n])
  BY <1>4 DEF P
<1>6. OpenAt(s, n) = 0
  <2>1. DOMAIN s = 1 .. n /\ Len(s) = n
    OBVIOUS
  <2>2. \A k \in 1 .. n : s[k] = Begins => k + 2 <= n
    BY <2>1 DEF IsUtf8
  <2>3. n >= 1 => n \in 1 .. n /\ ~(n + 2 <= n)
    OBVIOUS
  <2>4. n >= 2 => n - 1 \in 1 .. n /\ ~((n - 1) + 2 <= n)
    OBVIOUS
  <2> QED BY <2>2, <2>3, <2>4 DEF OpenAt
<1>7. h[n].out = [i \in 1 .. n |-> s[i]] /\ h[n].open = <<>>
  BY <1>5, <1>6 DEF ReadUpTo
<1>8. [i \in 1 .. n |-> s[i]] = s
  OBVIOUS
<1> QED BY <1>1, <1>7, <1>8

(* What the host reads of a text that it leaves as it is.                  *)
LEMMA TextIs ==
  ASSUME NEW D, Null(D), NEW a \in Word, IsText(mem, a), IsUtf8(StringOf(mem, a))
  PROVE  Text(a) = StringOf(mem, a) /\ TextReadable(a)
<1> DEFINE s == StringOf(mem, a)
           n == Len(s)
<1>1. /\ n \in Nat /\ a + n + 1 <= M /\ Allocated(mem, a, n + 1)
      /\ s \in [1 .. n -> Bytes8] /\ \A k \in Offsets(n) : s[k + 1] = mem[a + k]
  BY StringIs DEF IsText
<1>2. Length(a) = n /\ Readable(a) /\ Guest(D)
  BY TextLength DEF Null
<1>3. a # 0
  <2>1. a \in a .. a + (n + 1) - 1 /\ DOMAIN mem = D
    BY <1>1, <1>2, WordIs, BytesRead
  <2> QED BY <1>1, <2>1 DEF Allocated, Null
<1>4. s = [k \in 1 .. n |-> mem[At(a, k - 1)]]
  <2> HIDE DEF s, n
  <2>1. ASSUME NEW k \in 1 .. n
        PROVE  s[k] = mem[At(a, k - 1)]
    <3>1. k - 1 \in Offsets(n) /\ k - 1 \in Offsets(n + 1) /\ (k - 1) + 1 = k
      BY <1>1 DEF Offsets
    <3>2. n + 1 \in Nat
      BY <1>1
    <3>3. At(a, k - 1) = a + (k - 1)
      BY <1>1, <1>2, <3>1, <3>2, AllocatedIs
    <3> QED BY <1>1, <3>1, <3>3
  <2> QED BY <1>1, <2>1
<1>5. Text(a) = Lossy(s)
  <2> HIDE DEF s, n
  <2> QED BY <1>2, <1>3, <1>4, Zenon DEF Text
<1>6. Lossy(s) = s
  BY <1>1, LossyUtf8
<1> QED BY <1>2, <1>5, <1>6 DEF TextReadable

(* The functions that make a text.                                         *)
LEMMA StoreTextIs ==
  ASSUME NEW D, Null(D), NEW a \in Word, NEW text \in Seq(Bytes8)
  PROVE  LET s == StoreText(a, text)
             e == Append(text, 0)
         IN /\ \A x \in DOMAIN mem : s.mem[x] # mem[x] => a <= x
            /\ Allocated(mem, a, Len(e)) => s.ok /\ s.mem = Overlay(mem, a, e)
<1> DEFINE e == Append(text, 0)
           len == Len(e)
           S == {k \in Offsets(len) : Unmapped(a, k)}
           n == FirstOf(S, len)
           bytes == [k \in Offsets(n) |-> e[k + 1]]
           s == StoreText(a, text)
<1>0. len \in Nat /\ Guest(D) /\ DOMAIN mem = D /\ a \in Nat
  BY BytesRead, WordIs DEF Null
<1>1. s.mem = Written(a, bytes) /\ s.ok = (n = len)
  <2>1. s = [mem |-> Written(a, bytes), ok |-> n = len]
    BY Zenon DEF StoreText, Store
  <2> HIDE DEF s, bytes, n, len
  <2> QED BY <2>1
<1> HIDE DEF len, e
<1>2. n \in 0 .. len /\ \A k \in Offsets(n) : k \in Offsets(len) /\ k \notin S
  BY <1>0, FirstIs
<1>3. DOMAIN bytes = Offsets(n) /\ \A k \in Offsets(n) : ~Unmapped(a, k)
  BY <1>2
<1>4. \A x \in D : Written(a, bytes)[x] # mem[x] => a <= x
  <2>1. n \in Nat
    BY <1>0, <1>2
  <2> HIDE DEF n, bytes
  <2> QED BY <2>1, <1>3, WrittenChanges
<1>5. ASSUME Allocated(mem, a, len)
      PROVE  n = len /\ Written(a, bytes) = Overlay(mem, a, e)
  <2>1. a + len <= M /\ S = {}
    BY <1>0, <1>5, AllocatedIs
  <2>2. n = len
    BY <1>0, <2>1, FirstNone
  <2>3. DOMAIN bytes = Offsets(len) /\ \A k \in Offsets(len) : bytes[k] = e[k + 1]
    BY <2>2
  <2> HIDE DEF n, bytes
  <2>4. Written(a, bytes) = Overlay(mem, a, e)
    BY <1>0, <2>1, <2>3, WrittenOverlay DEF len
  <2> QED BY <2>2, <2>4
<1> HIDE DEF s, bytes, n
<1> QED BY <1>0, <1>1, <1>4, <1>5, Zenon DEF s, e, len

LEMMA StrcpyLikeC ==
  ASSUME NEW D, Null(D), NEW a \in Word, NEW b \in Word, NEW c
  PROVE  CopyLikeC("strcpy", a, b, c, Strcpy(a, b))
<1> DEFINE s == StoreText(a, Text(b))
           e == Append(StringOf(mem, b), 0)
<1>1. Text(b) \in Seq(Bytes8)
  BY TextBytes DEF Null
<1>2. /\ \A x \in DOMAIN mem : s.mem[x] # mem[x] => a <= x
      /\ Allocated(mem, a, Len(Append(Text(b), 0))) =>
           s.ok /\ s.mem = Overlay(mem, a, Append(Text(b), 0))
  BY <1>1, StoreTextIs
<1>3. Strcpy(a, b) = IF ~TextReadable(b) THEN Broken(mem) ELSE Ends(s.mem, a, s.ok)
  BY DEF Strcpy
<1> HIDE DEF s
<1>4. Within("strcpy", a, c, Strcpy(a, b))
  BY <1>2, <1>3 DEF Within, Broken, Ends, Returned, Copying
<1>5. ASSUME IsText(mem, b), IsUtf8(StringOf(mem, b)), Allocated(mem, a, Len(e))
      PROVE  Strcpy(a, b) = [mem |-> Overlay(mem, a, e), ok |-> TRUE, r0 |-> a]
  <2>1. Text(b) = StringOf(mem, b) /\ TextReadable(b)
    BY <1>5, TextIs
  <2>2. s.ok /\ s.mem = Overlay(mem, a, e)
    BY <1>2, <1>5, <2>1
  <2> QED BY <1>3, <2>1, <2>2 DEF Ends, Returned
<1> QED BY <1>4, <1>5 DEF CopyLikeC, CopiesLikeC, Copied, Wanted

(* What is appended is written behind the end of the string.               *)
LEMMA EndBehind ==
  ASSUME NEW D, Null(D), NEW a \in Word
  PROVE  LET to == At(a, Length(a)) IN to \in Word /\ (to = 0 \/ a <= to)
<1> DEFINE n == Length(a)
<1>1. n \in Nat /\ M \in Nat \ {0} /\ \A k \in Offsets(n) : At(a, k) \in D
  BY LengthIs, WordIs, BytesRead, HalfFact DEF Null
<1> HIDE DEF n
<1>0. a \in Nat /\ a < M
  BY WordIs
<1>2. a + n <= M
  BY <1>1, NoWrap
<1>3. a + n < M => (a + n) % M = a + n
  BY <1>0, <1>1, DivSmall
<1>4. a + n = M => (a + n) % M = 0
  <2>1. 0 \in 0 .. M - 1 /\ M = M * 1 + 0 /\ 1 \in Int /\ M \in Int
    BY <1>1
  <2>2. M % M = 0
    BY <1>1, <2>1, DivUnique
  <2> QED BY <2>2
<1>5. a + n < M \/ a + n = M
  BY <1>0, <1>1, <1>2
<1>6. At(a, n) \in Word /\ (At(a, n) = 0 \/ a <= At(a, n))
  BY <1>0, <1>1, <1>3, <1>4, <1>5, WordIs DEF At
<1> QED BY <1>6 DEF n

LEMMA AppendedWithin ==
  ASSUME NEW D, Null(D), NEW a \in Word, NEW n \in Nat, NEW bytes, DOMAIN bytes = Offsets(n),
         \A k \in Offsets(n) : ~Unmapped(At(a, Length(a)), k)
  PROVE  \A x \in DOMAIN mem : Written(At(a, Length(a)), bytes)[x] # mem[x] => a <= x
<1> DEFINE to == At(a, Length(a))
<1>0. Guest(D) /\ DOMAIN mem = D /\ a \in Nat /\ \A x \in D : x \in Nat
  BY BytesRead, WordIs DEF Null, Guest
<1>1. to \in Word /\ (to = 0 \/ a <= to)
  BY EndBehind
<1> HIDE DEF to
<1>2. \A x \in D : Written(to, bytes)[x] # mem[x] => to <= x /\ x < to + n
  BY <1>1, WrittenChanges DEF to
<1>3. to = 0 => n = 0
  <2> SUFFICES ASSUME to = 0, n # 0
               PROVE  FALSE
    OBVIOUS
  <2>1. 0 \in Offsets(n) /\ At(0, 0) = 0
    BY DivSmall, HalfFact DEF Offsets, At
  <2> QED BY <1>0, <2>1 DEF Unmapped, to, Null
<1>4. to \in Nat
  BY <1>1, WordIs
<1> QED BY <1>0, <1>1, <1>2, <1>3, <1>4 DEF to

LEMMA OverlayBehind ==
  ASSUME NEW D, Guest(D), NEW a \in Nat, NEW S, NEW s \in Seq(S), NEW e \in Seq(S),
         \A k \in Offsets(Len(s)) : s[k + 1] = mem[a + k]
  PROVE  Overlay(mem, a + Len(s), e) = Overlay(mem, a, s \o e)
<1> DEFINE n == Len(s)
           t == s \o e
           to == a + n
<1>0. n \in Nat /\ Len(e) \in Nat /\ to \in Nat /\ DOMAIN mem = D /\ \A x \in D : x \in Nat
  BY BytesRead, WordIs DEF Guest
<1>1. /\ Len(t) = n + Len(e)
      /\ \A i \in 1 .. n + Len(e) : t[i] = IF i <= n THEN s[i] ELSE e[i - n]
  BY ConcatProperties
<1>2. Overlay(mem, to, e) =
        [x \in D |-> IF x \in to .. to + Len(e) - 1 THEN e[x - to + 1] ELSE mem[x]]
  BY <1>0 DEF Overlay
<1>3. Overlay(mem, a, t) =
        [x \in D |-> IF x \in a .. a + Len(t) - 1 THEN t[x - a + 1] ELSE mem[x]]
  BY <1>0 DEF Overlay
<1> HIDE DEF n, t
<1>4. ASSUME NEW x \in D
      PROVE  (IF x \in to .. to + Len(e) - 1 THEN e[x - to + 1] ELSE mem[x])
               = (IF x \in a .. a + Len(t) - 1 THEN t[x - a + 1] ELSE mem[x])
  <2>1. CASE x \in to .. to + Len(e) - 1
    <3>1. x \in a .. a + Len(t) - 1 /\ x - a + 1 \in 1 .. n + Len(e) /\ ~(x - a + 1 <= n)
          /\ (x - a + 1) - n = x - to + 1
      BY <1>0, <1>1, <2>1
    <3>2. t[x - a + 1] = e[x - to + 1]
      BY <1>1, <3>1
    <3> QED BY <2>1, <3>1, <3>2
  <2>2. CASE x \in a .. a + n - 1
    <3>1. /\ x \in a .. a + Len(t) - 1 /\ x - a + 1 \in 1 .. n + Len(e) /\ x - a + 1 <= n
          /\ x - a \in Offsets(n) /\ a + (x - a) = x /\ x \notin to .. to + Len(e) - 1
      BY <1>0, <1>1, <2>2 DEF Offsets
    <3>2. t[x - a + 1] = s[x - a + 1]
      BY <1>1, <3>1
    <3>3. s[x - a + 1] = mem[x]
      BY <3>1 DEF n
    <3> QED BY <3>1, <3>2, <3>3
  <2>3. CASE x \notin to .. to + Len(e) - 1 /\ x \notin a .. a + n - 1
    <3>1. x \notin a .. a + Len(t) - 1
      BY <1>0, <1>1, <2>3
    <3> QED BY <2>3, <3>1
  <2> QED BY <2>1, <2>2, <2>3
<1>5. Overlay(mem, to, e) = Overlay(mem, a, t)
  BY <1>2, <1>3, <1>4
<1> QED BY <1>5 DEF n, t

(* How much of a string that is not written over a loop reads.             *)
LEMMA SourceLengthOf ==
  ASSUME NEW D, Null(D), NEW to \in Word, NEW b \in Word, IsString(mem, b),
         \A k \in Offsets(Len(StringOf(mem, b)) + 1) : Source(to, b, k) = b + k,
         NEW limit \in Nat
  PROVE  SourceLength(to, b, limit) =
           IF limit <= Len(StringOf(mem, b)) THEN limit ELSE Len(StringOf(mem, b))
<1> DEFINE n == Len(StringOf(mem, b))
           S == {k \in Offsets(limit) : SourceEnds(to, b, k)}
<1>1. /\ n \in Nat /\ Allocated(mem, b, n + 1) /\ mem[b + n] = 0
      /\ \A k \in Offsets(n) : mem[b + k] # 0
  BY StringIs
<1>2. Guest(D) /\ DOMAIN mem = D
  BY BytesRead DEF Null
<1> HIDE DEF n
<1>3. \A k \in Offsets(n + 1) : b + k \in D
  <2>1. n + 1 \in Nat
    BY <1>1
  <2> QED BY <1>1, <1>2, <2>1, AllocatedIs
<1>4. \A k \in Offsets(n + 1) : SourceEnds(to, b, k) <=> mem[b + k] = 0
  BY <1>2, <1>3 DEF SourceEnds, SourceUnmapped, n
<1>5. \A k \in Offsets(n) : k \in Offsets(n + 1) /\ k \notin S
  <2> TAKE k \in Offsets(n)
  <2>1. k \in Offsets(n + 1)
    BY <1>1 DEF Offsets
  <2> QED BY <2>1, <1>1, <1>4
<1>6. CASE limit <= n
  <2>1. S = {}
    <3>1. \A k \in Offsets(limit) : k \in Offsets(n)
      BY <1>1, <1>6 DEF Offsets
    <3> QED BY <3>1, <1>5
  <2> QED BY <1>6, <2>1, FirstNone DEF SourceLength, n
<1>7. CASE ~(limit <= n)
  <2>1. n \in Offsets(limit) /\ n \in Offsets(n + 1)
    BY <1>1, <1>7 DEF Offsets
  <2>2. n \in S
    BY <1>1, <1>4, <2>1
  <2>3. FirstOf(S, limit) = n
    BY <1>5, <2>2, FirstAt
  <2> QED BY <1>7, <2>3 DEF SourceLength, n
<1> QED BY <1>6, <1>7

(* Where an appended string goes, and that it is read as it was.           *)
LEMMA AppendsTo ==
  ASSUME NEW D, Null(D), NEW a \in Word, NEW b \in Word, IsText(mem, a), IsString(mem, b),
         LET n == Len(StringOf(mem, b)) + 1 IN Apart(a, Len(StringOf(mem, a)) + n, b, n)
  PROVE  LET to == At(a, Length(a))
             p == Len(StringOf(mem, a))
         IN /\ to = a + p /\ to \in Word /\ Readable(a)
            /\ \A k \in Offsets(Len(StringOf(mem, b)) + 1) :
                 Source(to, b, k) = b + k /\ ~SourceUnmapped(to, b, k)
            /\ \A m \in Nat : Allocated(mem, a, p + m) =>
                 to + m <= M /\ \A k \in Offsets(m) : ~Unmapped(to, k)
<1> DEFINE p == Len(StringOf(mem, a))
           n == Len(StringOf(mem, b)) + 1
           to == At(a, Length(a))
<1>0. a \in Nat /\ b \in Nat /\ Guest(D) /\ DOMAIN mem = D
  BY BytesRead, WordIs DEF Null
<1>1. p \in Nat /\ Allocated(mem, a, p + 1) /\ a + p + 1 <= M
  BY StringIs DEF IsText
<1>2. n \in Nat /\ Allocated(mem, b, n) /\ b + n <= M
  <2>1. /\ Len(StringOf(mem, b)) \in Nat /\ Allocated(mem, b, n)
        /\ b + Len(StringOf(mem, b)) + 1 <= M
    BY StringIs
  <2> QED BY <1>0, <2>1
<1>3. Length(a) = p /\ Readable(a)
  BY TextLength
<1>4. Apart(a, p + n, b, n)
  OBVIOUS
<1> HIDE DEF p, n
<1>5. to = a + p /\ to \in Word
  <2>1. p \in Offsets(p + 1) /\ p + 1 \in Nat
    BY <1>1 DEF Offsets
  <2>2. At(a, p) = a + p /\ a + p \in D
    BY <1>0, <1>1, <2>1, AllocatedIs
  <2> QED BY <1>0, <1>3, <2>2 DEF Guest
<1> HIDE DEF to
<1>6. \A k \in Offsets(n) : b + k \in D
  BY <1>0, <1>2, AllocatedIs
<1>7. b + n <= to \/ to < b
  <2>1. 1 <= n
    BY <1>2, StringIs DEF n
  <2> QED BY <1>0, <1>1, <1>2, <1>4, <1>5, <2>1 DEF Apart
<1>8. \A k \in Offsets(n) : Source(to, b, k) = b + k
  <2> TAKE k \in Offsets(n)
  <2>1. Source(to, b, k) = At(b, k)
    BY <1>2, <1>5, <1>7, SourceApart
  <2>2. At(b, k) = b + k
    BY <1>0, <1>2, AllocatedIs
  <2> QED BY <2>1, <2>2
<1>9. \A k \in Offsets(n) : ~SourceUnmapped(to, b, k)
  BY <1>0, <1>6, <1>8 DEF SourceUnmapped
<1>10. ASSUME NEW m \in Nat, Allocated(mem, a, p + m)
       PROVE  to + m <= M /\ \A k \in Offsets(m) : ~Unmapped(to, k)
  <2>1. p + m \in Nat
    BY <1>1
  <2>2. /\ a + (p + m) <= M
        /\ \A k \in Offsets(p + m) : At(a, k) = a + k /\ a + k \in D
    BY <1>0, <1>10, <2>1, AllocatedIs
  <2>3. ASSUME NEW k \in Offsets(m)
        PROVE  At(to, k) \in D
    <3>1. p + k \in Offsets(p + m) /\ a + (p + k) = to + k
      BY <1>0, <1>1, <1>5 DEF Offsets
    <3>2. At(a, p + k) = At(to, k)
      BY <3>1 DEF At
    <3> QED BY <2>2, <3>1, <3>2
  <2> QED BY <1>0, <1>1, <1>5, <2>2, <2>3 DEF Unmapped
<1> QED BY <1>3, <1>5, <1>8, <1>9, <1>10 DEF p, n, to

LEMMA StrcatLikeC ==
  ASSUME NEW D, Null(D), NEW a \in Word, NEW b \in Word, NEW c
  PROVE  CopyLikeC("strcat", a, b, c, Strcat(a, b))
<1> DEFINE to == At(a, Length(a))
           end == SourceLength(to, b, Cardinality(DOMAIN mem))
           S == {k \in Offsets(end + 1) : Stops(to, b, k)}
           n == FirstOf(S, end + 1)
           bytes == [k \in Offsets(n) |-> mem[Source(to, b, k)]]
           s == StringOf(mem, a)
           t == StringOf(mem, b)
           e == s \o Append(t, 0)
<1>0. Guest(D) /\ Cardinality(DOMAIN mem) \in Nat /\ a \in Nat /\ b \in Nat
  BY BytesRead, FS_CardinalityType, WordIs DEF Null, Guest
<1>1. end \in Nat
  BY <1>0, SourceLengthIs
<1>2. Strcat(a, b) = IF ~Readable(a) THEN Broken(mem) ELSE Ends(Written(to, bytes), a, n = end + 1)
  BY DEF Strcat
<1> HIDE DEF end
<1>3. n \in 0 .. end + 1 /\ \A k \in Offsets(n) : k \in Offsets(end + 1) /\ k \notin S
  BY <1>1, FirstIs
<1>4. Within("strcat", a, c, Strcat(a, b))
  <2>1. DOMAIN bytes = Offsets(n) /\ \A k \in Offsets(n) : ~Unmapped(to, k)
    BY <1>3 DEF Stops
  <2>2. n \in Nat
    BY <1>1, <1>3
  <2> HIDE DEF n, bytes
  <2>3. \A x \in DOMAIN mem : Written(to, bytes)[x] # mem[x] => a <= x
    BY <2>1, <2>2, AppendedWithin
  <2> HIDE DEF to
  <2> QED BY <1>2, <2>3 DEF Within, Broken, Ends, Returned, Copying
<1>5. ASSUME IsText(mem, a), IsString(mem, b), Apart(a, Len(s) + (Len(t) + 1), b, Len(t) + 1),
             Allocated(mem, a, Len(e))
      PROVE  Strcat(a, b) = [mem |-> Overlay(mem, a, e), ok |-> TRUE, r0 |-> a]
  <2> DEFINE m == Len(t) + 1
             end0 == Append(t, 0)
  <2>1. /\ s \in Seq(Bytes8) /\ \A k \in Offsets(Len(s)) : s[k + 1] = mem[a + k]
        /\ t \in Seq(Bytes8) /\ \A k \in Offsets(Len(t)) : t[k + 1] = mem[b + k]
        /\ mem[b + Len(t)] = 0
    BY <1>5, StringIs DEF IsText
  <2>2. /\ to = a + Len(s) /\ to \in Word /\ Readable(a)
        /\ \A k \in Offsets(m) : Source(to, b, k) = b + k /\ ~SourceUnmapped(to, b, k)
        /\ \A l \in Nat : Allocated(mem, a, Len(s) + l) =>
             to + l <= M /\ \A k \in Offsets(l) : ~Unmapped(to, k)
    BY <1>5, AppendsTo
  <2> HIDE DEF s, t, to
  <2>3. /\ Len(t) \in Nat /\ m \in Nat /\ Len(s) \in Nat /\ Len(e) = Len(s) + m
        /\ end0 \in Seq(Bytes8) /\ Len(end0) = m
    BY <2>1, ConstantBytes
  <2>4. to + m <= M /\ \A k \in Offsets(m) : ~Unmapped(to, k)
    BY <1>5, <2>2, <2>3
  <2>5. end = Len(t)
    <3>1. Len(t) < Cardinality(DOMAIN mem)
      BY <1>5, StringFits DEF t
    <3>2. end = IF Cardinality(DOMAIN mem) <= Len(t) THEN Cardinality(DOMAIN mem) ELSE Len(t)
      BY <1>0, <1>5, <2>2, SourceLengthOf DEF end, t
    <3> QED BY <1>0, <2>3, <3>1, <3>2
  <2>6. n = m
    <3>1. S = {}
      BY <2>2, <2>4, <2>5 DEF Stops
    <3> QED BY <1>1, <2>3, <2>5, <3>1, FirstNone
  <2>7. \A k \in Offsets(m) : bytes[k] = end0[k + 1]
    <3> TAKE k \in Offsets(m)
    <3>1. k \in Nat /\ k + 1 \in 1 .. m /\ bytes[k] = mem[b + k]
      BY <2>2, <2>3, <2>6 DEF Offsets
    <3>2. CASE k = Len(t)
      BY <2>1, <2>3, <3>1, <3>2
    <3>3. CASE k # Len(t)
      <4>1. k \in Offsets(Len(t)) /\ k + 1 \in 1 .. Len(t)
        BY <2>3, <3>1, <3>3 DEF Offsets
      <4> QED BY <2>1, <3>1, <4>1
    <3> QED BY <3>2, <3>3
  <2>8. DOMAIN bytes = Offsets(m) /\ n = end + 1
    BY <2>5, <2>6
  <2> HIDE DEF n, bytes, end0, m
  <2>9. Written(to, bytes) = Overlay(mem, to, end0)
    BY <1>0, <2>2, <2>3, <2>4, <2>7, <2>8, WrittenOverlay
  <2>10. Overlay(mem, to, end0) = Overlay(mem, a, s \o end0)
    BY <1>0, <2>1, <2>2, <2>3, OverlayBehind
  <2> QED BY <1>2, <2>2, <2>8, <2>9, <2>10 DEF Ends, Returned, end0
<1> QED BY <1>4, <1>5 DEF CopyLikeC, CopiesLikeC, Copied, Wanted

LEMMA StrncatLikeC ==
  ASSUME NEW D, Null(D), NEW a \in Word, NEW b \in Word, NEW c \in Word
  PROVE  CopyLikeC("strncat", a, b, c, Strncat(a, b, c))
<1> DEFINE to == At(a, Length(a))
           end == SourceLength(to, b, c)
           S == {k \in Offsets(end) : Unmapped(to, k)}
           n == FirstOf(S, end)
           whole == n = end /\ (end = c \/ ~SourceUnmapped(to, b, end)) /\ ~Unmapped(to, end)
           i == IF whole THEN end + 1 ELSE n
           bytes == [k \in Offsets(i) |-> IF k < end THEN mem[Source(to, b, k)] ELSE 0]
           s == StringOf(mem, a)
           t == StringOf(mem, b)
           cut == SubSeq(t, 1, Min({c, Len(t)}))
           e == s \o Append(cut, 0)
<1>0. Guest(D) /\ c \in Nat /\ a \in Nat /\ b \in Nat
  BY WordIs DEF Null
<1>1. end \in Nat
  BY <1>0, SourceLengthIs
<1>2. Strncat(a, b, c) = IF ~Readable(a) THEN Broken(mem) ELSE Ends(Written(to, bytes), a, whole)
  BY DEF Strncat
<1> HIDE DEF end
<1>3. n \in 0 .. end /\ \A k \in Offsets(n) : k \in Offsets(end) /\ k \notin S
  BY <1>1, FirstIs
<1>4. Within("strncat", a, c, Strncat(a, b, c))
  <2>1. i \in Nat
    BY <1>1, <1>3
  <2>2. DOMAIN bytes = Offsets(i)
    OBVIOUS
  <2>3. \A k \in Offsets(i) : ~Unmapped(to, k)
    <3>1. \A k \in Offsets(n) : ~Unmapped(to, k)
      BY <1>3
    <3>2. whole => \A k \in Offsets(end + 1) : k \in Offsets(n) \/ k = end
      BY <1>1 DEF Offsets
    <3> HIDE DEF n
    <3> QED BY <3>1, <3>2
  <2> HIDE DEF i, bytes, whole
  <2>4. \A x \in DOMAIN mem : Written(to, bytes)[x] # mem[x] => a <= x
    BY <2>1, <2>2, <2>3, AppendedWithin
  <2> HIDE DEF to
  <2> QED BY <1>2, <2>4 DEF Within, Broken, Ends, Returned, Copying
<1>5. ASSUME IsText(mem, a), IsString(mem, b), Apart(a, Len(s) + (Len(t) + 1), b, Len(t) + 1),
             Allocated(mem, a, Len(e))
      PROVE  Strncat(a, b, c) = [mem |-> Overlay(mem, a, e), ok |-> TRUE, r0 |-> a]
  <2> DEFINE l == IF c <= Len(t) THEN c ELSE Len(t)
             m == l + 1
             end0 == Append(cut, 0)
  <2>1. /\ s \in Seq(Bytes8) /\ \A k \in Offsets(Len(s)) : s[k + 1] = mem[a + k]
        /\ t \in Seq(Bytes8) /\ \A k \in Offsets(Len(t)) : t[k + 1] = mem[b + k]
    BY <1>5, StringIs DEF IsText
  <2>2. /\ to = a + Len(s) /\ to \in Word /\ Readable(a)
        /\ \A k \in Offsets(Len(t) + 1) : Source(to, b, k) = b + k /\ ~SourceUnmapped(to, b, k)
        /\ \A j \in Nat : Allocated(mem, a, Len(s) + j) =>
             to + j <= M /\ \A k \in Offsets(j) : ~Unmapped(to, k)
    BY <1>5, AppendsTo
  <2>3. end = l
    BY <1>0, <1>5, <2>2, SourceLengthOf DEF end
  <2>c. cut = SubSeq(t, 1, l)
    <3>1. Len(t) \in Nat
      BY <2>1
    <3>2. {c, Len(t)} \in SUBSET Nat /\ l \in {c, Len(t)} /\ \A y \in {c, Len(t)} : l <= y
      BY <1>0, <3>1
    <3>3. Min({c, Len(t)}) = l
      BY <3>2, LeastIs
    <3> QED BY <3>3
  <2> HIDE DEF s, t, to, cut
  <2>4. /\ Len(t) \in Nat /\ l \in Nat /\ m \in Nat /\ l <= Len(t) /\ Len(s) \in Nat
        /\ cut \in Seq(Bytes8) /\ Len(cut) = l /\ \A k \in 1 .. l : cut[k] = t[k]
    BY <1>0, <2>1, <2>c
  <2>5. /\ Len(e) = Len(s) + m /\ end0 \in Seq(Bytes8) /\ Len(end0) = m /\ end0[m] = 0
        /\ \A k \in 1 .. l : end0[k] = cut[k]
    <3> HIDE DEF l
    <3>1. /\ end0 \in Seq(Bytes8) /\ Len(end0) = m /\ end0[l + 1] = 0
          /\ \A k \in 1 .. l : end0[k] = cut[k]
      BY <2>4, ConstantBytes
    <3>2. Len(s \o end0) = Len(s) + Len(end0)
      BY <2>1, <3>1, ConcatProperties
    <3> QED BY <3>1, <3>2
  <2>6. to + m <= M /\ \A k \in Offsets(m) : ~Unmapped(to, k)
    BY <1>5, <2>2, <2>4, <2>5
  <2>7. n = l
    <3>1. \A k \in Offsets(l) : k \in Offsets(m)
      BY <2>4 DEF Offsets
    <3>2. S = {}
      BY <2>3, <2>6, <3>1
    <3> QED BY <1>1, <2>3, <3>2, FirstNone
  <2>8. whole
    <3>1. l \in Offsets(m) /\ l \in Offsets(Len(t) + 1)
      BY <2>4 DEF Offsets
    <3> HIDE DEF l, m, n
    <3> QED BY <2>2, <2>3, <2>6, <2>7, <3>1
  <2>9. i = m
    BY <2>3, <2>8
  <2>10. \A k \in Offsets(m) : bytes[k] = end0[k + 1]
    <3> TAKE k \in Offsets(m)
    <3>1. k \in Nat /\ k + 1 \in 1 .. m /\ k <= l /\ k \in Offsets(Len(t) + 1)
      BY <2>4 DEF Offsets
    <3>2. bytes[k] = IF k < l THEN mem[b + k] ELSE 0
      BY <2>2, <2>3, <2>9, <3>1
    <3>3. CASE k = l
      BY <2>5, <3>1, <3>2, <3>3
    <3>4. CASE k # l
      <4>1. k \in Offsets(Len(t)) /\ k + 1 \in 1 .. l /\ k < l
        BY <2>4, <3>1, <3>4 DEF Offsets
      <4>2. end0[k + 1] = mem[b + k]
        BY <2>1, <2>4, <2>5, <4>1
      <4> QED BY <3>2, <4>1, <4>2
    <3> QED BY <3>3, <3>4
  <2>11. DOMAIN bytes = Offsets(m)
    BY <2>9
  <2> HIDE DEF i, whole, bytes, end0, m, l
  <2>12. Written(to, bytes) = Overlay(mem, to, end0)
    BY <1>0, <2>2, <2>4, <2>5, <2>6, <2>10, <2>11, WrittenOverlay
  <2>13. Overlay(mem, to, end0) = Overlay(mem, a, s \o end0)
    BY <1>0, <2>1, <2>2, <2>5, OverlayBehind
  <2> QED BY <1>2, <2>2, <2>8, <2>12, <2>13 DEF Ends, Returned, end0
<1> QED BY <1>4, <1>5 DEF CopyLikeC, CopiesLikeC, Copied, Wanted

-----------------------------------------------------------------------------
(* The functions that compare and search.                                  *)

LEMMA ByteIsSmall == Byte \in Nat /\ 8 <= Byte /\ Byte <= Half
<1> DEFINE p == Byte * Byte * Byte
<1>1. Byte \in Nat /\ 8 <= Byte /\ M = Byte * Byte * Byte * Byte /\ M = 2 * Half /\ Half \in Nat
  BY PowerFacts, HalfFact
<1>2. \A x, y \in Nat : 8 <= x /\ 8 <= y => x * y \in Nat /\ 8 <= x * y
  OBVIOUS
<1>3. p \in Nat /\ 8 <= p
  BY <1>1, <1>2
<1>4. M = p * Byte
  BY <1>1
<1>5. 8 * Byte <= p * Byte
  <2>1. \A x, y \in Nat : 8 <= x => 8 * y <= x * y
    OBVIOUS
  <2> QED BY <1>1, <1>3, <2>1
<1> HIDE DEF p
<1>6. 8 * Byte <= M
  BY <1>4, <1>5
<1> QED BY <1>1, <1>6

(* The difference of two bytes is the order of the two.                    *)
LEMMA BytesDiffer ==
  ASSUME NEW x \in Bytes8, NEW y \in Bytes8
  PROVE  (Difference(x, y) = 0 <=> x = y) /\ (Negative(Difference(x, y)) <=> x < y)
<1>1. /\ Byte \in Nat /\ x \in Nat /\ y \in Nat /\ x < Byte /\ y < Byte /\ Byte <= Half /\ Half \in Nat
      /\ M = 2 * Half
  BY ByteIsSmall, HalfFact DEF Bytes8
<1>2. CASE y <= x
  <2>1. Difference(x, y) = x - y
    BY <1>1, <1>2 DEF Difference, Minus
  <2> QED BY <1>1, <1>2, <2>1 DEF Negative
<1>3. CASE x < y
  <2>1. Difference(x, y) = x - y + M
    BY <1>1, <1>3 DEF Difference, Minus
  <2> QED BY <1>1, <1>3, <2>1 DEF Negative
<1> QED BY <1>1, <1>2, <1>3

LEMMA FirstBytes ==
  ASSUME NEW S, NEW s \in Seq(S)
  PROVE  \A l \in Nat : l <= Len(s) =>
           SubSeq(s, 1, l) \in Seq(S) /\ Len(SubSeq(s, 1, l)) = l
           /\ SubSeq(s, 1, l) = [j \in 1 .. l |-> s[j]]
<1> TAKE l \in Nat
<1> HAVE l <= Len(s)
<1>1. \A j \in 1 .. l : j \in 1 .. Len(s)
  OBVIOUS
<1>2. SubSeq(s, 1, l) \in Seq(S) /\ Len(SubSeq(s, 1, l)) = l
      /\ \A j \in 1 .. l : SubSeq(s, 1, l)[j] = s[j]
  <2>1. l \in 0 .. Len(s) /\ 1 \in 1 .. Len(s) + 1 /\ (IF 1 <= l THEN l - 1 + 1 ELSE 0) = l
    OBVIOUS
  <2>2. \A j \in 1 .. l : 1 + j - 1 = j
    OBVIOUS
  <2> QED BY <2>1, <2>2, <1>1, SubSeqProperties
<1>3. SubSeq(s, 1, l) = [j \in 1 .. l |-> SubSeq(s, 1, l)[j]]
  BY <1>2, SeqIs
<1> QED BY <1>2, <1>3

(* Two strings of bytes that agree up to k, where u stands in the one and  *)
(* v in the other.                                                         *)
Agree(s, t, k, u, v) ==
  /\ k <= Len(s) /\ k <= Len(t)
  /\ \A j \in 1 .. k : s[j] = t[j]
  /\ k = Len(s) /\ k = Len(t) => u = v
  /\ k = Len(s) /\ k < Len(t) => u < v
  /\ k < Len(s) /\ k = Len(t) => v < u
  /\ k < Len(s) /\ k < Len(t) => u = s[k + 1] /\ v = t[k + 1] /\ u # v

LEMMA Lexical ==
  ASSUME NEW s \in Seq(Bytes8), NEW t \in Seq(Bytes8), NEW k \in Nat, NEW u \in Nat,
         NEW v \in Nat, Agree(s, t, k, u, v)
  PROVE  (u = v <=> s = t) /\ (u < v <=> Below(s, t))
<1> DEFINE m == Len(s)
           n == Len(t)
           First(x, l) == SubSeq(x, 1, l)
<1>0. /\ m \in Nat /\ n \in Nat /\ DOMAIN s = 1 .. m /\ DOMAIN t = 1 .. n
      /\ \A j \in 1 .. m : s[j] \in Nat
      /\ \A j \in 1 .. n : t[j] \in Nat
  <2>1. \A x \in Bytes8 : x \in Nat
    BY ByteIsSmall DEF Bytes8
  <2> QED BY <2>1
<1>a. /\ k <= m /\ k <= n
      /\ \A j \in 1 .. k : s[j] = t[j]
      /\ k = m /\ k = n => u = v
      /\ k = m /\ k < n => u < v
      /\ k < m /\ k = n => v < u
      /\ k < m /\ k < n => u = s[k + 1] /\ v = t[k + 1] /\ u # v
  BY DEF Agree
<1>1. \A l \in Nat : l <= m => First(s, l) = [j \in 1 .. l |-> s[j]]
  BY FirstBytes
<1>2. \A l \in Nat : l <= n => First(t, l) = [j \in 1 .. l |-> t[j]]
  BY FirstBytes
<1>3. ASSUME NEW l \in Nat, l <= m, l <= n
      PROVE  First(s, l) = First(t, l) <=> \A j \in 1 .. l : s[j] = t[j]
  <2>1. First(s, l) = [j \in 1 .. l |-> s[j]] /\ First(t, l) = [j \in 1 .. l |-> t[j]]
    BY <1>1, <1>2, <1>3
  <2> HIDE DEF First
  <2>2. (\A j \in 1 .. l : s[j] = t[j]) =>
          [j \in 1 .. l |-> s[j]] = [j \in 1 .. l |-> t[j]]
    OBVIOUS
  <2>3. ASSUME [j \in 1 .. l |-> s[j]] = [j \in 1 .. l |-> t[j]], NEW j \in 1 .. l
        PROVE  s[j] = t[j]
    <3>1. [i \in 1 .. l |-> s[i]][j] = [i \in 1 .. l |-> t[i]][j]
      BY <2>3
    <3> QED BY <3>1
  <2> QED BY <2>1, <2>2, <2>3
<1>4. Below(s, t) <=> \E l \in 0 .. m : l < n /\ First(s, l) = First(t, l) /\ (l = m \/ s[l + 1] < t[l + 1])
  BY DEF Below
<1>5. s = t <=> m = n /\ \A j \in 1 .. m : s[j] = t[j]
  <2>1. m = n /\ (\A j \in 1 .. m : s[j] = t[j]) => s = t
    BY <1>0, SeqEqual
  <2> QED BY <2>1
<1> HIDE DEF First, m, n
(* An l as in <1>4 is k: before k the two agree, and behind it they do not.*)
<1>6. ASSUME NEW l \in 0 .. m, l < n, First(s, l) = First(t, l), l = m \/ s[l + 1] < t[l + 1]
      PROVE  l = k
  <2>1. l \in Nat /\ l <= m /\ \A j \in 1 .. l : s[j] = t[j]
    BY <1>0, <1>3, <1>6
  <2>2. ~(l < k)
    <3> SUFFICES ASSUME l < k
                 PROVE  FALSE
      OBVIOUS
    <3>1. l + 1 \in 1 .. k /\ l < m
      BY <1>0, <2>1, <1>a
    <3>2. s[l + 1] = t[l + 1] /\ s[l + 1] \in Nat
      BY <1>0, <1>a, <3>1
    <3> QED BY <1>6, <2>1, <3>1, <3>2
  <2>3. ~(k < l)
    <3> SUFFICES ASSUME k < l
                 PROVE  FALSE
      OBVIOUS
    <3>1. k + 1 \in 1 .. l /\ k < m /\ k < n
      BY <1>0, <1>6, <2>1
    <3>2. s[k + 1] = t[k + 1]
      BY <2>1, <3>1
    <3> QED BY <1>a, <3>1, <3>2
  <2> QED BY <2>1, <2>2, <2>3
<1>7. k \in 0 .. m /\ k <= n /\ First(s, k) = First(t, k)
  BY <1>0, <1>a, <1>3
<1>8. Below(s, t) <=> k < n /\ (k = m \/ s[k + 1] < t[k + 1])
  BY <1>4, <1>6, <1>7
<1>9. s = t <=> m = n /\ k = m
  <2>1. m = n /\ k = m => s = t
    BY <1>a, <1>5
  <2>2. ASSUME s = t
        PROVE  m = n /\ k = m
    <3>1. m = n
      BY <1>5, <2>2
    <3>2. ~(k < m)
      BY <1>a, <2>2, <3>1
    <3> QED BY <1>0, <1>7, <3>1, <3>2
  <2> QED BY <2>1, <2>2
<1>10. CASE k = m /\ k = n
  BY <1>0, <1>a, <1>8, <1>9, <1>10
<1>11. CASE k = m /\ k < n
  BY <1>0, <1>a, <1>8, <1>9, <1>11
<1>12. CASE k < m /\ k = n
  BY <1>0, <1>a, <1>8, <1>9, <1>12
<1>13. CASE k < m /\ k < n
  <2>1. u = s[k + 1] /\ v = t[k + 1] /\ u # v /\ k # m /\ k # n
    BY <1>a, <1>0, <1>13
  <2> QED BY <1>8, <1>9, <1>13, <2>1
<1> QED BY <1>0, <1>a, <1>10, <1>11, <1>12, <1>13

LEMMA MemcmpLikeC ==
  ASSUME NEW D, Null(D), NEW a \in Word, NEW b \in Word, NEW c \in Word,
         Allocated(mem, a, c), Allocated(mem, b, c)
  PROVE  LET f == Memcmp(a, b, c)
         IN f.ok /\ Compares(Bytes(mem, a, c), Bytes(mem, b, c), f.r0)
<1> DEFINE s == Bytes(mem, a, c)
           t == Bytes(mem, b, c)
           S == {j \in Offsets(c) : Differ(a, b, j)}
           k == FirstOf(S, c)
           f == Memcmp(a, b, c)
           u == IF k < c THEN mem[a + k] ELSE 0
           v == IF k < c THEN mem[b + k] ELSE 0
<1>0. c \in Nat /\ a \in Nat /\ b \in Nat /\ Guest(D) /\ DOMAIN mem = D
  BY BytesRead, WordIs DEF Null
<1>1. \A j \in Offsets(c) : At(a, j) = a + j /\ a + j \in D /\ At(b, j) = b + j /\ b + j \in D
  BY <1>0, AllocatedIs
<1>2. \A j \in Offsets(c) : BothReadable(a, b, j) /\ (Differ(a, b, j) <=> mem[a + j] # mem[b + j])
  BY <1>0, <1>1 DEF BothReadable, Unmapped, Differ
<1>3. k \in 0 .. c /\ k \in S \cup {c} /\ \A j \in Offsets(k) : j \in Offsets(c) /\ j \notin S
  BY <1>0, FirstIs
<1>4. /\ s \in Seq(Bytes8) /\ Len(s) = c /\ \A j \in Offsets(c) : s[j + 1] = mem[a + j]
      /\ t \in Seq(Bytes8) /\ Len(t) = c /\ \A j \in Offsets(c) : t[j + 1] = mem[b + j]
  <2>1. \A j \in 1 .. c : j - 1 \in Offsets(c) /\ a + j - 1 = a + (j - 1) /\ b + j - 1 = b + (j - 1)
    BY <1>0 DEF Offsets
  <2>2. \A j \in 1 .. c : mem[a + j - 1] \in Bytes8 /\ mem[b + j - 1] \in Bytes8
    BY <1>0, <1>1, <2>1, BytesRead DEF Bytes8
  <2>3. \A j \in Offsets(c) : j + 1 \in 1 .. c /\ a + (j + 1) - 1 = a + j /\ b + (j + 1) - 1 = b + j
    BY <1>0 DEF Offsets
  <2>4. /\ s = [j \in 1 .. c |-> mem[a + j - 1]] /\ t = [j \in 1 .. c |-> mem[b + j - 1]]
    BY DEF Bytes
  <2> HIDE DEF s, t
  <2>5. s \in Seq(Bytes8) /\ Len(s) = c /\ t \in Seq(Bytes8) /\ Len(t) = c
    <3>1. s \in [1 .. c -> Bytes8] /\ t \in [1 .. c -> Bytes8]
      BY <2>2, <2>4
    <3> QED BY <1>0, <3>1
  <2>6. \A j \in Offsets(c) : s[j + 1] = mem[a + j] /\ t[j + 1] = mem[b + j]
    BY <2>3, <2>4
  <2> QED BY <2>5, <2>6
<1>5. f = ComparedAt(a, b, k, c)
  BY DEF Memcmp
<1> HIDE DEF k, s, t
<1>6. k \in Nat /\ k <= c /\ (k < c => k \in Offsets(c) /\ k \in S)
  BY <1>0, <1>3 DEF Offsets
<1>7. u \in Bytes8 /\ v \in Bytes8 /\ u \in Nat /\ v \in Nat
  BY <1>0, <1>1, <1>6, BytesRead, ConstantBytes DEF Bytes8
<1>8. f.ok /\ (f.r0 = 0 <=> u = v) /\ (Negative(f.r0) <=> u < v)
  <2>1. CASE k = c
    <3>1. f = Returned(mem, 0) /\ u = 0 /\ v = 0
      BY <1>0, <1>5, <2>1 DEF ComparedAt
    <3> QED BY <3>1, HalfFact DEF Returned, Negative
  <2>2. CASE k # c
    <3>1. k < c /\ k \in Offsets(c)
      BY <1>0, <1>6, <2>2
    <3>2. f = Returned(mem, Difference(u, v))
      BY <1>1, <1>2, <1>5, <2>2, <3>1 DEF ComparedAt
    <3>3. f.ok /\ f.r0 = Difference(u, v)
      BY <3>2 DEF Returned
    <3> HIDE DEF u, v, f
    <3> QED BY <1>7, <3>3, BytesDiffer
  <2> QED BY <2>1, <2>2
<1>9. (u = v <=> s = t) /\ (u < v <=> Below(s, t))
  <2>1. \A j \in 1 .. k : s[j] = t[j]
    <3> TAKE j \in 1 .. k
    <3>1. j - 1 \in Offsets(k) /\ (j - 1) + 1 = j
      BY <1>6 DEF Offsets
    <3>2. mem[a + (j - 1)] = mem[b + (j - 1)] /\ j - 1 \in Offsets(c)
      BY <1>2, <1>3, <3>1
    <3> QED BY <1>4, <3>1, <3>2
  <2>2. k = c => u = v
    BY <1>0
  <2>3. k < c => u = s[k + 1] /\ v = t[k + 1] /\ u # v
    BY <1>2, <1>4, <1>6
  <2> HIDE DEF u, v
  <2>4. Agree(s, t, k, u, v)
    BY <1>0, <1>4, <1>6, <2>1, <2>2, <2>3 DEF Agree
  <2> QED BY <1>4, <1>6, <1>7, <2>4, Lexical
<1> QED BY <1>8, <1>9 DEF Compares, s, t

(* A comparison of two strings up to a limit.                              *)
CutAt(s, limit) == SubSeq(s, 1, IF limit <= Len(s) THEN limit ELSE Len(s))

LEMMA StringsCompared ==
  ASSUME NEW D, Null(D), NEW a \in Word, NEW b \in Word, IsString(mem, a), IsString(mem, b),
         NEW limit \in Nat
  PROVE  LET f == Strncmp(a, b, limit)
         IN /\ f.ok
            /\ Compares(CutAt(StringOf(mem, a), limit), CutAt(StringOf(mem, b), limit), f.r0)
<1> DEFINE s == StringOf(mem, a)
           t == StringOf(mem, b)
           m == Len(s)
           n == Len(t)
           S == {j \in Offsets(limit) : Differ(a, b, j) \/ mem[At(a, j)] = 0}
           k == FirstOf(S, limit)
           f == Strncmp(a, b, limit)
           u == IF k < limit THEN mem[a + k] ELSE 0
           v == IF k < limit THEN mem[b + k] ELSE 0
           mm == IF limit <= m THEN limit ELSE m
           nn == IF limit <= n THEN limit ELSE n
           cs == CutAt(s, limit)
           ct == CutAt(t, limit)
<1>0. a \in Nat /\ b \in Nat /\ Guest(D) /\ DOMAIN mem = D
  BY BytesRead, WordIs DEF Null
<1>1. /\ s \in Seq(Bytes8) /\ m \in Nat /\ mem[a + m] = 0 /\ Allocated(mem, a, m + 1)
      /\ \A j \in Offsets(m) : s[j + 1] = mem[a + j] /\ mem[a + j] # 0
  BY StringIs
<1>2. /\ t \in Seq(Bytes8) /\ n \in Nat /\ mem[b + n] = 0 /\ Allocated(mem, b, n + 1)
      /\ \A j \in Offsets(n) : t[j + 1] = mem[b + j] /\ mem[b + j] # 0
  BY StringIs
<1> HIDE DEF s, t
<1>3. /\ k \in 0 .. limit /\ k \in S \cup {limit}
      /\ \A j \in Offsets(k) : j \in Offsets(limit) /\ j \notin S
  BY FirstIs
<1>4. f = ComparedAt(a, b, k, limit)
  BY DEF Strncmp
<1> HIDE DEF k, f
<1>5. /\ \A j \in Offsets(m + 1) : At(a, j) = a + j /\ a + j \in D
      /\ \A j \in Offsets(n + 1) : At(b, j) = b + j /\ b + j \in D
  <2>1. m + 1 \in Nat /\ n + 1 \in Nat
    BY <1>1, <1>2
  <2> HIDE DEF m, n
  <2> QED BY <1>0, <1>1, <1>2, <2>1, AllocatedIs
<1> HIDE DEF m, n
<1>6. k \in Nat /\ k <= limit /\ (k < limit => k \in Offsets(limit) /\ k \in S)
  BY <1>3 DEF Offsets
<1>7. k <= m
  <2> SUFFICES ASSUME m < k
               PROVE  FALSE
    BY <1>1, <1>6
  <2>1. m \in Offsets(k) /\ m \in Offsets(m + 1)
    BY <1>1, <1>6 DEF Offsets
  <2>2. mem[At(a, m)] = 0
    BY <1>1, <1>5, <2>1
  <2> QED BY <1>3, <2>1, <2>2
<1>8. k <= n
  <2> SUFFICES ASSUME n < k
               PROVE  FALSE
    BY <1>2, <1>6
  <2>1. n \in Offsets(k) /\ n \in Offsets(n + 1)
    BY <1>2, <1>6 DEF Offsets
  <2>2. mem[At(b, n)] = 0
    BY <1>2, <1>5, <2>1
  <2>3. ~Differ(a, b, n) /\ mem[At(a, n)] # 0
    BY <1>3, <2>1
  <2> QED BY <2>2, <2>3 DEF Differ
<1>9. ASSUME NEW j \in Offsets(k + 1)
      PROVE  /\ At(a, j) = a + j /\ At(b, j) = b + j /\ BothReadable(a, b, j)
             /\ mem[a + j] \in Bytes8 /\ mem[b + j] \in Bytes8
             /\ Differ(a, b, j) <=> mem[a + j] # mem[b + j]
  <2>1. j \in Offsets(m + 1) /\ j \in Offsets(n + 1)
    BY <1>1, <1>2, <1>6, <1>7, <1>8 DEF Offsets
  <2>2. At(a, j) = a + j /\ a + j \in D /\ At(b, j) = b + j /\ b + j \in D
    BY <1>5, <2>1
  <2> QED BY <1>0, <2>2, BytesRead DEF BothReadable, Unmapped, Bytes8, Differ
<1>10. k \in Offsets(k + 1) /\ \A j \in Offsets(k) : j \in Offsets(k + 1)
  BY <1>6 DEF Offsets
<1>11. u \in Bytes8 /\ v \in Bytes8 /\ u \in Nat /\ v \in Nat
  <2>1. u \in Bytes8 /\ v \in Bytes8
    BY <1>9, <1>10, ConstantBytes
  <2> QED BY <2>1, ByteIsSmall DEF Bytes8
<1>12. f.ok /\ (f.r0 = 0 <=> u = v) /\ (Negative(f.r0) <=> u < v)
  <2>1. CASE k = limit
    <3>1. f = Returned(mem, 0) /\ u = 0 /\ v = 0
      BY <1>4, <2>1 DEF ComparedAt
    <3> QED BY <3>1, HalfFact DEF Returned, Negative
  <2>2. CASE k # limit
    <3>1. k < limit
      BY <1>6, <2>2
    <3>2. f = Returned(mem, Difference(u, v))
      BY <1>4, <1>9, <1>10, <2>2, <3>1 DEF ComparedAt
    <3>3. f.ok /\ f.r0 = Difference(u, v)
      BY <3>2 DEF Returned
    <3> HIDE DEF u, v, f
    <3> QED BY <1>11, <3>3, BytesDiffer
  <2> QED BY <2>1, <2>2
<1>13. k < limit => u = mem[a + k] /\ v = mem[b + k] /\ (u # v \/ u = 0)
  BY <1>6, <1>9, <1>10
<1>14. /\ mm \in Nat /\ nn \in Nat /\ mm <= m /\ nn <= n /\ mm <= limit /\ nn <= limit
       /\ (mm = limit \/ mm = m) /\ (nn = limit \/ nn = n) /\ k <= mm /\ k <= nn
  BY <1>1, <1>2, <1>6, <1>7, <1>8
<1>15. /\ cs \in Seq(Bytes8) /\ Len(cs) = mm /\ \A j \in 1 .. mm : cs[j] = s[j]
       /\ ct \in Seq(Bytes8) /\ Len(ct) = nn /\ \A j \in 1 .. nn : ct[j] = t[j]
  <2>1. cs = SubSeq(s, 1, mm) /\ ct = SubSeq(t, 1, nn)
    BY DEF CutAt, m, n
  <2> HIDE DEF cs, ct, mm, nn
  <2>2. cs \in Seq(Bytes8) /\ Len(cs) = mm /\ cs = [j \in 1 .. mm |-> s[j]]
    BY <1>1, <1>14, <2>1, FirstBytes DEF m
  <2>3. ct \in Seq(Bytes8) /\ Len(ct) = nn /\ ct = [j \in 1 .. nn |-> t[j]]
    BY <1>2, <1>14, <2>1, FirstBytes DEF n
  <2> QED BY <2>2, <2>3
<1> HIDE DEF mm, nn, cs, ct, u, v
<1>16. /\ k < m => mem[a + k] # 0 /\ s[k + 1] = mem[a + k]
       /\ k < n => mem[b + k] # 0 /\ t[k + 1] = mem[b + k]
  BY <1>1, <1>2, <1>6 DEF Offsets
<1>17. \A j \in 1 .. k : cs[j] = ct[j]
  <2> TAKE j \in 1 .. k
  <2>1. j - 1 \in Offsets(k) /\ (j - 1) + 1 = j /\ j \in 1 .. mm /\ j \in 1 .. nn
        /\ j - 1 \in Offsets(m) /\ j - 1 \in Offsets(n)
    BY <1>1, <1>2, <1>6, <1>14 DEF Offsets
  <2>2. mem[a + (j - 1)] = mem[b + (j - 1)]
    BY <1>3, <1>9, <1>10, <2>1
  <2>3. s[j] = mem[a + (j - 1)] /\ t[j] = mem[b + (j - 1)]
    BY <1>1, <1>2, <2>1
  <2> QED BY <1>15, <2>1, <2>2, <2>3
<1>18. k = mm /\ k = nn => u = v
  <2>1. CASE k < limit
    BY <1>1, <1>2, <1>13, <1>14, <2>1
  <2>2. CASE ~(k < limit)
    BY <2>2 DEF u, v
  <2> QED BY <2>1, <2>2
<1>19. k = mm /\ k < nn => u < v
  <2> HAVE k = mm /\ k < nn
  <2>1. k < limit /\ k = m /\ k < n
    BY <1>1, <1>2, <1>6, <1>14
  <2> QED BY <1>1, <1>11, <1>13, <1>16, <2>1
<1>20. k < mm /\ k = nn => v < u
  <2> HAVE k < mm /\ k = nn
  <2>1. k < limit /\ k = n /\ k < m
    BY <1>1, <1>2, <1>6, <1>14
  <2> QED BY <1>2, <1>11, <1>13, <1>16, <2>1
<1>21. k < mm /\ k < nn => u = cs[k + 1] /\ v = ct[k + 1] /\ u # v
  <2> HAVE k < mm /\ k < nn
  <2>1. k < limit /\ k < n /\ k < m /\ k + 1 \in 1 .. mm /\ k + 1 \in 1 .. nn
    BY <1>1, <1>2, <1>6, <1>14
  <2>2. u = s[k + 1] /\ v = t[k + 1] /\ u # 0
    BY <1>13, <1>16, <2>1
  <2> QED BY <1>13, <1>15, <2>1, <2>2
<1>22. Agree(cs, ct, k, u, v)
  BY <1>14, <1>15, <1>17, <1>18, <1>19, <1>20, <1>21 DEF Agree
<1>23. (u = v <=> cs = ct) /\ (u < v <=> Below(cs, ct))
  BY <1>6, <1>11, <1>15, <1>22, Lexical
<1> QED BY <1>12, <1>23 DEF Compares, cs, ct, f, s, t

LEMMA StrncmpLikeC ==
  ASSUME NEW D, Null(D), NEW a \in Word, NEW b \in Word, NEW c \in Word,
         IsString(mem, a), IsString(mem, b)
  PROVE  LET f == Strncmp(a, b, c)
             cut(u) == SubSeq(u, 1, Min({c, Len(u)}))
         IN f.ok /\ Compares(cut(StringOf(mem, a)), cut(StringOf(mem, b)), f.r0)
<1> DEFINE cut(u) == SubSeq(u, 1, Min({c, Len(u)}))
<1>1. ASSUME NEW s \in Seq(Bytes8)
      PROVE  cut(s) = CutAt(s, c)
  <2> DEFINE l == IF c <= Len(s) THEN c ELSE Len(s)
  <2>1. c \in Nat /\ Len(s) \in Nat
    BY WordIs
  <2>2. {c, Len(s)} \in SUBSET Nat /\ l \in {c, Len(s)} /\ \A y \in {c, Len(s)} : l <= y
    BY <2>1
  <2>3. Min({c, Len(s)}) = l
    BY <2>2, LeastIs
  <2> QED BY <2>3 DEF CutAt
<1>2. StringOf(mem, a) \in Seq(Bytes8) /\ StringOf(mem, b) \in Seq(Bytes8) /\ c \in Nat
  BY StringIs, WordIs
<1>3. cut(StringOf(mem, a)) = CutAt(StringOf(mem, a), c)
      /\ cut(StringOf(mem, b)) = CutAt(StringOf(mem, b), c)
  BY <1>1, <1>2
<1> QED BY <1>2, <1>3, StringsCompared

LEMMA StrcmpLikeC ==
  ASSUME NEW D, Null(D), NEW a \in Word, NEW b \in Word, IsString(mem, a), IsString(mem, b)
  PROVE  LET f == Strcmp(a, b)
         IN f.ok /\ Compares(StringOf(mem, a), StringOf(mem, b), f.r0)
<1> DEFINE limit == Cardinality(DOMAIN mem) + 1
<1>1. ASSUME NEW x \in Word, IsString(mem, x)
      PROVE  CutAt(StringOf(mem, x), limit) = StringOf(mem, x) /\ limit \in Nat
  <2> DEFINE s == StringOf(mem, x)
  <2>1. Cardinality(DOMAIN mem) \in Nat /\ Len(s) < Cardinality(DOMAIN mem)
    BY <1>1, StringFits
  <2>2. s \in Seq(Bytes8) /\ Len(s) \in Nat
    BY <1>1, StringIs
  <2> HIDE DEF s
  <2>3. CutAt(s, limit) = SubSeq(s, 1, Len(s))
    BY <2>1, <2>2 DEF CutAt
  <2>4. SubSeq(s, 1, Len(s)) = [j \in 1 .. Len(s) |-> s[j]]
    BY <2>2, FirstBytes
  <2>5. s = [j \in 1 .. Len(s) |-> s[j]]
    BY <2>2, SeqIs
  <2> QED BY <2>1, <2>3, <2>4, <2>5 DEF s
<1>2. /\ CutAt(StringOf(mem, a), limit) = StringOf(mem, a) /\ limit \in Nat
      /\ CutAt(StringOf(mem, b), limit) = StringOf(mem, b)
  BY <1>1
<1> HIDE DEF limit
<1>3. LET f == Strncmp(a, b, limit)
      IN f.ok /\ Compares(StringOf(mem, a), StringOf(mem, b), f.r0)
  BY <1>2, StringsCompared
<1> QED BY <1>3 DEF Strcmp, limit

LEMMA StrlenLikeC ==
  ASSUME NEW D, Null(D), NEW a \in Word, IsText(mem, a)
  PROVE  LET f == Strlen(a) IN f.ok /\ f.r0 = Len(StringOf(mem, a))
  BY TextLength DEF Strlen, Ends, Returned

(* The least of the places is the one that is found.                       *)
LEMMA FindsLeast ==
  ASSUME NEW S \in SUBSET Nat, NEW x \in S, \A y \in S : x <= y
  PROVE  Finds(S, x)
  BY LeastIs DEF Finds

LEMMA MemchrLikeC ==
  ASSUME NEW D, Null(D), NEW a \in Word, NEW b \in Word, NEW c \in Word, NEW n \in 0 .. c,
         Allocated(mem, a, n), n = c \/ \E k \in 1 .. n : mem[a + k - 1] = b % Byte
  PROVE  LET f == Memchr(a, b, c)
         IN f.ok /\ Finds({x \in DOMAIN mem : x \in a .. a + c - 1 /\ mem[x] = b % Byte}, f.r0)
<1> DEFINE v == b % Byte
           S == {j \in Offsets(c) : Unmapped(a, j) \/ mem[At(a, j)] = v}
           k == FirstOf(S, c)
           T == {x \in DOMAIN mem : x \in a .. a + c - 1 /\ mem[x] = v}
           f == Memchr(a, b, c)
<1>0. a \in Nat /\ c \in Nat /\ n \in Nat /\ Guest(D) /\ DOMAIN mem = D
      /\ \A x \in D : x \in Nat
  <2>1. a \in Nat /\ c \in Nat /\ Guest(D)
    BY WordIs DEF Null
  <2>2. DOMAIN mem = D /\ \A x \in D : x \in Nat
    BY <2>1, BytesRead, WordIs DEF Guest
  <2> QED BY <2>1, <2>2
<1>1. \A j \in Offsets(n) : At(a, j) = a + j /\ a + j \in D /\ ~Unmapped(a, j)
  BY <1>0, AllocatedIs
<1>2. k \in 0 .. c /\ k \in S \cup {c} /\ \A j \in Offsets(k) : j \in Offsets(c) /\ j \notin S
  BY <1>0, FirstIs
<1>3. f = IF k = c THEN Returned(mem, 0) ELSE Ends(mem, At(a, k), ~Unmapped(a, k))
  BY DEF Memchr
<1> HIDE DEF k, v, f
<1>4. k \in Nat /\ k <= c /\ (k # c => k \in S)
  BY <1>0, <1>2
<1>5. \A x \in T : x - a \in Offsets(c) /\ a + (x - a) = x /\ x \in D /\ mem[x] = v /\ a <= x
  BY <1>0 DEF Offsets
<1>6. k = c => \A j \in Offsets(c) : At(a, j) = a + j
  <2> HAVE k = c
  <2>1. \A j \in Offsets(c) : At(a, j) \in D
    BY <1>0, <1>2 DEF Unmapped
  <2> QED BY <1>0, <2>1, NoWrap
<1>7. CASE k = c
  <2>1. T = {}
    <3> SUFFICES ASSUME NEW x \in T
                 PROVE  FALSE
      OBVIOUS
    <3>1. At(a, x - a) = x /\ x - a \notin S /\ x - a \in Offsets(c)
      BY <1>2, <1>5, <1>6, <1>7
    <3> QED BY <1>5, <3>1
  <2>2. f.ok /\ f.r0 = 0
    BY <1>3, <1>7 DEF Returned
  <2> HIDE DEF T
  <2> QED BY <2>1, <2>2 DEF Finds, T, v, f
<1>8. CASE k # c
  <2>1. k < n
    <3>1. CASE n = c
      BY <1>0, <1>4, <1>8, <3>1
    <3>2. CASE \E i \in 1 .. n : mem[a + i - 1] = v
      <4>1. PICK i \in 1 .. n : mem[a + i - 1] = v
        BY <3>2
      <4>2. i - 1 \in Offsets(n) /\ a + (i - 1) = a + i - 1 /\ i - 1 \in Offsets(c) /\ i - 1 < n
        BY <1>0 DEF Offsets
      <4>3. i - 1 \in S
        BY <1>1, <4>1, <4>2
      <4>4. ~(i - 1 < k)
        BY <1>2, <4>2, <4>3, <1>4 DEF Offsets
      <4> QED BY <1>0, <1>4, <4>2, <4>4
    <3> QED BY <3>1, <3>2 DEF v
  <2>2. k \in Offsets(n) /\ k \in Offsets(c)
    BY <1>0, <1>4, <1>8, <2>1 DEF Offsets
  <2>3. At(a, k) = a + k /\ a + k \in D /\ ~Unmapped(a, k) /\ mem[a + k] = v
    BY <1>1, <1>4, <1>8, <2>2
  <2>4. f.ok /\ f.r0 = a + k
    BY <1>3, <1>8, <2>3 DEF Ends, Returned
  <2>5. a + k \in T
    BY <1>0, <1>4, <2>2, <2>3 DEF Offsets
  <2>6. \A x \in T : a + k <= x
    <3> TAKE x \in T
    <3> SUFFICES ASSUME x - a < k
                 PROVE  FALSE
      BY <1>0, <1>4, <1>5
    <3>1. x - a \in Offsets(k) /\ x - a \in Offsets(n)
      BY <1>0, <1>4, <1>5, <2>1 DEF Offsets
    <3>2. At(a, x - a) = x
      BY <1>1, <1>5, <3>1
    <3> QED BY <1>2, <1>5, <3>1, <3>2
  <2>7. T \in SUBSET Nat
    BY <1>0
  <2> HIDE DEF T
  <2>8. Finds(T, a + k)
    BY <2>5, <2>6, <2>7, FindsLeast
  <2> QED BY <2>4, <2>8 DEF T, v, f
<1> QED BY <1>7, <1>8

LEMMA StrstrLikeC ==
  ASSUME NEW D, Null(D), NEW a \in Word, NEW b \in Word,
         IsText(mem, a), IsUtf8(StringOf(mem, a)), IsText(mem, b), IsUtf8(StringOf(mem, b))
  PROVE  LET f == Strstr(a, b)
             s == StringOf(mem, a)
             t == StringOf(mem, b)
         IN f.ok /\ Finds({a + k : k \in {j \in 0 .. Len(s) - Len(t) :
                                            SubSeq(s, j + 1, j + Len(t)) = t}}, f.r0)
<1> DEFINE f == Strstr(a, b)
           s == StringOf(mem, a)
           t == StringOf(mem, b)
           P == {j \in 0 .. Len(s) - Len(t) : SubSeq(s, j + 1, j + Len(t)) = t}
           T == {a + k : k \in P}
<1>1. /\ Text(a) = s /\ TextReadable(a) /\ Text(b) = t /\ TextReadable(b)
      /\ Len(s) \in Nat /\ Len(t) \in Nat /\ Allocated(mem, a, Len(s) + 1) /\ a \in Nat /\ Guest(D)
  BY TextIs, StringIs, WordIs DEF Null, IsText
<1>2. f = Returned(mem, IF P = {} THEN 0 ELSE At(a, Min(P)))
  BY <1>1 DEF Strstr
<1>3. f.ok /\ f.r0 = IF P = {} THEN 0 ELSE At(a, Min(P))
  BY <1>2 DEF Returned
<1> HIDE DEF f, s, t
<1>4. \A k \in Offsets(Len(s) + 1) : At(a, k) = a + k
  <2>1. Len(s) + 1 \in Nat
    BY <1>1
  <2> QED BY <1>1, <2>1, AllocatedIs
<1>5. P \in SUBSET Nat /\ \A k \in P : k \in Offsets(Len(s) + 1)
  BY <1>1 DEF Offsets
<1> HIDE DEF P
<1>6. CASE P = {}
  <2>1. T = {} /\ f.r0 = 0
    BY <1>3, <1>6
  <2> QED BY <1>3, <2>1 DEF Finds, f, s, t, P
<1>7. CASE P # {}
  <2>1. PICK k \in P : \A j \in P : k <= j
    BY <1>5, <1>7, LeastOfNats
  <2>2. Min(P) = k
    BY <1>5, <2>1, LeastIs
  <2>3. f.r0 = a + k
    BY <1>3, <1>4, <1>5, <1>7, <2>2
  <2>4. T \in SUBSET Nat /\ a + k \in T /\ \A y \in T : a + k <= y
    BY <1>1, <1>5, <2>1
  <2> HIDE DEF T
  <2>5. Finds(T, a + k)
    BY <2>4, FindsLeast
  <2> QED BY <1>3, <2>3, <2>5 DEF f, s, t, P, T
<1> QED BY <1>6, <1>7

-----------------------------------------------------------------------------
(* sprintf.                                                                *)

(* The joined pieces.                                                      *)
LEMMA JoinFold ==
  ASSUME NEW n \in Nat, NEW parts \in [1 .. n -> Seq(Bytes8)]
  PROVE  \E h : /\ h[0] = <<>>
                /\ \A k \in 1 .. n : h[k] = h[k - 1] \o parts[k]
                /\ \A k \in 0 .. n : h[k] \in Seq(Bytes8)
                /\ FoldLeft(LAMBDA s, t : s \o t, <<>>, parts) = h[n]
<1> DEFINE I == SUBSET (1 .. n)
           All == Seq(Bytes8)
           G == [x \in All \X (1 .. n) |-> x[1] \o parts[x[2]]]
           Iter(g) == g = [s \in I |-> IF s = {} THEN <<>> ELSE g[s \ {Max(s)}] \o parts[Max(s)]]
           it == CHOOSE g : Iter(g)
           h == [k \in 0 .. n |-> it[1 .. k]]
<1>1. <<>> \in All
  OBVIOUS
<1>2. \A x \in All, k \in 1 .. n : x \o parts[k] \in All
  BY ConcatProperties
<1> HIDE DEF All
<1>3. G \in [All \X (1 .. n) -> All]
  BY <1>2
<1>4. \A x \in All, k \in 1 .. n : G[<<x, k>>] = x \o parts[k]
  OBVIOUS
<1> HIDE DEF G
<1>5. PICK f \in [I -> All] :
        \A T \in I : f[T] = IF T = {} THEN <<>> ELSE G[<<f[T \ {Max(T)}], Max(T)>>]
  <2>1. \E f \in [I -> All] : Folds(f, n, <<>>, G)
    BY <1>1, <1>3, FoldOf
  <2> QED BY <2>1 DEF Folds
<1>6. \A T \in I : T # {} => T \ {Max(T)} \in I /\ Max(T) \in 1 .. n /\ f[T \ {Max(T)}] \in All
  BY MaxOfSegment
<1>7. Iter(f)
  <2>1. \A T \in I : f[T] = IF T = {} THEN <<>> ELSE f[T \ {Max(T)}] \o parts[Max(T)]
    BY <1>4, <1>5, <1>6
  <2> QED BY <2>1
<1>8. Iter(it)
  BY <1>7, Zenon
<1>9. FoldLeft(LAMBDA s, t : s \o t, <<>>, parts) = it[1 .. n]
  <2>1. DOMAIN parts = 1 .. n
    OBVIOUS
  <2> QED BY <2>1, Zenon DEF FoldLeft, MapThenFoldSet
<1> HIDE DEF it
<1>10. it[{}] = <<>> /\ 1 .. 0 = {}
  BY <1>8
<1>11. ASSUME NEW k \in 1 .. n
       PROVE  h[k] = h[k - 1] \o parts[k]
  <2>1. 1 .. k \in I /\ 1 .. k # {} /\ Max(1 .. k) = k
    <3>1. Max(1 .. k) = k
      BY MaxOfUpTo, Zenon
    <3>2. k \in 1 .. k /\ \A j \in 1 .. k : j \in 1 .. n
      OBVIOUS
    <3> QED BY <3>1, <3>2
  <2>2. it[1 .. k] = it[(1 .. k) \ {k}] \o parts[k]
    BY <1>8, <2>1
  <2>3. (1 .. k) \ {k} = 1 .. k - 1 /\ k \in 0 .. n /\ k - 1 \in 0 .. n
    OBVIOUS
  <2> QED BY <2>2, <2>3
<1>12. h[0] = <<>> /\ h[n] = it[1 .. n]
  BY <1>10
<1> HIDE DEF h
<1>13. \A k \in 0 .. n : h[k] \in All
  <2> DEFINE P == {k \in 0 .. n : h[k] \in All}
  <2>1. 0 \in P
    BY <1>1, <1>12
  <2>2. ASSUME NEW k \in 0 .. n - 1, k \in P
        PROVE  k + 1 \in P
    <3>1. k + 1 \in 1 .. n /\ (k + 1) - 1 = k /\ k + 1 \in 0 .. n
      OBVIOUS
    <3>2. h[k + 1] = h[k] \o parts[k + 1]
      BY <1>11, <3>1
    <3> QED BY <1>2, <2>2, <3>1, <3>2
  <2> HIDE DEF P
  <2>3. \A k \in 0 .. n : k \in P
    BY <2>1, <2>2, UpTo
  <2> QED BY <2>3 DEF P
<1> QED BY <1>9, <1>11, <1>12, <1>13, Zenon DEF All

(* What a byte of the format does, in a format of "%s" and "%%".           *)
LEMMA FormatCases ==
  ASSUME NEW s \in Formats, NEW b \in Bytes8
  PROVE  /\ s.mode = "text" /\ b = Percent =>
              FormatByte(s, b) = [mode |-> "percent", out |-> s.out, used |-> s.used, ok |-> s.ok]
         /\ s.mode = "text" /\ b # Percent =>
              FormatByte(s, b) =
                [mode |-> "text", out |-> Append(s.out, b), used |-> s.used, ok |-> s.ok]
         /\ s.mode = "percent" /\ b = Percent =>
              FormatByte(s, b) =
                [mode |-> "text", out |-> Append(s.out, b), used |-> s.used, ok |-> s.ok]
         /\ /\ s.mode = "percent" /\ b = LetterS
            /\ ArgumentReadable(s.used) /\ TextReadable(Argument(s.used))
            => FormatByte(s, b) = [mode |-> "text", out |-> s.out \o Text(Argument(s.used)),
                                   used |-> s.used + 1, ok |-> s.ok]
<1>1. /\ Percent # LetterS /\ DigitByte # LetterS /\ DigitByte # Percent
      /\ "text" # "percent"
  BY DEF Percent, LetterS, DigitByte
<1>2. s = [mode |-> s.mode, out |-> s.out, used |-> s.used, ok |-> s.ok]
  BY Zenon DEF Formats
<1> DEFINE text == [s EXCEPT !.mode = "text"]
<1>3. ASSUME s.mode = "text", b = Percent
      PROVE  FormatByte(s, b) = [mode |-> "percent", out |-> s.out, used |-> s.used, ok |-> s.ok]
  <2>1. FormatByte(s, b) = [s EXCEPT !.mode = "percent"]
    BY <1>1, <1>3, Zenon DEF FormatByte
  <2> QED BY <1>2, <2>1
<1>4. ASSUME s.mode = "text", b # Percent
      PROVE  FormatByte(s, b) =
               [mode |-> "text", out |-> Append(s.out, b), used |-> s.used, ok |-> s.ok]
  <2>1. FormatByte(s, b) = [s EXCEPT !.out = Append(@, b)]
    BY <1>1, <1>4, Zenon DEF FormatByte
  <2> QED BY <1>2, <1>4, <2>1
<1>5. ASSUME s.mode = "percent", b = Percent
      PROVE  FormatByte(s, b) =
               [mode |-> "text", out |-> Append(s.out, b), used |-> s.used, ok |-> s.ok]
  <2>1. FormatByte(s, b) = [text EXCEPT !.out = Append(@, Percent)]
    BY <1>1, <1>5, Zenon DEF FormatByte
  <2> QED BY <1>2, <1>5, <2>1
<1>6. ASSUME s.mode = "percent", b = LetterS,
             ArgumentReadable(s.used), TextReadable(Argument(s.used))
      PROVE  FormatByte(s, b) = [mode |-> "text", out |-> s.out \o Text(Argument(s.used)),
                                 used |-> s.used + 1, ok |-> s.ok]
  <2> DEFINE more == Text(Argument(s.used))
  <2>1. FormatByte(s, b) = [text EXCEPT !.out = @ \o more, !.used = @ + 1]
    BY <1>1, <1>6, Zenon DEF FormatByte
  <2> HIDE DEF more
  <2>2. FormatByte(s, b) = [mode |-> "text", out |-> s.out \o more, used |-> s.used + 1, ok |-> s.ok]
    BY <1>2, <1>6, <2>1
  <2> QED BY <2>2 DEF more
<1> QED BY <1>3, <1>4, <1>5, <1>6

(* The argument that is used next.                                         *)
LEMMA GivenIs ==
  ASSUME NEW D, Null(D), NEW used \in Nat, used + 1 > 2 => Allocated(mem, StackedAt(used + 1), 4)
  PROVE  ArgumentReadable(used) /\ Argument(used) = Given(used + 1)
<1>1. CASE used < 2
  <2>1. used + 1 < 3 /\ (used + 1) + 1 = 2 + used
    BY <1>1
  <2> QED BY <1>1, <2>1 DEF ArgumentReadable, Argument, Given
<1>2. CASE ~(used < 2)
  <2> DEFINE x == StackedAt(used + 1)
  <2>1. Sp \in Word /\ Sp \in Nat /\ Guest(D) /\ DOMAIN mem = D
    BY RegisterWord, WordIs, BytesRead DEF Guest, Null, Sp, Registers
  <2>2. x = Sp + 4 * (used - 2) /\ x \in Nat
    BY <1>2, <2>1 DEF StackedAt
  <2>3. x .. x + 4 - 1 \subseteq D
    BY <1>2, <2>1 DEF Allocated
  <2>4. \A k \in 0 .. 3 : x + k \in D
    <3> HIDE DEF x
    <3> QED BY <2>2, <2>3
  <2>5. x \in D /\ x < M
    <3> HIDE DEF x
    <3>1. x + 0 \in D /\ x + 0 = x
      BY <2>2, <2>4
    <3> QED BY <2>1, <3>1, WordIs DEF Guest
  <2>6. ArgumentAt(used) = x
    <3>1. x % M = x
      BY <2>2, <2>5, DivSmall, HalfFact
    <3> QED BY <2>2, <3>1 DEF ArgumentAt, At
  <2> HIDE DEF x
  <2>7. Mapped(x, 4)
    BY <2>1, <2>4 DEF Mapped
  <2>8. ~(used + 1 < 3)
    BY <1>2
  <2> QED BY <1>2, <2>6, <2>7, <2>8, Zenon DEF ArgumentReadable, Argument, Given, x
<1> QED BY <1>1, <1>2

(* The strings that were named up to a place of the format.                *)
LEMMA NamedStep ==
  ASSUME NEW fmt, NEW k \in Nat
  PROVE  /\ Named(fmt, k) \in Nat
         /\ Named(fmt, k + 1) = IF Names(fmt, k + 1) THEN Named(fmt, k) + 1 ELSE Named(fmt, k)
<1> DEFINE T(n) == {j \in 1 .. n : Names(fmt, j)}
<1>1. IsFiniteSet(T(k))
  <2>1. IsFiniteSet(1 .. k)
    BY FS_Interval
  <2> QED BY <2>1, FS_Subset
<1>2. Cardinality(T(k)) \in Nat
  BY <1>1, FS_CardinalityType
<1>3. CASE Names(fmt, k + 1)
  <2>1. T(k + 1) = T(k) \cup {k + 1} /\ k + 1 \notin T(k)
    BY <1>3
  <2> HIDE DEF T
  <2>2. Cardinality(T(k + 1)) = Cardinality(T(k)) + 1
    BY <1>1, <2>1, FS_AddElement
  <2> QED BY <1>2, <1>3, <2>2 DEF Named, T
<1>4. CASE ~Names(fmt, k + 1)
  <2>1. T(k + 1) = T(k)
    BY <1>4
  <2> QED BY <1>2, <1>4, <2>1 DEF Named
<1> QED BY <1>3, <1>4

LEMMA NamedGrows ==
  ASSUME NEW fmt, NEW n \in Nat, NEW k \in 0 .. n
  PROVE  Named(fmt, k) <= Named(fmt, n)
<1>1. {j \in 1 .. k : Names(fmt, j)} \subseteq {j \in 1 .. n : Names(fmt, j)}
  OBVIOUS
<1>2. IsFiniteSet({j \in 1 .. n : Names(fmt, j)})
  <2>1. IsFiniteSet(1 .. n)
    BY FS_Interval
  <2> QED BY <2>1, FS_Subset
<1> QED BY <1>1, <1>2, FS_Subset DEF Named

(* The strings that a format names can be read, and are read as they are.  *)
LEMMA GivenText ==
  ASSUME NEW D, Null(D), NEW j \in Nat \ {0}, j > 2 => Allocated(mem, StackedAt(j), 4),
         IsText(mem, Given(j)), IsUtf8(StringOf(mem, Given(j)))
  PROVE  /\ ArgumentReadable(j - 1) /\ TextReadable(Argument(j - 1))
         /\ Text(Argument(j - 1)) = StringOf(mem, Given(j))
         /\ StringOf(mem, Given(j)) \in Seq(Bytes8)
<1>1. j - 1 \in Nat /\ (j - 1) + 1 = j /\ Guest(D)
  BY DEF Null
<1>2. ArgumentReadable(j - 1) /\ Argument(j - 1) = Given(j)
  BY <1>1, GivenIs
<1>3. Given(j) \in Word
  BY <1>1, <1>2, ArgumentWord
<1>4. Text(Given(j)) = StringOf(mem, Given(j)) /\ TextReadable(Given(j))
  BY <1>3, TextIs
<1>5. StringOf(mem, Given(j)) \in Seq(Bytes8)
  BY <1>3, StringIs DEF IsText
<1> QED BY <1>2, <1>4, <1>5

(* After the byte k of the format.                                         *)
FormatAt(fmt, k, out) ==
  [mode |-> IF k >= 1 /\ Opens(fmt, k) THEN "percent" ELSE "text",
   out |-> out, used |-> Named(fmt, k), ok |-> TRUE]

LEMMA FormatNext ==
  ASSUME NEW D, Null(D), NEW fmt, NEW n \in Nat, fmt \in [1 .. n -> Bytes8], IsSimpleFormat(fmt),
         NEW k \in 0 .. n - 1, NEW out \in Seq(Bytes8), FormatAt(fmt, k, out) \in Formats,
         Names(fmt, k + 1) =>
           LET j == Named(fmt, k + 1)
           IN /\ j > 2 => Allocated(mem, StackedAt(j), 4)
              /\ IsText(mem, Given(j)) /\ IsUtf8(StringOf(mem, Given(j)))
  PROVE  FormatByte(FormatAt(fmt, k, out), fmt[k + 1])
           = FormatAt(fmt, k + 1, out \o Piece(fmt, k + 1))
<1> DEFINE b == fmt[k + 1]
           s == FormatAt(fmt, k, out)
           open == k >= 1 /\ Opens(fmt, k)
           used == Named(fmt, k)
<1>0. /\ k \in Nat /\ k + 1 \in 1 .. n /\ (k + 1) - 1 = k /\ DOMAIN fmt = 1 .. n /\ Len(fmt) = n
      /\ k >= 1 => k \in 1 .. n
      /\ b \in Bytes8 /\ k + 1 >= 1
  OBVIOUS
<1>1. /\ s.mode = IF open THEN "percent" ELSE "text"
      /\ s.out = out /\ s.used = used /\ s.ok = TRUE
  BY DEF FormatAt
<1>2. /\ used \in Nat
      /\ Named(fmt, k + 1) = IF Names(fmt, k + 1) THEN used + 1 ELSE used
  BY <1>0, NamedStep
<1>3. Opens(fmt, k + 1) <=> b = Percent /\ (k = 0 \/ fmt[k] # Percent)
  BY <1>0 DEF Opens
<1>4. Names(fmt, k + 1) <=> b = LetterS /\ open
  BY <1>0 DEF Names
<1>5. open => fmt[k] = Percent /\ b \in {LetterS, Percent}
  BY <1>0 DEF IsSimpleFormat, Opens
<1>6. ~open /\ b = Percent => Opens(fmt, k + 1)
  <2> SUFFICES ASSUME ~open, b = Percent, k # 0, fmt[k] = Percent
               PROVE  FALSE
    BY <1>3
  <2>1. k >= 1 /\ k # 1 /\ fmt[k - 1] = Percent
    BY <1>0 DEF Opens
  <2>2. k + 1 > 2 /\ (k + 1) - 2 = k - 1
    BY <1>0, <2>1
  <2> QED BY <1>0, <2>1, <2>2 DEF IsSimpleFormat
<1>7. Percent # LetterS
  BY DEF Percent, LetterS
<1>8. \A x \in Seq(Bytes8) : x \o <<>> = x /\ x \o <<b>> = Append(x, b)
  BY <1>0
<1>9. FormatAt(fmt, k + 1, out \o Piece(fmt, k + 1))
        = [mode |-> IF Opens(fmt, k + 1) THEN "percent" ELSE "text",
           out |-> out \o Piece(fmt, k + 1), used |-> Named(fmt, k + 1), ok |-> TRUE]
  BY <1>0 DEF FormatAt
<1>10. s \in Formats
  OBVIOUS
<1> HIDE DEF s, open, used
<1>11. CASE ~open /\ b = Percent
  <2>1. Opens(fmt, k + 1) /\ ~Names(fmt, k + 1)
    BY <1>4, <1>6, <1>11
  <2>2. Piece(fmt, k + 1) = <<>>
    BY <2>1, <1>4, Zenon DEF Piece
  <2>3. FormatByte(s, b) = [mode |-> "percent", out |-> out, used |-> used, ok |-> TRUE]
    BY <1>0, <1>1, <1>10, <1>11, FormatCases
  <2> QED BY <1>2, <1>8, <1>9, <2>1, <2>2, <2>3 DEF s
<1>12. CASE ~open /\ b # Percent
  <2>1. ~Opens(fmt, k + 1) /\ ~Names(fmt, k + 1)
    BY <1>3, <1>4, <1>12
  <2>2. Piece(fmt, k + 1) = <<b>>
    BY <2>1, Zenon DEF Piece
  <2>3. FormatByte(s, b) = [mode |-> "text", out |-> Append(out, b), used |-> used, ok |-> TRUE]
    BY <1>0, <1>1, <1>10, <1>12, FormatCases
  <2> QED BY <1>2, <1>8, <1>9, <2>1, <2>2, <2>3 DEF s
<1>13. CASE open /\ b = Percent
  <2>1. ~Opens(fmt, k + 1) /\ ~Names(fmt, k + 1)
    BY <1>0, <1>3, <1>4, <1>5, <1>7, <1>13 DEF open
  <2>2. Piece(fmt, k + 1) = <<b>>
    BY <2>1, Zenon DEF Piece
  <2>3. FormatByte(s, b) = [mode |-> "text", out |-> Append(out, b), used |-> used, ok |-> TRUE]
    BY <1>0, <1>1, <1>10, <1>13, FormatCases
  <2> QED BY <1>2, <1>8, <1>9, <2>1, <2>2, <2>3 DEF s
<1>14. CASE open /\ b = LetterS
  <2> DEFINE j == Named(fmt, k + 1)
             more == StringOf(mem, Given(j))
  <2>1. ~Opens(fmt, k + 1) /\ Names(fmt, k + 1)
    BY <1>3, <1>4, <1>7, <1>14
  <2>2. j \in Nat \ {0} /\ j - 1 = used /\ j = used + 1
    BY <1>2, <2>1
  <2>3. ArgumentReadable(used) /\ TextReadable(Argument(used)) /\ Text(Argument(used)) = more
    <3>1. /\ j > 2 => Allocated(mem, StackedAt(j), 4)
          /\ IsText(mem, Given(j)) /\ IsUtf8(StringOf(mem, Given(j)))
      BY <2>1
    <3> HIDE DEF j
    <3> QED BY <2>2, <3>1, GivenText
  <2>4. Piece(fmt, k + 1) = more
    BY <2>1, Zenon DEF Piece
  <2> HIDE DEF more, j
  <2>5. FormatByte(s, b) = [mode |-> "text", out |-> out \o more, used |-> used + 1, ok |-> TRUE]
    BY <1>0, <1>1, <1>10, <1>14, <2>3, FormatCases
  <2> QED BY <1>9, <2>1, <2>2, <2>4, <2>5 DEF s, j
<1> QED BY <1>5, <1>11, <1>12, <1>13, <1>14

LEMMA FormatPrinted ==
  ASSUME NEW D, Null(D), NEW b \in Word, NEW c, NEW a, Wanted("sprintf", a, b, c)
  PROVE  /\ TextReadable(b) /\ Format(b) = [out |-> Printed(StringOf(mem, b)), ok |-> TRUE]
         /\ Printed(StringOf(mem, b)) \in Seq(Bytes8)
<1> DEFINE fmt == StringOf(mem, b)
           n == Len(fmt)
           parts == [k \in 1 .. n |-> Piece(fmt, k)]
<1>1. /\ IsText(mem, b) /\ IsUtf8(fmt) /\ IsSimpleFormat(fmt)
      /\ \A j \in 1 .. Named(fmt, n) :
           /\ j > 2 => Allocated(mem, StackedAt(j), 4)
           /\ IsText(mem, Given(j)) /\ IsUtf8(StringOf(mem, Given(j)))
  BY DEF Wanted
<1>2. n \in Nat /\ fmt \in [1 .. n -> Bytes8] /\ Guest(D)
  BY <1>1, StringIs DEF IsText, Null
<1>3. Text(b) = fmt /\ TextReadable(b)
  BY <1>1, TextIs
<1> HIDE DEF fmt, n
<1>4. PICK h : /\ h[0] = [mode |-> "text", out |-> <<>>, used |-> 0, ok |-> TRUE]
               /\ \A k \in 1 .. n :
                    h[k] = IF h[k - 1].ok THEN FormatByte(h[k - 1], fmt[k]) ELSE h[k - 1]
               /\ \A k \in 0 .. n : h[k] \in Formats
               /\ Format(b) = [out |-> IF h[n].mode = "text" THEN h[n].out
                                       ELSE h[n].out \o <<Percent, Percent>>,
                               ok |-> h[n].ok]
  <2>1. \E h : /\ h[0] = [mode |-> "text", out |-> <<>>, used |-> 0, ok |-> TRUE]
               /\ \A k \in 1 .. Len(Text(b)) :
                    h[k] = IF h[k - 1].ok THEN FormatByte(h[k - 1], Text(b)[k]) ELSE h[k - 1]
               /\ \A k \in 0 .. Len(Text(b)) : h[k] \in Formats
               /\ Format(b) = [out |-> IF h[Len(Text(b))].mode = "text" THEN h[Len(Text(b))].out
                                       ELSE h[Len(Text(b))].out \o <<Percent, Percent>>,
                               ok |-> h[Len(Text(b))].ok]
    BY <1>2, FormatFold, Zenon
  <2>2. n = Len(fmt)
    BY DEF n
  <2>3. Len(Text(b)) = n
    BY <1>3, <2>2, Zenon
  <2> QED BY <1>3, <2>1, <2>3, Zenon
<1>5. \A k \in 0 .. n : Named(fmt, k) \in Nat /\ Named(fmt, k) <= Named(fmt, n)
  BY <1>2, NamedStep, NamedGrows
<1>6. ASSUME NEW k \in 1 .. n, Names(fmt, k)
      PROVE  Named(fmt, k) \in 1 .. Named(fmt, n)
  <2>1. k - 1 \in Nat /\ (k - 1) + 1 = k /\ k \in 0 .. n /\ n \in 0 .. n
    BY <1>2
  <2>2. Named(fmt, k - 1) \in Nat /\ Named(fmt, k) = Named(fmt, k - 1) + 1
    BY <1>6, <2>1, NamedStep
  <2> QED BY <1>5, <2>1, <2>2
<1>7. parts \in [1 .. n -> Seq(Bytes8)]
  <2>1. ASSUME NEW k \in 1 .. n
        PROVE  Piece(fmt, k) \in Seq(Bytes8)
    <3>1. Opens(fmt, k) => Piece(fmt, k) = <<>>
      <4>1. Opens(fmt, k) => ~Names(fmt, k)
        BY DEF Opens, Names, Percent, LetterS
      <4> QED BY <4>1, Zenon DEF Piece
    <3>2. ~Opens(fmt, k) /\ ~Names(fmt, k) => Piece(fmt, k) = <<fmt[k]>>
      BY Zenon DEF Piece
    <3>3. ASSUME Names(fmt, k)
          PROVE  Piece(fmt, k) \in Seq(Bytes8)
      <4> DEFINE j == Named(fmt, k)
      <4>1. j \in 1 .. Named(fmt, n)
        BY <1>6, <3>3
      <4>2. /\ j > 2 => Allocated(mem, StackedAt(j), 4)
            /\ IsText(mem, Given(j)) /\ IsUtf8(StringOf(mem, Given(j)))
        BY <1>1, <4>1 DEF n
      <4>3. ~Opens(fmt, k)
        BY <3>3 DEF Opens, Names, Percent, LetterS
      <4>4. Piece(fmt, k) = StringOf(mem, Given(j))
        BY <3>3, <4>3, Zenon DEF Piece
      <4> HIDE DEF j
      <4>5. j \in Nat \ {0}
        BY <4>1
      <4> QED BY <4>2, <4>4, <4>5, GivenText
    <3>4. fmt[k] \in Bytes8
      BY <1>2
    <3>5. <<fmt[k]>> \in Seq(Bytes8) /\ <<>> \in Seq(Bytes8)
      BY <3>4
    <3> QED BY <3>1, <3>2, <3>3, <3>5, Zenon
  <2> QED BY <2>1
<1>8. PICK g : /\ g[0] = <<>>
               /\ \A k \in 1 .. n : g[k] = g[k - 1] \o parts[k]
               /\ \A k \in 0 .. n : g[k] \in Seq(Bytes8)
               /\ FoldLeft(LAMBDA s, t : s \o t, <<>>, parts) = g[n]
  <2> HIDE DEF parts
  <2> QED BY <1>2, <1>7, JoinFold
<1>9. Printed(fmt) = g[n]
  BY <1>8, Zenon DEF Printed, n
<1> DEFINE P == {k \in 0 .. n : h[k] = FormatAt(fmt, k, g[k])}
<1>10. 0 \in P
  <2>1. {j \in 1 .. 0 : Names(fmt, j)} = {}
    OBVIOUS
  <2>2. Named(fmt, 0) = 0
    BY <2>1, FS_EmptySet DEF Named
  <2>3. FormatAt(fmt, 0, g[0]) = h[0]
    <3>1. ~(0 >= 1)
      OBVIOUS
    <3> QED BY <1>4, <1>8, <2>2, <3>1, Zenon DEF FormatAt
  <2>4. 0 \in 0 .. n
    BY <1>2
  <2> QED BY <2>3, <2>4, Zenon
<1>11. ASSUME NEW k \in 0 .. n - 1, k \in P
       PROVE  k + 1 \in P
  <2>1. k + 1 \in 1 .. n /\ (k + 1) - 1 = k /\ k + 1 \in 0 .. n /\ k \in 0 .. n
    BY <1>2
  <2>2. h[k] = FormatAt(fmt, k, g[k]) /\ h[k] \in Formats /\ g[k] \in Seq(Bytes8)
    BY <1>4, <1>8, <1>11, <2>1
  <2>3. h[k].ok
    BY <2>2 DEF FormatAt
  <2>4. h[k + 1] = FormatByte(h[k], fmt[k + 1])
    BY <1>4, <2>1, <2>3
  <2>5. g[k + 1] = g[k] \o Piece(fmt, k + 1)
    BY <1>8, <2>1
  <2>6. Names(fmt, k + 1) =>
          LET j == Named(fmt, k + 1)
          IN /\ j > 2 => Allocated(mem, StackedAt(j), 4)
             /\ IsText(mem, Given(j)) /\ IsUtf8(StringOf(mem, Given(j)))
    BY <1>1, <1>6, <2>1 DEF n
  <2>7. FormatByte(FormatAt(fmt, k, g[k]), fmt[k + 1])
          = FormatAt(fmt, k + 1, g[k] \o Piece(fmt, k + 1))
    BY <1>1, <1>2, <2>2, <2>6, FormatNext
  <2>8. h[k + 1] = FormatAt(fmt, k + 1, g[k + 1])
    BY <2>2, <2>4, <2>5, <2>7, Zenon
  <2> QED BY <2>1, <2>8
<1> HIDE DEF P
<1>12. \A k \in 0 .. n : k \in P
  BY <1>2, <1>10, <1>11, UpTo
<1>13. h[n] = FormatAt(fmt, n, g[n]) /\ g[n] \in Seq(Bytes8)
  <2>1. n \in 0 .. n
    BY <1>2
  <2>2. n \in P
    BY <1>12, <2>1, Zenon
  <2> QED BY <1>8, <2>1, <2>2, Zenon DEF P
<1>14. ~(n >= 1 /\ Opens(fmt, n))
  <2>1. DOMAIN fmt = 1 .. n /\ Len(fmt) = n
    BY <1>2 DEF n
  <2> QED BY <1>1, <1>2, <2>1 DEF IsSimpleFormat
<1>15. h[n].mode = "text" /\ h[n].out = g[n] /\ h[n].ok = TRUE
  BY <1>13, <1>14 DEF FormatAt
<1>16. Format(b) = [out |-> g[n], ok |-> TRUE]
  BY <1>4, <1>15, Zenon
<1> QED BY <1>3, <1>9, <1>13, <1>16 DEF fmt

LEMMA SprintfLikeC ==
  ASSUME NEW D, Null(D), NEW a \in Word, NEW b \in Word, NEW c
  PROVE  CopyLikeC("sprintf", a, b, c, Sprintf(a, b))
<1> DEFINE f == Format(b)
           s == StoreText(a, f.out)
           t == Printed(StringOf(mem, b))
           e == Append(t, 0)
<1>1. f.out \in Seq(Bytes8)
  BY FormatTyped DEF Null
<1>2. /\ \A x \in DOMAIN mem : s.mem[x] # mem[x] => a <= x
      /\ Allocated(mem, a, Len(Append(f.out, 0))) =>
           s.ok /\ s.mem = Overlay(mem, a, Append(f.out, 0))
  BY <1>1, StoreTextIs
<1>3. Sprintf(a, b) = IF ~TextReadable(b) \/ ~f.ok THEN Broken(mem)
                      ELSE Ends(s.mem, Len(f.out) % M, s.ok)
  BY DEF Sprintf
<1> HIDE DEF s, f
<1>4. Within("sprintf", a, c, Sprintf(a, b))
  BY <1>2, <1>3 DEF Within, Broken, Ends, Returned, Copying
<1>5. ASSUME Wanted("sprintf", a, b, c), Allocated(mem, a, Len(e))
      PROVE  Sprintf(a, b) = [mem |-> Overlay(mem, a, e), ok |-> TRUE, r0 |-> Len(e) - 1]
  <2>1. TextReadable(b) /\ f.out = t /\ f.ok /\ t \in Seq(Bytes8)
    BY <1>5, FormatPrinted DEF f
  <2> HIDE DEF t
  <2>2. s.ok /\ s.mem = Overlay(mem, a, e)
    BY <1>2, <1>5, <2>1
  <2>3. Len(e) = Len(t) + 1 /\ Len(t) \in Nat
    BY <2>1, ConstantBytes
  <2>4. Len(t) % M = Len(e) - 1
    <3>1. a + Len(e) <= M /\ a \in Nat /\ M \in Nat
      <4>1. Len(e) \in Nat /\ Guest(D)
        BY <2>3 DEF Null
      <4> HIDE DEF e
      <4> QED BY <1>5, <4>1, AllocatedIs, WordIs, HalfFact
    <3>2. Len(t) < M
      BY <2>3, <3>1
    <3> QED BY <2>3, <3>2, DivSmall, HalfFact
  <2> QED BY <1>3, <2>1, <2>2, <2>4 DEF Ends, Returned
<1>6. CopiesLikeC("sprintf", a, b, c, Sprintf(a, b))
  BY <1>5 DEF CopiesLikeC, Copied
<1> QED BY <1>4, <1>6 DEF CopyLikeC

-----------------------------------------------------------------------------
(* Every function, and the calls of the guest.                             *)

LEMMA CopyingLikeC ==
  ASSUME NEW D, Null(D), NEW name \in Copying, NEW a \in Word, NEW b \in Word, NEW c \in Word
  PROVE  CopyLikeC(name, a, b, c, Copy(name, a, b, c))
<1>1. CASE name = "memcpy"
  BY <1>1, MemcpyLikeC DEF Copy
<1>2. CASE name = "memmove"
  BY <1>2, MemmoveLikeC DEF Copy
<1>3. CASE name = "memset"
  BY <1>3, MemsetLikeC DEF Copy
<1>4. CASE name = "strncpy"
  BY <1>4, StrncpyLikeC DEF Copy
<1> QED BY <1>1, <1>2, <1>3, <1>4 DEF Copying

LEMMA MakeTextLikeC ==
  ASSUME NEW D, Null(D), NEW name \in Texts, NEW a \in Word, NEW b \in Word, NEW c \in Word
  PROVE  CopyLikeC(name, a, b, c, MakeText(name, a, b, c))
<1>1. CASE name = "strcpy"
  BY <1>1, StrcpyLikeC DEF MakeText
<1>2. CASE name = "strcat"
  BY <1>2, StrcatLikeC DEF MakeText
<1>3. CASE name = "strncat"
  BY <1>3, StrncatLikeC DEF MakeText
<1>4. CASE name = "sprintf"
  BY <1>4, SprintfLikeC DEF MakeText
<1> QED BY <1>1, <1>2, <1>3, <1>4 DEF Texts

(* What a call of a function that searches leaves: f.                      *)
SearchLikeC(name, a, b, c, f) ==
  f.mem = mem /\ (Wanted(name, a, b, c) => f.ok /\ Answers(name, a, b, c, f.r0))

LEMMA SearchesKeep ==
  ASSUME NEW name \in Searching, NEW a, NEW b, NEW c
  PROVE  Search(name, a, b, c).mem = mem
<1>1. /\ \A r : Returned(mem, r).mem = mem
      /\ \A r, ok : Ends(mem, r, ok).mem = mem
      /\ Broken(mem).mem = mem
  BY DEF Returned, Broken, Ends
<1>2. \A k, limit : ComparedAt(a, b, k, limit).mem = mem
  BY <1>1, Zenon DEF ComparedAt
<1>3. /\ Memcmp(a, b, c).mem = mem /\ Strncmp(a, b, c).mem = mem
      /\ Strncmp(a, b, Cardinality(DOMAIN mem) + 1).mem = mem
  BY <1>2, Zenon DEF Memcmp, Strncmp
<1>4. Strcmp(a, b).mem = mem
  BY <1>3 DEF Strcmp
<1>5. Memchr(a, b, c).mem = mem
  BY <1>1, Zenon DEF Memchr
<1>6. Strlen(a).mem = mem
  BY <1>1, Zenon DEF Strlen
<1>7. Strstr(a, b).mem = mem
  BY <1>1, Zenon DEF Strstr
<1> QED BY <1>3, <1>4, <1>5, <1>6, <1>7 DEF Search, Searching

LEMMA SearchingLikeC ==
  ASSUME NEW D, Null(D), NEW name \in Searching, NEW a \in Word, NEW b \in Word, NEW c \in Word
  PROVE  SearchLikeC(name, a, b, c, Search(name, a, b, c))
<1> DEFINE f == Search(name, a, b, c)
<1>0. SUFFICES ASSUME Wanted(name, a, b, c)
               PROVE  f.ok /\ Answers(name, a, b, c, f.r0)
  BY SearchesKeep DEF SearchLikeC
<1>1. CASE name = "memcmp"
  <2>1. f = Memcmp(a, b, c) /\ Allocated(mem, a, c) /\ Allocated(mem, b, c)
    BY <1>0, <1>1 DEF Search, Wanted
  <2> HIDE DEF f
  <2>2. f.ok /\ Compares(Bytes(mem, a, c), Bytes(mem, b, c), f.r0)
    BY <2>1, MemcmpLikeC
  <2> QED BY <1>1, <2>2 DEF Answers
<1>2. CASE name \in {"strcmp", "strcoll"}
  <2>1. f = Strcmp(a, b) /\ IsString(mem, a) /\ IsString(mem, b)
    BY <1>0, <1>2 DEF Search, Wanted
  <2> HIDE DEF f
  <2>2. f.ok /\ Compares(StringOf(mem, a), StringOf(mem, b), f.r0)
    BY <2>1, StrcmpLikeC
  <2> QED BY <1>2, <2>2 DEF Answers
<1>3. CASE name = "strncmp"
  <2>1. f = Strncmp(a, b, c) /\ IsString(mem, a) /\ IsString(mem, b)
    BY <1>0, <1>3 DEF Search, Wanted
  <2> HIDE DEF f
  <2>2. LET cut(u) == SubSeq(u, 1, Min({c, Len(u)}))
        IN f.ok /\ Compares(cut(StringOf(mem, a)), cut(StringOf(mem, b)), f.r0)
    BY <2>1, StrncmpLikeC, Zenon
  <2> QED BY <1>3, <2>2 DEF Answers
<1>4. CASE name = "memchr"
  <2>1. /\ f = Memchr(a, b, c)
        /\ \E n \in 0 .. c : Allocated(mem, a, n)
                             /\ (n = c \/ \E k \in 1 .. n : mem[a + k - 1] = b % Byte)
    BY <1>0, <1>4 DEF Search, Wanted
  <2> HIDE DEF f
  <2>2. PICK n \in 0 .. c : Allocated(mem, a, n)
                            /\ (n = c \/ \E k \in 1 .. n : mem[a + k - 1] = b % Byte)
    BY <2>1
  <2>3. f.ok /\ Finds({x \in DOMAIN mem : x \in a .. a + c - 1 /\ mem[x] = b % Byte}, f.r0)
    BY <2>1, <2>2, MemchrLikeC
  <2> QED BY <1>4, <2>3 DEF Answers
<1>5. CASE name = "strlen"
  <2>1. f = Strlen(a) /\ IsText(mem, a)
    BY <1>0, <1>5 DEF Search, Wanted
  <2> HIDE DEF f
  <2>2. f.ok /\ f.r0 = Len(StringOf(mem, a))
    BY <2>1, StrlenLikeC
  <2> QED BY <1>5, <2>2 DEF Answers
<1>6. CASE name = "strstr"
  <2>1. /\ f = Strstr(a, b) /\ IsText(mem, a) /\ IsUtf8(StringOf(mem, a))
        /\ IsText(mem, b) /\ IsUtf8(StringOf(mem, b))
    BY <1>0, <1>6 DEF Search, Wanted
  <2> HIDE DEF f
  <2>2. LET s == StringOf(mem, a)
            t == StringOf(mem, b)
        IN f.ok /\ Finds({a + k : k \in {j \in 0 .. Len(s) - Len(t) :
                                           SubSeq(s, j + 1, j + Len(t)) = t}}, f.r0)
    BY <2>1, StrstrLikeC, Zenon
  <2> QED BY <1>6, <2>2 DEF Answers
<1> QED BY <1>1, <1>2, <1>3, <1>4, <1>5, <1>6 DEF Searching

LEMMA LibraryLikeC ==
  ASSUME NEW D, Null(D), NEW name \in Copying \cup Texts \cup Searching
  PROVE  /\ name \in Searching => SearchLikeC(name, regs[0], regs[1], regs[2], Library(name))
         /\ name \notin Searching => CopyLikeC(name, regs[0], regs[1], regs[2], Library(name))
<1> DEFINE a == regs[0]
           b == regs[1]
           c == regs[2]
<1>1. a \in Word /\ b \in Word /\ c \in Word
  BY DEF Null, Guest, RegisterFile, Registers
<1> HIDE DEF a, b, c
<1>2. CASE name \in Copying
  <2>1. Library(name) = Copy(name, a, b, c) /\ name \notin Searching
    BY <1>2 DEF Library, a, b, c, Copying, Texts, Searching
  <2> QED BY <1>1, <1>2, <2>1, CopyingLikeC DEF a, b, c
<1>3. CASE name \in Texts
  <2>1. Library(name) = MakeText(name, a, b, c) /\ name \notin Searching
    BY <1>3 DEF Library, a, b, c, Copying, Texts, Searching
  <2> QED BY <1>1, <1>3, <2>1, MakeTextLikeC DEF a, b, c
<1>4. CASE name \in Searching
  <2>1. Library(name) = Search(name, a, b, c)
    BY <1>4 DEF Library, a, b, c, Copying, Texts, Searching
  <2> QED BY <1>1, <1>4, <2>1, SearchingLikeC DEF a, b, c
<1> QED BY <1>2, <1>3, <1>4

(* The call of a guest: r0 of an error is not looked at.                   *)
LEMMA HostCallLikeC ==
  ASSUME MachineInv, Next, Running, Pc \in DOMAIN HostAt
  PROVE  LikeC(HostAt[Pc], regs[0], regs[1], regs[2],
               [mem |-> mem', r0 |-> regs'[0], ok |-> fault' = "none"])
<1> DEFINE name == HostAt[Pc]
           f == Library(name)
           a == regs[0]
           b == regs[1]
           c == regs[2]
           after == [mem |-> mem', r0 |-> regs'[0], ok |-> fault' = "none"]
           e == Copied(name, a, b, c)
           left == [mem |-> Overlay(mem, a, e), ok |-> TRUE,
                    r0 |-> IF name = "sprintf" THEN Len(e) - 1 ELSE a]
<1>1. PICK D : Null(D)
  <2>1. 0 \notin DOMAIN begun.mem
    BY StartsAssumption, CpuAssumption DEF MachineInv
  <2> QED BY <2>1, StartsAre DEF MachineInv, Null, Guest, Good
<1>2. HostCall
  BY DEF Next, GuestStep
<1>3. name \in Copying \cup Texts \cup Searching
  BY MachineAssumption
<1> HIDE DEF name
<1>4. /\ name \in Searching => SearchLikeC(name, a, b, c, f)
      /\ name \notin Searching => CopyLikeC(name, a, b, c, f)
  BY <1>1, <1>3, LibraryLikeC
<1>5. /\ mem' = f.mem
      /\ f.ok => regs' = [regs EXCEPT ![0] = f.r0, ![15] = Aligned(regs[14], 2)] /\ fault' = fault
      /\ ~f.ok => fault' = "memory"
  BY <1>2 DEF HostCall, name
<1> HIDE DEF f
<1>6. /\ after.mem = f.mem
      /\ f.ok => after.r0 = f.r0 /\ after.ok = TRUE
  <2>1. 0 \in DOMAIN regs /\ fault = "none"
    BY <1>1 DEF Null, Guest, RegisterFile, Registers, Running
  <2>2. after.mem = mem' /\ after.r0 = regs'[0] /\ after.ok = (fault' = "none")
    BY Zenon
  <2>3. f.ok => regs'[0] = f.r0 /\ fault' = "none"
    BY <1>5, <2>1
  <2>4. f.ok => (fault' = "none") = TRUE
    BY <2>3
  <2> HIDE DEF after
  <2> QED BY <1>5, <2>2, <2>3, <2>4, Zenon
<1>7. after = [mem |-> after.mem, r0 |-> after.r0, ok |-> after.ok]
  OBVIOUS
<1> HIDE DEF after, a, b, c
<1>8. CASE name \in Searching
  BY <1>4, <1>6, <1>8 DEF SearchLikeC, LikeC, name, after, a, b, c
<1>9. CASE name \notin Searching
  <2>1. Within(name, a, c, after)
    BY <1>4, <1>6, <1>9 DEF CopyLikeC, Within
  <2>2. CopiesLikeC(name, a, b, c, after)
    <3> SUFFICES ASSUME Wanted(name, a, b, c) /\ Allocated(mem, a, Len(e))
                 PROVE  after = left
      BY DEF CopiesLikeC
    <3>1. f = left
      BY <1>4, <1>9 DEF CopyLikeC, CopiesLikeC
    <3> HIDE DEF e
    <3>2. f.ok /\ f.mem = left.mem /\ f.r0 = left.r0
      BY <3>1
    <3>3. after.mem = left.mem /\ after.r0 = left.r0 /\ after.ok = TRUE
      BY <1>6, <3>2
    <3> QED BY <1>7, <3>3
  <2>3. \A k \in {x \in DOMAIN mem : after.mem[x] # mem[x]} :
          a <= k /\ (name \in Copying => k < a + c)
    BY <2>1 DEF Within
  <2>4. LikeC(name, a, b, c, after)
    BY <1>9, <2>2, <2>3, Zenon DEF LikeC
  <2> QED BY <2>4 DEF name, after, a, b, c
<1> QED BY <1>8, <1>9

(* Every call of the C library does to the bytes of every guest what the C *)
(* standard says, wherever its arguments and the ends of the memory are;   *)
(* whatever it is given, no byte in front of the destination or behind a   *)
(* given length changes, and a search changes none (lib.rs, handle_memcpy  *)
(* to handle_memset).                                                      *)
THEOREM StringsAreC == Spec => StringsLikeC
<1>1. Init => MachineInv
  BY InitGood
<1>2. MachineInv /\ [Next]_vars => MachineInv'
  BY NextGood
<1>3. MachineInv /\ [Next]_vars =>
        [Running /\ Pc \in DOMAIN HostAt =>
           LikeC(HostAt[Pc], regs[0], regs[1], regs[2],
                 [mem |-> mem', r0 |-> regs'[0], ok |-> fault' = "none"])]_vars
  BY HostCallLikeC
<1> QED BY <1>1, <1>2, <1>3, PTL DEF Spec, StringsLikeC

-----------------------------------------------------------------------------
(* The frames of functions: what CallsReturn rests on in every program.    *)

(* Where a register of S stands in the frame at a, what stands there, and  *)
(* the bytes of the frame.                                                 *)
FrameAt(S, a, r) == (a + 4 * Slot(S, r)) % M
Framed(S, a, r) == Read(FrameAt(S, a, r), 4)
FrameBytes(S, a) == UNION {FrameAt(S, a, r) .. FrameAt(S, a, r) + 3 : r \in S}

(* The slots of a list are in the order of its registers. *)
LEMMA SlotsAre ==
  ASSUME NEW S \in SUBSET Registers
  PROVE  /\ Cardinality(S) \in 0 .. 16
         /\ \A r \in S : Slot(S, r) \in 0 .. 15 /\ Slot(S, r) < Cardinality(S)
         /\ \A r, q \in S : r < q => Slot(S, r) < Slot(S, q)
<1> DEFINE B(r) == {q \in S : q < r}
<1>1. IsFiniteSet(Registers) /\ Cardinality(Registers) = 16
  <2>1. 0 \in Int /\ 15 \in Int /\ 15 - 0 + 1 = 16 /\ ~(0 > 15)
    OBVIOUS
  <2> QED BY <2>1, FS_Interval DEF Registers
<1>2. IsFiniteSet(S) /\ Cardinality(S) <= 16
  BY <1>1, FS_Subset
<1>3. \A r : IsFiniteSet(B(r)) /\ Slot(S, r) = Cardinality(B(r))
  BY <1>2, FS_Subset DEF Slot
<1>4. Cardinality(S) \in Nat /\ \A r : Cardinality(B(r)) \in Nat
  BY <1>2, <1>3, FS_CardinalityType
<1>5. \A r \in S : r \in Int
  BY DEF Registers
<1>6. ASSUME NEW r \in S, NEW T, IsFiniteSet(T), B(r) \cup {r} \in SUBSET T
      PROVE  Cardinality(B(r)) < Cardinality(T)
  <2>1. r \notin B(r)
    BY <1>5
  <2> HIDE DEF B
  <2>2. Cardinality(B(r) \cup {r}) = Cardinality(B(r)) + 1
    BY <1>3, <2>1, FS_AddElement
  <2>3. Cardinality(B(r) \cup {r}) <= Cardinality(T) /\ Cardinality(T) \in Nat
    BY <1>6, FS_Subset, FS_CardinalityType
  <2> QED BY <1>4, <2>2, <2>3
<1>7. ASSUME NEW r \in S
      PROVE  Cardinality(B(r)) < Cardinality(S)
  BY <1>2, <1>6
<1>8. ASSUME NEW r \in S, NEW q \in S, r < q
      PROVE  Cardinality(B(r)) < Cardinality(B(q))
  <2>1. B(r) \cup {r} \in SUBSET B(q)
    BY <1>5, <1>8
  <2> HIDE DEF B
  <2> QED BY <1>3, <1>6, <2>1
<1> HIDE DEF B
<1> QED BY <1>2, <1>3, <1>4, <1>7, <1>8

(* What is at most a word from a word, modulo the words. *)
LEMMA WrapIs ==
  ASSUME NEW a \in Word, NEW n \in 0 .. 64
  PROVE  /\ (a + n) % M = IF a + n < M THEN a + n ELSE a + n - M
         /\ (a - n) % M = IF n <= a THEN a - n ELSE a - n + M
<1>1. a \in Int /\ 0 <= a /\ a < M /\ M \in Nat \ {0} /\ 4096 <= M
  BY WordIs, PowerFacts
<1>2. a + n < M => (a + n) % M = a + n
  BY <1>1, DivSmall
<1>3. ~(a + n < M) => (a + n) % M = a + n - M
  <2> HAVE ~(a + n < M)
  <2>1. ASSUME NEW m \in Nat \ {0}, NEW q \in Int, NEW x \in Int, NEW r \in 0 .. m - 1,
               q = 1, x = m + r
        PROVE  x % m = r
    <3>1. x = m * q + r
      BY <2>1
    <3> QED BY <3>1, DivUnique
  <2>2. a + n \in Int /\ a + n - M \in 0 .. M - 1 /\ a + n = M + (a + n - M)
    BY <1>1
  <2> QED BY <1>1, <2>1, <2>2
<1>4. n <= a => (a - n) % M = a - n
  BY <1>1, DivSmall
<1>5. ~(n <= a) => (a - n) % M = a - n + M
  <2> HAVE ~(n <= a)
  <2>1. a - n \in Int /\ -M <= a - n /\ a - n < 0
    BY <1>1
  <2> QED BY <1>1, <2>1, DivSmall
<1> QED BY <1>2, <1>3, <1>4, <1>5

(* No two registers stand on one byte. *)
LEMMA FramesApart ==
  ASSUME NEW S \in SUBSET Registers, NEW a \in Word, NEW r \in S, NEW q \in S, r # q,
         NEW b \in FrameAt(S, a, r) .. FrameAt(S, a, r) + 3
  PROVE  b \notin FrameAt(S, a, q) .. FrameAt(S, a, q) + 3
<1>1. r < q \/ q < r
  BY DEF Registers
<1>2. PICK x \in Nat, y \in Nat : x = Slot(S, r) /\ y = Slot(S, q)
  BY SlotsAre
<1>3. x <= 15 /\ y <= 15 /\ (x < y \/ y < x)
  BY <1>1, <1>2, SlotsAre
<1>4. a \in Int /\ 0 <= a /\ a < M /\ M \in Nat /\ 4096 <= M
  BY WordIs, PowerFacts
<1>5. 4 * x \in 0 .. 64 /\ 4 * y \in 0 .. 64
  BY <1>3
<1> DEFINE u == IF a + 4 * x < M THEN a + 4 * x ELSE a + 4 * x - M
           v == IF a + 4 * y < M THEN a + 4 * y ELSE a + 4 * y - M
<1>6. u \in Int /\ v \in Int
  BY <1>4
<1>7. FrameAt(S, a, r) = u /\ FrameAt(S, a, q) = v
  BY <1>2, <1>5, WrapIs DEF FrameAt
<1>8. u + 4 <= v \/ v + 4 <= u
  BY <1>3, <1>4
<1> HIDE DEF u, v
<1> QED BY <1>6, <1>7, <1>8

(* The bytes of a word are the word. *)
LEMMA BytesMakeWord ==
  ASSUME NEW x \in Word
  PROVE  ByteOf(x, 0) + ByteOf(x, 1) * Byte + ByteOf(x, 2) * (Byte * Byte)
           + ByteOf(x, 3) * (Byte * Byte * Byte) = x
<1> DEFINE B == Byte
<1>1. B \in Nat \ {0} /\ 8 <= B /\ x \in Nat /\ x < B * B * B * B
  BY PowerFacts, WordIs
<1>2. Byte ^ 0 = 1 /\ Byte ^ 1 = B /\ Byte ^ 2 = B * B /\ Byte ^ 3 = B * B * B
  BY CpuAssumption
<1> HIDE DEF B
<1>3. ASSUME NEW z \in Nat, NEW c \in Nat \ {0}
      PROVE  z \div (c * B) = (z \div c) \div B
  <2> DEFINE q == z \div c
             p == q \div B
             s == z % c
             t == q % B
  <2>1. q \in Int /\ s \in 0 .. c - 1 /\ z = c * q + s
    BY <1>1, DivMod
  <2> HIDE DEF q, s
  <2>2. p \in Int /\ t \in 0 .. B - 1 /\ q = B * p + t
    BY <1>1, <2>1, DivMod
  <2> HIDE DEF p, t
  <2>3. c * B \in Nat \ {0} /\ c * t \in Int /\ c * t + s \in Int
    BY <1>1, <2>1, <2>2
  <2>4. z = (c * B) * p + (c * t + s)
    <3>1. c * (B * p + t) = (c * B) * p + c * t
      BY <1>1, <2>2
    <3> QED BY <2>1, <2>2, <2>3, <3>1
  <2>5. c * t + s \in 0 .. c * B - 1
    <3>1. 0 <= c * t /\ 0 <= c * (B - 1 - t) /\ c * (B - 1 - t) = c * B - c - c * t
      BY <1>1, <2>2
    <3> QED BY <2>1, <2>3, <3>1
  <2>6. z \div (c * B) = p
    BY <2>2, <2>3, <2>4, <2>5, DivUnique
  <2> QED BY <2>6 DEF p, q
<1>d. ASSUME NEW z \in Nat
      PROVE  z \div B \in Nat /\ z % B \in Nat /\ z = B * (z \div B) + (z % B)
  BY <1>1
<1> DEFINE q1 == x \div B
           q2 == q1 \div B
           q3 == q2 \div B
<1>4. B * B \in Nat \ {0} /\ B * B * B \in Nat \ {0}
  BY <1>1
<1>5. q1 \in Nat /\ x = B * q1 + (x % B) /\ x % B \in Nat
  BY <1>1, <1>d
<1>6. x \div (B * B) = q2 /\ x \div (B * B * B) = q3
  <2>1. x \div (B * B) = q2
    BY <1>1, <1>3
  <2>2. x \div ((B * B) * B) = (x \div (B * B)) \div B
    BY <1>1, <1>3, <1>4
  <2> QED BY <2>1, <2>2
<1> HIDE DEF q1
<1>7. q2 \in Nat /\ q1 = B * q2 + (q1 % B) /\ q1 % B \in Nat
  BY <1>5, <1>d
<1> HIDE DEF q2
<1>8. q3 \in Nat /\ q2 = B * q3 + (q2 % B) /\ q2 % B \in Nat
  BY <1>7, <1>d
<1>9. q3 = q3 % B
  <2>1. x \div (B * B * B * B) = q3 \div B
    <3>1. x \div ((B * B * B) * B) = (x \div (B * B * B)) \div B
      BY <1>1, <1>3, <1>4
    <3> QED BY <1>6, <3>1
  <2>2. x \div (B * B * B * B) = 0
    <3>1. B * B * B * B \in Nat \ {0} /\ 0 <= x /\ x \in Int
      BY <1>1, <1>4
    <3> QED BY <1>1, <3>1, DivSmall
  <2>3. q3 = B * (q3 \div B) + (q3 % B)
    BY <1>8, <1>d
  <2>4. B * 0 = 0 /\ q3 % B \in Int
    BY <1>1, <1>8, <1>d
  <2> QED BY <2>1, <2>2, <2>3, <2>4
<1> HIDE DEF q3
<1>10. /\ ByteOf(x, 0) = x % B /\ ByteOf(x, 1) = q1 % B
       /\ ByteOf(x, 2) = q2 % B /\ ByteOf(x, 3) = q3
  <2>1. x \div 1 = x
    BY <1>1
  <2>2. x \div Byte ^ 1 = q1
    BY <1>2 DEF q1
  <2> QED BY <1>2, <1>6, <1>9, <2>1, <2>2 DEF ByteOf, B
<1>11. ASSUME NEW r0 \in Nat, NEW r1 \in Nat, NEW r2 \in Nat, NEW p1 \in Nat, NEW p2 \in Nat,
              NEW p3 \in Nat, x = B * p1 + r0, p1 = B * p2 + r1, p2 = B * p3 + r2
       PROVE  r0 + r1 * B + r2 * (B * B) + p3 * (B * B * B) = x
  <2>1. x = B * (B * (B * p3 + r2) + r1) + r0
    BY <1>11
  <2>2. B * (B * (B * p3 + r2) + r1) = p3 * (B * B * B) + r2 * (B * B) + r1 * B
    BY <1>1
  <2>3. p3 * (B * B * B) \in Int /\ r2 * (B * B) \in Int /\ r1 * B \in Int
    BY <1>1, <1>4
  <2> QED BY <2>1, <2>2, <2>3
<1>12. (x % B) + (q1 % B) * B + (q2 % B) * (B * B) + q3 * (B * B * B) = x
  BY <1>5, <1>7, <1>8, <1>11
<1> QED BY <1>10, <1>12 DEF B

(* What a word of the memory reads as. *)
ReadIs ==
  \A a \in Int :
    Mapped(a, 4) /\ (\A b \in DOMAIN mem : mem[b] \in 0 .. Byte - 1) =>
      Read(a, 4) = mem[a] + mem[a + 1] * Byte + mem[a + 2] * (Byte * Byte)
                     + mem[a + 3] * (Byte * Byte * Byte)

LEMMA ReadsAre == ReadIs
<1> SUFFICES ASSUME NEW a \in Int, Mapped(a, 4), \A b \in DOMAIN mem : mem[b] \in 0 .. Byte - 1
             PROVE  Read(a, 4) = mem[a] + mem[a + 1] * Byte + mem[a + 2] * (Byte * Byte)
                                   + mem[a + 3] * (Byte * Byte * Byte)
  BY DEF ReadIs
<1>1. 4 \in {1, 2, 4} /\ 4 = 4
  OBVIOUS
<1> QED BY <1>1, ReadWord, Zenon

(* The words of registers, written in a frame, are what stands there, and  *)
(* the other bytes are as they were.                                       *)
FrameMade(S, a) ==
  /\ \A r \in S : Framed(S, a, r)' = regs[r]
  /\ \A b \in DOMAIN mem \ FrameBytes(S, a) : mem'[b] = mem[b]

LEMMA FrameWritten ==
  ASSUME NEW D, mem \in Memory(D), regs \in RegisterFile,
         NEW S \in SUBSET Registers, NEW a \in Word,
         \A r \in S : Mapped(FrameAt(S, a, r), 4),
         mem' = WriteAll([r \in S |-> FrameAt(S, a, r)])
  PROVE  FrameMade(S, a)
<1> DEFINE at == [r \in S |-> FrameAt(S, a, r)]
           span(r) == FrameAt(S, a, r) .. FrameAt(S, a, r) + 3
<1>1. DOMAIN mem = D /\ \A b \in D : mem[b] \in 0 .. Byte - 1
  BY DEF Memory
<1>2. \A r \in S : FrameAt(S, a, r) \in Word /\ FrameAt(S, a, r) \in Int
  <2> SUFFICES ASSUME NEW r \in S
               PROVE  FrameAt(S, a, r) \in Word /\ FrameAt(S, a, r) \in Int
    OBVIOUS
  <2>1. a + 4 * Slot(S, r) \in Int
    BY SlotNat, WordIs
  <2>2. FrameAt(S, a, r) \in Word
    BY <2>1, ModWord DEF FrameAt
  <2> QED BY <2>2, WordIs
<1>3. mem' \in Memory(D)
  <2>1. at \in [S -> Word]
    BY <1>2
  <2> HIDE DEF at
  <2>2. WriteAll(at) \in Memory(D)
    BY <2>1, WriteAllMemory DEF RegisterFile
  <2> QED BY <2>2 DEF at
<1>4. DOMAIN mem' = D /\ \A b \in D : mem'[b] \in 0 .. Byte - 1
  BY <1>3 DEF Memory
<1>5. ASSUME NEW r \in S, NEW b \in span(r)
      PROVE  b \in D /\ mem'[b] = ByteOf(regs[r], b - FrameAt(S, a, r))
  <2>1. b \in D
    <3>1. b - FrameAt(S, a, r) \in 0 .. 4 - 1 /\ FrameAt(S, a, r) + (b - FrameAt(S, a, r)) = b
      BY <1>2
    <3> QED BY <1>1, <3>1 DEF Mapped
  <2>2. \A q \in S : b \in span(q) => q = r
    BY FramesApart
  <2>3. DOMAIN at = S /\ \A q \in S : at[q] = FrameAt(S, a, q)
    OBVIOUS
  <2>4. (CHOOSE q \in DOMAIN at : b \in at[q] .. at[q] + 3) = r
    <3> HIDE DEF at
    <3> QED BY <2>2, <2>3
  <2>5. \E q \in DOMAIN at : b \in at[q] .. at[q] + 3
    <3> HIDE DEF at
    <3> QED BY <2>3
  <2>6. WriteAll(at)[b] = LET q == CHOOSE q \in DOMAIN at : b \in at[q] .. at[q] + 3
                          IN ByteOf(regs[q], b - at[q])
    <3> HIDE DEF at
    <3> QED BY <1>1, <2>1, <2>5, Zenon DEF WriteAll
  <2>7. WriteAll(at)[b] = ByteOf(regs[r], b - at[r])
    <3> HIDE DEF at
    <3> QED BY <2>4, <2>6, Zenon
  <2> QED BY <2>1, <2>3, <2>7
<1>6. ASSUME NEW r \in S
      PROVE  Framed(S, a, r)' = regs[r]
  <2>1. PICK x \in Int : x = FrameAt(S, a, r)
    BY <1>2
  <2>2. /\ x \in span(r) /\ x + 1 \in span(r) /\ x + 2 \in span(r) /\ x + 3 \in span(r)
        /\ x - x = 0 /\ (x + 1) - x = 1 /\ (x + 2) - x = 2 /\ (x + 3) - x = 3
    BY <2>1
  <2>3. /\ mem'[x] = ByteOf(regs[r], 0) /\ mem'[x + 1] = ByteOf(regs[r], 1)
        /\ mem'[x + 2] = ByteOf(regs[r], 2) /\ mem'[x + 3] = ByteOf(regs[r], 3)
        /\ x \in D /\ x + 1 \in D /\ x + 2 \in D /\ x + 3 \in D
    <3> HIDE DEF span
    <3> QED BY <1>5, <2>1, <2>2
  <2>4. Mapped(x, 4)'
    <3>1. \A k \in 0 .. 4 - 1 : x + k = x \/ x + k = x + 1 \/ x + k = x + 2 \/ x + k = x + 3
      OBVIOUS
    <3> QED BY <1>4, <2>3, <3>1 DEF Mapped
  <2>5. ReadIs'
    BY ReadsAre, PTL
  <2>6. Read(x, 4)' = mem'[x] + mem'[x + 1] * Byte + mem'[x + 2] * (Byte * Byte)
                        + mem'[x + 3] * (Byte * Byte * Byte)
    BY <1>4, <2>4, <2>5, Zenon DEF ReadIs
  <2>7. regs[r] \in Word
    BY RegisterWord
  <2>8. Read(x, 4)' = regs[r]
    BY <2>3, <2>6, <2>7, BytesMakeWord
  <2> QED BY <2>1, <2>8 DEF Framed
<1>7. ASSUME NEW b \in DOMAIN mem \ FrameBytes(S, a)
      PROVE  mem'[b] = mem[b]
  <2>1. ~ \E q \in DOMAIN at : b \in at[q] .. at[q] + 3
    BY DEF FrameBytes
  <2> HIDE DEF at
  <2>2. WriteAll(at)[b] = mem[b]
    BY <2>1, Zenon DEF WriteAll
  <2> QED BY <2>2 DEF at
<1> QED BY <1>6, <1>7 DEF FrameMade

-----------------------------------------------------------------------------
(* A push and a pop of the registers that a function saves: PUSH, POP, and *)
(* STMDB and LDMIA with sp written back.                                   *)
OnStack(i, load) ==
  /\ i.class = "BlockTransfer" /\ i.load = load /\ i.pre = ~load /\ i.add = load
  /\ i.writeBack /\ i.base = 13 /\ Passed(flags, Digit(Opcode, 7))
Pushes == Executes /\ IF thumb THEN Instruction.class = "ThumbPush" ELSE OnStack(Instruction, FALSE)
Pops == /\ Executes
        /\ IF thumb THEN Instruction.class = "ThumbPop"
                    ELSE OnStack(Instruction, TRUE) /\ 13 \notin Instruction.registers

(* The registers it names. *)
ListOf(i) ==
  IF i.class = "ThumbPush" THEN i.registers \cup (IF i.lr THEN {14} ELSE {})
  ELSE IF i.class = "ThumbPop" THEN i.registers \cup (IF i.pc THEN {15} ELSE {})
  ELSE i.registers

Lists(i) ==
  /\ ListOf(i) \in SUBSET Registers
  /\ i.class \in {"ThumbPush", "ThumbPop"} => 13 \notin ListOf(i)

LEMMA ListsAre ==
  ASSUME NEW i,
         \/ ThumbOK(i) /\ i.class \in {"ThumbPush", "ThumbPop"}
         \/ ArmOK(i) /\ i.class = "BlockTransfer"
  PROVE  Lists(i)
<1>1. CASE ThumbOK(i) /\ i.class \in {"ThumbPush", "ThumbPop"}
  <2>1. i.registers \in SUBSET Low
    BY <1>1 DEF ThumbOK
  <2>2. ListOf(i) \in SUBSET (Low \cup {14, 15})
    BY <1>1, <2>1 DEF ListOf
  <2>3. Low \cup {14, 15} \in SUBSET Registers /\ 13 \notin Low \cup {14, 15}
    BY DEF Low, Registers
  <2> QED BY <2>2, <2>3 DEF Lists
<1>2. CASE ArmOK(i) /\ i.class = "BlockTransfer"
  BY <1>2 DEF ArmOK, Lists, ListOf
<1> QED BY <1>1, <1>2

(* What a push leaves: each of its registers in a frame at the new stack   *)
(* pointer, and the other registers and bytes as they were.                *)
Pushed(S, a) ==
  /\ regs'[13] = a
  /\ \A r \in Registers \ {13, 15} : regs'[r] = regs[r]
  /\ FrameMade(S, a)

(* What a pop of the frame at the stack pointer leaves.                    *)
Popped(S) ==
  /\ regs'[13] = (Sp + 4 * Cardinality(S)) % M
  /\ \A r \in S \ {15} : regs'[r] = Framed(S, Sp, r)
  /\ 15 \in S => /\ regs'[15] = ExchangeAddress(Framed(S, Sp, 15))
                 /\ thumb' = (Framed(S, Sp, 15) % 2 = 1)
  /\ 15 \notin S => thumb' = thumb
  /\ \A r \in Registers \ (S \cup {13, 15}) : regs'[r] = regs[r]
  /\ mem' = mem

(* Counted down from the old stack pointer, or up from the new one, the    *)
(* slots are the same words.                                               *)
LEMMA DownIsUp ==
  ASSUME NEW x \in Word, NEW n \in 0 .. 16, NEW s \in 0 .. 16, s <= n
  PROVE  (x - 4 * (n - s)) % M = (((x - 4 * n) % M) + 4 * s) % M
<1>1. x \in Int /\ 0 <= x /\ x < M /\ M \in Nat /\ 4096 <= M
  BY WordIs, PowerFacts
<1>2. 4 * n \in 0 .. 64 /\ 4 * s \in 0 .. 64 /\ 4 * (n - s) \in 0 .. 64
  OBVIOUS
<1> DEFINE a == (x - 4 * n) % M
<1>3. a = IF 4 * n <= x THEN x - 4 * n ELSE x - 4 * n + M
  BY <1>2, WrapIs
<1>4. a \in Word
  <2>1. x - 4 * n \in Int
    BY <1>1
  <2> QED BY <2>1, ModWord
<1> HIDE DEF a
<1>5. (a + 4 * s) % M = IF a + 4 * s < M THEN a + 4 * s ELSE a + 4 * s - M
  BY <1>2, <1>4, WrapIs
<1>6. (x - 4 * (n - s)) % M = IF 4 * (n - s) <= x THEN x - 4 * (n - s) ELSE x - 4 * (n - s) + M
  BY <1>2, WrapIs
<1>7. (x - 4 * (n - s)) % M = (a + 4 * s) % M
  BY <1>1, <1>3, <1>5, <1>6
<1> QED BY <1>7 DEF a

LEMMA ThumbPushFrames ==
  ASSUME NEW D, Good(D), NEW i, ThumbOK(i), i.class = "ThumbPush", ThumbPush(i),
         fault = "none", fault' = "none",
         NEW S, S = ListOf(i), NEW a, a = (Sp - 4 * Cardinality(S)) % M
  PROVE  Pushed(S, a)
<1> DEFINE addr(r) == (Sp - 4 * (Cardinality(S) - Slot(S, r))) % M
           done == {r \in S : \A q \in S : r <= q => Mapped(addr(q), 4)}
<1>1. S \in SUBSET Registers /\ 13 \notin S /\ S = i.registers \cup (IF i.lr THEN {14} ELSE {})
  <2>1. S = i.registers \cup (IF i.lr THEN {14} ELSE {})
    BY DEF ListOf
  <2> QED BY <2>1, ListsAre DEF Lists
<1>2. /\ mem' = WriteAll([r \in done |-> addr(r)])
      /\ IF done # S THEN fault' = "memory" /\ regs' = regs
         ELSE Writes([regs EXCEPT ![13] = a])
  BY <1>1, Zenon DEF ThumbPush
<1>3. done = S /\ regs' = NextThumb([regs EXCEPT ![13] = a])
  BY <1>2 DEF Writes
<1>4. \A r \in S : Mapped(addr(r), 4)
  <2>1. \A r \in S : r <= r
    BY <1>1 DEF Registers
  <2> HIDE DEF addr
  <2> QED BY <1>3, <2>1
<1>5. Sp \in Word /\ mem \in Memory(D) /\ regs \in RegisterFile
  BY PcWords DEF Good
<1>6. \A r \in S : addr(r) = FrameAt(S, a, r)
  <2>1. \A r \in S : Slot(S, r) \in 0 .. 16 /\ Slot(S, r) <= Cardinality(S)
    BY <1>1, SlotsAre
  <2> QED BY <1>1, <1>5, <2>1, SlotsAre, DownIsUp DEF FrameAt
<1>7. a \in Word
  <2>1. Sp - 4 * Cardinality(S) \in Int
    BY <1>1, <1>5, SlotNat, WordIs
  <2> QED BY <2>1, ModWord
<1>8. mem' = WriteAll([r \in S |-> FrameAt(S, a, r)])
  <2>1. [r \in done |-> addr(r)] = [r \in S |-> FrameAt(S, a, r)]
    <3> HIDE DEF addr, done
    <3> QED BY <1>3, <1>6
  <2> QED BY <1>2, <2>1, Zenon
<1>9. FrameMade(S, a)
  <2>1. \A r \in S : Mapped(FrameAt(S, a, r), 4)
    <3> HIDE DEF addr
    <3> QED BY <1>4, <1>6
  <2> QED BY <1>1, <1>5, <1>7, <1>8, <2>1, FrameWritten
<1>10. regs'[13] = a /\ \A r \in Registers \ {13, 15} : regs'[r] = regs[r]
  BY <1>3, <1>5 DEF NextThumb, RegisterFile, Registers
<1> QED BY <1>9, <1>10 DEF Pushed

LEMMA ThumbPopFrames ==
  ASSUME NEW D, Good(D), NEW i, ThumbOK(i), i.class = "ThumbPop", ThumbPop(i),
         fault = "none", fault' = "none"
  PROVE  Popped(ListOf(i))
<1> DEFINE S == i.registers \cup (IF i.pc THEN {15} ELSE {})
           addr(r) == (Sp + 4 * Slot(S, r)) % M
           done == {r \in S : \A q \in S : q <= r => Mapped(addr(q), 4)}
           loaded == [r \in Registers |->
                        IF r \in done \ {15} THEN Read(addr(r), 4) ELSE regs[r]]
           base == (Sp + 4 * Cardinality(S)) % M
           popped == [loaded EXCEPT ![13] = base]
<1>1. S = ListOf(i)
  BY DEF ListOf
<1>2. S \in SUBSET Registers /\ 13 \notin S
  BY <1>1, ListsAre, Zenon DEF Lists
<1>3. 15 \in S <=> i.pc
  <2>1. 15 \notin i.registers
    BY DEF ThumbOK, Low
  <2> QED BY <2>1
<1>4. /\ \/ done # S /\ fault' = "memory"
         \/ done = S /\ ~i.pc /\ Writes(popped) /\ thumb' = thumb
         \/ /\ done = S /\ i.pc
            /\ regs' = [popped EXCEPT ![15] = ExchangeAddress(Read(addr(15), 4))]
            /\ thumb' = (Read(addr(15), 4) % 2 = 1)
      /\ mem' = mem
  BY Zenon DEF ThumbPop, KeepFlags
<1>5. regs \in RegisterFile
  BY DEF Good
<1>6. \A r : addr(r) = FrameAt(S, Sp, r) /\ Read(addr(r), 4) = Framed(S, Sp, r)
  BY DEF FrameAt, Framed
<1> HIDE DEF S, addr, done, base
<1>p. ASSUME done = S
      PROVE  /\ DOMAIN popped = Registers
             /\ popped[13] = base
             /\ \A r \in S \ {15} : popped[r] = Framed(S, Sp, r)
             /\ \A r \in Registers \ (S \cup {13, 15}) : popped[r] = regs[r]
  <2>1. DOMAIN popped = Registers /\ 13 \in Registers
    BY DEF Registers
  <2>2. \A r \in Registers : loaded[r] = IF r \in done \ {15} THEN Read(addr(r), 4) ELSE regs[r]
    OBVIOUS
  <2> QED BY <1>2, <1>6, <1>p, <2>1, <2>2
<1> HIDE DEF popped
<1>r. 13 \in Registers /\ 15 \in Registers /\ 13 # 15
  BY DEF Registers
<1>7. CASE done = S /\ ~i.pc /\ Writes(popped) /\ thumb' = thumb
  <2>1. /\ regs'[13] = base
        /\ \A r \in S \ {15} : regs'[r] = Framed(S, Sp, r)
        /\ \A r \in Registers \ (S \cup {13, 15}) : regs'[r] = regs[r]
    BY <1>2, <1>p, <1>r, <1>7 DEF Writes, NextThumb
  <2>2. 15 \notin S
    BY <1>3, <1>7
  <2> QED BY <1>1, <1>4, <1>7, <2>1, <2>2 DEF Popped, base
<1>8. CASE /\ done = S /\ i.pc
           /\ regs' = [popped EXCEPT ![15] = ExchangeAddress(Read(addr(15), 4))]
           /\ thumb' = (Read(addr(15), 4) % 2 = 1)
  <2>1. /\ regs'[13] = base
        /\ \A r \in S \ {15} : regs'[r] = Framed(S, Sp, r)
        /\ regs'[15] = ExchangeAddress(Framed(S, Sp, 15))
        /\ \A r \in Registers \ (S \cup {13, 15}) : regs'[r] = regs[r]
    BY <1>2, <1>p, <1>r, <1>6, <1>8
  <2>2. 15 \in S /\ thumb' = (Framed(S, Sp, 15) % 2 = 1)
    BY <1>3, <1>6, <1>8
  <2> QED BY <1>1, <1>4, <2>1, <2>2 DEF Popped, base
<1> QED BY <1>4, <1>7, <1>8

LEMMA BlockPushFrames ==
  ASSUME NEW D, Good(D), NEW i, ArmOK(i), OnStack(i, FALSE), BlockTransfer(i),
         fault = "none", fault' = "none",
         NEW S, S = ListOf(i), NEW a, a = (Sp - 4 * Cardinality(S)) % M
  PROVE  Pushed(S, a)
<1> DEFINE addr(r) == (BlockStart(i) + 4 * Slot(i.registers, r)) % M
           done == {r \in i.registers : \A q \in i.registers : q <= r => Mapped(addr(q), 4)}
           n == 4 * Cardinality(i.registers)
           base == (IF i.add THEN regs[i.base] + n ELSE regs[i.base] - n) % M
           moved(r) == IF i.writeBack THEN [r EXCEPT ![i.base] = base] ELSE r
           toPc == i.load /\ 15 \in i.registers
           loaded == [r \in Registers |->
                        IF i.load /\ r \in done \ {15} THEN Read(addr(r), 4) ELSE regs[r]]
<1>1. /\ i.class = "BlockTransfer" /\ ~i.load /\ i.pre /\ ~i.add /\ i.writeBack /\ i.base = 13
      /\ S = i.registers /\ S \in SUBSET Registers
  <2>1. i.class = "BlockTransfer" /\ ~i.load /\ i.pre /\ ~i.add /\ i.writeBack /\ i.base = 13
    BY DEF OnStack
  <2> QED BY <2>1, ListsAre DEF ListOf, Lists
<1>2. /\ mem' = IF i.load THEN mem ELSE WriteAll([r \in done |-> addr(r)])
      /\ \/ done # i.registers /\ fault' = "memory"
         \/ done = i.registers /\ toPc
         \/ done = i.registers /\ ~toPc /\ regs' = NextArm(moved(loaded))
  BY Zenon DEF BlockTransfer
<1>3. done = S /\ regs' = NextArm(moved(loaded)) /\ mem' = WriteAll([r \in done |-> addr(r)])
  BY <1>1, <1>2
<1>4. Sp \in Word /\ mem \in Memory(D) /\ regs \in RegisterFile
  BY PcWords DEF Good
<1>5. BlockStart(i) = a /\ base = a
  <2>1. regs[i.base] = Sp
    BY <1>1 DEF Sp
  <2>2. BlockStart(i) = (Sp - 4 * Cardinality(S)) % M
    BY <1>1, <2>1 DEF BlockStart
  <2>3. base = (Sp - n) % M /\ n = 4 * Cardinality(S)
    BY <1>1, <2>1
  <2> QED BY <2>2, <2>3
<1>6. \A r \in S : addr(r) = FrameAt(S, a, r)
  BY <1>1, <1>5 DEF FrameAt
<1>7. \A r \in S : Mapped(FrameAt(S, a, r), 4)
  <2>1. \A r \in S : r <= r
    BY <1>1 DEF Registers
  <2> HIDE DEF addr
  <2> QED BY <1>3, <1>6, <2>1
<1>8. a \in Word
  <2>1. Sp - 4 * Cardinality(S) \in Int
    BY <1>1, <1>4, SlotNat, WordIs
  <2> QED BY <2>1, ModWord
<1>9. FrameMade(S, a)
  <2>1. [r \in done |-> addr(r)] = [r \in S |-> FrameAt(S, a, r)]
    <3> HIDE DEF addr, done
    <3> QED BY <1>3, <1>6
  <2>2. mem' = WriteAll([r \in S |-> FrameAt(S, a, r)])
    BY <1>3, <2>1, Zenon
  <2> QED BY <1>1, <1>4, <1>7, <1>8, <2>2, FrameWritten
<1>10. regs'[13] = a /\ \A r \in Registers \ {13, 15} : regs'[r] = regs[r]
  <2>1. loaded = [r \in Registers |-> regs[r]]
    BY <1>1
  <2>2. moved(loaded) = [loaded EXCEPT ![13] = a]
    <3> HIDE DEF base, loaded
    <3> QED BY <1>1, <1>5
  <2>3. DOMAIN loaded = Registers /\ \A r \in Registers : loaded[r] = regs[r]
    BY <2>1
  <2> HIDE DEF loaded, moved
  <2> QED BY <1>3, <2>2, <2>3 DEF NextArm, Registers
<1> QED BY <1>9, <1>10 DEF Pushed

LEMMA BlockPopFrames ==
  ASSUME NEW D, Good(D), NEW i, ArmOK(i), OnStack(i, TRUE), 13 \notin i.registers,
         BlockTransfer(i), fault = "none", fault' = "none"
  PROVE  Popped(ListOf(i))
<1> DEFINE S == i.registers
           addr(r) == (BlockStart(i) + 4 * Slot(i.registers, r)) % M
           done == {r \in i.registers : \A q \in i.registers : q <= r => Mapped(addr(q), 4)}
           n == 4 * Cardinality(i.registers)
           base == (IF i.add THEN regs[i.base] + n ELSE regs[i.base] - n) % M
           moved(r) == IF i.writeBack THEN [r EXCEPT ![i.base] = base] ELSE r
           toPc == i.load /\ 15 \in i.registers
           loaded == [r \in Registers |->
                        IF i.load /\ r \in done \ {15} THEN Read(addr(r), 4) ELSE regs[r]]
           end == (Sp + 4 * Cardinality(S)) % M
<1>1. /\ i.class = "BlockTransfer" /\ i.load /\ ~i.pre /\ i.add /\ i.writeBack /\ i.base = 13
      /\ S = ListOf(i) /\ S \in SUBSET Registers /\ 13 \notin S
  <2>1. i.class = "BlockTransfer" /\ i.load /\ ~i.pre /\ i.add /\ i.writeBack /\ i.base = 13
    BY DEF OnStack
  <2> QED BY <2>1, ListsAre DEF ListOf, Lists
<1>2. /\ mem' = IF i.load THEN mem ELSE WriteAll([r \in done |-> addr(r)])
      /\ \/ done # i.registers /\ fault' = "memory"
         \/ /\ done = i.registers /\ toPc
            /\ regs' = moved([loaded EXCEPT ![15] = ExchangeAddress(Read(addr(15), 4))])
            /\ thumb' = (Read(addr(15), 4) % 2 = 1)
         \/ /\ done = i.registers /\ ~toPc
            /\ regs' = NextArm(moved(loaded)) /\ thumb' = thumb
  BY Zenon DEF BlockTransfer
<1>3. mem' = mem /\ done = S
  BY <1>1, <1>2
<1>4. BlockStart(i) = Sp /\ base = end
  <2>1. regs[i.base] = Sp
    BY <1>1 DEF Sp
  <2>2. BlockStart(i) = Sp
    BY <1>1, <2>1 DEF BlockStart
  <2>3. base = (Sp + n) % M
    BY <1>1, <2>1
  <2> QED BY <2>2, <2>3
<1>5. \A r : addr(r) = FrameAt(S, Sp, r) /\ Read(addr(r), 4) = Framed(S, Sp, r)
  BY <1>4 DEF FrameAt, Framed
<1>6. /\ DOMAIN loaded = Registers
      /\ \A r \in S \ {15} : loaded[r] = Framed(S, Sp, r)
      /\ \A r \in Registers \ (S \cup {13, 15}) : loaded[r] = regs[r]
  <2>1. \A r \in Registers :
          loaded[r] = IF i.load /\ r \in done \ {15} THEN Read(addr(r), 4) ELSE regs[r]
    OBVIOUS
  <2>2. DOMAIN loaded = Registers
    OBVIOUS
  <2> HIDE DEF loaded, addr, done, S
  <2> QED BY <1>1, <1>3, <1>5, <2>1, <2>2
<1>7. \A r : moved(r) = [r EXCEPT ![13] = end]
  <2> HIDE DEF base, end
  <2> QED BY <1>1, <1>4
<1>r. 13 \in Registers /\ 15 \in Registers /\ 13 # 15
  BY DEF Registers
<1>8. toPc <=> 15 \in S
  BY <1>1
<1> HIDE DEF S, addr, done, base, moved, toPc, loaded, end
<1>9. CASE toPc
  <2>1. /\ regs' = [[loaded EXCEPT ![15] = ExchangeAddress(Framed(S, Sp, 15))] EXCEPT ![13] = end]
        /\ thumb' = (Framed(S, Sp, 15) % 2 = 1)
    BY <1>2, <1>3, <1>5, <1>7, <1>9 DEF S
  <2>2. /\ regs'[13] = end /\ regs'[15] = ExchangeAddress(Framed(S, Sp, 15))
        /\ \A r \in S \ {15} : regs'[r] = Framed(S, Sp, r)
        /\ \A r \in Registers \ (S \cup {13, 15}) : regs'[r] = regs[r]
    BY <1>1, <1>6, <1>r, <2>1
  <2> QED BY <1>1, <1>3, <1>8, <1>9, <2>1, <2>2 DEF Popped, end
<1>10. CASE ~toPc
  <2>1. regs' = NextArm([loaded EXCEPT ![13] = end]) /\ thumb' = thumb
    BY <1>2, <1>3, <1>7, <1>10 DEF S
  <2>2. /\ regs'[13] = end
        /\ \A r \in S \ {15} : regs'[r] = Framed(S, Sp, r)
        /\ \A r \in Registers \ (S \cup {13, 15}) : regs'[r] = regs[r]
    BY <1>1, <1>6, <1>r, <2>1 DEF NextArm
  <2>3. 15 \notin S
    BY <1>8, <1>10
  <2>4. Popped(S)
    BY <1>3, <2>1, <2>2, <2>3 DEF Popped, end
  <2> QED BY <1>1, <2>4, Zenon
<1> QED BY <1>9, <1>10

(* A step of a push or a pop is that instruction. *)
LEMMA StackStep ==
  ASSUME MachineInv, Next, Executes, NEW i, i = Instruction,
         IF thumb THEN i.class \in {"ThumbPush", "ThumbPop"} ELSE i.class = "BlockTransfer",
         ~thumb => Passed(flags, Digit(Opcode, 7))
  PROVE  /\ thumb => ThumbOK(i) /\ (i.class = "ThumbPush" => ThumbPush(i))
                                /\ (i.class = "ThumbPop" => ThumbPop(i))
         /\ ~thumb => ArmOK(i) /\ BlockTransfer(i)
<1>1. GuestStep /\ Fetched
  BY DEF Next, HostCall, Executes
<1>2. CASE thumb
  <2>1. IsOpcode(Opcode, 4) /\ i = DecodeThumb(Opcode) /\ ExecuteThumb(Opcode)
    BY <1>1, <1>2, OpcodeIs DEF GuestStep, Instruction
  <2>2. ThumbOK(i)
    BY <2>1, ThumbDecodedOK
  <2>3. (i.class = "ThumbPush" => ThumbPush(i)) /\ (i.class = "ThumbPop" => ThumbPop(i))
    BY <1>2, <2>1 DEF ExecuteThumb
  <2> QED BY <1>2, <2>2, <2>3
<1>3. CASE ~thumb
  <2>1. IsOpcode(Opcode, 8) /\ i = DecodeArm(Opcode) /\ ExecuteArm(Opcode)
    BY <1>1, <1>3, OpcodeIs DEF GuestStep, Instruction
  <2>2. ArmOK(i)
    BY <2>1, ArmDecodedOK
  <2>3. BlockTransfer(i)
    BY <1>3, <2>1 DEF ExecuteArm
  <2> QED BY <1>3, <2>2, <2>3
<1> QED BY <1>2, <1>3

LEMMA PushStep ==
  ASSUME MachineInv, Next, Pushes, fault' = "none"
  PROVE  \E S \in {ListOf(Instruction)} : \E a \in {(Sp - 4 * Cardinality(S)) % M} : Pushed(S, a)
<1>1. PICK i : i = Instruction
  OBVIOUS
<1>2. PICK D : Good(D)
  BY DEF MachineInv
<1>3. PICK S : S = ListOf(i)
  OBVIOUS
<1>4. PICK a : a = (Sp - 4 * Cardinality(S)) % M
  OBVIOUS
<1>5. fault = "none"
  BY DEF Pushes, Executes, Running
<1>6. CASE thumb
  <2>1. Executes /\ i.class = "ThumbPush"
    BY <1>1, <1>6 DEF Pushes
  <2>2. ThumbOK(i) /\ ThumbPush(i)
    BY <1>1, <1>6, <2>1, StackStep
  <2>3. Pushed(S, a)
    BY <1>2, <1>3, <1>4, <1>5, <2>1, <2>2, ThumbPushFrames
  <2> QED BY <1>1, <1>3, <1>4, <2>3
<1>7. CASE ~thumb
  <2>1. Executes /\ OnStack(i, FALSE)
    BY <1>1, <1>7 DEF Pushes
  <2>2. ArmOK(i) /\ BlockTransfer(i)
    BY <1>1, <1>7, <2>1, StackStep DEF OnStack
  <2>3. Pushed(S, a)
    BY <1>2, <1>3, <1>4, <1>5, <2>1, <2>2, BlockPushFrames
  <2> QED BY <1>1, <1>3, <1>4, <2>3
<1> QED BY <1>6, <1>7

LEMMA PopStep ==
  ASSUME MachineInv, Next, Pops, fault' = "none"
  PROVE  Popped(ListOf(Instruction))
<1>1. PICK i : i = Instruction
  OBVIOUS
<1>2. PICK D : Good(D)
  BY DEF MachineInv
<1>3. fault = "none"
  BY DEF Pops, Executes, Running
<1>4. CASE thumb
  <2>1. Executes /\ i.class = "ThumbPop"
    BY <1>1, <1>4 DEF Pops
  <2>2. ThumbOK(i) /\ ThumbPop(i)
    BY <1>1, <1>4, <2>1, StackStep
  <2>3. Popped(ListOf(i))
    BY <1>2, <1>3, <2>1, <2>2, ThumbPopFrames
  <2> QED BY <1>1, <2>3
<1>5. CASE ~thumb
  <2>1. Executes /\ OnStack(i, TRUE) /\ 13 \notin i.registers
    BY <1>1, <1>5 DEF Pops
  <2>2. ArmOK(i) /\ BlockTransfer(i)
    BY <1>1, <1>5, <2>1, StackStep DEF OnStack
  <2>3. Popped(ListOf(i))
    BY <1>2, <1>3, <2>1, <2>2, BlockPopFrames
  <2> QED BY <1>1, <2>3
<1> QED BY <1>4, <1>5

(* A push leaves each of its registers in a frame at the new stack pointer,*)
(* in the order in which a pop takes them, and touches nothing else,       *)
(* neither of the registers nor of the memory (execute.rs, ThumbPush and   *)
(* BlockTransfer).                                                         *)
PushesFrame ==
  [][Pushes /\ fault' = "none" =>
       \E S \in {ListOf(Instruction)} : \E a \in {(Sp - 4 * Cardinality(S)) % M} :
         Pushed(S, a)]_vars

(* In every program and at every address, also across the end of the       *)
(* address space, a push that does not fault makes its frame and nothing   *)
(* else.                                                                   *)
THEOREM PushesAlwaysFrame == Spec => PushesFrame
<1>1. Init => MachineInv
  BY InitGood
<1>2. MachineInv /\ [Next]_vars => MachineInv'
  BY NextGood
<1>3. MachineInv /\ [Next]_vars =>
        [Pushes /\ fault' = "none" =>
           \E S \in {ListOf(Instruction)} : \E a \in {(Sp - 4 * Cardinality(S)) % M} :
             Pushed(S, a)]_vars
  BY PushStep
<1> QED BY <1>1, <1>2, <1>3, PTL DEF Spec, PushesFrame

(* A pop takes each of its registers from the frame at the stack pointer,  *)
(* leaves the stack pointer behind the frame, and goes on, if it takes the *)
(* pc, at the address and in the mode that the frame says (execute.rs,     *)
(* ThumbPop and BlockTransfer).                                            *)
PopsFrame == [][Pops /\ fault' = "none" => Popped(ListOf(Instruction))]_vars

(* In every program a pop that does not fault gives back what a push of    *)
(* the same registers has left at its stack pointer.                       *)
THEOREM PopsAlwaysTakeFrame == Spec => PopsFrame
<1>1. Init => MachineInv
  BY InitGood
<1>2. MachineInv /\ [Next]_vars => MachineInv'
  BY NextGood
<1>3. MachineInv /\ [Next]_vars =>
        [Pops /\ fault' = "none" => Popped(ListOf(Instruction))]_vars
  BY PopStep
<1> QED BY <1>1, <1>2, <1>3, PTL DEF Spec, PopsFrame

(* A function that pushes registers with lr and pops them with pc, however *)
(* far apart in the program, comes back: at the same stack pointer each    *)
(* register has the same place in both lists, the pc has that of lr, and   *)
(* the stack pointer ends where it was before the push.                    *)
THEOREM FramesMatch ==
  ASSUME NEW R \in SUBSET (0 .. 13), NEW x \in Word, NEW S, S = R \cup {14}, NEW T, T = R \cup {15}
  PROVE  LET a == (x - 4 * Cardinality(S)) % M
         IN /\ \A r \in R : FrameAt(T, a, r) = FrameAt(S, a, r)
            /\ FrameAt(T, a, 15) = FrameAt(S, a, 14)
            /\ (a + 4 * Cardinality(T)) % M = x
<1>1. S \in SUBSET Registers /\ T \in SUBSET Registers /\ R \in SUBSET Registers
  BY DEF Registers
<1>2. IsFiniteSet(R)
  <2>1. 0 \in Int /\ 13 \in Int
    OBVIOUS
  <2> QED BY <2>1, FS_Interval, FS_Subset
<1>3. Cardinality(S) = Cardinality(T)
  <2>1. 14 \notin R /\ 15 \notin R
    OBVIOUS
  <2> QED BY <1>2, <2>1, FS_AddElement
<1>4. \A r \in R : Slot(T, r) = Slot(S, r)
  <2> SUFFICES ASSUME NEW r \in R
               PROVE  Slot(T, r) = Slot(S, r)
    OBVIOUS
  <2>1. {q \in T : q < r} = {q \in S : q < r}
    OBVIOUS
  <2> QED BY <2>1, Zenon DEF Slot
<1>5. Slot(T, 15) = Slot(S, 14)
  <2>1. \A q \in R : q < 15 /\ q < 14
    OBVIOUS
  <2>2. ~(15 < 15) /\ ~(14 < 14)
    OBVIOUS
  <2>3. {q \in T : q < 15} = R /\ {q \in S : q < 14} = R
    BY <2>1, <2>2, Zenon
  <2> QED BY <2>3, Zenon DEF Slot
<1>6. PICK n \in 0 .. 16 : n = Cardinality(S)
  BY <1>1, SlotsAre
<1>7. (((x - 4 * n) % M) + 4 * n) % M = x
  <2>1. ASSUME NEW s \in 0 .. 16, s = n
        PROVE  (x - 4 * (n - s)) % M = (((x - 4 * n) % M) + 4 * s) % M
    <3>1. s <= n
      BY <2>1
    <3> QED BY <3>1, DownIsUp
  <2>2. x - 4 * (n - n) = x /\ x \in Int /\ 0 <= x /\ x < M /\ M \in Nat \ {0}
    BY WordIs, PowerFacts
  <2>3. x % M = x
    BY <2>2, DivSmall
  <2> QED BY <2>1, <2>2, <2>3
<1> QED BY <1>3, <1>4, <1>5, <1>6, <1>7 DEF FrameAt
=============================================================================
