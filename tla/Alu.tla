-------------------------------- MODULE Alu --------------------------------
(***************************************************************************)
(* The arithmetic of the guest's processor (crates/vmrp-cpu): words, the   *)
(* four flags of the CPSR (regs.rs), the barrel shifter and the conditions *)
(* (execute.rs).  A word has Bits bits, 32 in the code; nothing here       *)
(* depends on the number but the sixteen conditions and the eight bits of  *)
(* a shift amount that a register holds.                                   *)
(***************************************************************************)
EXTENDS Integers, FiniteSetsExt

CONSTANT Bits

Half == 2 ^ (Bits - 1) (* the weight of the sign bit, 0x8000_0000 *)
M == 2 * Half          (* u32::MAX + 1 *)
Word == 0 .. M - 1

ASSUME WordAssumption ==
  Bits \in Nat \ {0, 1} /\ Half \in Nat \ {0} /\ 2 ^ Bits = M
(* The law of the powers, which the provers do not know. *)
ASSUME PowersAssumption == \A k \in 0 .. Bits : 2 ^ (k + 1) = 2 * 2 ^ k

Flags == [n : BOOLEAN, z : BOOLEAN, c : BOOLEAN, v : BOOLEAN]

Negative(x) == Half <= x
Signed(x) == IF Negative(x) THEN x - M ELSE x

(* wrapping_add, wrapping_sub, wrapping_mul. *)
Plus(x, y) == IF x + y < M THEN x + y ELSE x + y - M
Minus(x, y) == IF y <= x THEN x - y ELSE x - y + M
Times(x, y) == (x * y) % M

BitOf(x, k) == (x \div 2 ^ k) % 2 = 1
BitsOf(x) == {k \in 0 .. Bits - 1 : BitOf(x, k)}
OfBits(S) == SumFunction([k \in S |-> 2 ^ k])
RotateRight(x, k) == ((x \div 2 ^ k) + x * 2 ^ (Bits - k)) % M

-----------------------------------------------------------------------------
(* Flags. *)

(* Cpsr::update_nz. *)
NZ(flags, r) == [flags EXCEPT !.n = Negative(r), !.z = (r = 0)]

(* Cpsr::update_nzcv_add. *)
AddFlags(l, r, res) ==
  [n |-> Negative(res), z |-> res = 0, c |-> M <= l + r,
   v |-> Negative(l) # Negative(res) /\ Negative(r) # Negative(res)]

(* Mutant of SubFlags: the carry is set by a borrow. *)
SubFlagsBorrow(l, r, res) ==
  [n |-> Negative(res), z |-> res = 0, c |-> l < r,
   v |-> Negative(l) # Negative(r) /\ Negative(l) # Negative(res)]

(* Cpsr::update_nzcv_sub. *)
SubFlags(l, r, res) ==
  [n |-> Negative(res), z |-> res = 0, c |-> r <= l,
   v |-> Negative(l) # Negative(r) /\ Negative(l) # Negative(res)]

(* add_with_carry, carry being 0 or 1: the result, and the flags it leaves.*)
CarriedSum(l, r, carry) ==
  IF l + r + carry < M THEN l + r + carry ELSE l + r + carry - M
CarriedFlags(l, r, carry, res) ==
  [n |-> Negative(res), z |-> res = 0, c |-> M <= l + r + carry,
   v |-> Negative(l) # Negative(res) /\ Negative(r) # Negative(res)]

(* arm_condition_passed: 15 is never. *)
Passed(f, cond) ==
  \/ cond = 0 /\ f.z
  \/ cond = 1 /\ ~f.z
  \/ cond = 2 /\ f.c
  \/ cond = 3 /\ ~f.c
  \/ cond = 4 /\ f.n
  \/ cond = 5 /\ ~f.n
  \/ cond = 6 /\ f.v
  \/ cond = 7 /\ ~f.v
  \/ cond = 8 /\ f.c /\ ~f.z
  \/ cond = 9 /\ (~f.c \/ f.z)
  \/ cond = 10 /\ f.n = f.v
  \/ cond = 11 /\ f.n # f.v
  \/ cond = 12 /\ ~f.z /\ f.n = f.v
  \/ cond = 13 /\ (f.z \/ f.n # f.v)
  \/ cond = 14

-----------------------------------------------------------------------------
(* The shifter: the operand it makes and the carry it leaves, which is the *)
(* one it was given where the code returns no carry.                       *)

Made(out, carry) == [out |-> out, carry |-> carry]

(* Mutant of ShiftBy: a shift by the width is one that is too long. *)
ShiftByWidthLost(kind, x, n, carry) ==
  CASE kind = "lsl" ->
         IF n = 0 THEN Made(x, carry)
         ELSE IF n < Bits THEN Made((x * 2 ^ n) % M, BitOf(x, Bits - n))
         ELSE Made(0, FALSE)
    [] kind = "lsr" ->
         IF n < Bits THEN Made(x \div 2 ^ n, BitOf(x, n - 1)) ELSE Made(0, FALSE)
    [] kind = "asr" ->
         IF n < Bits THEN Made((Signed(x) \div 2 ^ n) % M, BitOf(x, n - 1))
         ELSE Made(IF Negative(x) THEN M - 1 ELSE 0, Negative(x))
    [] kind = "ror" ->
         IF n = 0 THEN Made((IF carry THEN Half ELSE 0) + x \div 2, BitOf(x, 0))
         ELSE LET out == RotateRight(x, n % Bits) IN Made(out, Negative(out))

(* apply_register_shift, by an amount of the instruction; the decoder has  *)
(* made an amount of no bits to the right into one of all bits.            *)
ShiftBy(kind, x, n, carry) ==
  CASE kind = "lsl" ->
         IF n = 0 THEN Made(x, carry)
         ELSE IF n < Bits THEN Made((x * 2 ^ n) % M, BitOf(x, Bits - n))
         ELSE Made(0, n = Bits /\ BitOf(x, 0))
    [] kind = "lsr" ->
         IF n < Bits THEN Made(x \div 2 ^ n, BitOf(x, n - 1))
         ELSE Made(0, n = Bits /\ Negative(x))
    [] kind = "asr" ->
         IF n < Bits THEN Made((Signed(x) \div 2 ^ n) % M, BitOf(x, n - 1))
         ELSE Made(IF Negative(x) THEN M - 1 ELSE 0, Negative(x))
    [] kind = "ror" ->
         IF n = 0 THEN Made((IF carry THEN Half ELSE 0) + x \div 2, BitOf(x, 0))
         ELSE LET out == RotateRight(x, n % Bits) IN Made(out, Negative(out))

(* apply_register_shift, by the low byte of a register. *)
ShiftByRegister(kind, x, n, carry) ==
  IF n = 0 THEN Made(x, carry) ELSE ShiftBy(kind, x, n, carry)

-----------------------------------------------------------------------------
(* What the flags are for. *)

(* The conditions after a comparison of l with r are the order relations   *)
(* of the two words, read without and with a sign.                         *)
TellsOrder(f, l, r) ==
  /\ Passed(f, 0) <=> l = r
  /\ Passed(f, 1) <=> l # r
  /\ Passed(f, 2) <=> r <= l
  /\ Passed(f, 3) <=> l < r
  /\ Passed(f, 8) <=> r < l
  /\ Passed(f, 9) <=> l <= r
  /\ Passed(f, 10) <=> Signed(r) <= Signed(l)
  /\ Passed(f, 11) <=> Signed(l) < Signed(r)
  /\ Passed(f, 12) <=> Signed(r) < Signed(l)
  /\ Passed(f, 13) <=> Signed(l) <= Signed(r)

(* The flags after a sum of l, r and a carry: whether it is a word, whether*)
(* it is a signed word, and the sign of the true sum.                      *)
TellsSum(f, l, r, carry) ==
  LET true == Signed(l) + Signed(r) + carry
  IN /\ f.c <=> M <= l + r + carry
     /\ f.v <=> true < -Half \/ Half <= true
     /\ (f.n # f.v) <=> true < 0
     /\ f.z <=> l + r + carry \in {0, M}

(* A shift moves the word by its amount, however large, in the integers:   *)
(* what is left of the word is the operand, the last bit that leaves it is *)
(* the carry.                                                              *)
ShiftsExactly(kind, x, n, carry, s) ==
  LET k == Min({n, Bits + 1})
      y == IF kind = "asr" THEN Signed(x) ELSE x
      top == IF carry THEN M ELSE 0
  IN CASE kind = "lsl" -> /\ s.out = (x * 2 ^ k) % M
                          /\ s.carry = IF n = 0 THEN carry ELSE BitOf(x * 2 ^ k, Bits)
       [] kind \in {"lsr", "asr"} ->
            /\ s.out = (y \div 2 ^ k) % M
            /\ s.carry = IF n = 0 THEN carry ELSE BitOf(y, k - 1)
       [] kind = "rrx" -> s = Made((top + x) \div 2, x % 2 = 1)
       [] kind = "ror" -> /\ s.out * 2 ^ (n % Bits) % (M - 1) = x % (M - 1)
                          /\ s.carry = IF n = 0 THEN carry ELSE Negative(s.out)
=============================================================================
