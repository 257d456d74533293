------------------------------- MODULE Decode -------------------------------
(***************************************************************************)
(* The decoder of the guest's processor (crates/vmrp-cpu/src/decode): an   *)
(* opcode is the sequence of its hexadecimal digits, eight in ARM mode and *)
(* four in Thumb mode, and an instruction a record whose "class" is the    *)
(* variant of DecodedInstruction.  The tests are made in the order of the  *)
(* code, since several of them overlap.                                    *)
(***************************************************************************)
EXTENDS Alu, Sequences, TLC

Digit(op, i) == op[Len(op) - i]
Bit(op, k) == BitOf(Digit(op, k \div 4), k % 4)
(* (opcode >> k) & (2^w - 1) *)
Field(op, k, w) ==
  LET low == k \div 4
      digits == [i \in low .. (k + w - 1) \div 4 |-> Digit(op, i) * 16 ^ (i - low)]
  IN (SumFunction(digits) \div 2 ^ (k % 4)) % 2 ^ w
SignExtend(x, w) == IF 2 ^ (w - 1) <= x THEN x - 2 ^ w ELSE x
Listed(op, w) == {r \in 0 .. w - 1 : Bit(op, r)}

Unknown == [class |-> "Unknown"]

(* The record with the fields of both: @@, which the provers do not know.  *)
Joined(r, s) == [f \in DOMAIN r \cup DOMAIN s |-> IF f \in DOMAIN r THEN r[f] ELSE s[f]]

(* A shift by an amount of five bits; none to the right stands for all. *)
AmountShift(type, n) ==
  [kind |-> <<"lsl", "lsr", "asr", "ror">>[type + 1], byRegister |-> FALSE,
   n |-> IF type \in {1, 2} /\ n = 0 THEN Bits ELSE n]

-----------------------------------------------------------------------------
(* ARM mode. *)

IsBranchExchange(op, d) == SubSeq(op, 2, 7) = <<1, 2, 15, 15, 15, d>>
IsMultiplyLong(op) == Digit(op, 6) = 0 /\ Bit(op, 23) /\ Digit(op, 1) = 9
IsMultiply(op) == Digit(op, 6) = 0 /\ ~Bit(op, 23) /\ ~Bit(op, 22) /\ Digit(op, 1) = 9
IsBlxImmediate(op) == Digit(op, 7) = 15 /\ Field(op, 25, 3) = 5
IsHalfwordTransfer(op) ==
  /\ Field(op, 25, 3) = 0 /\ Bit(op, 7) /\ Bit(op, 4)
  /\ Field(op, 5, 2) # 0
  /\ Bit(op, 22) \/ Digit(op, 2) = 0

(* The parts that all transfers of one register share. *)
Transfer(op) ==
  [load |-> Bit(op, 20), base |-> Digit(op, 4), rd |-> Digit(op, 3),
   add |-> Bit(op, 23), pre |-> Bit(op, 24), writeBack |-> Bit(op, 21)]

DecodeHalfwordTransfer(op) ==
  LET parts == Joined([signed |-> Bit(op, 6), halfword |-> Bit(op, 5)], Transfer(op))
  IN IF Bit(op, 22)
     THEN Joined([class |-> "HalfwordTransferImmediate",
                  offset |-> 16 * Digit(op, 2) + Digit(op, 0)], parts)
     ELSE Joined([class |-> "HalfwordTransferRegister", rm |-> Digit(op, 0)], parts)

DecodeMultiply(op) ==
  [class |-> "Multiply", accumulate |-> Bit(op, 21), setFlags |-> Bit(op, 20),
   rd |-> Digit(op, 4), rn |-> Digit(op, 3), rs |-> Digit(op, 2), rm |-> Digit(op, 0)]

DecodeMultiplyLong(op) ==
  [class |-> "MultiplyLong", signed |-> Bit(op, 22), accumulate |-> Bit(op, 21),
   setFlags |-> Bit(op, 20), rdHi |-> Digit(op, 4), rdLo |-> Digit(op, 3),
   rs |-> Digit(op, 2), rm |-> Digit(op, 0)]

DecodeBlockTransfer(op) ==
  [class |-> "BlockTransfer", load |-> Bit(op, 20), pre |-> Bit(op, 24),
   add |-> Bit(op, 23), writeBack |-> Bit(op, 21), base |-> Digit(op, 4),
   registers |-> Listed(op, 16)]

(* The operations by their four bits; SBC, RSC and TEQ are not there. *)
DataProcessingOp(op) ==
  <<"and", "eor", "sub", "rsb", "add", "adc", "none", "none",
    "tst", "none", "cmp", "cmn", "orr", "mov", "bic", "mvn">>[Field(op, 21, 4) + 1]

DecodeDataProcessing(op) ==
  [op |-> DataProcessingOp(op), setFlags |-> Bit(op, 20),
   rn |-> Digit(op, 4), rd |-> Digit(op, 3)]

DecodeDataProcessingImmediate(op) ==
  IF DataProcessingOp(op) = "none" THEN Unknown
  ELSE Joined([class |-> "DataProcessingImmediate", rotated |-> Digit(op, 2) # 0,
               immediate |-> RotateRight(Field(op, 0, 8), (2 * Digit(op, 2)) % Bits)],
              DecodeDataProcessing(op))

(* A shift by a register, or by an amount. *)
DecodeDataProcessingShift(op) ==
  IF Bit(op, 4)
  THEN [AmountShift(Field(op, 5, 2), 1) EXCEPT !.byRegister = TRUE, !.n = Digit(op, 2)]
  ELSE AmountShift(Field(op, 5, 2), Field(op, 7, 5))

DecodeDataProcessingRegister(op) ==
  IF Field(op, 25, 3) # 0 \/ DataProcessingOp(op) = "none" THEN Unknown
  ELSE Joined([class |-> "DataProcessingRegister", rm |-> Digit(op, 0),
               shift |-> DecodeDataProcessingShift(op)], DecodeDataProcessing(op))

DecodeSingleDataTransferImmediate(op) ==
  Joined([class |-> "SingleDataTransferImmediate", byte |-> Bit(op, 22),
          offset |-> Field(op, 0, 12)], Transfer(op))

DecodeSingleDataTransferRegister(op) ==
  IF Bit(op, 4) THEN Unknown
  ELSE Joined([class |-> "SingleDataTransferRegister", byte |-> Bit(op, 22),
               rm |-> Digit(op, 0),
               shift |-> AmountShift(Field(op, 5, 2), Field(op, 7, 5))], Transfer(op))

DecodeBranch(op) ==
  [class |-> "Branch", link |-> Bit(op, 24), offset |-> 4 * SignExtend(Field(op, 0, 24), 24)]

(* The H bit is half a word more. *)
DecodeBlxImmediate(op) ==
  [class |-> "BranchLinkExchangeImmediate",
   offset |-> 4 * SignExtend(Field(op, 0, 24), 24) + (IF Bit(op, 24) THEN 2 ELSE 0)]

(* arm::decode. *)
DecodeArm(op) ==
  IF IsBranchExchange(op, 1)
  THEN [class |-> "BranchExchange", link |-> FALSE, register |-> Digit(op, 0)]
  ELSE IF IsBranchExchange(op, 3)
  THEN [class |-> "BranchExchange", link |-> TRUE, register |-> Digit(op, 0)]
  ELSE IF IsMultiplyLong(op) THEN DecodeMultiplyLong(op)
  ELSE IF IsMultiply(op) THEN DecodeMultiply(op)
  ELSE IF IsBlxImmediate(op) THEN DecodeBlxImmediate(op)
  ELSE IF IsHalfwordTransfer(op) THEN DecodeHalfwordTransfer(op)
  ELSE CASE Field(op, 25, 3) = 4 -> DecodeBlockTransfer(op)
         [] Field(op, 25, 3) = 1 -> DecodeDataProcessingImmediate(op)
         [] Field(op, 25, 3) = 2 -> DecodeSingleDataTransferImmediate(op)
         [] Field(op, 25, 3) = 3 -> DecodeSingleDataTransferRegister(op)
         [] Field(op, 25, 3) = 5 -> DecodeBranch(op)
         [] OTHER -> DecodeDataProcessingRegister(op)

-----------------------------------------------------------------------------
(* Thumb mode. *)

Low3(op, k) == Field(op, k, 3)

DecodeThumbShiftImmediate(op) ==
  [class |-> "ThumbShiftImmediate", rd |-> Low3(op, 0), rs |-> Low3(op, 3),
   shift |-> AmountShift(Field(op, 11, 2), Field(op, 6, 5))]

DecodeThumbAddSub(op) ==
  [class |-> "ThumbAddSub", sub |-> Bit(op, 9), immediate |-> Bit(op, 10),
   operand |-> Low3(op, 6), rs |-> Low3(op, 3), rd |-> Low3(op, 0)]

(* Of the sixteen operations on two registers there are three. *)
DecodeThumbAluRegister(op) ==
  LET o == Field(op, 6, 4)
  IN IF o \notin {10, 12, 15} THEN Unknown
     ELSE [class |-> "ThumbAluRegister", rd |-> Low3(op, 0), rs |-> Low3(op, 3),
           op |-> CASE o = 10 -> "cmp" [] o = 12 -> "orr" [] o = 15 -> "mvn"]

DecodeThumbHiRegisterOp(op) ==
  [class |-> "ThumbHiRegisterOp", rd |-> Low3(op, 0) + (IF Bit(op, 7) THEN 8 ELSE 0),
   rs |-> Field(op, 3, 4),
   op |-> CASE Field(op, 8, 2) = 0 -> "add" [] Field(op, 8, 2) = 1 -> "cmp"
            [] Field(op, 8, 2) = 2 -> "mov"
            [] Field(op, 8, 2) = 3 -> IF Bit(op, 7) THEN "blx" ELSE "bx"]

ThumbImmediate8(class, op) ==
  [class |-> class, rd |-> Low3(op, 8), immediate |-> Field(op, 0, 8)]

ThumbSuffix(op, exchange) ==
  [class |-> "ThumbLongBranchSuffix", exchange |-> exchange, offset |-> 2 * Field(op, 0, 11)]

ThumbOffset5(class, op, scale) ==
  [class |-> class, load |-> Bit(op, 11), base |-> Low3(op, 3), rd |-> Low3(op, 0),
   offset |-> scale * Field(op, 6, 5)]

(* Loads and stores, of one register or of several. *)
DecodeThumbLoadStore(op) ==
  CASE Digit(op, 3) = 5 /\ ~Bit(op, 9) ->
         [class |-> "ThumbLoadStoreRegisterOffset", load |-> Bit(op, 11), byte |-> Bit(op, 10),
          offset |-> Low3(op, 6), base |-> Low3(op, 3), rd |-> Low3(op, 0)]
    [] Digit(op, 3) = 6 -> ThumbOffset5("ThumbLoadStoreWordImmediate", op, 4)
    [] Digit(op, 3) = 7 -> ThumbOffset5("ThumbLoadStoreByteImmediate", op, 1)
    [] Digit(op, 3) = 12 ->
         [class |-> "ThumbLoadStoreMultiple", load |-> Bit(op, 11), base |-> Low3(op, 8),
          registers |-> Listed(op, 8)]
    [] OTHER -> Unknown

(* PUSH, POP and the moves of sp. *)
DecodeThumbStack(op) ==
  CASE Field(op, 9, 7) = 90 ->
         [class |-> "ThumbPush", registers |-> Listed(op, 8), lr |-> Bit(op, 8)]
    [] Field(op, 9, 7) = 94 ->
         [class |-> "ThumbPop", registers |-> Listed(op, 8), pc |-> Bit(op, 8)]
    [] Field(op, 8, 8) = 176 ->
         [class |-> "ThumbAdjustSp", subtract |-> Bit(op, 7), immediate |-> 4 * Field(op, 0, 7)]
    [] OTHER -> Unknown

(* decode_fallback. *)
DecodeThumbFallback(op) ==
  CASE Field(op, 10, 6) = 16 -> DecodeThumbAluRegister(op)
    [] Field(op, 10, 6) = 17 -> DecodeThumbHiRegisterOp(op)
    [] Digit(op, 3) \in {5, 6, 7, 12} -> DecodeThumbLoadStore(op)
    [] Digit(op, 3) = 11 -> DecodeThumbStack(op)
    [] Digit(op, 3) = 13 /\ Digit(op, 2) # 15 ->
         [class |-> "ThumbConditionalBranch", condition |-> Digit(op, 2),
          offset |-> 2 * SignExtend(Field(op, 0, 8), 8)]
    [] Field(op, 11, 5) = 29 -> ThumbSuffix(op, TRUE)
    [] OTHER -> Unknown

(* Addresses made from the pc or from sp. *)
DecodeThumbRelative(op) ==
  LET top == Field(op, 11, 5)
  IN IF top = 9
     THEN [class |-> "ThumbLiteralLoad", rd |-> Low3(op, 8), offset |-> 4 * Field(op, 0, 8)]
     ELSE IF top \in {18, 19}
     THEN [class |-> "ThumbLoadStoreSpRelative", load |-> Bit(op, 11),
           rd |-> Low3(op, 8), offset |-> 4 * Field(op, 0, 8)]
     ELSE [class |-> "ThumbLoadAddress", sp |-> Bit(op, 11),
           rd |-> Low3(op, 8), offset |-> 4 * Field(op, 0, 8)]

DecodeThumbBranch(op) ==
  LET top == Field(op, 11, 5)
      offset == SignExtend(Field(op, 0, 11), 11)
  IN IF top = 28 THEN [class |-> "ThumbBranch", offset |-> 2 * offset]
     ELSE IF top = 30 THEN [class |-> "ThumbLongBranchPrefix", offset |-> 4096 * offset]
     ELSE ThumbSuffix(op, FALSE)

(* thumb::decode: by the five bits on top. *)
DecodeThumb(op) ==
  LET top == Field(op, 11, 5)
  IN CASE top \in {0, 1, 2} -> DecodeThumbShiftImmediate(op)
       [] top = 3 -> DecodeThumbAddSub(op)
       [] top \in 4 .. 7 ->
            ThumbImmediate8(<<"ThumbMovImmediate", "ThumbCmpImmediate", "ThumbAddImmediate",
                              "ThumbSubImmediate">>[top - 3], op)
       [] top \in {9, 18, 19, 20, 21} -> DecodeThumbRelative(op)
       [] top \in {28, 30, 31} -> DecodeThumbBranch(op)
       [] OTHER -> DecodeThumbFallback(op)
=============================================================================
