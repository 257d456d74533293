------------------------------ MODULE MCGuest ------------------------------
(***************************************************************************)
(* Programs in real machine code for the guest's machine: functions that   *)
(* call one another, single instructions on the values at the edges, and   *)
(* calls of the C library on small strings.  Words have twelve bits.       *)
(***************************************************************************)
EXTENDS GuestMachine

HexDigit(c) == CHOOSE d \in 0 .. 15 : SubSeq("0123456789ABCDEF", d + 1, d + 1) = c
Op(hex) == [k \in 1 .. Len(hex) |-> HexDigit(SubSeq(hex, k, k))]
Code(at, isThumb, w, ops) ==
  [a \in {at + w * (k - 1) : k \in DOMAIN ops} |->
     [thumb |-> isThumb, op |-> Op(ops[((a - at) \div w) + 1])]]
Arm(at, ops) == Code(at, FALSE, 4, ops)
Thumb(at, ops) == Code(at, TRUE, 2, ops)

Entry == 1024
Fixed == ByteBits = 3 /\ Bits = 12
Edges == {0, 1, 5, 2047, 2048, 4095}
Stored(a, ws) == [b \in a .. a + 4 * Len(ws) - 1 |->
                    (ws[((b - a) \div 4) + 1] \div 8 ^ ((b - a) % 4)) % 8]

StrlenAt == 512
MCHostAt ==
  StrlenAt :> "strlen" @@ 516 :> "memcpy" @@ 520 :> "memmove" @@ 524 :> "memset" @@
  528 :> "strcpy" @@ 532 :> "strncpy" @@ 536 :> "strcat" @@ 540 :> "strncat" @@
  544 :> "memcmp" @@ 548 :> "strcmp" @@ 552 :> "strncmp" @@ 556 :> "memchr" @@
  560 :> "strstr" @@ 564 :> "sprintf" @@ 568 :> "strcoll"
AddressOf(name) == CHOOSE a \in DOMAIN MCHostAt : MCHostAt[a] = name

-----------------------------------------------------------------------------
(* Functions. *)

StackTop == 3104
TextAt == 3200
Literals == 1040 .. 1043

FunctionMem == Stored(3072, <<9, 9, 9, 9, 9, 9, 9, 9>>) @@ Stored(TextAt, <<2 + 8 * 3 + 64 * 2>>)
               @@ Stored(1040, <<StrlenAt>>) @@ Stored(1052, <<StrlenAt>>)

Functions ==
  (* ADDS r0, r0, r2; ADC r1, r1, r3; BX lr *)
  "sum64" :> Arm(Entry, <<"E0900002", "E0A11003", "E12FFF1E">>) @@
  (* CMP r0, r1; MOVLT r0, r1, or MOVCC; BX lr *)
  "max" :> Arm(Entry, <<"E1500001", "B1A00001", "E12FFF1E">>) @@
  "umax" :> Arm(Entry, <<"E1500001", "31A00001", "E12FFF1E">>) @@
  (* MOV r2, #0; CMP r0, r1; BCC; SUB r0, r0, r1; ADD r2, #1; B; ADD r0, r2, #0; BX lr *)
  "div" :> Thumb(Entry, <<"2200", "4288", "D302", "1A40", "3201", "E7FA", "1C10", "4770">>) @@
  (* UMULL r2, r3, r0, r1; SMULL r12, r1, r0, r1; BX lr *)
  "mul64" :> Arm(Entry, <<"E0832190", "E0C1C190", "E12FFF1E">>) @@
  (* SUB sp, sp, #4; STRH r0, [sp]; LDRSH r1, [sp]; LDRSB r2, [sp]; LDRB r3, [sp, #1]; *)
  (* ADD sp, sp, #4; BX lr *)
  "halves" :> Arm(Entry, <<"E24DD004", "E1CD00B0", "E1DD10F0", "E1DD20D0", "E5DD3001",
                           "E28DD004", "E12FFF1E">>) @@
  (* STR r0, [sp, #-4]!; LDR r0, [sp, #1]; ADD sp, sp, #4; BX lr *)
  "unaligned" :> Arm(Entry, <<"E52D0004", "E59D0001", "E28DD004", "E12FFF1E">>) @@
  (* PUSH {r0}; PUSH {r0}; ADD r2, sp, #0; ADD r2, #1; LDR r0, [r2]; ADD sp, #8; BX lr *)
  "astride" :> Thumb(Entry, <<"B401", "B401", "AA00", "3201", "6810", "B002", "4770">>) @@
  (* STMDB sp!, {r4, lr}; MOV r4, r0; BL; ADD r0, r0, r4; LDMIA sp!, {r4, pc} *)
  (* ADD r0, r0, #1; MOV pc, lr *)
  "armCallsArm" :> (Arm(Entry, <<"E92D4010", "E1A04000", "EB000002", "E0800004", "E8BD8010">>)
                    @@ Arm(1048, <<"E2800001", "E1A0F00E">>)) @@
  (* STMDB sp!, {r4, r5, lr}; MOV r4, r0; BLX; ADD r0, r0, r4; LDMIA sp!, {r4, r5, lr}; BX lr *)
  (* PUSH {r4, r5, lr}; ADD r5, r0, #1; LSL r4, r0, #0; ADD r0, r5, #0; POP {r4, r5, pc} *)
  "armCallsThumb" :> (Arm(Entry, <<"E92D4030", "E1A04000", "FB000002", "E0800004", "E8BD4030",
                                   "E12FFF1E">>)
                      @@ Thumb(1050, <<"B530", "1C45", "0004", "1C28", "BD30">>)) @@
  (* PUSH {r4, lr}; ADD r4, r0, #0; BLX; ADD r0, r0, r4; POP {r4, pc} *)
  (* ADD r0, r0, #1; BX lr *)
  "thumbCallsArm" :> (Thumb(Entry, <<"B510", "1C04", "F000", "E804", "1900", "BD10">>)
                      @@ Arm(1040, <<"E2800001", "E12FFF1E">>)) @@
  (* PUSH {r4-r7, lr}; ADD r4, r0, #0; BL; ADD r0, r0, r4; POP {r4-r7}; POP {r3}; BX r3 *)
  (* PUSH {lr}; SUB sp, #8; STR r0, [sp, #4]; MOV r0, #5; LDR r1, [sp, #4]; ADD r0, r1, #1; *)
  (* ADD sp, #8; POP {pc} *)
  "thumbCallsThumb" :> (Thumb(Entry, <<"B5F0", "1C04", "F7FF", "FFF0", "1900", "BCF0", "BC08",
                                       "4718">>)
                        @@ Thumb(1000, <<"B500", "B082", "9001", "2005", "9901", "1C48",
                                         "B002", "BD00">>)) @@
  (* STMDB sp!, {r4, lr}; MOV r4, r0; LDR r3, [pc, #12]; MOV lr, pc; BX r3; *)
  (* ADD r0, r0, r4; LDMIA sp!, {r4, pc} *)
  "armCallsHost" :> Arm(Entry, <<"E92D4010", "E1A04000", "E59F300C", "E1A0E00F", "E12FFF13",
                                 "E0800004", "E8BD8010">>) @@
  (* PUSH {r4, lr}; ADD r4, r0, #0; LDR r3, [pc, #8]; BLX r3; ADD r0, r0, r4; POP {r4, pc} *)
  "thumbCallsHost" :> Thumb(Entry, <<"B510", "1C04", "4B02", "4798", "1900", "BD10">>)

Registers4(a, b, c, d, sp, pc) ==
  [r \in Registers |-> CASE r = 0 -> a [] r = 1 -> b [] r = 2 -> c [] r = 3 -> d
                         [] r = 13 -> sp [] r = 14 -> 0 [] r = 15 -> pc
                         [] OTHER -> 100 + r]
Start(rs, isThumb, c, m) ==
  [regs |-> rs, thumb |-> isThumb, mem |-> m,
   flags |-> [n |-> FALSE, z |-> FALSE, c |-> c, v |-> FALSE]]

Arguments(p) ==
  CASE p = "sum64" -> {0, 1, 4095} \X {0, 2048, 4095} \X {1, 4095} \X {0, 2047, 4095}
    [] p = "div" -> {<<5, 2>>, <<7, 7>>, <<4095, 2000>>, <<2048, 2047>>, <<0, 3>>} \X {0} \X {0}
    [] p \in {"max", "umax", "mul64"} -> Edges \X Edges \X {0} \X {0}
    [] p \in {"armCallsHost", "thumbCallsHost"} -> (TextAt .. TextAt + 3) \X {1} \X {2} \X {3}
    [] OTHER -> Edges \X {1} \X {2} \X {3}
FunctionStarts(p) ==
  {Start(IF p = "div" THEN Registers4(x[1][1], x[1][2], 0, 0, StackTop, Entry)
                      ELSE Registers4(x[1], x[2], x[3], x[4], StackTop, Entry),
         Functions[p][Entry].thumb, FALSE, FunctionMem) : x \in Arguments(p)}

MCPromise(p, s) ==
  LET a == s.regs[0]
      b == s.regs[1]
      c == s.regs[2]
      d == s.regs[3]
      two(x) == x % (M * M)
      lengthAt(t) == TextAt + 3 - t
      sixBits(x) == IF 32 <= x THEN x - 64 ELSE x
      threeBits(x) == IF 4 <= x THEN x - 8 ELSE x
  IN CASE p = "sum64" -> LET sum == a + M * b + c + M * d
                         IN 0 :> (sum % M) @@ 1 :> ((sum \div M) % M)
       [] p = "max" -> 0 :> (IF Signed(a) < Signed(b) THEN b ELSE a)
       [] p = "umax" -> 0 :> (IF a < b THEN b ELSE a)
       [] p = "div" -> 0 :> (a \div b)
       [] p = "mul64" -> 2 :> ((a * b) % M) @@ 3 :> ((a * b) \div M) @@
                         12 :> (two(Signed(a) * Signed(b)) % M) @@
                         1 :> (two(Signed(a) * Signed(b)) \div M)
       [] p = "halves" -> 1 :> (sixBits(a % 64) % M) @@ 2 :> (threeBits(a % 8) % M) @@
                          3 :> ((a \div 8) % 8)
       [] p \in {"unaligned", "astride"} -> 0 :> ((a \div 8) + 512 * (a % 8))
       [] p \in {"armCallsHost", "thumbCallsHost"} -> 0 :> (a + lengthAt(a))
       [] OTHER -> 0 :> ((2 * a + 1) % M)

-----------------------------------------------------------------------------
(* Single instructions: on the edges, on amounts to shift by, on addresses *)
(* inside, across and behind the memory.                                   *)

Shifts == {"E1B00311", "E1B00331", "E1B00351", "E1B00371"} (* MOVS r0, r1, LSL r3 .. ROR r3 *)
ImmediateShifts ==
  {"E1B00001", "E1B00281", "E1B00581", "E1B00021", "E1B001A1", "E1B00041", "E1B005C1",
   "E1B00061", "E1B00261", (* MOVS r0, r1, LSL #0, #5, #11, LSR #32, #3, ASR #32, #11, RRX, ROR #4 *)
   "0008", "0148", "0808", "0AC8", "1008", "10C8"} (* the same in Thumb *)
Sums ==
  {"E0900001", "E0B00001", "E0500001", "E0700001", "E1500001", "E1700001", "E1100001",
   "E0100001", "E0300001", "E1900001", "E1D00001", "E1F00001", "E0800001", "E08FF001",
   "E3B000FF", "E3500001", "E2900102", "E2B00001", "E2A00001", "E1800001", "E3A00005", "E0040190", "E0140190", "E0340190", "E0954190", "E0F54190",
   "1840", "1A40", "1DC8", "1FC8", "4288", "4308", "43C8", "28FF", "3801", "3001", "2005",
   "A801", "A001", "B001", "B081", "4488", "4588", "4688", "44CF", "46F7", "4708", "4788",
   "D0FD", "D5FD", "DEFD", "E7FD", "1AFFFFFE", "EA000000", "EB000000", "FA000000",
   "112FFF1E", "E12FFF31", "E6000010", "EF000000", "4000", "F123", "F812", "E812"}
Accesses ==
  {"E5920000", "E5B20003", "E4920004", "E5D20000", "E5820000", "E5620001", "E7920001",
   "E7820001", "E592F000", "E1D200B0", "E1D200D0", "E1D200F0", "E1C200B2", "E19200B1",
   "E1C200D0", "E18200D1", "E8B20003", "E9128003", "E9A20003", "E8220013", "E892A001", "E8120006",
   "4800", "9800", "9001", "5850", "5450", "7850", "7050", "6850", "6010", "CA03", "C203",
   "CA06", "B503", "BD03", "BC03"}
Menu == Shifts \cup ImmediateShifts \cup Sums \cup Accesses

DataAt == 3072
MenuMem == Stored(DataAt, <<1 + 8 * 2 + 64 * 7 + 512 * 4, 1025, 1>>)
MenuStarts(p) ==
  LET start(a, b, c, d, sp, carry) ==
        Start(Registers4(a, b, c, d, sp, Entry), Len(p) = 4, carry, MenuMem)
  IN CASE p \in Shifts -> {start(0, b, 0, d, 0, c) : b \in Edges \cup {2730}, c \in BOOLEAN,
                             d \in {0, 1, 5, 11, 12, 13, 24, 31, 255, 256, 257}}
       [] p \in ImmediateShifts -> {start(0, b, 0, 0, 0, c) : b \in Edges \cup {2730}, c \in BOOLEAN}
       [] p \in Sums -> {start(a, b, 0, 0, DataAt, c) : a \in Edges, b \in Edges, c \in BOOLEAN}
       [] p \in Accesses -> {start(4095, b, at, 0, at, FALSE) : b \in {0, 1},
                               at \in {DataAt + k : k \in {0, 2, 4, 7, 8, 11, 12, 13}} \cup {4092}}

-----------------------------------------------------------------------------
(* Calls of the C library. *)

Lib == {MCHostAt[a] : a \in DOMAIN MCHostAt}
Base == 96
Laid(bytes) == [b \in Base .. Base + Len(bytes) - 1 |-> bytes[b - Base + 1]]
Call(p, a, b, c, d, m) == Start(Registers4(a, b, c, d, Base + 20, AddressOf(p)), FALSE, FALSE, m)

Mixed == Laid(<<2, 3, 0, 2, 4, 3, 2, 0, 3, 2>>)
Strings(S, n) == {[k \in 1 .. n |-> s[k]] : s \in [1 .. n -> S]}
Formats == {<<1, 2>>, <<2, 1, 2>>, <<1, 1>>, <<1, 2, 1, 1>>, <<1, 2, 1, 2, 1, 2>>, <<1>>,
            <<1, 1, 2>>, <<1, 3>>, <<1, 3, 2>>, <<1, 3, 1, 2>>, <<2, 4, 2>>, <<1, 7, 6, 5>>,
            <<3, 2, 2, 2, 3, 3, 3>>}
Padded(s, n) == [k \in 1 .. n |-> IF k <= Len(s) THEN s[k] ELSE 0]

LibStarts(p) ==
  CASE p \in {"memcpy", "memmove", "strncpy", "memcmp", "strncmp"} ->
         {Call(p, a, b, c, 0, Mixed) :
            a \in Base - 1 .. Base + 10, b \in Base .. Base + 9, c \in 0 .. 4}
    [] p \in {"memset", "memchr"} ->
         {Call(p, a, b, c, 0, Mixed) : a \in Base - 1 .. Base + 10, b \in {0, 2, 12}, c \in 0 .. 4}
    [] p = "strcpy" ->
         {Call(p, a, Base + 10, 0, 0, Laid(<<3, 3, 3, 3, 3, 3, 3, 3, 3, 3>> \o s \o <<0, 3, 3>>)) :
            a \in {Base, Base + 5, Base + 12}, s \in Strings({0, 2, 4, 5, 6, 7}, 3)} \cup
         {Call(p, Base + 1, Base + 10, 0, 0, Laid(Padded(<<>>, 10) \o Padded(<<2, 2, 2, 2, 2, 2, 2, 2>>, n)))
            : n \in {5, 7, 8, 9}}
    [] p \in {"strcat", "strncat"} ->
         {Call(p, x[1], x[2], c, 0, Laid(Padded(s, 5) \o Padded(t, n))) :
            x \in {<<Base, Base>>, <<Base, Base + 5>>, <<Base, Base + 6>>, <<Base + 5, Base>>},
            c \in 0 .. 4, n \in {4, 8},
            s \in {<<>>, <<3>>, <<3, 3>>, <<3, 3, 3, 3, 3>>},
            t \in {<<>>, <<2>>, <<2, 4, 2>>, <<2, 2, 2, 2>>}}
    [] p \in {"strcmp", "strcoll"} ->
         {Call(p, Base, b, 0, 0, Laid(s \o <<0>> \o t)) :
            b \in {Base, Base + 3, Base + 4}, s \in Strings({0, 2, 4}, 2), t \in Strings({0, 2, 4}, 3)}
    [] p = "strlen" ->
         {Call(p, a, 0, 0, 0, Laid(Padded(<<>>, 1) \o [k \in 1 .. n |-> 2] \o <<0>>)) :
            a \in {Base, Base + 1, Base + 2, 0}, n \in 1 .. 8} \cup
         {Call(p, Base, 0, 0, 0, Laid(<<2, 2, 2>>))}
    [] p = "strstr" ->
         {Call(p, Base, b, 0, 0, Laid(s \o <<0>> \o t \o <<0>>)) :
            b \in {Base + 4, Base + 5, 0}, s \in Strings({0, 2, 3, 4}, 3), t \in Strings({0, 2, 3}, 2)}
    [] p = "sprintf" ->
         {Call(p, a, Base, b, Base + 10,
               Laid(Padded(f, 8) \o <<2, 4, 2, 0, 7, 6, 5, 0>> \o Padded(<<>>, 4))
               @@ Stored(Base + 20, <<Base + 12, third>>)
               @@ [k \in Base + 28 .. Base + 40 |-> 3]) :
            a \in {Base + 28, Base + 32}, f \in Formats, b \in {Base + 8, Base + 12, 0},
            third \in {Base + 12}}

-----------------------------------------------------------------------------
MCPromising == DOMAIN Functions
MCImages ==
  Functions @@ [p \in Lib |-> <<>>] @@
  [p \in Menu |-> IF Len(p) = 4 THEN Thumb(Entry, <<p, "4770">>) ELSE Arm(Entry, <<p, "E12FFF1E">>)]
MCStarts ==
  [p \in DOMAIN Functions |-> FunctionStarts(p)] @@ [p \in Lib |-> LibStarts(p)] @@
  [p \in Menu |-> MenuStarts(p)]
=============================================================================
