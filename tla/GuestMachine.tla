---------------------------- MODULE GuestMachine ----------------------------
(***************************************************************************)
(* The guest's machine as the runner drives it (run_loop of main.rs):      *)
(* before every step the host looks whether the pc is one of its own       *)
(* functions; if so it runs that function and returns to lr, else the      *)
(* processor takes one instruction.  A stage ends when the pc is null,     *)
(* which is where the lr points that the runner starts it with, or with    *)
(* the first error.                                                        *)
(***************************************************************************)
EXTENDS CpuThumb, HostStrings

CONSTANTS
  HostAt,        (* address -> the function of the host that is there      *)
  Promise(_, _), (* program, registers and memory at its start -> what it  *)
                 (* is to leave in registers, for the programs in Promising*)
  Promising

vars == <<regs, thumb, flags, mem, fault, prog, begun, told>>

ASSUME MachineAssumption ==
  /\ Promising \subseteq DOMAIN Images
  /\ 0 \notin DOMAIN HostAt
  /\ TextLimit \in Word
  /\ \A a \in DOMAIN HostAt : HostAt[a] \in Copying \cup Texts \cup Searching

Init ==
  /\ prog \in DOMAIN Images
  /\ \E s \in Starts[prog] :
       /\ regs = s.regs /\ thumb = s.thumb /\ flags = s.flags /\ mem = s.mem
       /\ begun = s
  /\ fault = "none"
  /\ told = Untold

Running == fault = "none" /\ Pc # 0

(* Mutant of HostCall: the host returns without a look at the mark of lr. *)
HostCallKeepsMode ==
  /\ Running /\ Pc \in DOMAIN HostAt
  /\ LET f == Library(HostAt[Pc])
     IN /\ mem' = f.mem
        /\ IF f.ok
           THEN /\ regs' = [regs EXCEPT ![0] = f.r0, ![15] = Aligned(regs[14], 2)]
                /\ UNCHANGED <<thumb, fault>>
           ELSE fault' = "memory" /\ UNCHANGED <<regs, thumb>>
  /\ UNCHANGED <<flags, told, prog, begun>>

(* host.handle: the function, then return_to_lr; after an error neither r0 *)
(* nor the pc is moved.                                                    *)
HostCall ==
  /\ Running /\ Pc \in DOMAIN HostAt
  /\ LET f == Library(HostAt[Pc])
     IN /\ mem' = f.mem
        /\ IF f.ok
           THEN /\ regs' = [regs EXCEPT ![0] = f.r0, ![15] = Aligned(regs[14], 2)]
                /\ thumb' = (regs[14] % 2 = 1)
                /\ UNCHANGED fault
           ELSE fault' = "memory" /\ UNCHANGED <<regs, thumb>>
  /\ UNCHANGED <<flags, told, prog, begun>>

(* fetch_opcode: what stands at the pc, if it is code for the mode. *)
Fetched == Pc \in DOMAIN Images[prog] /\ Images[prog][Pc].thumb = thumb
Opcode == Images[prog][Pc].op

(* Cpu::step. *)
GuestStep ==
  /\ Running /\ Pc \notin DOMAIN HostAt
  /\ \/ ~Fetched /\ Failing("wild")
     \/ Fetched /\ ~thumb /\ ExecuteArm(Opcode)
     \/ Fetched /\ thumb /\ ExecuteThumb(Opcode)
  /\ UNCHANGED <<prog, begun>>

Next == HostCall \/ GuestStep

Spec == Init /\ [][Next]_vars

-----------------------------------------------------------------------------
ToldOK == told \in [sum : {"none", "add", "sub"}, l : Word, r : Word, carry : {0, 1}]

(* The registers, the flags and the bytes of the memory keep their width,  *)
(* no byte appears or disappears, and an error is one of those the runner  *)
(* reports.                                                                *)
TypeOK ==
  /\ regs \in [Registers -> Word] /\ thumb \in BOOLEAN /\ flags \in Flags
  /\ mem \in [DOMAIN begun.mem -> 0 .. Byte - 1]
  /\ fault \in {"none", "memory", "unimplemented", "wild"}
  /\ begun.regs \in [Registers -> Word]
  /\ ToldOK

(* As long as no instruction touches the flags that a comparison or a sum  *)
(* left, the conditions answer for its two words: equal, below, less, and  *)
(* for a sum whether it left the words or the signed words (regs.rs,       *)
(* arm_condition_passed), whatever loads, stores, calls and changes of the *)
(* mode come between.                                                      *)
ConditionsMean ==
  ToldOK =>
    /\ told.sum = "sub" => TellsOrder(flags, told.l, told.r)
    /\ told.sum = "add" => TellsSum(flags, told.l, told.r, told.carry)

Instruction == IF thumb THEN DecodeThumb(Opcode) ELSE DecodeArm(Opcode)
Executes == Running /\ Pc \notin DOMAIN HostAt /\ Fetched

(* The shift that an instruction makes when it moves a shifted register and*)
(* sets the flags.                                                         *)
IsShift ==
  /\ Executes
  /\ \/ Instruction.class = "ThumbShiftImmediate"
     \/ /\ Instruction.class = "DataProcessingRegister" /\ Passed(flags, Digit(Opcode, 7))
        /\ Instruction.op = "mov" /\ Instruction.setFlags /\ Instruction.rd # 15

(* A move of a shifted register leaves in the register and in the carry    *)
(* what the shift is in the integers, for every amount an instruction or   *)
(* the low byte of a register gives: none, the width, more than the width  *)
(* (apply_register_shift and the decoders, which read no amount as all).   *)
ShiftsExact ==
  [][IsShift =>
       LET i == Instruction
           x == IF thumb THEN regs[i.rs] ELSE Visible(i.rm)
           n == IF i.shift.byRegister THEN regs[i.shift.n] % 256 ELSE i.shift.n
           kind == IF i.shift.kind = "ror" /\ n = 0 /\ ~i.shift.byRegister THEN "rrx"
                   ELSE i.shift.kind
       IN ShiftsExactly(kind, x, n, flags.c, Made(regs'[i.rd], flags'.c))]_vars

(* A function comes back: whatever instructions it saves its registers,    *)
(* passes its calls and returns with, in ARM or Thumb code or through a    *)
(* function of the host, it ends at the address and in the mode it was     *)
(* called from, with the stack pointer and r4 to r11 as they were and with *)
(* its result.                                                             *)
CallsReturn ==
  prog \in Promising /\ ~Running =>
    /\ fault = "none" /\ Pc = 0 /\ ~thumb
    /\ \A r \in 4 .. 11 \cup {13} : regs[r] = begun.regs[r]
    /\ LET promise == Promise(prog, begun)
       IN \A r \in DOMAIN promise : regs[r] = promise[r]

(* A step that ends in an error has not moved on: the pc, the mode and the *)
(* flags are still those of the instruction, and of the registers only some*)
(* that a load of several was to fill have changed (execute.rs: every      *)
(* handler writes its registers behind its accesses).                      *)
FaultsStay ==
  [][fault' # fault =>
       /\ regs'[15] = Pc /\ thumb' = thumb /\ flags' = flags
       /\ (\E r \in Registers : regs'[r] # regs[r]) =>
            /\ Executes
            /\ Instruction.class \in {"BlockTransfer", "ThumbLoadStoreMultiple", "ThumbPop"}
            /\ \A r \in Registers : regs'[r] # regs[r] => r \in Instruction.registers]_vars

-----------------------------------------------------------------------------
(* What the C standard says of the functions, for a call with the arguments*)
(* a, b and c.                                                             *)

Bytes(m, a, n) == [k \in 1 .. n |-> m[a + k - 1]]
Allocated(m, a, n) == a .. a + n - 1 \subseteq DOMAIN m
Overlay(m, a, bytes) ==
  [b \in DOMAIN m |-> IF b \in a .. a + Len(bytes) - 1 THEN bytes[b - a + 1] ELSE m[b]]
IsString(m, a) == \E b \in DOMAIN m : m[b] = 0 /\ a .. b \subseteq DOMAIN m /\ a <= b
StringOf(m, a) == Bytes(m, a, Min({b \in DOMAIN m : a <= b /\ m[b] = 0}) - a)
IsText(m, a) == IsString(m, a) /\ Len(StringOf(m, a)) <= TextLimit
Apart(a, n, b, k) == a + n <= b \/ b + k <= a

(* A string that the conversions of the host leave as it is. *)
IsUtf8(s) ==
  \A k \in DOMAIN s :
    /\ s[k] \in {Percent, LetterS, DigitByte, Begins} \cup Continues
    /\ s[k] = Begins => k + 2 <= Len(s) /\ s[k + 1] \in Continues /\ s[k + 2] \in Continues
    /\ s[k] \in Continues =>
         \E b \in {k - 1, k - 2} \cap DOMAIN s : s[b] = Begins

(* The text that "%s" and "%%" make, from what every byte of the format    *)
(* adds to it; the strings are in two registers and above sp.              *)
Opens(fmt, k) == fmt[k] = Percent /\ (k = 1 \/ fmt[k - 1] # Percent)
Names(fmt, k) == fmt[k] = LetterS /\ k > 1 /\ Opens(fmt, k - 1)
Named(fmt, k) == Cardinality({j \in 1 .. k : Names(fmt, j)})
StackedAt(j) == Sp + 4 * (j - 3)
Given(j) == IF j < 3 THEN regs[j + 1] ELSE Read(StackedAt(j), 4)
Piece(fmt, k) ==
  CASE Opens(fmt, k) -> <<>>
    [] Names(fmt, k) -> StringOf(mem, Given(Named(fmt, k)))
    [] OTHER -> <<fmt[k]>>
Printed(fmt) == FoldLeft(LAMBDA s, t : s \o t, <<>>, [k \in 1 .. Len(fmt) |-> Piece(fmt, k)])
IsSimpleFormat(fmt) ==
  \A k \in DOMAIN fmt :
    /\ Opens(fmt, k) => k < Len(fmt) /\ fmt[k + 1] \in {LetterS, Percent}
    /\ k > 2 => ~(fmt[k - 2] = Percent /\ fmt[k - 1] = Percent /\ fmt[k] = Percent)

(* The bytes that a copying function puts at a, when its arguments are such*)
(* as the standard wants.                                                  *)
Copied(name, a, b, c) ==
  CASE name \in {"memcpy", "memmove"} -> Bytes(mem, b, c)
    [] name = "memset" -> [k \in 1 .. c |-> b % Byte]
    [] name = "strcpy" -> Append(StringOf(mem, b), 0)
    [] name = "strncpy" ->
         [k \in 1 .. c |-> IF \E j \in 1 .. k : mem[b + j - 1] = 0 THEN 0 ELSE mem[b + k - 1]]
    [] name = "strcat" -> StringOf(mem, a) \o Append(StringOf(mem, b), 0)
    [] name = "strncat" ->
         LET s == StringOf(mem, b)
         IN StringOf(mem, a) \o Append(SubSeq(s, 1, Min({c, Len(s)})), 0)
    [] name = "sprintf" -> Append(Printed(StringOf(mem, b)), 0)

(* The arguments that the standard wants; a text that passes through       *)
(* String::from_utf8_lossy (strcpy, strstr, sprintf) must be UTF-8.        *)
Wanted(name, a, b, c) ==
  CASE name = "memmove" -> Allocated(mem, b, c)
    [] name = "memcpy" -> Allocated(mem, b, c) /\ Apart(a, c, b, c)
    [] name = "memset" -> TRUE
    [] name = "strcpy" -> IsText(mem, b) /\ IsUtf8(StringOf(mem, b))
    [] name = "strncpy" -> IsString(mem, b) /\ Allocated(mem, b, c) /\ Apart(a, c, b, c)
    [] name \in {"strcat", "strncat"} ->
         /\ IsText(mem, a) /\ IsString(mem, b)
         /\ LET n == Len(StringOf(mem, b)) + 1
            IN Apart(a, Len(StringOf(mem, a)) + n, b, n)
    [] name = "sprintf" ->
         LET fmt == StringOf(mem, b)
         IN /\ IsText(mem, b) /\ IsUtf8(fmt) /\ IsSimpleFormat(fmt)
            /\ \A j \in 1 .. Named(fmt, Len(fmt)) :
                 /\ j > 2 => Allocated(mem, StackedAt(j), 4)
                 /\ IsText(mem, Given(j)) /\ IsUtf8(StringOf(mem, Given(j)))
    [] name = "memcmp" -> Allocated(mem, a, c) /\ Allocated(mem, b, c)
    [] name \in {"strcmp", "strcoll", "strncmp"} -> IsString(mem, a) /\ IsString(mem, b)
    [] name = "memchr" ->
         \E n \in 0 .. c : Allocated(mem, a, n)
                           /\ (n = c \/ \E k \in 1 .. n : mem[a + k - 1] = b % Byte)
    [] name = "strlen" -> IsText(mem, a)
    [] name = "strstr" -> /\ IsText(mem, a) /\ IsUtf8(StringOf(mem, a))
                          /\ IsText(mem, b) /\ IsUtf8(StringOf(mem, b))

(* A function that copies leaves at its destination what the C standard    *)
(* says, when the destination is memory it returns.                        *)
CopiesLikeC(name, a, b, c, after) ==
  LET e == Copied(name, a, b, c)
  IN Wanted(name, a, b, c) /\ Allocated(mem, a, Len(e)) =>
       after = [mem |-> Overlay(mem, a, e), ok |-> TRUE,
                r0 |-> IF name = "sprintf" THEN Len(e) - 1 ELSE a]

(* What a function that compares or searches is to answer in r0. *)
Below(s, t) ==
  \E k \in 0 .. Len(s) : /\ k < Len(t) /\ SubSeq(s, 1, k) = SubSeq(t, 1, k)
                         /\ k = Len(s) \/ s[k + 1] < t[k + 1]
Compares(s, t, r0) == (r0 = 0 <=> s = t) /\ (Negative(r0) <=> Below(s, t))
Finds(S, r0) == IF S = {} THEN r0 = 0 ELSE r0 = Min(S)
Answers(name, a, b, c, r0) ==
  LET s == StringOf(mem, a)
      t == StringOf(mem, b)
      cut(u) == SubSeq(u, 1, Min({c, Len(u)}))
  IN CASE name = "memcmp" -> Compares(Bytes(mem, a, c), Bytes(mem, b, c), r0)
       [] name \in {"strcmp", "strcoll"} -> Compares(s, t, r0)
       [] name = "strncmp" -> Compares(cut(s), cut(t), r0)
       [] name = "memchr" ->
            Finds({k \in DOMAIN mem : k \in a .. a + c - 1 /\ mem[k] = b % Byte}, r0)
       [] name = "strlen" -> r0 = Len(s)
       [] name = "strstr" ->
            Finds({a + k : k \in {j \in 0 .. Len(s) - Len(t) :
                                    SubSeq(s, j + 1, j + Len(t)) = t}}, r0)

(* What a call leaves: never another byte in front of the destination or   *)
(* behind a given length, and none after a search.                         *)
LikeC(name, a, b, c, after) ==
  LET changed == {k \in DOMAIN mem : after.mem[k] # mem[k]}
  IN IF name \in Searching
     THEN /\ after.mem = mem
          /\ Wanted(name, a, b, c) => after.ok /\ Answers(name, a, b, c, after.r0)
     ELSE /\ \A k \in changed : a <= k /\ (name \in Copying => k < a + c)
          /\ CopiesLikeC(name, a, b, c, after)

(* Every call of a function of the C library does to the guest's bytes what*)
(* the C standard says, at the ends of the memory too; and whatever it is  *)
(* given, error or not, no byte in front of the destination or behind a    *)
(* given length changes, and a search changes none (lib.rs 3357 to 3637).  *)
StringsLikeC ==
  [][Running /\ Pc \in DOMAIN HostAt =>
       LikeC(HostAt[Pc], regs[0], regs[1], regs[2],
             [mem |-> mem', r0 |-> regs'[0], ok |-> fault' = "none"])]_vars

(* A program that is one call of strcpy ends with the string copied,       *)
(* whatever its bytes are.                                                 *)
StrcpyCopies ==
  begun.regs[15] \in DOMAIN HostAt /\ HostAt[begun.regs[15]] = "strcpy" /\ ~Running =>
    LET a == begun.regs[0]
        b == begun.regs[1]
        e == Append(StringOf(begun.mem, b), 0)
    IN IsText(begun.mem, b) /\ Allocated(begun.mem, a, Len(e)) =>
         fault = "none" /\ mem = Overlay(begun.mem, a, e) /\ regs[0] = a
=============================================================================
