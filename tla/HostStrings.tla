---------------------------- MODULE HostStrings ----------------------------
(***************************************************************************)
(* The C library that the host gives to the guest (lib.rs, handle_memcpy   *)
(* to handle_memset and their helpers): what each function leaves in the   *)
(* memory and in r0.  The arguments are in r0 to r3 and on the stack.      *)
(*                                                                         *)
(* Of the bytes there are the eight that the functions tell apart: the end *)
(* of a string, '%', 's', a digit, a byte that UTF-8 never uses (as the    *)
(* first ones of most GBK characters are, here), BD and BF, which only     *)
(* continue a character, and EF, which begins one of three bytes.  The     *)
(* conversions of numbers (%d, atoi, strtoul) are left out.                *)
(***************************************************************************)
EXTENDS CpuArm, SequencesExt

CONSTANT TextLimit (* the longest string that is read: 4096 *)

Percent == 1
LetterS == 2
DigitByte == 3
Continues == {5, 6}
Begins == 7
Replacement == <<7, 6, 5>> (* U+FFFD *)

At(a, k) == (a + k) % M

(* What a function leaves, and whether it ends without a memory error. *)
Returned(m, r) == [mem |-> m, r0 |-> r, ok |-> TRUE]
Broken(m) == [mem |-> m, r0 |-> regs[0], ok |-> FALSE]
Ends(m, r, ok) == IF ok THEN Returned(m, r) ELSE Broken(m)

(* The first of the offsets at which a loop of n steps stops, or n. *)
FirstOf(stops, n) == Min(stops \cup {n})
Offsets(n) == 0 .. n - 1
Ended(a, k) == At(a, k) \notin DOMAIN mem \/ mem[At(a, k)] = 0

(* guest_strlen: the length of a string, and whether it could be read.     *)
Length(a) == FirstOf({k \in Offsets(TextLimit) : Ended(a, k)}, TextLimit)
Readable(a) == Length(a) = TextLimit \/ At(a, Length(a)) \in DOMAIN mem

(* String::from_utf8_lossy: what is no UTF-8 becomes the replacement, once *)
(* for every longest beginning of a character.                             *)
LossyByte(s, b) ==
  LET cut == IF s.open = <<>> THEN s.out ELSE s.out \o Replacement
  IN CASE s.open # <<>> /\ b \in Continues ->
            IF Len(s.open) = 2 THEN [out |-> s.out \o s.open \o <<b>>, open |-> <<>>]
            ELSE [s EXCEPT !.open = Append(@, b)]
       [] b = Begins -> [out |-> cut, open |-> <<b>>]
       [] b \in {Percent, LetterS, DigitByte} -> [out |-> Append(cut, b), open |-> <<>>]
       [] OTHER -> [out |-> cut \o Replacement, open |-> <<>>]
Lossy(bytes) ==
  LET s == FoldLeft(LossyByte, [out |-> <<>>, open |-> <<>>], bytes)
  IN IF s.open = <<>> THEN s.out ELSE s.out \o Replacement

(* read_guest_c_string; the null pointer is the empty string.              *)
TextReadable(a) == a = 0 \/ Readable(a)
Text(a) == IF a = 0 THEN <<>> ELSE Lossy([k \in 1 .. Length(a) |-> mem[At(a, k - 1)]])

(* The memory when the bytes bytes[0], bytes[1].. have been written one    *)
(* after the other from a on; they are less than a word can count, so that *)
(* each has an address of its own.                                         *)
Written(a, bytes) ==
  [b \in DOMAIN mem |-> LET k == (b - a) % M IN IF k \in DOMAIN bytes THEN bytes[k] ELSE mem[b]]
Unmapped(a, k) == At(a, k) \notin DOMAIN mem

(* They are written up to the first that cannot be.                        *)
Store(a, bytes) ==
  LET n == FirstOf({k \in Offsets(Len(bytes)) : Unmapped(a, k)}, Len(bytes))
  IN [mem |-> Written(a, [k \in Offsets(n) |-> bytes[k + 1]]), ok |-> n = Len(bytes)]
(* write_guest_c_string. *)
StoreText(a, bytes) == Store(a, Append(bytes, 0))

(* A loop that reads a byte at src and writes it at dst, one after the     *)
(* other, reads what it has written where dst is ahead of src: from there  *)
(* on the bytes between the two come again.                                *)
Source(dst, src, k) ==
  LET ahead == (dst - src) % M IN At(src, IF ahead = 0 THEN k ELSE k % ahead)
SourceUnmapped(dst, src, k) == Source(dst, src, k) \notin DOMAIN mem
Stops(dst, src, k) == SourceUnmapped(dst, src, k) \/ Unmapped(dst, k)

-----------------------------------------------------------------------------
(* Copies. *)

Memcpy(dst, src, len) ==
  LET n == FirstOf({k \in Offsets(len) : Stops(dst, src, k)}, len)
  IN Ends(Written(dst, [k \in Offsets(n) |-> mem[Source(dst, src, k)]]), dst, n = len)

(* The source is read before the first byte is written. *)
Memmove(dst, src, len) ==
  LET n == FirstOf({k \in Offsets(len) : Unmapped(dst, k)}, len)
  IN IF \E k \in Offsets(len) : Unmapped(src, k) THEN Broken(mem)
     ELSE Ends(Written(dst, [k \in Offsets(n) |-> mem[At(src, k)]]), dst, n = len)

Memset(dst, value, len) ==
  LET n == FirstOf({k \in Offsets(len) : Unmapped(dst, k)}, len)
  IN Ends(Written(dst, [k \in Offsets(n) |-> value % Byte]), dst, n = len)

Strcpy(dst, src) ==
  LET s == StoreText(dst, Text(src))
  IN IF ~TextReadable(src) THEN Broken(mem) ELSE Ends(s.mem, dst, s.ok)

(* The number of bytes of the source that a loop reads before the end of   *)
(* the string or of the memory.                                            *)
SourceEnds(dst, src, k) == SourceUnmapped(dst, src, k) \/ mem[Source(dst, src, k)] = 0
SourceLength(dst, src, n) == FirstOf({k \in Offsets(n) : SourceEnds(dst, src, k)}, n)

(* Mutant of Strncpy: the rest of the field is left as it was. *)
StrncpyUnpadded(dst, src, len) ==
  LET end == SourceLength(dst, src, len)
      n == FirstOf({k \in Offsets(len) : k > end \/ Stops(dst, src, k)}, len)
  IN Ends(Written(dst, [k \in Offsets(n) |-> mem[Source(dst, src, k)]]), dst,
          n > end \/ n = len)

(* After the end of the source only zeros are written, and nothing is read.*)
Strncpy(dst, src, len) ==
  LET end == SourceLength(dst, src, len)
      n == FirstOf({k \in Offsets(len) :
                      Unmapped(dst, k) \/ (k <= end /\ SourceUnmapped(dst, src, k))}, len)
  IN Ends(Written(dst, [k \in Offsets(n) |-> IF k < end THEN mem[Source(dst, src, k)] ELSE 0]),
          dst, n = len)

(* The end of the source is the last byte that is copied. *)
Strcat(dst, src) ==
  LET to == At(dst, Length(dst))
      end == SourceLength(to, src, Cardinality(DOMAIN mem))
      n == FirstOf({k \in Offsets(end + 1) : Stops(to, src, k)}, end + 1)
  IN IF ~Readable(dst) THEN Broken(mem)
     ELSE Ends(Written(to, [k \in Offsets(n) |-> mem[Source(to, src, k)]]), dst, n = end + 1)

(* The end is written apart, behind the bytes that were copied. *)
Strncat(dst, src, max) ==
  LET to == At(dst, Length(dst))
      end == SourceLength(to, src, max)
      n == FirstOf({k \in Offsets(end) : Unmapped(to, k)}, end)
      whole == n = end /\ (end = max \/ ~SourceUnmapped(to, src, end)) /\ ~Unmapped(to, end)
  IN IF ~Readable(dst) THEN Broken(mem)
     ELSE Ends(Written(to, [k \in Offsets(IF whole THEN end + 1 ELSE n) |->
                              IF k < end THEN mem[Source(to, src, k)] ELSE 0]), dst, whole)

-----------------------------------------------------------------------------
(* Comparisons and searches. *)

Difference(a, b) == Minus(a, b)

BothReadable(a, b, k) == ~Unmapped(a, k) /\ ~Unmapped(b, k)
Differ(a, b, k) == ~BothReadable(a, b, k) \/ mem[At(a, k)] # mem[At(b, k)]
(* The result of a comparison that stops at the offset k. *)
ComparedAt(left, right, k, limit) ==
  IF k = limit THEN Returned(mem, 0)
  ELSE IF ~BothReadable(left, right, k) THEN Broken(mem)
  ELSE Returned(mem, Difference(mem[At(left, k)], mem[At(right, k)]))

Memcmp(left, right, len) ==
  ComparedAt(left, right, FirstOf({k \in Offsets(len) : Differ(left, right, k)}, len), len)

(* compare_guest_c_strings; strcmp and strcoll have no limit. *)
Strncmp(left, right, limit) ==
  LET stops == {k \in Offsets(limit) : Differ(left, right, k) \/ mem[At(left, k)] = 0}
  IN ComparedAt(left, right, FirstOf(stops, limit), limit)
Strcmp(left, right) == Strncmp(left, right, Cardinality(DOMAIN mem) + 1)

Memchr(a, value, len) ==
  LET k == FirstOf({j \in Offsets(len) : Unmapped(a, j) \/ mem[At(a, j)] = value % Byte}, len)
  IN IF k = len THEN Returned(mem, 0) ELSE Ends(mem, At(a, k), ~Unmapped(a, k))

Strlen(a) == Ends(mem, Length(a), Readable(a))

(* The place is counted in the texts, after what was replaced in them. *)
Strstr(hay, needle) ==
  LET h == Text(hay)
      n == Text(needle)
      places == {k \in 0 .. Len(h) - Len(n) : SubSeq(h, k + 1, k + Len(n)) = n}
  IN IF ~TextReadable(hay) \/ ~TextReadable(needle) THEN Broken(mem)
     ELSE Returned(mem, IF places = {} THEN 0 ELSE At(hay, Min(places)))

-----------------------------------------------------------------------------
(* sprintf. *)

(* guest_variadic_arg: two arguments are in registers, the rest is above sp*)
ArgumentAt(j) == At(Sp, 4 * (j - 2))
ArgumentReadable(j) == j < 2 \/ Mapped(ArgumentAt(j), 4)
Argument(j) == IF j < 2 THEN regs[2 + j] ELSE Read(ArgumentAt(j), 4)

(* format_guest_string: "%%" is a sign, "%s" with digits between is the    *)
(* next argument, anything else is as it stands.                           *)
FormatByte(s, b) ==
  LET text == [s EXCEPT !.mode = "text"]
  IN CASE s.mode = "text" /\ b = Percent -> [s EXCEPT !.mode = "percent"]
       [] s.mode = "text" /\ b # Percent -> [s EXCEPT !.out = Append(@, b)]
       [] s.mode = "percent" /\ b = Percent -> [text EXCEPT !.out = Append(@, Percent)]
       [] s.mode # "text" /\ b = DigitByte -> [s EXCEPT !.mode = "spec"]
       [] s.mode # "text" /\ b = LetterS ->
            IF ArgumentReadable(s.used) /\ TextReadable(Argument(s.used))
            THEN [text EXCEPT !.out = @ \o Text(Argument(s.used)), !.used = @ + 1]
            ELSE [text EXCEPT !.ok = FALSE]
       [] OTHER -> [text EXCEPT !.out = @ \o <<Percent, b>>]
Format(fmt) ==
  LET s == FoldLeft(LAMBDA t, b : IF t.ok THEN FormatByte(t, b) ELSE t,
                    [mode |-> "text", out |-> <<>>, used |-> 0, ok |-> TRUE], Text(fmt))
  IN [out |-> IF s.mode = "text" THEN s.out ELSE s.out \o <<Percent, Percent>>, ok |-> s.ok]

Sprintf(dst, fmt) ==
  LET f == Format(fmt)
      s == StoreText(dst, f.out)
  IN IF ~TextReadable(fmt) \/ ~f.ok THEN Broken(mem) ELSE Ends(s.mem, Len(f.out) % M, s.ok)

-----------------------------------------------------------------------------
(* ExtHost::handle, for the functions above. *)

Copying == {"memcpy", "memmove", "memset", "strncpy"}
Texts == {"strcpy", "strcat", "strncat", "sprintf"}
Searching == {"memcmp", "strcmp", "strcoll", "strncmp", "memchr", "strlen", "strstr"}

Copy(name, a, b, c) ==
  CASE name = "memcpy" -> Memcpy(a, b, c)
    [] name = "memmove" -> Memmove(a, b, c)
    [] name = "memset" -> Memset(a, b, c)
    [] name = "strncpy" -> Strncpy(a, b, c)
MakeText(name, a, b, c) ==
  CASE name = "strcpy" -> Strcpy(a, b)
    [] name = "strcat" -> Strcat(a, b)
    [] name = "strncat" -> Strncat(a, b, c)
    [] name = "sprintf" -> Sprintf(a, b)
Search(name, a, b, c) ==
  CASE name = "memcmp" -> Memcmp(a, b, c)
    [] name \in {"strcmp", "strcoll"} -> Strcmp(a, b)
    [] name = "strncmp" -> Strncmp(a, b, c)
    [] name = "memchr" -> Memchr(a, b, c)
    [] name = "strlen" -> Strlen(a)
    [] name = "strstr" -> Strstr(a, b)

Library(name) ==
  LET a == regs[0]
      b == regs[1]
      c == regs[2]
  IN CASE name \in Copying -> Copy(name, a, b, c)
       [] name \in Texts -> MakeText(name, a, b, c)
       [] name \in Searching -> Search(name, a, b, c)
=============================================================================
