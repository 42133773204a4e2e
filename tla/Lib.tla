-------------------------------- MODULE Lib --------------------------------
(***************************************************************************)
(* The C library routines whose arithmetic is easy to get wrong: memset in *)
(* assembly (kernel/lib/memset.c, and a copy in vlibc/string.c), strings   *)
(* (kernel/lib/string.c, vlibc/string.c), the conversions of vsprintf      *)
(* (kernel/lib/printk.c, and a copy in vlibc/printf.c), division by        *)
(* repeated addition (vlibc/div.c), and the times and dates printed by     *)
(* vlibc/time.c and ls.c.                                                  *)
(*                                                                         *)
(* A C string is memory: a function on 0 .. n whose text ends at the first *)
(* Nul, whatever follows it.  Printed text is a sequence of characters,    *)
(* each given by its distance from `0' in ASCII.                           *)
(***************************************************************************)
EXTENDS Integers, SequencesExt

CONSTANTS
    WordSize,       \* 2^32: unsigned long, on this machine
    PrintSize,      \* MAX_PRINT_SIZE, 256
    Diverges        \* the result of a loop that does not end

ASSUME LibAssumption ==
    /\ WordSize \in Nat \ {0} /\ WordSize % 2 = 0
    /\ PrintSize \in Nat \ {0}
    /\ Diverges \notin Nat

----------------------------------------------------------------------------
(* memset: ip, the store pointer; r2, the count; the bytes stored so far. *)
Store(m, n) ==
    [m EXCEPT !.ip = @ + n, !.bytes = @ \cup (m.ip .. (m.ip + n - 1))]

(* Mutation of StoreBlocks: a last block of 64 is not stored. *)
RECURSIVE StoreBlocksLess(_)
StoreBlocksLess(m) ==
    LET left == [m EXCEPT !.r2 = @ - 64]
        stored == IF left.r2 > 0 THEN Store(left, 64) ELSE left
    IN  IF left.r2 > 0 THEN StoreBlocksLess(stored) ELSE stored

(* asm_memset_loop: 64 bytes a turn, while more than 0 are left. *)
RECURSIVE StoreBlocks(_)
StoreBlocks(m) ==
    LET left == [m EXCEPT !.r2 = @ - 64]
        stored == IF left.r2 >= 0 THEN Store(left, 64) ELSE left
    IN  IF left.r2 > 0 THEN StoreBlocks(stored) ELSE stored

(* tst r2, #n: the bit of a count that may be negative. *)
StoreIfBit(m, n) == IF (m.r2 \div n) % 2 = 1 THEN Store(m, n) ELSE m

(* The bytes up to the next word boundary: strltb, strleb, strb. *)
LeadingBytes(address) == (4 - (address % 4)) % 4

(* memset: the addresses it stores to. *)
memset(address, n) ==
    LET entry == [ip |-> address, r2 |-> n, bytes |-> {}]
        lead == LeadingBytes(address)
        aligned == [Store(entry, lead) EXCEPT !.r2 = n - lead]
        blocks == StoreBlocks(aligned)
    IN  CASE lead # 0 /\ n < 4 -> FoldLeft(StoreIfBit, [entry EXCEPT !.r2 = n - 4], <<2, 1>>).bytes
          [] ~ (lead # 0 /\ n < 4) /\ blocks.r2 = 0 -> blocks.bytes
          [] OTHER -> FoldLeft(StoreIfBit, blocks, <<32, 16, 8, 4, 2, 1>>).bytes

(* The copy of memset in vlibc. *)
vlibc_memset(address, n) == memset(address, n)

----------------------------------------------------------------------------
Nul == 0

(* strlen, in the kernel and in vlibc. *)
strlen(s) == Min({i \in DOMAIN s : s[i] = Nul})
vlibc_strlen(s) == strlen(s)

(* The result of a comparison at the first index of stops: 0 at the end n. *)
ComparedAt(s1, s2, n, stops) ==
    LET i == Min(stops \cup {n}) IN IF i = n THEN 0 ELSE s1[i] - s2[i]

(* Mutation of strncmp: the end of the strings is not seen. *)
StrncmpPastNul(s1, s2, n) == ComparedAt(s1, s2, n, {i \in 0 .. (n - 1) : s1[i] # s2[i]})

(* strncmp of the kernel: stops at a difference, at a Nul or after n. *)
strncmp(s1, s2, n) ==
    ComparedAt(s1, s2, n, {i \in 0 .. (n - 1) : s1[i] # s2[i] \/ s1[i] = Nul})

(* memcmp, and the strncmp of vlibc: neither stops at a Nul. *)
memcmp(s1, s2, n) == ComparedAt(s1, s2, n, {i \in 0 .. (n - 1) : s1[i] # s2[i]})
vlibc_strncmp(s1, s2, n) == memcmp(s1, s2, n)

(* strncpy: the text of src, then Nuls up to n. *)
strncpy(dest, src, n) ==
    [i \in DOMAIN dest |-> CASE i < n /\ i <= strlen(src) -> src[i]
                             [] i < n /\ i > strlen(src) -> Nul
                             [] OTHER -> dest[i]]

(* strlcpy, for n > 0: at most n-1 characters and a Nul. *)
strlcpy(dest, src, n) ==
    LET end == Min({strlen(src), n - 1})
    IN  [i \in DOMAIN dest |-> CASE i < end -> src[i] [] i = end -> Nul [] OTHER -> dest[i]]

(* strncat: at most n characters of src after the text of dest, and a Nul. *)
strncat(dest, src, n) ==
    LET from == strlen(dest)
        end == from + Min({strlen(src), n})
    IN  [i \in DOMAIN dest |-> CASE i < from \/ i > end -> dest[i]
                                 [] i >= from /\ i < end -> src[i - from]
                                 [] i = end -> Nul]

----------------------------------------------------------------------------
Space == -16
Minus == -3
LetterA == 49

DigitChar(d) == IF d < 10 THEN d ELSE d - 10 + LetterA

(* The do-while loops that fill int_buffer from its end. *)
RECURSIVE Digits(_, _)
Digits(x, base) ==
    (IF x \div base = 0 THEN <<>> ELSE Digits(x \div base, base)) \o <<DigitChar(x % base)>>

(* pad_len-printed_size characters of padding, if that is positive. *)
Padding(f, printed) ==
    [i \in 1 .. Max({f.width - printed, 0}) |-> IF f.zero THEN 0 ELSE Space]

(* The sign of %d: the top bit of the word. *)
Negative(x) == x >= WordSize \div 2

(* Mutation of Magnitude: ~x without the x++. *)
MagnitudeInverted(x) == IF Negative(x) THEN WordSize - 1 - x ELSE x

(* x=~x; x++ *)
Magnitude(x) == IF Negative(x) THEN (WordSize - x) % WordSize ELSE x

(* %d and %i: the sign, then the padding, then the digits. *)
DecimalParts(f, x) ==
    LET sign == IF Negative(x) THEN <<Minus>> ELSE <<>>
        digits == Digits(Magnitude(x), 10)
    IN  <<sign, Padding(f, Len(sign) + Len(digits)), digits>>

(* %x and %p are padded; %llx is not. *)
HexParts(f, x) == <<Padding(f, Len(Digits(x, 16))), Digits(x, 16)>>
LongParts(x) == <<Digits(x, 16)>>

(* What each loop stores for an item of a format, [kind, zero, width, arg]. *)
ItemParts(f) ==
    CASE f.kind = "d" -> DecimalParts(f, f.arg)
      [] f.kind = "x" -> HexParts(f, f.arg)
      [] f.kind = "llx" -> LongParts(f.arg)
      [] f.kind = "s" -> <<f.arg>>
      [] f.kind \in {"c", "literal"} -> <<<<f.arg>>>>

(* A loop that stores text ends when the buffer is full to the byte, and   *)
(* only then: one that begins with a full buffer goes on past its end.     *)
Emit(buffer, text) ==
    LET room == PrintSize - Len(buffer)
    IN  buffer \o (IF room \in 1 .. Len(text) THEN SubSeq(text, 1, room) ELSE text)

(* vsprintf: the items in turn, up to the one that leaves room for a Nul. *)
vsprintf(format) ==
    FoldLeft(LAMBDA buffer, f : IF Len(buffer) = PrintSize - 1 THEN buffer
                                ELSE FoldLeft(Emit, buffer, ItemParts(f)), <<>>, format)

(* The copy of vsprintf in vlibc. *)
vlibc_vsprintf(format) == vsprintf(format)

(* atoi: whatever the character, its distance from `0'. *)
atoi(text) == FoldLeft(LAMBDA result, c : result * 10 + c, 0, text)

(* ilog10 of ls *)
ilog10(value) == Max({0} \cup {k \in 1 .. 9 : value >= 10 ^ k})

----------------------------------------------------------------------------
(* Mutation of UidivLoop: the last multiple does not count. *)
RECURSIVE UidivLoopBelow(_, _, _, _)
UidivLoopBelow(dividend, divisor, q, new_d) ==
    IF new_d >= dividend THEN q
    ELSE UidivLoopBelow(dividend, divisor, q + 1, (new_d + divisor) % WordSize)

(* The loop of __aeabi_uidiv.  new_d wraps around; after WordSize turns it *)
(* has had each of its values, and never ends.                             *)
RECURSIVE UidivLoop(_, _, _, _)
UidivLoop(dividend, divisor, q, new_d) ==
    CASE new_d > dividend -> q
      [] new_d <= dividend /\ q > WordSize -> Diverges
      [] OTHER -> UidivLoop(dividend, divisor, q + 1, (new_d + divisor) % WordSize)

uidiv(dividend, divisor) == IF divisor = 0 THEN 0 ELSE UidivLoop(dividend, divisor, 0, divisor)

(* __aeabi_idivmod, for operands that are not negative *)
idivmod(dividend, divisor) == dividend - uidiv(dividend, divisor) * divisor

----------------------------------------------------------------------------
(* time_pretty takes a unit out of the time only if more than one is in it. *)
Over(time, unit) == time > unit

(* How many of the unit time_pretty prints, and the time that is left. *)
Units(time, unit) == IF Over(time, unit) THEN time \div unit ELSE 0

time_pretty(time) ==
    LET days == Units(time, 86400)
        in_day == time - days * 86400
        hours == Units(in_day, 3600)
        in_hour == in_day - hours * 3600
        minutes == Units(in_hour, 60)
    IN  <<days, hours, minutes, in_hour - minutes * 60>>

(* print_date *)
LeapYear(year) == year % 4 = 0 /\ (year % 100 # 0 \/ year % 400 = 0)

SecondsInYear(year) == (IF LeapYear(year) THEN 366 ELSE 365) * 86400

MonthDays == <<31, 28, 31, 30, 31, 30, 31, 31, 30, 31, 30, 31>>

(* Mutation of DaysInMonth: February has 28 days. *)
DaysInMonthPlain(year, month) == MonthDays[month + 1]

DaysInMonth(year, month) ==
    MonthDays[month + 1] + (IF month = 1 /\ LeapYear(year) THEN 1 ELSE 0)

(* <<year, seconds left>> *)
RECURSIVE TakeYears(_, _)
TakeYears(s, year) ==
    IF s < SecondsInYear(year) THEN <<year, s>> ELSE TakeYears(s - SecondsInYear(year), year + 1)

(* <<month, seconds left>> *)
RECURSIVE TakeMonths(_, _, _)
TakeMonths(s, year, month) ==
    LET seconds == DaysInMonth(year, month) * 86400
    IN  IF s < seconds THEN <<month, s>> ELSE TakeMonths(s - seconds, year, month + 1)

(* The loops that subtract days, hours and minutes are divisions. *)
print_date(s) ==
    LET y == TakeYears(s, 1970)
        m == TakeMonths(y[2], y[1], 0)
    IN  [year |-> y[1], month |-> m[1], day |-> m[2] \div 86400 + 1,
         hour |-> (m[2] % 86400) \div 3600, min |-> (m[2] % 3600) \div 60,
         second |-> m[2] % 60]
=============================================================================
