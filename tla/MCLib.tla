------------------------------- MODULE MCLib -------------------------------
(***************************************************************************)
(* The sequential algorithms against what they are for, argument by        *)
(* argument: the library routines, genromfs, and the walk through the      *)
(* device tree.  The state is the number of a case, from which each        *)
(* property takes its arguments, and every case is reached.                *)
(***************************************************************************)
EXTENDS Args, MCTrees, MCDeviceTrees

CONSTANTS
    Cases,      \* bound: cases
    MaxFill,    \* bound: bytes given to memset
    MaxText,    \* bound: bytes of memory behind a string
    MaxWidth,   \* bound: field widths
    Trees       \* bound: cases for which there are trees

VARIABLE case

Init == case = 0

NextCase == \E k \in 1 .. 2 : case' = (2 * case + k) % Cases

Spec == Init /\ [][NextCase]_case

----------------------------------------------------------------------------
Word == case % WordSize

Width == (case \div WordSize) % (MaxWidth + 1)

(* Memory behind a string: any characters of {Nul, 1, 2}, and a Nul. *)
Text(k) == [i \in 0 .. MaxText |-> IF i = MaxText THEN Nul ELSE (k \div 3 ^ i) % 3]

Texts == 3 ^ MaxText
S == Text(case % Texts)
T == Text((case \div Texts) % Texts)

(* What a program takes memory to hold: the characters before the Nul. *)
Meaning(s) == [i \in 1 .. strlen(s) |-> s[i - 1]]

(* A format with most kinds of items. *)
Field(kind, arg) == [kind |-> kind, zero |-> FALSE, width |-> 0, arg |-> arg]

(* genromfs with the default alignment, and with another. *)
Rom(align) ==
    INSTANCE Genromfs WITH Length <- TreeLength, Chunk <- 4, IntSize <- 4, WordSize <- 1024,
                           Align <- align, BlockSize <- 16

(* A line of the shell: any characters of {Nul, Blank, Ampersand, 3}. *)
LineLength == 6
CommandLine == [i \in 0 .. LineLength |-> IF i = LineLength THEN Nul ELSE (case \div 4 ^ i) % 4]

----------------------------------------------------------------------------
(* memset stores to the n bytes it is given, to all of them and to no      *)
(* other, from any alignment: the head that is not aligned, the blocks of  *)
(* 64 and the tail by the bits of a count that is negative by then, always *)
(* add up.                                                                 *)
MemsetExact ==
    \A address \in 4 .. 7 :
        LET n == case % (MaxFill + 1)
        IN  /\ memset(address, n) = address .. (address + n - 1)
            /\ vlibc_memset(address, n) = address .. (address + n - 1)

(* Lexicographic order of the first n characters. *)
Less(a, b, n) ==
    \E k \in 0 .. (n - 1) :
        /\ k < Len(b) /\ k <= Len(a) /\ SubSeq(a, 1, k) = SubSeq(b, 1, k)
        /\ k < Len(a) => a[k + 1] < b[k + 1]

(* Strings mean what precedes their Nul, and the routines see no more of   *)
(* them, whatever is in the memory behind: strncmp orders two strings by   *)
(* their first n characters, strlcpy leaves a string within n bytes,       *)
(* strncpy one that is cut off or filled up, strncat one that begins with  *)
(* the old text.  The strncmp of vlibc does look behind the Nul, but not   *)
(* when it is asked for no more than the second string and its Nul, as the *)
(* programs do: for a prefix, or with n = 1 whether a string is empty.     *)
StringsExact ==
    LET s == Meaning(S)
        t == Meaning(T)
        first(text, n) == SubSeq(text, 1, Min({n, Len(text)}))
    IN  \A n \in 0 .. MaxText :
        /\ (strncmp(S, T, n) < 0) = Less(s, t, n)
        /\ (strncmp(S, T, n) = 0) = (first(s, n) = first(t, n))
        /\ n <= Len(t) + 1 => (vlibc_strncmp(S, T, n) = 0) = (first(s, n) = first(t, n))
        /\ n > 0 => Meaning(strlcpy(S, T, n)) = first(t, n - 1)
        /\ n > Len(t) => Meaning(strncpy(S, T, n)) = t
        /\ \A i \in DOMAIN S : i >= n => strncpy(S, T, n)[i] = S[i]
        /\ Len(s) + n <= MaxText => Meaning(strncat(S, T, n)) = s \o first(t, n)

(* vsprintf loses nothing of a text that fits the buffer with its Nul: it  *)
(* is the texts of the items, in their order.                              *)
PrintsAll ==
    LET format == <<Field("literal", LetterA), Field("d", Word), Field("s", Meaning(S)),
                    Field("llx", Word), Field("c", 0)>>
        whole == FlattenSeq([i \in DOMAIN format |-> FlattenSeq(ItemParts(format[i]))])
    IN  Len(whole) < PrintSize =>
            vsprintf(format) = whole /\ vlibc_vsprintf(format) = whole

(* Numbers survive printing: %d of any word, with any padding, fills its   *)
(* field, and atoi reads back the number if it is not negative, the number *)
(* without its sign otherwise, leading zeros included.  Of the most        *)
(* negative number that is the same word, although an int holds it only    *)
(* with the sign.  Spaces come after the sign.  ilog10 is the number of    *)
(* digits %d prints, less one, on which the columns of ls depend.  A whole *)
(* format is printed if it fits.                                           *)
NumbersReadBack ==
    /\ PrintsAll
    /\ \A zero \in BOOLEAN :
        LET text == FlattenSeq(DecimalParts([zero |-> zero, width |-> Width], Word))
            body == IF Negative(Word) THEN Tail(text) ELSE text
            hex == FlattenSeq(HexParts([zero |-> zero, width |-> Width], Word))
            value == IF Negative(Word) THEN WordSize - Word ELSE Word
        IN  /\ Len(text) >= Width /\ Len(hex) >= Width
            /\ atoi(SelectSeq(body, LAMBDA c : c # Space)) = value
            /\ Negative(Word) => text[1] = Minus
            /\ Width = 0 => Len(body) = ilog10(value) + 1
            /\ {i \in DOMAIN body : body[i] = Space} \subseteq 1 .. (Width - 1)
            /\ zero => Space \notin ToSet(text) \cup ToSet(hex)

(* "calculate q=(dividend/divisor)" (div.c:9): so it does, and the         *)
(* remainder with it, unless the multiple after the quotient is more than  *)
(* a word, where new_d wraps around below the dividend and the count goes  *)
(* on.                                                                     *)
DivisionExact ==
    \A divisor \in IF case = Word THEN 1 .. (WordSize - 1) ELSE {} :
        (Word + divisor - (Word % divisor) < WordSize) =>
            /\ uidiv(Word, divisor) = Word \div divisor
            /\ idivmod(Word, divisor) = Word % divisor

(* Days from 1970 to the first day of a month, by counting leap years. *)
DaysBefore(year, month) ==
    LET leaps(y) == (y \div 4) - (y \div 100) + (y \div 400)
        march == IF month >= 2 /\ leaps(year) # leaps(year - 1) THEN 1 ELSE 0
    IN  365 * (year - 1970) + leaps(year - 1) - leaps(1969) + march
          + FoldLeft(LAMBDA sum, days : sum + days, 0, SubSeq(MonthDays, 1, month))

(* A date stands for its second: around the ends of the months of the      *)
(* years 1970 to 2037, leap years and the year that is not one included,   *)
(* print_date gives back the date from which the seconds were counted, and *)
(* time_pretty gives days, hours, minutes and seconds that add up.         *)
DatesExact ==
    LET year == 1970 + ((case \div 12) % 68)
        month == case % 12
        first == DaysBefore(year, month) * 86400
        date(s) == print_date(s)
    IN  /\ date(first) = [year |-> year, month |-> month, day |-> 1,
                          hour |-> 0, min |-> 0, second |-> 0]
        /\ first > 0 => LET last == date(first - 1) IN
              /\ <<last.hour, last.min, last.second>> = <<23, 59, 59>>
              /\ last.month = (month - 1) % 12
              /\ last.day = DaysBefore(year, month) - DaysBefore(last.year, last.month)
        /\ LET t == time_pretty(first + 60 * case)
           IN  /\ t[1] * 86400 + t[2] * 3600 + t[3] * 60 + t[4] = first + 60 * case
               /\ t[2] <= 24 /\ t[3] <= 60 /\ t[4] <= 60

(* The words of a command line arrive: joined by blanks, the arguments are *)
(* the line again, up to a word that begins with &; execve finds room for  *)
(* them between an aligned stack pointer and the end of the stack.  The    *)
(* room is counted with strlen(NULL) for the length of the last word, and  *)
(* with a pointer too few: a last word that is longer than what happens to *)
(* be at address 0, less one pointer, would not fit.                       *)
ArgumentsArrive ==
    LET made == create_argv(CommandLine)
        argv == made.arguments
        argc == Len(argv)
        text(a) == [i \in 1 .. a.length |-> CommandLine[a.first + i - 1]]
        joined == FlattenSeq([k \in DOMAIN argv |-> text(argv[k]) \o <<Blank>>])
        line == Meaning(CommandLine)
    IN  /\ IF made.background
           THEN IsPrefix(joined \o <<Ampersand>>, line)
           ELSE joined = line \o <<Blank>>
        /\ \A k \in DOMAIN argv : {Blank, Nul} \cap ToSet(text(argv[k])) = {}
        /\ argc > 0 =>
            /\ ArgvLocation(argv) % 8 = 0
            /\ ArgvLocation(argv) + (argc + 1) * PointerSize <= StringAt(argv, 1)
            /\ argv[argc].length + PointerSize <= NullLength + 1 => StringAt(argv, argc + 1) <= StackSize

(* The two passes of genromfs agree to the byte, although files change in  *)
(* between, and the image holds the source tree: the kernel finds in it    *)
(* every entry that was not skipped, hard links and `..' lead to the right *)
(* headers, and everything romfs.c takes for granted is true of it.        *)
PassesAgree == case < Trees => \A align \in {4, 16} : Rom(align)!PassesAgree(Tree(case))
ImageHoldsTree == case < Trees => \A align \in {4, 16} : Rom(align)!ImageHoldsTree(Tree(case))
(* The boot loader's tree is read as it was meant, whatever the lengths of *)
(* names and values and wherever there are tokens to be skipped: a lookup  *)
(* finds the first property of that name in a node of exactly that name,   *)
(* and the machine has the revision and the memory the tree says, in the   *)
(* old form and in the two new ones.  A tree that says nothing of memory,  *)
(* or too little, gives 256MB, although no lookup that fails is noticed:   *)
(* what is read instead, the end of the table in front of the tokens and   *)
(* the first tokens, is never taken for a size.                            *)
DeviceTreeRead ==
    \A made \in IF case < Trees THEN {DeviceTreeOf(case)} ELSE {} :
    \A dt \in {devicetree_setup(Flattened(made.root))}, entries \in {EntriesOf(made.root)} :
        /\ \A node \in {AnyNode, Name.memory, Name.memory_0, Name.system, made.other},
             prop \in ToSet(PropertyNames) :
            LET found == SelectSeq(entries, LAMBDA e : node \in {AnyNode, e.node} /\ e.name = prop)
            IN  IF found = <<>>
                THEN devicetree_find_node_prop(dt, node, prop) = -ENOENT
                ELSE devicetree_find_string(dt, node, prop, <<>>) = found[1].value
        /\ hardware_revision(dt) = made.revision
        /\ hardware_get_memory(dt) = made.memory
=============================================================================
