-------------------------------- MODULE Args --------------------------------
(***************************************************************************)
(* The arguments of a program on their way: create_argv of the shell cuts  *)
(* a line into words in place (userspace/shell.c), execve copies them to   *)
(* the top of the new stack, pointers first (kernel/processes/exec.c).     *)
(*                                                                         *)
(* A line is memory, a function on 0 .. n, that ends at the first Nul.  An *)
(* argument is given by the place of its first character and its length.   *)
(***************************************************************************)
EXTENDS Lib

CONSTANTS
    StackSize,      \* DEFAULT_USER_STACK_SIZE
    PointerSize,    \* sizeof(char *), 4
    NullLength      \* strlen(NULL): the bytes before a 0 in the exception vectors

ASSUME ArgsAssumption ==
    /\ {StackSize, PointerSize} \subseteq Nat \ {0} /\ NullLength \in Nat
    /\ StackSize % 8 = 0

Blank == 1
Ampersand == 2

----------------------------------------------------------------------------
(* "Break at first space" *)
WordEnd(line, ptr) == Min({i \in DOMAIN line : i >= ptr /\ line[i] \in {Blank, Nul}})

(* create_argv: arguments, and whether the line ends in the background.    *)
(* No count is too many: it is not compared with MAX_ARGUMENTS.            *)
RECURSIVE CreateArgv(_, _, _)
CreateArgv(line, ptr, arguments) ==
    LET end == WordEnd(line, ptr)
        more == Append(arguments, [first |-> ptr, length |-> end - ptr])
    IN  CASE line[ptr] = Ampersand -> [arguments |-> arguments, background |-> TRUE]
          [] line[ptr] # Ampersand /\ line[end] = Nul -> [arguments |-> more, background |-> FALSE]
          [] OTHER -> CreateArgv(line, end + 1, more)

create_argv(line) == CreateArgv(line, 0, <<>>)

----------------------------------------------------------------------------
(* Mutation of RoundedUp: to a boundary, and no more. *)
RoundedDown(n) == (n \div 8) * 8

(* "Align to 8-byte boundary" *)
RoundedUp(n) == ((n \div 8) + 1) * 8

(* argv_length: pointers, the strings before the last one, as far as they  *)
(* are apart, and strlen(argv[argc]), which is strlen(NULL), for the last. *)
ArgvLength(argv) ==
    LET argc == Len(argv)
    IN  RoundedUp((argc + 1) * PointerSize + (argv[argc].first - argv[1].first) + NullLength + 1)

(* Where argv[i] is copied to, from stack_argv[argc+2] on; for argc + 1,   *)
(* the place after the last string.                                        *)
StringAt(argv, i) ==
    LET size(k) == argv[k].length + 1
    IN  StackSize - ArgvLength(argv) + (Len(argv) + 2) * PointerSize
          + MapThenSumSet(size, 1 .. (i - 1))

(* Where the stack of the program begins, and its argv. *)
ArgvLocation(argv) == StackSize - ArgvLength(argv)
=============================================================================
