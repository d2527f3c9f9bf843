---------------------------- MODULE CommandLine ----------------------------
(* windows_net.rs escape_windows_arg and elevate_and_relaunch: the          *)
(* arguments of a process are written into one line, which the elevated     *)
(* copy of the program takes apart again.  Backslashes have a meaning only  *)
(* before a quotation mark, so the line is read as runs of backslashes with *)
(* the character after each; it is read here as it is written, which makes  *)
(* no difference to a reader that goes from left to right.                  *)
EXTENDS Integers, Sequences

CONSTANT Letter     \* all other characters

Blank == {"space", "tab"}
Char == Letter \cup Blank \cup {"newline", "return", "quote", "backslash"}
Argument == Seq(Char)

ASSUME CommandLineAssumption ==
    Letter \cap (Blank \cup {"newline", "return", "quote", "backslash", "end"}) = {}

VARIABLES
    args,       \* env::args().skip(1) of the process that asks for elevation
    written,    \* how many of them are in the line
    place,      \* characters of the next one that escape_windows_arg has seen
    style,      \* "none" between two arguments, "plain" or "quoted" inside one
    held,       \* backslashes seen and not yet written
    line        \* how far the new process has understood the line

lvars == <<args, written, place, style, held, line>>

NothingRead == [done |-> <<>>, current |-> <<>>, started |-> FALSE, quoted |-> FALSE]

\* The next process has a line to read.
LineInit(list) ==
    /\ args = list
    /\ written = 0 /\ place = 0 /\ style = "none" /\ held = 0
    /\ line = NothingRead
-----------------------------------------------------------------------------
Backslashes(n) == [j \in 1 .. n |-> "backslash"]

(* The program's start: n backslashes and then c, or the end of the line.   *)
(* Before a quotation mark every two backslashes are one and an odd one     *)
(* makes the mark a character; elsewhere they are themselves.               *)
Read(l, n, c) ==
    LET kept == l.current \o Backslashes(IF c = "quote" THEN n \div 2 ELSE n)
        within == l.started \/ n > 0
    IN IF c = "quote" /\ n % 2 = 0
       THEN [l EXCEPT !.current = kept, !.started = TRUE, !.quoted = ~l.quoted]
       ELSE IF c = "end" \/ (c \in Blank /\ ~l.quoted)
            THEN [done |-> IF within THEN Append(l.done, kept) ELSE l.done,
                  current |-> <<>>, started |-> FALSE, quoted |-> FALSE]
            ELSE [l EXCEPT !.current = Append(kept, c), !.started = TRUE]

\* What has to go between quotation marks, the empty argument among it.
Quoted(a) ==
    a = <<>> \/ \E j \in 1 .. Len(a) : a[j] \in Blank \cup {"newline", "return", "quote"}

Current == args[written + 1]

Open ==
    /\ style = "none" /\ written < Len(args)
    /\ IF Quoted(Current)
       THEN style' = "quoted" /\ line' = Read(line, 0, "quote")
       ELSE style' = "plain" /\ UNCHANGED line
    /\ UNCHANGED <<args, written, place, held>>

\* Fault: the backslashes before a quotation mark are not doubled.
BeforeMarkFault(n) == n + 1

\* The run that goes before a quotation mark which is a character.
BeforeMark(n) == 2 * n + 1

\* The loop over the characters; an argument without anything special goes in as it is.
Put ==
    /\ style # "none" /\ place < Len(Current)
    /\ LET c == Current[place + 1] IN
       IF c = "backslash"
       THEN held' = held + 1 /\ UNCHANGED line
       ELSE /\ line' = Read(line, IF c = "quote" THEN BeforeMark(held) ELSE held, c)
            /\ held' = 0
    /\ place' = place + 1
    /\ UNCHANGED <<args, written, style>>

\* join puts a space between two arguments.
Separator == IF written + 1 = Len(args) THEN "end" ELSE "space"

Close ==
    /\ style # "none" /\ place = Len(Current)
    /\ line' = IF style = "quoted" THEN Read(Read(line, 2 * held, "quote"), 0, Separator)
               ELSE Read(line, held, Separator)
    /\ written' = written + 1
    /\ place' = 0 /\ style' = "none" /\ held' = 0
    /\ UNCHANGED args

LineStep == Open \/ Put \/ Close

\* Every argument is in the line.
Complete == style = "none" /\ written = Len(args)
-----------------------------------------------------------------------------
LInit == \E list \in Seq(Argument) : LineInit(list)

LSpec == LInit /\ [][LineStep]_lvars

(* escape_windows_arg is the inverse of CommandLineToArgvW, as its comment  *)
(* says (windows_net.rs 217): the elevated copy gets the arguments the user *)
(* gave, whatever backslashes, spaces and quotation marks are in them.      *)
RelaunchSameArgs == Complete => line.done = args
=============================================================================
