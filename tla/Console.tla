------------------------------ MODULE Console ------------------------------
(***************************************************************************)
(* The console of kernel/src/debug.c: the text screen, the message of a    *)
(* trap, and the command line of the debug shell.  The serial port echoes  *)
(* the same characters and is left out.                                    *)
(*                                                                         *)
(* One core prints at a time: print_str masks its own interrupts, nothing  *)
(* keeps another core from the screen.  Several cores may panic at once,   *)
(* and copy their messages byte by byte into the same memory; a handler    *)
(* that panics in the middle of it is another core here.  While one core   *)
(* is in the debug shell, its handlers and the other cores print and panic *)
(* as before; the command line is that of one shell.                       *)
(***************************************************************************)
EXTENDS CLibrary

CONSTANTS
    Cores,
    char_pos_limit,
    line_limit,
    cmd_buf_len,  \* 1024
    TrapSize,     \* 2048, the size of priv_s
    Newline,      \* drawn like any other character, and counted
    Keys,         \* the characters that are typed, Backspace, Return and NUL apart
    Texts,        \* bound: the texts the kernel prints
    TrapTexts,    \* bound: the messages of PANIC
    Numbers,      \* bound: the numbers the kernel prints
    Banner,       \* what the shell prints at its start
    Unknown,      \* what the shell prints for a command
    Below         \* bound: the cells of the stack below cmd_buf

ASSUME ConsoleAssumption ==
    /\ {char_pos_limit, line_limit, TrapSize} \subseteq Nat \ {0}
    /\ cmd_buf_len \in Nat /\ cmd_buf_len > 1
    /\ {Banner, Unknown} \cup Texts \subseteq Seq(Nat)
    /\ TrapTexts \subseteq Seq(Nat \ {0})
    /\ \A t \in TrapTexts : t # << >> /\ Len(t) < TrapSize /\ Last(t) = Newline
    /\ Keys \subseteq Nat \ {0}
    /\ Numbers \subseteq 0 .. 255
    /\ Below \in Nat

VARIABLES
    fbuf,           \* TRUE when the frame buffer is installed
    screen,         \* the drawn cells, the row and the column
    priv_s,         \* the memory of the trap message
    panics,         \* by core: its message, how much of it is copied, and
                    \* whether no other core has copied since it began
    int_num,        \* the text of the number that was printed last
    number,         \* history: that number
    shell,          \* TRUE from the first trap on
    cmd_buf,        \* the command line, what is below it and one cell behind
    cmd_buf_pos,
    typed,          \* history: the characters on the command line
    erased          \* history: a backspace met this line when it was empty

shellVars == <<cmd_buf, cmd_buf_pos, typed, erased>>
textVars == <<priv_s, panics, int_num, number>>
consoleVars == <<fbuf, screen, textVars, shell, shellVars>>

ConsoleInit ==
    /\ fbuf = FALSE
    /\ screen = [drawn |-> {}, line |-> 0, char_pos |-> 0]
    /\ priv_s = [a \in 0 .. TrapSize |-> 0] /\ panics = << >>
    /\ int_num = <<0>> /\ number = 0
    /\ shell = FALSE
    /\ cmd_buf = [a \in -Below .. cmd_buf_len |-> 0]
    /\ cmd_buf_pos = 0 /\ typed = << >> /\ erased = FALSE

-----------------------------------------------------------------------------
(* The screen.                                                             *)

sysdebug_install_lfb ==
    /\ ~fbuf
    /\ fbuf' = TRUE
    /\ UNCHANGED <<screen, textVars, shell, shellVars>>

(* A character is drawn at the column, which goes on around the row.       *)
render_char(s) ==
    [drawn |-> s.drawn \cup {<<s.line, s.char_pos>>},
     line |-> s.line,
     char_pos |-> (s.char_pos + 1) % char_pos_limit]

print_stream(s, text) ==
    LET Drawn[k \in 0 .. Len(text)] == IF k = 0 THEN s ELSE render_char(Drawn[k - 1])
    IN  IF fbuf THEN Drawn[Len(text)] ELSE s

(* Mutant: only a step from the last row to the first clears the screen,   *)
(* and not one that comes with further newlines.                           *)
ClearsAtEnd(row, n) == row + n = line_limit

Clears(row, n) == row + n >= line_limit

(* The text is drawn whole, then every newline in it moves on by a row.    *)
print_str(s, text) ==
    LET n == Cardinality({k \in DOMAIN text : text[k] = Newline})
        p == print_stream(s, text)
    IN  IF ~fbuf \/ n = 0 THEN p ELSE
        [drawn |-> IF Clears(p.line, n) THEN {} ELSE p.drawn,
         line |-> (p.line + n) % line_limit,
         char_pos |-> 0]

PrintStr(text) ==
    /\ screen' = print_str(screen, text)
    /\ UNCHANGED <<fbuf, textVars, shell, shellVars>>

(* The number of an unhandled interrupt, as idt_mainhandler shows it.      *)
PrintNumber(v) ==
    /\ int_num' = itoa(v, 16) /\ number' = v
    /\ screen' = print_str(screen, int_num')
    /\ UNCHANGED <<fbuf, priv_s, panics, shell, shellVars>>

-----------------------------------------------------------------------------
(* PANIC.                                                                  *)

(* Mutant: the loop ends one byte early.                                   *)
CopiedEarly(p) == p.at = Min({TrapSize, Len(p.text) - 1})

Copied(p) == p.at = Min({TrapSize, Len(p.text)})

set_trap_str(c, text) ==
    /\ c \notin DOMAIN panics
    /\ LET begun == [text |-> text, at |-> 0, alone |-> \A d \in DOMAIN panics : Copied(panics[d])]
       IN  panics' = [d \in DOMAIN panics \cup {c} |->
                        IF d = c THEN begun ELSE [panics[d] EXCEPT !.alone = FALSE]]
    /\ UNCHANGED <<fbuf, screen, priv_s, int_num, number, shell, shellVars>>

(* One byte of the strncpy in it.                                          *)
CopyByte(c) ==
    /\ c \in DOMAIN panics /\ ~Copied(panics[c])
    /\ LET p == panics[c] IN priv_s' = [priv_s EXCEPT ![p.at] = p.text[p.at + 1]]
    /\ panics' = [panics EXCEPT ![c].at = @ + 1]
    /\ UNCHANGED <<fbuf, screen, int_num, number, shell, shellVars>>

debug_handle_trap(c) ==
    /\ c \in DOMAIN panics /\ Copied(panics[c])
    /\ screen' = print_stream(print_str(screen, Text(priv_s, 0)), Banner)
    /\ shell' = TRUE
    /\ panics' = Restrict(panics, DOMAIN panics \ {c})
    /\ UNCHANGED <<fbuf, priv_s, int_num, number, shellVars>>

-----------------------------------------------------------------------------
(* debug_shell, which never returns.                                       *)

EmptyLine ==
    /\ cmd_buf' = memset(cmd_buf, 0, 0, cmd_buf_len)
    /\ cmd_buf_pos' = 0
    /\ typed' = << >> /\ erased' = FALSE

(* Mutant: the line is cleared one character late.                         *)
FullLate(pos) == pos = cmd_buf_len + 1

Full(pos) == pos = cmd_buf_len - 1

TypeKey(c) ==
    /\ shell
    /\ IF Full(cmd_buf_pos + 1) THEN EmptyLine
       ELSE /\ cmd_buf' = [cmd_buf EXCEPT ![cmd_buf_pos] = c]
            /\ cmd_buf_pos' = cmd_buf_pos + 1
            /\ typed' = Append(typed, c)
            /\ UNCHANGED erased
    /\ UNCHANGED <<fbuf, screen, textVars, shell>>

(* The index is decremented on an empty line as well.                      *)
TypeBackspace ==
    /\ shell
    /\ cmd_buf_pos > -Below
    /\ cmd_buf' = [cmd_buf EXCEPT ![cmd_buf_pos - 1] = 0]
    /\ cmd_buf_pos' = cmd_buf_pos - 1
    /\ typed' = IF typed = << >> THEN << >> ELSE Front(typed)
    /\ erased' = (erased \/ typed = << >>)
    /\ UNCHANGED <<fbuf, screen, textVars, shell>>

(* No command is ever found.                                               *)
TypeReturn ==
    /\ shell
    /\ screen' = print_stream(screen, Unknown)
    /\ EmptyLine
    /\ UNCHANGED <<fbuf, textVars, shell>>

ConsoleNext ==
    \/ sysdebug_install_lfb
    \/ \E t \in Texts : PrintStr(t)
    \/ \E v \in Numbers : PrintNumber(v)
    \/ \E c \in Cores : \/ \E t \in TrapTexts : set_trap_str(c, t)
                        \/ CopyByte(c)
                        \/ debug_handle_trap(c)
    \/ \E c \in Keys : TypeKey(c)
    \/ TypeBackspace
    \/ TypeReturn

ConsoleSpec == ConsoleInit /\ [][ConsoleNext]_consoleVars

-----------------------------------------------------------------------------
(* Properties.                                                             *)

(* What is printed never lands on what an earlier pass over the screen     *)
(* left: every row below the current one is blank, whatever mix of texts,  *)
(* newlines, messages and shell output came before.                        *)
RowsBelowAreBlank == \A cell \in screen.drawn : cell[1] <= screen.line

(* The buffer holds the characters that were typed and not taken back, and *)
(* its last cell stays the end of a string.  One exception the code has: a *)
(* backspace on an empty line moves the index below the buffer, and from   *)
(* there the line is lost until it is cleared.                             *)
LineIsWhatWasTyped ==
    /\ cmd_buf[cmd_buf_len - 1] = 0
    /\ ~erased => cmd_buf_pos = Len(typed) /\ Text(cmd_buf, 0) = typed

(* The functions on blocks and on strings do what they promise             *)
(* (BlockFunctionsAgree, StringFunctionsAgree), and so does the memset     *)
(* that clears the command line, whatever is in it: it leaves what is      *)
(* below and behind the line as it was.                                    *)
MemoryAgrees ==
    /\ BlockFunctionsAgree
    /\ StringFunctionsAgree
    /\ LET line == 0 .. cmd_buf_len - 1 IN
       memset(cmd_buf, 0, 0, cmd_buf_len) = Fill(cmd_buf, line, 0)

(* The message of a trap ends within its memory, which strncpy does not    *)
(* see to, whatever mix of messages several cores have left there.  What a *)
(* core shows when it panics begins with its own message, unless another   *)
(* core was copying when it began or has begun since: two cores then mix   *)
(* their messages.  An older message may show behind it.                   *)
TrapShowsItsMessage ==
    /\ strlen(priv_s, 0) < TrapSize
    /\ \A c \in DOMAIN panics :
          panics[c].alone /\ Copied(panics[c]) => IsPrefix(panics[c].text, Text(priv_s, 0))

(* The conversions do what they promise (NumberFunctionsAgree), and the    *)
(* number an unhandled interrupt left on the screen is that interrupt's.   *)
NumbersReadBack ==
    /\ NumberFunctionsAgree
    /\ Value(int_num, 16) = number

=============================================================================
