------------------------------- MODULE Terminal -------------------------------
(***************************************************************************)
(* The terminals of task_tty (tty.cc): the line that is typed, what the    *)
(* commands do, and print, in the steps that read the cursor, test or move *)
(* it, or write a cell, with the write system call of another process      *)
(* between any two of them.  (A newline is tested and moved to in one, and *)
(* the cursor incremented in one.)  A write itself is one step: the kernel *)
(* returns to nobody else in its middle.                                   *)
(* Addresses are in cells of the screen, of two bytes each.                *)
(***************************************************************************)
EXTENDS Integers, Sequences, SequencesExt

CONSTANTS
    NR_CONSOLE, SCREEN_WIDTH,
    ConsoleCells,      \* V_MEM_SIZE / NR_CONSOLE, in cells
    disp_pos,          \* where the messages of the kernel end
    TTY_IN_BYTES,
    Char,              \* the characters, Enter and Backspace among them
    Lines,             \* what the users type, up to Enter
    Texts,             \* what processes write
    Directories,       \* what a directory can be: one or two blocks of entries
    MaxLines, MaxWrites   \* bounds: lines of all users, writes

digit     == <<"0", "1", "2">>
FirstByte == "?"    \* of an inode number, up to its first zero byte
NUL       == "NUL"

Entry == [name : Seq(Char \ {FirstByte}), inode : Nat, file_type : {"dir", "file"}, last : BOOLEAN]

ASSUME SizesAssumption ==
    /\ NR_CONSOLE \in 1 .. Len(digit) /\ SCREEN_WIDTH \in Nat \ {0}
    /\ ConsoleCells \in Nat /\ ConsoleCells > SCREEN_WIDTH
    /\ disp_pos \in 0 .. ConsoleCells - 1
    /\ TTY_IN_BYTES \in Nat \ {0}

\* processes do not write Backspaces
ASSUME TextAssumption ==
    /\ {" ", "/", ">", "0", "1", "2", "r", "o", "t", "\n", "BS", NUL, FirstByte} \subseteq Char
    /\ "show" \notin Char
    /\ Lines \subseteq Seq(Char) /\ Texts \subseteq Seq(Char \ {"BS"})

\* the first block of a directory has entries, . and .. at least
ASSUME DirectoryAssumption ==
    /\ Directories \subseteq Seq(Seq(Entry))
    /\ \A d \in Directories : Len(d) \in {1, 2} /\ d[1] # <<>>

Tty == 0 .. NR_CONSOLE - 1

VARIABLES
    command, curr, prefix,        \* of each TTY
    dictionary_buffer,            \* its two blocks
    v_mem_limit, cursor,          \* its console
    current_console, video_addr,
    video,                        \* the cells of the video memory
    at,        \* what task_tty does: "init", "rest" or a place in print
    index,     \* the terminal it does it for
    out,       \* the characters it has yet to print
    p_vmem,
    \* for the properties
    typed,     \* the keys of the line so far
    text,      \* what was given to print, by anyone
    dir,       \* the directory that was read last
    longest,   \* how many blocks the longest directory had
    torn,      \* a write came into the middle of a print
    lines, writes

lineVars    == <<command, curr, typed>>
dirVars     == <<prefix, dictionary_buffer, dir, longest>>
consoleVars == <<v_mem_limit, cursor, video, text>>
printVars   == <<at, index, out, p_vmem>>
showVars    == <<current_console, video_addr>>
vars == <<lineVars, dirVars, consoleVars, printVars, showVars, torn, lines, writes>>

v_mem_addr(t) == t * ConsoleCells
Region(t)     == v_mem_addr(t) .. v_mem_addr(t + 1) - 1

Cells   == -1 .. NR_CONSOLE * ConsoleCells + SCREEN_WIDTH
Command == -TTY_IN_BYTES .. TTY_IN_BYTES - 1

\* the zeros of the kernel's data
Init ==
    /\ command = [t \in Tty |-> [i \in Command |-> NUL]] /\ curr = [t \in Tty |-> 0]
    /\ prefix = [t \in Tty |-> <<>>]
    /\ dictionary_buffer = [t \in Tty |-> <<<<>>, <<>>>>]
    /\ v_mem_limit = [t \in Tty |-> 0] /\ cursor = [t \in Tty |-> 0]
    /\ current_console = 0 /\ video_addr = 0
    /\ video = [c \in Cells |-> " "]
    /\ at = "init" /\ index = 0 /\ out = <<>> /\ p_vmem = 0
    /\ typed = [t \in Tty |-> <<>>] /\ text = [t \in Tty |-> <<>>]
    /\ dir = [t \in Tty |-> <<>>] /\ longest = [t \in Tty |-> 0]
    /\ torn = FALSE /\ lines = 0 /\ writes = 0

-----------------------------------------------------------------------------
(* print: its tests, and what its three cases do to cursor                 *)

\* a terminal that is not initialised has a limit of 0, and 0 - 1 is the
\* greatest address
Room_any(t, c)  == TRUE
Room(t, c)      == v_mem_limit[t] = 0 \/ c < v_mem_addr(t) + v_mem_limit[t]
LineRoom(t, c)  == v_mem_limit[t] = 0 \/ c < v_mem_addr(t) + v_mem_limit[t] - SCREEN_WIDTH
next_line_same(t, c) == v_mem_addr(t) + SCREEN_WIDTH * ((c - v_mem_addr(t)) \div SCREEN_WIDTH)
next_line(t, c) == v_mem_addr(t) + SCREEN_WIDTH * ((c - v_mem_addr(t)) \div SCREEN_WIDTH + 1)
Prompt(t)       == prefix[t] \o <<">">>

\* text is what the terminal has been given to print; a newline brings its
\* prompt
Given(t, c) == IF c = "\n" THEN <<c>> \o Prompt(t) ELSE <<c>>

\* the prompt of a newline is being printed; print has begun with a character
InPrompt == \E i \in DOMAIN out : out[i] = "show"
InPrint  == InPrompt \/ at \in {"test", "cells", "erase", "move"}

\* print as one step, on a screen [cursor, video, text]
Put(t, s, c) ==
    IF Room(t, s.cursor)
    THEN [cursor |-> s.cursor + 1, video |-> [s.video EXCEPT ![s.cursor] = c], text |-> s.text]
    ELSE s

PutAll(t, s, cs) == FoldLeft(LAMBDA r, c : Put(t, r, c), s, cs)

Printed(t, s, c) ==
    LET given == [s EXCEPT !.text = Append(@, Given(t, c))] IN
    IF c # "\n" THEN Put(t, given, c)
    ELSE IF LineRoom(t, s.cursor)
         THEN PutAll(t, [given EXCEPT !.cursor = next_line(t, @)], Prompt(t))
         ELSE given

\* the write system call: all processes have terminal 0
PrintedAll(s, w) == FoldLeft(LAMBDA r, c : Printed(0, r, c), s, w)

write == \E w \in Texts :
    LET s == PrintedAll([cursor |-> cursor[0], video |-> video, text |-> text[0]], w) IN
    /\ writes < MaxWrites
    /\ writes' = writes + 1
    /\ cursor' = [cursor EXCEPT ![0] = s.cursor]
    /\ video' = s.video
    /\ text' = [text EXCEPT ![0] = s.text]
    /\ video_addr' = v_mem_addr(0)
    /\ torn' = (torn \/ InPrint \/ v_mem_limit[0] = 0)
    /\ UNCHANGED <<lineVars, dirVars, v_mem_limit, printVars, current_console, lines>>

goto(place) == at' = place /\ UNCHANGED <<index, out, p_vmem>>

\* the first character of out
char == Head(out)

\* p_vmem = V_MEM_BASE + cursor
print ==
    /\ at = "print" /\ out # <<>> /\ char # "show"
    /\ p_vmem' = cursor[index]
    /\ at' = "test"
    /\ text' = [text EXCEPT ![index] = IF InPrompt THEN @ ELSE Append(@, Given(index, char))]
    /\ UNCHANGED <<index, out, v_mem_limit, cursor, video>>

\* the test of each case; '\n' moves the cursor at once, '\b' before it
\* erases, and nested calls print the prompt
print_newline ==
    /\ at = "test" /\ char = "\n"
    /\ IF LineRoom(index, cursor[index])
       THEN /\ cursor' = [cursor EXCEPT ![index] = next_line(index, @)]
            /\ out' = Prompt(index) \o <<"show">> \o Tail(out)
            /\ at' = "print"
       ELSE at' = "show" /\ UNCHANGED <<cursor, out>>
    /\ UNCHANGED <<index, p_vmem, v_mem_limit, video, text>>

print_backspace ==
    /\ at = "test" /\ char = "BS"
    /\ IF cursor[index] > v_mem_addr(index)
       THEN cursor' = [cursor EXCEPT ![index] = @ - 1] /\ goto("erase")
       ELSE goto("show") /\ UNCHANGED cursor
    /\ UNCHANGED <<v_mem_limit, video, text>>

erase ==
    /\ at = "erase"
    /\ video' = [video EXCEPT ![p_vmem - 1] = " "]
    /\ goto("show")
    /\ UNCHANGED <<v_mem_limit, cursor, text>>

print_char ==
    /\ at = "test" /\ char \notin {"\n", "BS"}
    /\ goto(IF Room(index, cursor[index]) THEN "cells" ELSE "show")
    /\ UNCHANGED consoleVars

cells ==
    /\ at = "cells"
    /\ video' = [video EXCEPT ![p_vmem] = char]
    /\ goto("move")
    /\ UNCHANGED <<v_mem_limit, cursor, text>>

move ==
    /\ at = "move"
    /\ cursor' = [cursor EXCEPT ![index] = @ + 1]
    /\ goto("show")
    /\ UNCHANGED <<v_mem_limit, video, text>>

\* set_cursor and set_video_addr, at the end of print
show ==
    /\ at = "show" \/ (at = "print" /\ out # <<>> /\ char = "show")
    /\ out' = Tail(out)
    /\ at' = "print"
    /\ video_addr' = v_mem_addr(index)
    /\ UNCHANGED <<index, p_vmem, consoleVars, current_console>>
print_step ==
    /\ \/ /\ \/ print \/ print_newline \/ print_backspace \/ erase
             \/ print_char \/ cells \/ move
          /\ UNCHANGED showVars
       \/ show
    /\ UNCHANGED <<lineVars, dirVars, torn, lines, writes>>

\* print is called for each of s, one after the other
prints(s) == at' = "print" /\ out' = s /\ UNCHANGED p_vmem

-----------------------------------------------------------------------------
(* The directory that the terminal keeps.  A name is not terminated: it    *)
(* ends at the zeros that fill its entry up to a multiple of 4, and a name *)
(* that needs none runs into the inode number of the next entry.           *)

\* buffer += rec_len, from the start until rec_len = 0
Entries(blocks) == IF blocks[1] = <<>> THEN <<>> ELSE blocks[1] \o blocks[2]

\* the string at name in the i-th entry of e
CString(e, i) ==
    IF Len(e[i].name) % 4 # 0 \/ e[i].last THEN e[i].name ELSE Append(e[i].name, FirstByte)

\* the lengths of the names are all that is compared
equal_lengths(s, t) == Len(s) = Len(t)

strcmp(s, t) == s = t

search_file(t, file_name, f) ==
    LET e     == Entries(dictionary_buffer[t])
        found == {i \in DOMAIN e : strcmp(file_name, CString(e, i)) /\ e[i].file_type = f}
    IN  IF found = {} THEN 0 ELSE e[CHOOSE i \in found : \A j \in found : i <= j].inode

\* ls prints the names
Names(t) ==
    LET e == Entries(dictionary_buffer[t]) IN
    FlattenSeq([i \in DOMAIN e |-> Append(CString(e, i), " ")])

-----------------------------------------------------------------------------
(* task_tty                                                                *)

\* the string at command + i
Argument(t, i) ==
    LET end == {j \in i .. TTY_IN_BYTES - 1 : command[t][j] = NUL} IN
    [k \in 1 .. (IF end = {} THEN TTY_IN_BYTES - i ELSE Min(end) - i) |-> command[t][i + k - 1]]

\* memset(command) without curr = 0
cleared_only(t) ==
    /\ command' = [command EXCEPT ![t] = [i \in Command |-> IF i < 0 THEN @[i] ELSE NUL]]
    /\ UNCHANGED curr

clear_command(t) ==
    /\ command' = [command EXCEPT ![t] = [i \in Command |-> IF i < 0 THEN @[i] ELSE NUL]]
    /\ curr' = [curr EXCEPT ![t] = 0]

\* TTY::init of the terminal index, up to its two calls of print
init ==
    /\ at = "init"
    /\ v_mem_limit' = [v_mem_limit EXCEPT ![index] = ConsoleCells]
    /\ cursor' = [cursor EXCEPT ![index] = IF index = 0 THEN disp_pos ELSE v_mem_addr(index)]
    /\ clear_command(index)
    /\ prefix' = [prefix EXCEPT ![index] = <<digit[index + 1]>>]
    /\ prints(<<digit[index + 1], ">">>)
    /\ UNCHANGED <<index, typed, dictionary_buffer, dir, longest, video, text, showVars, torn, lines, writes>>

\* print has returned for the last time: the next terminal is initialised,
\* or the first selected, or the loop of task_tty goes on
Initialised == \A t \in Tty : v_mem_limit[t] # 0

printed ==
    /\ at = "print" /\ out = <<>>
    /\ IF Initialised THEN at' = "rest" /\ UNCHANGED index ELSE at' = "init" /\ index' = index + 1
    /\ IF Initialised /\ lines = 0 /\ \A t \in Tty : typed[t] = <<>> THEN video_addr' = v_mem_addr(current_console) ELSE UNCHANGED video_addr
    /\ UNCHANGED <<lineVars, dirVars, consoleVars, out, p_vmem, current_console, torn, lines, writes>>

\* the answer of FS to root and cd: the inode of either may be any, so one
\* directory or another is read over the first blocks of the buffer, or none
fs_answer(t) ==
    \/ \E d \in Directories :
          /\ dictionary_buffer' = [dictionary_buffer EXCEPT ![t] = d \o SubSeq(@, Len(d) + 1, 2)]
          /\ dir' = [dir EXCEPT ![t] = d]
          /\ longest' = [longest EXCEPT ![t] = IF Len(d) > @ THEN Len(d) ELSE @]
    \/ UNCHANGED <<dictionary_buffer, dir, longest>>

Starts(t, s) == \A i \in DOMAIN s : command[t][i - 1] = s[i]

root(t) ==
    /\ Argument(t, 0) = <<"r", "o", "o", "t">>
    /\ fs_answer(t)
    /\ prefix' = [prefix EXCEPT ![t] = <<"r", "o", "o", "t", "/", ">">>]
    /\ prints(<<"\n">>)

cd(t) ==
    /\ Starts(t, <<"c", "d">>)
    /\ \/ /\ search_file(t, Argument(t, 3), "dir") > 0
          /\ fs_answer(t)
          /\ prefix' = [prefix EXCEPT ![t] = @ \o Argument(t, 3) \o <<"/">>]
       \/ /\ search_file(t, Argument(t, 3), "dir") = 0
          /\ UNCHANGED dirVars
    /\ UNCHANGED <<at, out, p_vmem>>

ls(t) ==
    /\ Starts(t, <<"l", "s">>)
    /\ prints(Append(Names(t), "\n"))
    /\ UNCHANGED dirVars

\* open, which is looked for as "opon", prints nothing either
other_command(t) ==
    /\ Argument(t, 0) # <<"r", "o", "o", "t">>
    /\ ~Starts(t, <<"c", "d">>) /\ ~Starts(t, <<"l", "s">>)
    /\ IF Starts(t, <<"o", "p", "o", "n">>) THEN UNCHANGED <<at, out, p_vmem>> ELSE prints(<<"\n">>)
    /\ UNCHANGED dirVars

tty_command(t) == root(t) \/ cd(t) \/ ls(t) \/ other_command(t)

\* the line has grown to the end of command; what is written there is not
\* modelled, so nothing more is typed
Full(t) == curr[t] >= TTY_IN_BYTES \/ curr[t] <= -TTY_IN_BYTES

tty_do_write(t, c) ==
    /\ index' = t
    /\ ~Full(t)
    /\ \/ /\ c = "\n"
          /\ tty_command(t)
          /\ clear_command(t)
          /\ typed' = [typed EXCEPT ![t] = <<>>]
          /\ lines' = lines + 1
       \/ /\ c = "BS"
          /\ curr' = [curr EXCEPT ![t] = @ - 1]
          /\ command' = [command EXCEPT ![t][curr[t] - 1] = NUL]
          /\ prints(<<c>>)
          /\ typed' = [typed EXCEPT ![t] = Append(@, c)]
          /\ UNCHANGED <<dirVars, lines>>
       \/ /\ c \notin {"\n", "BS"}
          /\ command' = [command EXCEPT ![t][curr[t]] = c]
          /\ curr' = [curr EXCEPT ![t] = @ + 1]
          /\ prints(<<c>>)
          /\ typed' = [typed EXCEPT ![t] = Append(@, c)]
          /\ UNCHANGED <<dirVars, lines>>

\* a character comes for the terminal that has the focus
type ==
    /\ at = "rest" /\ lines < MaxLines
    /\ \E l \in Lines :
          /\ IsStrictPrefix(typed[current_console], l)
          /\ tty_do_write(current_console, l[Len(typed[current_console]) + 1])
    /\ UNCHANGED <<consoleVars, showVars, torn, writes>>

\* keyboard_read: a function key moves the focus
select_console == \E t \in Tty \ {current_console} :
    /\ at = "rest"
    /\ current_console' = t
    /\ video_addr' = v_mem_addr(t)
    /\ UNCHANGED <<lineVars, dirVars, consoleVars, printVars, torn, lines, writes>>

task_tty == print_step \/ init \/ printed \/ type \/ select_console

Next == task_tty \/ write

Spec == Init /\ [][Next]_vars

-----------------------------------------------------------------------------
TypeOK ==
    /\ command \in [Tty -> [Command -> Char]]
    /\ curr \in [Tty -> -TTY_IN_BYTES .. TTY_IN_BYTES]
    /\ prefix \in [Tty -> Seq(Char)]
    /\ v_mem_limit \in [Tty -> {0, ConsoleCells}] /\ cursor \in [Tty -> Cells]
    /\ current_console \in Tty /\ index \in Tty
    /\ video_addr \in {v_mem_addr(t) : t \in Tty}
    /\ video \in [Cells -> Char] /\ p_vmem \in Cells
    /\ at \in {"init", "rest", "print", "test", "erase", "cells", "move", "show"}
    /\ out \in Seq(Char \cup {"show"})

\* what is left of a line after its Backspaces
Edit(l, k)   == IF k # "BS" THEN Append(l, k) ELSE SubSeq(l, 1, Len(l) - 1)
Edited(keys) == FoldLeft(Edit, <<>>, keys)

\* no Backspace was typed where there was nothing to delete
Deletes(keys) == \A n \in DOMAIN keys :
    keys[n] = "BS" => Edited(SubSeq(keys, 1, n - 1)) # <<>>

(***************************************************************************)
(* tty.h:20 "the command of the current line": when Backspace was only     *)
(* pressed where there was something to delete, command is the edited line *)
(* and nothing of earlier lines, so that Enter executes what was typed.    *)
(***************************************************************************)
CommandIsLine == \A t \in Tty : Deletes(typed[t]) /\ ~Full(t) =>
    LET l == Edited(typed[t]) IN
    \A i \in 0 .. TTY_IN_BYTES - 1 :
        command[t][i] = IF i < Len(l) THEN l[i + 1] ELSE NUL

\* the same however Backspace is used
CommandIsWhatIsLeft == \A t \in Tty : LET l == Edited(typed[t]) IN
    \A i \in DOMAIN l : command[t][i - 1] = l[i]

(***************************************************************************)
(* The screen of a terminal, in rows and columns, after what it was given  *)
(* to print.                                                               *)
(***************************************************************************)
Blank(t) == [row |-> IF t = 0 THEN disp_pos \div SCREEN_WIDTH ELSE 0,
             col |-> IF t = 0 THEN disp_pos % SCREEN_WIDTH ELSE 0,
             shown |-> [c \in 0 .. ConsoleCells - 1 |-> " "]]

Place(s) == s.row * SCREEN_WIDTH + s.col

Advance(s, c) ==
    IF Place(s) >= ConsoleCells THEN s
    ELSE [row   |-> IF s.col = SCREEN_WIDTH - 1 THEN s.row + 1 ELSE s.row,
          col   |-> IF s.col = SCREEN_WIDTH - 1 THEN 0 ELSE s.col + 1,
          shown |-> [s.shown EXCEPT ![Place(s)] = c]]

Back(s) ==
    IF s.row = 0 /\ s.col = 0 THEN s
    ELSE [row   |-> IF s.col = 0 THEN s.row - 1 ELSE s.row,
          col   |-> IF s.col = 0 THEN SCREEN_WIDTH - 1 ELSE s.col - 1,
          shown |-> [s.shown EXCEPT ![Place(s) - 1] = " "]]

AdvanceAll(s, cs) == FoldLeft(Advance, s, cs)

NextRow(s) == [row |-> s.row + 1, col |-> 0, shown |-> s.shown]

\* a newline where there is no further row is left out, and its prompt
NewLine(s, prompt) ==
    IF Place(s) + SCREEN_WIDTH >= ConsoleCells THEN s
    ELSE AdvanceAll(NextRow(s), prompt)

Lay(s, g) == CASE g[1] = "BS" -> Back(s)
               [] g[1] = "\n" -> NewLine(s, Tail(g))
               [] OTHER       -> Advance(s, g[1])

LayoutOf(t, given) == FoldLeft(Lay, Blank(t), given)
Layout(t) == LayoutOf(t, text[t])

(***************************************************************************)
(* When no write has come into the middle of a print, every screen shows   *)
(* what its terminal was given to print, row by row, by whoever printed    *)
(* it, and the cursor stands behind it.                                    *)
(***************************************************************************)
ScreenIsText == ~torn /\ ~InPrint /\ at \in {"rest", "print"} => \A t \in Tty : v_mem_limit[t] # 0 =>
    LET s == Layout(t) IN
    /\ cursor[t] = v_mem_addr(t) + Place(s)
    /\ \A c \in 0 .. ConsoleCells - 1 : video[v_mem_addr(t) + c] = s.shown[c]

(***************************************************************************)
(* Whenever a write comes, a console's cursor leaves it by no more than a  *)
(* row, and no character appears on another console than the one it was    *)
(* printed on: at most blanks are.                                         *)
(***************************************************************************)
CursorNearConsole == \A t \in Tty : v_mem_limit[t] # 0 =>
    cursor[t] \in v_mem_addr(t) .. v_mem_addr(t + 1) + SCREEN_WIDTH

CharsOnOwnConsole ==
    [][ Initialised => \A t \in Tty : (\E c \in Region(t) : video'[c] \notin {video[c], " "}) =>
            (write /\ t = 0) \/ (task_tty /\ t = index) ]_vars

(***************************************************************************)
(* The entry that a command finds is the first one of the directory that   *)
(* was read last with that name and type, and it finds it if there is one: *)
(* unless a longer directory was read before, or a name fills its entry.   *)
(***************************************************************************)
FirstEntry(d, n, f) ==
    LET e == IF d = <<>> THEN <<>> ELSE FlattenSeq(d)
        i == SelectInSeq(e, LAMBDA x : x.name = n /\ x.file_type = f)
    IN  IF i = 0 THEN 0 ELSE e[i].inode

NamesOf(d) == UNION {{b[i].name : i \in DOMAIN b} : b \in ToSet(d)}

FindsEntries(t, n) == \A f \in {"dir", "file"} :
    search_file(t, n, f) = FirstEntry(dir[t], n, f)

SearchFindsEntry == \A t \in Tty : longest[t] = Len(dir[t]) =>
    \A n \in UNION {NamesOf(d) : d \in Directories} :
        Len(n) % 4 # 0 => FindsEntries(t, n)

\* comments of tty.cc:173 and tty.h:14, without the conditions
SearchIsComplete == \A t \in Tty : \A n \in NamesOf(dir[t]) : FindsEntries(t, n)
SearchIsCurrent  == \A t \in Tty : \A n \in UNION {NamesOf(d) : d \in Directories} :
    n \notin NamesOf(dir[t]) => FindsEntries(t, n)

\* tty.cc:228 "the console that has the focus is the one for input and output"
FocusShown == at = "rest" => video_addr = v_mem_addr(current_console)
=============================================================================
