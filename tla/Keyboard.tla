------------------------------ MODULE Keyboard ------------------------------
(***************************************************************************)
(* From the key to the terminal: keyboard_handler (interrupt.cc) puts the  *)
(* bytes of the keyboard controller into kb_buffer; task_tty (tty.cc)      *)
(* takes them out in keyboard_read (keyboard.cc), which follows multi-byte *)
(* sequences, keeps the modifier keys and hands every key to in_process;   *)
(* tty_do_write takes the characters to the screen.                        *)
(*                                                                         *)
(* keyboard_read waits in get_byte_from_kbuf for the next byte of a        *)
(* sequence, so it is a step per byte, and the interrupt comes between     *)
(* any two of them.  task_tty serves the terminal that has the focus and   *)
(* passes over the others.                                                 *)
(***************************************************************************)
EXTENDS Ring

CONSTANTS
    KB_IN_BYTES,     \* places of kb_buffer
    TTY_IN_BYTES,    \* places of a terminal's in_buffer
    NR_CONSOLE,      \* number of terminals
    SCREEN_WIDTH,    \* columns of the screen
    SCREEN_SIZE,     \* cells of the screen
    V_MEM_LIMIT,     \* bytes of video memory of one console
    Keys,            \* the keys there are
    MaxEvents        \* bound: how many keys are pressed or released

Tty == 0..(NR_CONSOLE - 1)

\* the scan code of a key; the keys of Extended send E0 before it
code == [LSHIFT |-> 42, RSHIFT |-> 54, LCTRL |-> 29, RCTRL |-> 29,
         LALT |-> 56, RALT |-> 56, A |-> 30, ENTER |-> 28, BS |-> 14,
         UP |-> 72, DOWN |-> 80, F1 |-> 59, F2 |-> 60, F3 |-> 61]

Extended == {"RCTRL", "RALT", "UP", "DOWN"}
E0 == 224
E1 == 225

\* what the keyboard sends when a key goes down and up
make_bytes(k) == CASE k = "PRTSC"    -> <<E0, 42, E0, 55>>
                   [] k = "PAUSE"    -> <<E1, 29, 69, E1, 157, 197>>
                   [] k \in Extended -> <<E0, code[k]>>
                   [] OTHER          -> <<code[k]>>

break_bytes(k) == CASE k = "PRTSC"    -> <<E0, 183, E0, 170>>
                    [] k = "PAUSE"    -> <<>>
                    [] k \in Extended -> <<E0, code[k] + 128>>
                    [] OTHER          -> <<code[k] + 128>>

Byte == {E0, E1, 69, 197, 55, 183} \cup {code[k] : k \in DOMAIN code}
                                   \cup {code[k] + 128 : k \in DOMAIN code}

\* columns !Shift, Shift and E0 of the rows of keymap that these keys use
keymap(c) == CASE c = 14 -> <<"BACKSPACE", "BACKSPACE", "nul">>
               [] c = 28 -> <<"ENTER", "ENTER", "PAD_ENTER">>
               [] c = 29 -> <<"CTRL_L", "CTRL_L", "CTRL_R">>
               [] c = 30 -> <<"a", "A", "nul">>
               [] c = 42 -> <<"SHIFT_L", "SHIFT_L", "nul">>
               [] c = 54 -> <<"SHIFT_R", "SHIFT_R", "nul">>
               [] c = 55 -> <<"*", "*", "nul">>
               [] c = 56 -> <<"ALT_L", "ALT_L", "ALT_R">>
               [] c = 59 -> <<"F1", "F1", "nul">>
               [] c = 60 -> <<"F2", "F2", "nul">>
               [] c = 61 -> <<"F3", "F3", "nul">>
               [] c = 69 -> <<"NUM_LOCK", "NUM_LOCK", "nul">>
               [] c = 72 -> <<"PAD_UP", "8", "UP">>
               [] c = 80 -> <<"PAD_DOWN", "2", "DOWN">>
               [] OTHER  -> <<"nul", "nul", "nul">>

\* the characters; a key without an entry is character 0
Char == {"a", "A", "*", "8", "2", "nul", "newline", "rubout"}

Modifier == {"shift_l", "shift_r", "ctrl_l", "ctrl_r", "alt_l", "alt_r"}

ASSUME KeyboardAssumption ==
    /\ {KB_IN_BYTES, TTY_IN_BYTES, NR_CONSOLE} \subseteq Nat \ {0}
    /\ {SCREEN_WIDTH, SCREEN_SIZE, V_MEM_LIMIT, MaxEvents} \subseteq Nat
    /\ Keys \subseteq DOMAIN code \cup {"PRTSC", "PAUSE"}

VARIABLES
    kb_buffer,        \* ring of scan codes
    at,               \* where keyboard_read and its caller are
    step,             \* i of the loop that recognises Pause
    modifiers,        \* shift_l, ..., alt_r
    p_tty,            \* the terminal task_tty serves
    in_buffer,        \* terminal -> ring of characters
    current_console,  \* the terminal that has the focus
    current_addr,     \* terminal -> first byte of its video memory on view
    video_addr,       \* start address in the VGA controller
    wire,             \* bytes the keyboard controller has still to deliver
    held,             \* the keys that are down
    events,           \* keys pressed and released so far
    lost,             \* has keyboard_handler dropped a byte?
    focus,            \* the terminal the user has switched to
    due               \* what was typed and has not reached its terminal:
                      \* pairs of terminal and character

consoleVars == <<in_buffer, current_console, current_addr, video_addr>>
userVars    == <<held, events, focus>>
taskVars    == <<at, step, modifiers, p_tty, consoleVars>>
vars == <<kb_buffer, taskVars, wire, lost, userVars, due>>

v_mem_addr(t) == t * V_MEM_LIMIT

\* init_keyboard, TTY::init of every terminal, select_console(0)
Init ==
    /\ kb_buffer = empty_ring(KB_IN_BYTES, 30)
    /\ at = "read" /\ step = 1
    /\ modifiers = [m \in Modifier |-> FALSE]
    /\ p_tty = 0 /\ current_console = 0
    /\ in_buffer = [t \in Tty |-> empty_ring(TTY_IN_BYTES, "nul")]
    /\ current_addr = [t \in Tty |-> v_mem_addr(t)]
    /\ video_addr = v_mem_addr(0)
    /\ wire = <<>> /\ held = {} /\ events = 0 /\ lost = FALSE
    /\ focus = 0 /\ due = <<>>

-----------------------------------------------------------------------------
(* keyboard_read, after the bytes of a key have been taken                 *)

put_key(c) ==
    /\ in_buffer' = [in_buffer EXCEPT ![p_tty] = put(TTY_IN_BYTES, @, c)]
    /\ UNCHANGED <<current_console, current_addr, video_addr>>

\* scroll_screen of the console with the focus by one line
scrolled(up) ==
    LET t == current_console  a == current_addr[t] IN
    IF up THEN IF a > v_mem_addr(t) THEN a - 2 * SCREEN_WIDTH ELSE a
    ELSE IF a + SCREEN_SIZE < v_mem_addr(t) + V_MEM_LIMIT
         THEN a + 2 * SCREEN_WIDTH ELSE a

scroll_screen(up) ==
    /\ current_addr' = [current_addr EXCEPT ![current_console] = scrolled(up)]
    /\ video_addr' = scrolled(up)
    /\ UNCHANGED <<in_buffer, current_console>>

\* select_console that leaves the VGA controller alone
select_console_unshown(t) ==
    /\ current_console' = t % NR_CONSOLE
    /\ UNCHANGED <<in_buffer, current_addr, video_addr>>

select_console(t) ==
    /\ current_console' = t % NR_CONSOLE
    /\ video_addr' = current_addr[t]
    /\ UNCHANGED <<in_buffer, current_addr>>

console_of == [F1 |-> 0, F2 |-> 1, F3 |-> 2]

in_process(key, m) ==
    LET shift == m["shift_l"] \/ m["shift_r"]
        alt   == m["alt_l"] \/ m["alt_r"]
    IN  \/ key \in Char /\ put_key(key)
        \/ key = "ENTER" /\ put_key("newline")
        \/ key = "BACKSPACE" /\ put_key("rubout")
        \/ key \in {"UP", "DOWN"} /\ shift /\ scroll_screen(key = "UP")
        \/ key \in DOMAIN console_of /\ alt /\ select_console(console_of[key])
        \/ /\ key \notin Char \cup {"ENTER", "BACKSPACE"}
           /\ ~(key \in {"UP", "DOWN"} /\ shift)
           /\ ~(key \in DOMAIN console_of /\ alt)
           /\ UNCHANGED consoleVars

\* the variable that the switch on key assigns make to
slot == [SHIFT_L |-> "shift_l", SHIFT_R |-> "shift_r", CTRL_L |-> "ctrl_l",
         CTRL_R |-> "ctrl_r", ALT_L |-> "alt_l", ALT_R |-> "alt_l"]

\* the column of keymap, Shift being looked at before E0
column_shift_first(with_E0) ==
    IF modifiers["shift_l"] \/ modifiers["shift_r"] THEN 2
    ELSE IF with_E0 THEN 3 ELSE 1

\* the right Shift is not looked at
column_left_only(with_E0) ==
    IF with_E0 THEN 3 ELSE IF modifiers["shift_l"] THEN 2 ELSE 1

\* the column of keymap
column(with_E0) == IF with_E0 THEN 3
                   ELSE IF modifiers["shift_l"] \/ modifiers["shift_r"] THEN 2
                   ELSE 1

\* the end of keyboard_read: look scan_code up and act on the key
process(scan_code, with_E0) ==
    LET make == scan_code < 128
        key  == keymap(scan_code % 128)[column(with_E0)]
        m    == IF key \in DOMAIN slot THEN [modifiers EXCEPT ![slot[key]] = make]
                                       ELSE modifiers
    IN  /\ modifiers' = m
        /\ IF make THEN in_process(key, m) ELSE UNCHANGED consoleVars
        /\ at' = "write"
        /\ UNCHANGED step

-----------------------------------------------------------------------------
(* keyboard_read, byte by byte                                             *)

\* get_byte_from_kbuf returns b; it waits while kb_buffer is empty
get_byte(b) ==
    /\ kb_buffer.count > 0
    /\ b = first(kb_buffer)
    /\ kb_buffer' = taken(KB_IN_BYTES, kb_buffer)

goto(place) == at' = place /\ UNCHANGED <<step, modifiers, consoleVars>>

read_nothing ==
    /\ at = "read"
    /\ kb_buffer.count = 0
    /\ goto("write")
    /\ UNCHANGED kb_buffer

read_first == \E b \in Byte :
    /\ at = "read"
    /\ get_byte(b)
    /\ CASE b = E1 -> at' = "pause" /\ step' = 1 /\ UNCHANGED <<modifiers, consoleVars>>
         [] b = E0 -> goto("extended")
         [] OTHER  -> process(b, FALSE)

pausebrk_scode == <<29, 69, E1, 157, 197>>

\* a loop that reads one byte more than Pause has
read_pause_seventh == \E b \in Byte :
    /\ at = "pause"
    /\ get_byte(b)
    /\ IF step <= 5 /\ b = pausebrk_scode[step]
       THEN step' = step + 1 /\ UNCHANGED <<at, modifiers, consoleVars>>
       ELSE goto("write")

\* a byte that is not the next one of Pause is lost with the others
read_pause == \E b \in Byte :
    /\ at = "pause"
    /\ get_byte(b)
    /\ IF b = pausebrk_scode[step] /\ step < 5
       THEN step' = step + 1 /\ UNCHANGED <<at, modifiers, consoleVars>>
       ELSE goto("write")

read_extended == \E b \in Byte :
    /\ at = "extended"
    /\ get_byte(b)
    /\ CASE b = 42  -> goto("print_down")
         [] b = 183 -> goto("print_up")
         [] OTHER   -> process(b, TRUE)

\* PrintScreen goes down with E0 2A E0 37 and up with E0 B7 E0 AA; when the
\* rest is something else, the bytes read are lost
read_print(place, started, ended, scan_code) == \E b \in Byte :
    /\ get_byte(b)
    /\ \/ at = place /\ IF b = E0 THEN goto(started) ELSE process(scan_code, TRUE)
       \/ at = started /\ IF b = ended THEN goto("write") ELSE process(scan_code, TRUE)

keyboard_read ==
    /\ \/ read_nothing
       \/ read_first
       \/ read_pause
       \/ read_extended
       \/ read_print("print_down", "print_down_2", 55, 42)
       \/ read_print("print_up", "print_up_2", 170, 183)
    /\ UNCHANGED <<p_tty, wire, lost, userVars, due>>

\* tty_do_write of the terminal that was read for, and on to the terminal
\* with the focus: print sets the VGA controller, tty_command may not print
tty_do_write ==
    /\ at = "write"
    /\ at' = "read"
    /\ p_tty' = current_console
    /\ IF in_buffer[p_tty].count = 0
       THEN UNCHANGED <<in_buffer, video_addr, due>>
       ELSE /\ in_buffer' = [in_buffer EXCEPT ![p_tty] = taken(TTY_IN_BYTES, @)]
            /\ \/ video_addr' = current_addr[p_tty]
               \/ first(in_buffer[p_tty]) = "newline" /\ UNCHANGED video_addr
            /\ due' = IF due = <<>> THEN due ELSE Tail(due)
    /\ UNCHANGED <<kb_buffer, step, modifiers, current_console, current_addr,
                   wire, lost, userVars>>

-----------------------------------------------------------------------------
keyboard_handler ==
    /\ wire # <<>>
    /\ wire' = Tail(wire)
    /\ kb_buffer' = put(KB_IN_BYTES, kb_buffer, Head(wire))
    /\ lost' = (lost \/ kb_buffer.count = KB_IN_BYTES)
    /\ UNCHANGED <<taskVars, userVars, due>>

\* what the user means: characters for the terminal that has the focus,
\* with Shift as it is held, and Alt with a function key to switch
Shifted == held \cap {"LSHIFT", "RSHIFT"} # {}

typed(k) == CASE k = "A"     -> <<IF Shifted THEN "A" ELSE "a">>
              [] k = "ENTER" -> <<"newline">>
              [] k = "BS"    -> <<"rubout">>
              [] OTHER       -> <<>>

\* a key goes down; held down, it repeats (a key at a time: the controller
\* has delivered the last one)
press(k) ==
    /\ events < MaxEvents
    /\ wire = <<>>
    /\ events' = events + 1
    /\ held' = held \cup {k}
    /\ wire' = make_bytes(k)
    /\ focus' = IF k \in DOMAIN console_of /\ held \cap {"LALT", "RALT"} # {}
                THEN console_of[k] % NR_CONSOLE ELSE focus
    /\ due' = due \o [i \in DOMAIN typed(k) |-> <<focus, typed(k)[i]>>]
    /\ UNCHANGED <<kb_buffer, taskVars, lost>>

release(k) ==
    /\ events < MaxEvents
    /\ wire = <<>>
    /\ events' = events + 1
    /\ k \in held
    /\ held' = held \ {k}
    /\ wire' = break_bytes(k)
    /\ UNCHANGED <<kb_buffer, taskVars, lost, focus, due>>

Next ==
    \/ keyboard_handler
    \/ keyboard_read
    \/ tty_do_write
    \/ \E k \in Keys : press(k) \/ release(k)

Spec == Init /\ [][Next]_vars

\* interrupts are delivered; task_tty never blocks while nobody types
\* commands for FS, and is scheduled like every runnable process
FairSpec == Spec /\ WF_vars(keyboard_handler) /\ WF_vars(keyboard_read \/ tty_do_write)

-----------------------------------------------------------------------------
\* both rings keep their counts and pointers within their sizes, also when
\* bytes come faster than they are read, and p_tty and the focus are terminals
RingsOK ==
    /\ kb_buffer \in Rings(KB_IN_BYTES, Byte)
    /\ in_buffer \in [Tty -> Rings(TTY_IN_BYTES, Char)]
    /\ p_tty \in Tty /\ current_console \in Tty

TypeOK ==
    /\ RingsOK
    /\ at \in {"read", "pause", "extended", "print_down", "print_down_2",
               "print_up", "print_up_2", "write"}
    /\ step \in 1..5
    /\ modifiers \in [Modifier -> BOOLEAN]
    /\ current_addr \in [Tty -> Nat] /\ video_addr \in Nat
    /\ wire \in Seq(Byte) /\ due \in Seq(Tty \X Char) /\ focus \in Tty
    /\ held \subseteq Keys /\ events \in 0..MaxEvents /\ lost \in BOOLEAN

\* everything the user did has been dealt with
AtRest == at = "read" /\ wire = <<>> /\ kb_buffer.count = 0

(***************************************************************************)
(* As long as no byte was dropped, the Shift and Ctrl variables, and alt_l *)
(* on a keyboard with one Alt key (keyboard.cc:260 makes the two one),     *)
(* agree with the keys that are down as soon as everything has been read,  *)
(* however keys and their repetitions, multi-byte sequences, interrupts    *)
(* and reads interleave.                                                   *)
(***************************************************************************)
ModifiersFollowKeys ==
    AtRest /\ ~lost =>
        /\ modifiers["shift_l"] = ("LSHIFT" \in held)
        /\ modifiers["shift_r"] = ("RSHIFT" \in held)
        /\ modifiers["ctrl_l"]  = ("LCTRL" \in held)
        /\ modifiers["ctrl_r"]  = ("RCTRL" \in held)
        /\ {"LALT", "RALT"} \subseteq Keys
              \/ modifiers["alt_l"] = (held \cap {"LALT", "RALT"} # {})

(***************************************************************************)
(* As long as no byte was dropped, the characters reach the terminals in   *)
(* the order they were typed, with the Shift that was held then, each the  *)
(* terminal that had the focus when it was typed and not when it is read.  *)
(***************************************************************************)
TypedInOrder ==
    [][ tty_do_write /\ in_buffer[p_tty].count > 0 /\ ~lost =>
            due # <<>> /\ Head(due) = <<p_tty, first(in_buffer[p_tty])>> ]_vars

(***************************************************************************)
(* A terminal holds a character only between the read and the write of its *)
(* own turn: put_key never drops one, and a switch of the focus leaves no  *)
(* character behind in the terminal that loses it.                         *)
(***************************************************************************)
NothingLeftBehind ==
    \A t \in Tty : in_buffer[t].count > 0 =>
        in_buffer[t].count = 1 /\ t = p_tty /\ at = "write"

\* F1, F2 and F3 have a console each, as with NR_CONSOLE of const.h:149
ConsoleForEveryKey == \A f \in DOMAIN console_of : console_of[f] < NR_CONSOLE

(***************************************************************************)
(* The VGA controller shows the console that has the focus: neither a      *)
(* switch nor a late echo of the terminal that lost the focus leaves       *)
(* another one on the screen.                                              *)
(***************************************************************************)
ScreenShowsFocus == video_addr = current_addr[current_console]

(***************************************************************************)
(* As long as no byte is dropped, keyboard_read never waits for ever for   *)
(* the rest of a sequence, with task_tty spinning in the kernel's buffer.  *)
(***************************************************************************)
ReadReturns == []~lost => []<>(at = "read")

(***************************************************************************)
(* keyboard.cc:7 "alt_r ... state": alt_r is the state of the right Alt    *)
(* key.                                                                    *)
(***************************************************************************)
AltFollowsKeys ==
    AtRest /\ ~lost => modifiers["alt_r"] = ("RALT" \in held)

(***************************************************************************)
(* tty.cc:8 the unit of a console's buffer is the byte, as for the cursor: *)
(* so the screen, of two bytes a cell, shows no byte beyond the console.   *)
(***************************************************************************)
ViewInRegion ==
    \A t \in Tty :
        current_addr[t] + 2 * SCREEN_SIZE <= v_mem_addr(t) + V_MEM_LIMIT
=============================================================================
