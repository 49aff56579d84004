--------------------------- MODULE Keyboard_proofs ---------------------------
(***************************************************************************)
(* For any size of the buffers, any number of terminals and any keys:      *)
(* kb_buffer is a first-in-first-out queue, no character stays behind in a *)
(* terminal, the screen shows the console that has the focus, and while no *)
(* byte is dropped the modifiers follow the keys and the characters reach  *)
(* the terminals in the order they were typed.                             *)
(***************************************************************************)
EXTENDS KeyboardRefinement, TLAPS

(***************************************************************************)
(* What the operations of a ring do to its contents, for any number of     *)
(* places and any values: a ring is a first-in-first-out queue that drops  *)
(* what is put into it when it is full.                                    *)
(***************************************************************************)
GoodRing(N, Value, r) == r \in Rings(N, Value) /\ Consistent(N, r)

LEMMA PutKeepsRing ==
    ASSUME NEW N \in Nat \ {0}, NEW Value, NEW r, GoodRing(N, Value, r),
           NEW x \in Value
    PROVE  GoodRing(N, Value, put(N, r, x))
<1> USE DEF GoodRing, Rings
<1>1. CASE r.count < N
  <2> DEFINE s == put(N, r, x)
  <2>1. s = [buffer |-> [r.buffer EXCEPT ![r.head] = x],
             head |-> advanced(N, r.head), tail |-> r.tail, count |-> r.count + 1]
    BY <1>1 DEF put
  <2>2. advanced(N, r.head) \in 0..(N - 1)
    BY DEF advanced
  <2>3. r.count + 1 \in 0..N
    BY <1>1
  <2>4. [r.buffer EXCEPT ![r.head] = x] \in [0..(N - 1) -> Value]
    OBVIOUS
  <2>5. s \in Rings(N, Value)
    BY <2>1, <2>2, <2>3, <2>4
  <2>6. Consistent(N, s)
    BY <1>1, <2>1 DEF Consistent, wrapped, advanced
  <2> QED  BY <2>5, <2>6
<1>2. CASE ~(r.count < N)
  BY <1>2 DEF put
<1> QED  BY <1>1, <1>2

LEMMA TakenKeepsRing ==
    ASSUME NEW N \in Nat \ {0}, NEW Value, NEW r, GoodRing(N, Value, r),
           r.count > 0
    PROVE  GoodRing(N, Value, taken(N, r))
<1> USE DEF GoodRing, Rings
<1> DEFINE s == taken(N, r)
<1>1. s = [buffer |-> r.buffer, head |-> r.head,
           tail |-> advanced(N, r.tail), count |-> r.count - 1]
  BY DEF taken
<1>2. advanced(N, r.tail) \in 0..(N - 1) /\ r.count - 1 \in 0..N
  BY DEF advanced
<1>3. s \in Rings(N, Value)
  BY <1>1, <1>2
<1>4. Consistent(N, s)
  BY <1>1 DEF Consistent, wrapped, advanced
<1> QED  BY <1>3, <1>4

LEMMA ContentsSeq ==
    ASSUME NEW N \in Nat \ {0}, NEW Value, NEW r, GoodRing(N, Value, r)
    PROVE  /\ contents(N, r) \in Seq(Value)
           /\ Len(contents(N, r)) = r.count
<1> USE DEF GoodRing, Rings
<1>1. \A i \in 1..r.count : wrapped(N, r.tail + i - 1) \in 0..(N - 1)
  BY DEF wrapped
<1>2. r.count \in Nat
  OBVIOUS
<1>3. \A i \in 1..r.count : r.buffer[wrapped(N, r.tail + i - 1)] \in Value
  BY <1>1
<1> DEFINE c == contents(N, r)
<1>4. c \in [1..r.count -> Value]
  BY <1>3 DEF contents
<1> HIDE DEF c
<1>5. c \in Seq(Value) /\ Len(c) = r.count
  BY <1>2, <1>4
<1> QED  BY <1>5 DEF c

(***************************************************************************)
(* Putting a value into a ring that is not full appends it to the contents *)
(* and changes nothing else of them; putting it into a full one leaves     *)
(* them alone.                                                             *)
(***************************************************************************)
LEMMA PutAppends ==
    ASSUME NEW N \in Nat \ {0}, NEW Value, NEW r, GoodRing(N, Value, r),
           NEW x \in Value
    PROVE  contents(N, put(N, r, x)) =
               IF Len(contents(N, r)) < N THEN Append(contents(N, r), x)
                                          ELSE contents(N, r)
<1> USE DEF GoodRing, Rings
<1>0. Len(contents(N, r)) = r.count /\ contents(N, r) \in Seq(Value)
  BY ContentsSeq
<1>1. CASE r.count < N
  <2> DEFINE s == put(N, r, x)
             old == contents(N, r)
             new == contents(N, s)
  <2>1. s = [buffer |-> [r.buffer EXCEPT ![r.head] = x],
             head |-> advanced(N, r.head), tail |-> r.tail, count |-> r.count + 1]
    BY <1>1 DEF put
  <2>2. GoodRing(N, Value, s)
    BY PutKeepsRing
  <2>3. Len(new) = r.count + 1 /\ new \in Seq(Value)
    <3>1. Len(new) = s.count /\ new \in Seq(Value)
      <4> HIDE DEF s, GoodRing
      <4> QED  BY <2>2, ContentsSeq
    <3>2. s.count = r.count + 1
      BY <2>1
    <3> QED  BY <3>1, <3>2
  <2>4. ASSUME NEW i \in 1..r.count PROVE new[i] = old[i]
    <3> DEFINE w == wrapped(N, r.tail + i - 1)
    <3>1. w \in 0..(N - 1) /\ w # r.head
      BY <1>1 DEF wrapped, Consistent
    <3>2. s.buffer[w] = r.buffer[w]
      BY <2>1, <3>1
    <3>3. new[i] = s.buffer[w]
      BY <2>1 DEF contents
    <3>4. old[i] = r.buffer[w]
      BY DEF contents
    <3> QED  BY <3>2, <3>3, <3>4
  <2>5. new[r.count + 1] = x
    <3>1. wrapped(N, r.tail + (r.count + 1) - 1) = r.head
      BY <1>1 DEF wrapped, Consistent
    <3>2. new[r.count + 1] = s.buffer[wrapped(N, r.tail + (r.count + 1) - 1)]
      BY <2>1 DEF contents
    <3> QED  BY <2>1, <3>1, <3>2
  <2> HIDE DEF old, new, s
  <2>6. /\ Append(old, x) \in Seq(Value) /\ Len(Append(old, x)) = r.count + 1
        /\ \A i \in 1..r.count : Append(old, x)[i] = old[i]
        /\ Append(old, x)[r.count + 1] = x
    BY <1>0 DEF old
  <2>7. \A i \in 1..(r.count + 1) : new[i] = Append(old, x)[i]
    BY <2>4, <2>5, <2>6
  <2>8. new = Append(old, x)
    BY <2>3, <2>6, <2>7
  <2> QED  BY <1>0, <1>1, <2>8 DEF old, new, s
<1>2. CASE ~(r.count < N)
  BY <1>0, <1>2 DEF put
<1> QED  BY <1>1, <1>2

\* in a ring that has room
LEMMA PutIntoRoom ==
    ASSUME NEW N \in Nat \ {0}, NEW Value, NEW r, GoodRing(N, Value, r),
           r.count < N, NEW x \in Value
    PROVE  contents(N, put(N, r, x)) = Append(contents(N, r), x)
<1>1. Len(contents(N, r)) = r.count
  BY ContentsSeq
<1> DEFINE g == IF Len(contents(N, r)) < N THEN Append(contents(N, r), x)
                                           ELSE contents(N, r)
<1>2. contents(N, put(N, r, x)) = g
  BY PutAppends, Zenon
<1>3. g = Append(contents(N, r), x)
  BY <1>1
<1> QED  BY <1>2, <1>3

(***************************************************************************)
(* Taking from a ring that is not empty removes the oldest value, which is *)
(* the one first() returns, and changes nothing else.                      *)
(***************************************************************************)
LEMMA TakenIsTail ==
    ASSUME NEW N \in Nat \ {0}, NEW Value, NEW r, GoodRing(N, Value, r),
           r.count > 0
    PROVE  /\ contents(N, r) # <<>>
           /\ Head(contents(N, r)) = first(r)
           /\ contents(N, taken(N, r)) = Tail(contents(N, r))
<1> USE DEF GoodRing, Rings
<1> DEFINE s   == taken(N, r)
           old == contents(N, r)
           new == contents(N, s)
<1>1. s = [buffer |-> r.buffer, head |-> r.head,
           tail |-> advanced(N, r.tail), count |-> r.count - 1]
  BY DEF taken
<1>2. Len(old) = r.count /\ old \in Seq(Value)
  BY ContentsSeq
<1>3. Len(new) = r.count - 1 /\ new \in Seq(Value)
  <2>1. GoodRing(N, Value, s)
    BY TakenKeepsRing
  <2>2. Len(new) = s.count /\ new \in Seq(Value)
    <3> HIDE DEF s, GoodRing
    <3> QED  BY <2>1, ContentsSeq
  <2>3. s.count = r.count - 1
    BY <1>1
  <2> QED  BY <2>2, <2>3
<1>4. old[1] = first(r)
  BY DEF contents, first, wrapped
<1>5. ASSUME NEW i \in 1..(r.count - 1) PROVE new[i] = old[i + 1]
  <2>1. wrapped(N, s.tail + i - 1) = wrapped(N, r.tail + (i + 1) - 1)
    BY <1>1 DEF wrapped, advanced
  <2>2. new[i] = r.buffer[wrapped(N, s.tail + i - 1)]
    BY <1>1 DEF contents
  <2>3. old[i + 1] = r.buffer[wrapped(N, r.tail + (i + 1) - 1)]
    BY DEF contents
  <2> QED  BY <2>1, <2>2, <2>3
<1> HIDE DEF old, new, s
<1>6. old # <<>> /\ Head(old) = old[1]
  BY <1>2
<1>7. /\ Tail(old) \in Seq(Value) /\ Len(Tail(old)) = r.count - 1
      /\ \A i \in 1..(r.count - 1) : Tail(old)[i] = old[i + 1]
  BY <1>2
<1>8. new = Tail(old)
  BY <1>3, <1>5, <1>7
<1> QED  BY <1>4, <1>6, <1>8 DEF old, new, s

-----------------------------------------------------------------------------
(* The sizes                                                               *)

LEMMA Sizes ==
    /\ KB_IN_BYTES \in Nat \ {0}
    /\ TTY_IN_BYTES \in Nat \ {0}
    /\ NR_CONSOLE \in Nat \ {0}
BY KeyboardAssumption

-----------------------------------------------------------------------------
(* What the keyboard sends are bytes                                       *)

LEMMA CodesAreBytes ==
    /\ \A k \in DOMAIN code : code[k] \in Byte /\ code[k] + 128 \in Byte
    /\ {E0, E1, 69, 197, 55, 183, 42, 29, 157, 170, 30} \subseteq Byte
<1>1. \A k \in DOMAIN code : code[k] \in Byte /\ code[k] + 128 \in Byte
  BY DEF Byte
<1>2. /\ {"LSHIFT", "LCTRL", "A"} \subseteq DOMAIN code
      /\ code["LSHIFT"] = 42 /\ code["LCTRL"] = 29 /\ code["A"] = 30
  BY DEF code
<1>3. {42, 29, 30, 157, 170} \subseteq Byte
  <2>1. 29 + 128 = 157 /\ 42 + 128 = 170
    OBVIOUS
  <2>2. {42, 29, 30} \subseteq Byte
    BY <1>1, <1>2
  <2>3. 157 \in Byte
    BY <1>1, <1>2, <2>1
  <2>4. 170 \in Byte
    BY <1>1, <1>2, <2>1
  <2> QED  BY <2>2, <2>3, <2>4
<1>4. {E0, E1, 69, 197, 55, 183} \subseteq Byte
  BY DEF Byte
<1> QED  BY <1>1, <1>3, <1>4

LEMMA FourInSeq ==
    ASSUME NEW S, NEW a \in S, NEW b \in S, NEW c \in S, NEW d \in S
    PROVE  <<a, b, c, d>> \in Seq(S)
OBVIOUS

LEMMA SixInSeq ==
    ASSUME NEW S, NEW a \in S, NEW b \in S, NEW c \in S, NEW d \in S,
           NEW e \in S, NEW f \in S
    PROVE  <<a, b, c, d, e, f>> \in Seq(S)
OBVIOUS

LEMMA SequencesAreBytes ==
    ASSUME NEW k \in Keys
    PROVE  make_bytes(k) \in Seq(Byte) /\ break_bytes(k) \in Seq(Byte)
<1>1. k \in DOMAIN code \cup {"PRTSC", "PAUSE"}
  BY KeyboardAssumption
<1>2. CASE k = "PRTSC"
  <2>1. make_bytes(k) = <<E0, 42, E0, 55>> /\ break_bytes(k) = <<E0, 183, E0, 170>>
    BY <1>2 DEF make_bytes, break_bytes, Extended
  <2>2. {E0, 42, 55, 183, 170} \subseteq Byte
    BY CodesAreBytes
  <2>3. <<E0, 42, E0, 55>> \in Seq(Byte) /\ <<E0, 183, E0, 170>> \in Seq(Byte)
    BY <2>2, FourInSeq
  <2> QED  BY <2>1, <2>3
<1>3. CASE k = "PAUSE"
  <2>1. make_bytes(k) = <<E1, 29, 69, E1, 157, 197>> /\ break_bytes(k) = <<>>
    BY <1>3 DEF make_bytes, break_bytes, Extended
  <2>2. {E1, 29, 69, 157, 197} \subseteq Byte
    BY CodesAreBytes
  <2>3. <<E1, 29, 69, E1, 157, 197>> \in Seq(Byte)
    BY <2>2, SixInSeq
  <2>4. <<>> \in Seq(Byte)
    OBVIOUS
  <2> QED  BY <2>1, <2>3, <2>4
<1>4. CASE k \in DOMAIN code /\ k # "PRTSC" /\ k # "PAUSE"
  <2>1. make_bytes(k) = IF k \in Extended THEN <<E0, code[k]>> ELSE <<code[k]>>
    BY <1>4 DEF make_bytes
  <2>2. break_bytes(k) = IF k \in Extended THEN <<E0, code[k] + 128>>
                                           ELSE <<code[k] + 128>>
    BY <1>4 DEF break_bytes
  <2>3. code[k] \in Byte /\ code[k] + 128 \in Byte /\ E0 \in Byte
    BY <1>4, CodesAreBytes
  <2> QED  BY <2>1, <2>2, <2>3
<1> QED  BY <1>1, <1>2, <1>3, <1>4

-----------------------------------------------------------------------------
(* kb_buffer                                                               *)

KbInv == GoodRing(KB_IN_BYTES, Byte, kb_buffer) /\ wire \in Seq(Byte)

LEMMA KbInvInit == Init => KbInv /\ contents(KB_IN_BYTES, kb_buffer) = <<>>
<1> SUFFICES ASSUME Init PROVE KbInv /\ contents(KB_IN_BYTES, kb_buffer) = <<>>
  OBVIOUS
<1>1. kb_buffer = [buffer |-> [i \in 0..(KB_IN_BYTES - 1) |-> 30],
                   head |-> 0, tail |-> 0, count |-> 0] /\ wire = <<>>
  BY DEF Init, empty_ring
<1>2. 30 \in Byte
  BY CodesAreBytes
<1>3. GoodRing(KB_IN_BYTES, Byte, kb_buffer)
  BY <1>1, <1>2, Sizes DEF GoodRing, Rings, Consistent, wrapped
<1>4. contents(KB_IN_BYTES, kb_buffer) = <<>>
  <2>1. /\ contents(KB_IN_BYTES, kb_buffer) \in Seq(Byte)
        /\ Len(contents(KB_IN_BYTES, kb_buffer)) = 0
    BY <1>1, <1>3, Sizes, ContentsSeq
  <2> QED  BY <2>1
<1> QED  BY <1>1, <1>3, <1>4 DEF KbInv

\* a step of keyboard_read takes the oldest byte or none
LEMMA ReadTakes ==
    ASSUME keyboard_read
    PROVE  /\ wire' = wire
           /\ \/ kb_buffer' = kb_buffer
              \/ kb_buffer.count > 0 /\ kb_buffer' = taken(KB_IN_BYTES, kb_buffer)
BY DEF keyboard_read, read_nothing, read_first, read_pause, read_extended,
       read_print, get_byte, userVars

(***************************************************************************)
(* Each step keeps kb_buffer a good ring and does to its contents what the *)
(* queue allows.                                                           *)
(***************************************************************************)
LEMMA KbStep ==
    ASSUME KbInv, [Next]_vars
    PROVE  KbInv' /\ [Bytes!Next]_(contents(KB_IN_BYTES, kb_buffer))
<1> DEFINE c == contents(KB_IN_BYTES, kb_buffer)
<1> SUFFICES KbInv' /\ (Bytes!Next \/ c' = c)
  OBVIOUS
<1>1. CASE kb_buffer' = kb_buffer /\ wire' \in Seq(Byte)
  BY <1>1 DEF KbInv
<1>2. CASE keyboard_handler
  <2>1. /\ wire # <<>> /\ wire' = Tail(wire)
        /\ kb_buffer' = put(KB_IN_BYTES, kb_buffer, Head(wire))
    BY <1>2 DEF keyboard_handler
  <2>2. Head(wire) \in Byte /\ wire' \in Seq(Byte)
    BY <2>1 DEF KbInv
  <2>3. GoodRing(KB_IN_BYTES, Byte, kb_buffer)'
    BY <2>1, <2>2, Sizes, PutKeepsRing DEF KbInv
  <2>4. c' = IF Len(c) < KB_IN_BYTES THEN Append(c, Head(wire)) ELSE c
    BY <2>1, <2>2, Sizes, PutAppends DEF KbInv
  <2>5. Bytes!Put(Head(wire))
    BY <2>4 DEF Bytes!Put
  <2> QED  BY <2>2, <2>3, <2>5 DEF KbInv, Bytes!Next
<1>3. CASE keyboard_read
  <2>1. CASE kb_buffer' = kb_buffer
    BY <1>1, <1>3, <2>1, ReadTakes DEF KbInv
  <2>2. CASE kb_buffer.count > 0 /\ kb_buffer' = taken(KB_IN_BYTES, kb_buffer)
    <3>1. KbInv'
      BY <1>3, <2>2, Sizes, TakenKeepsRing, ReadTakes DEF KbInv
    <3>2. c # <<>> /\ c' = Tail(c)
      BY <2>2, Sizes, TakenIsTail DEF KbInv
    <3> QED  BY <3>1, <3>2 DEF Bytes!Next, Bytes!Take
  <2> QED  BY <1>3, <2>1, <2>2, ReadTakes
<1>4. CASE tty_do_write
  BY <1>1, <1>4 DEF tty_do_write, KbInv
<1>5. ASSUME NEW k \in Keys, press(k) \/ release(k)
      PROVE  kb_buffer' = kb_buffer /\ wire' \in Seq(Byte)
  BY <1>5, SequencesAreBytes DEF press, release
<1>6. CASE UNCHANGED vars
  BY <1>1, <1>6 DEF vars, KbInv
<1> QED  BY <1>1, <1>2, <1>3, <1>4, <1>5, <1>6 DEF Next

(***************************************************************************)
(* kb_buffer is a bounded first-in-first-out queue between the interrupt   *)
(* and task_tty: the pointer manipulation of interrupt.cc:171-181 and      *)
(* keyboard.cc:284-303 implements it for every size of the buffer.         *)
(***************************************************************************)
THEOREM KbBufferImplementsFifo == Spec => KbBufferIsFifo
<1>1. Init => Bytes!Init
  BY KbInvInit DEF Bytes!Init
<1>2. Init => KbInv
  BY KbInvInit
<1>3. KbInv /\ [Next]_vars => KbInv'
  BY KbStep
<1>4. KbInv /\ [Next]_vars => [Bytes!Next]_(contents(KB_IN_BYTES, kb_buffer))
  BY KbStep
<1> QED  BY <1>1, <1>2, <1>3, <1>4, PTL DEF Spec, KbBufferIsFifo, Bytes!Spec

-----------------------------------------------------------------------------
(* The terminals                                                           *)

\* in_buffer of terminal p_tty with a character put in
PutInto(c) == in_buffer' = [in_buffer EXCEPT ![p_tty] = put(TTY_IN_BYTES, @, c)]

PutsOrNot == in_buffer' = in_buffer \/ \E c \in Char : PutInto(c)

TtyTypes ==
    /\ p_tty \in Tty /\ current_console \in Tty
    /\ in_buffer \in [Tty -> Rings(TTY_IN_BYTES, Char)]
    /\ \A t \in Tty : GoodRing(TTY_IN_BYTES, Char, in_buffer[t])

LEMMA InProcessEffect ==
    ASSUME NEW key, NEW m, in_process(key, m), current_console \in Tty
    PROVE  PutsOrNot /\ current_console' \in Tty
<1>1. ASSUME NEW c \in Char, put_key(c) PROVE PutsOrNot /\ current_console' \in Tty
  BY <1>1 DEF put_key, PutsOrNot, PutInto
<1>2. ASSUME NEW t \in 0..2, select_console(t)
      PROVE  PutsOrNot /\ current_console' \in Tty
  <2>1. t % NR_CONSOLE \in 0..(NR_CONSOLE - 1)
    BY Sizes
  <2> QED  BY <1>2, <2>1 DEF select_console, PutsOrNot, Tty
<1>3. \A f \in DOMAIN console_of : console_of[f] \in 0..2
  BY DEF console_of
<1>4. "newline" \in Char /\ "rubout" \in Char
  BY DEF Char
<1>5. ASSUME NEW up, scroll_screen(up) PROVE PutsOrNot /\ current_console' \in Tty
  BY <1>5 DEF scroll_screen, PutsOrNot
<1>6. CASE UNCHANGED consoleVars
  BY <1>6 DEF consoleVars, PutsOrNot
<1>7. CASE key \in DOMAIN console_of /\ select_console(console_of[key])
  BY <1>2, <1>3, <1>7
<1>8. CASE key \in Char /\ put_key(key)
  BY <1>1, <1>8
<1>9. CASE put_key("newline") \/ put_key("rubout")
  BY <1>1, <1>4, <1>9
<1> QED  BY <1>5, <1>6, <1>7, <1>8, <1>9 DEF in_process

LEMMA ProcessEffect ==
    ASSUME NEW scan_code, NEW with_E0, process(scan_code, with_E0),
           current_console \in Tty
    PROVE  at' = "write" /\ PutsOrNot /\ current_console' \in Tty
<1>1. ASSUME NEW key, NEW m, in_process(key, m)
      PROVE  PutsOrNot /\ current_console' \in Tty
  BY <1>1, InProcessEffect
<1>2. CASE UNCHANGED consoleVars
  BY <1>2 DEF process, consoleVars, PutsOrNot
<1> QED  BY <1>1, <1>2 DEF process

LEMMA GotoEffect ==
    ASSUME NEW place, goto(place), current_console \in Tty
    PROVE  in_buffer' = in_buffer /\ current_console' \in Tty
BY DEF goto, consoleVars

LEMMA ReadEffect ==
    ASSUME keyboard_read, current_console \in Tty
    PROVE  /\ at # "write" /\ p_tty' = p_tty /\ current_console' \in Tty
           /\ in_buffer' = in_buffer \/ (PutsOrNot /\ at' = "write")
<1> DEFINE Goal == /\ at # "write" /\ current_console' \in Tty
                   /\ in_buffer' = in_buffer \/ (PutsOrNot /\ at' = "write")
<1>1. p_tty' = p_tty
  BY DEF keyboard_read
<1>2. ASSUME at # "write", NEW place, goto(place) PROVE Goal
  BY <1>2, GotoEffect
<1>3. ASSUME at # "write", NEW scan_code, NEW with_E0, process(scan_code, with_E0)
      PROVE  Goal
  BY <1>3, ProcessEffect
<1>4. ASSUME at # "write", UNCHANGED <<modifiers, consoleVars>> PROVE Goal
  BY <1>4 DEF consoleVars
<1> SUFFICES Goal
  BY <1>1
<1> HIDE DEF Goal
<1>5. CASE read_nothing
  <2>1. at # "write" /\ goto("write")
    BY <1>5 DEF read_nothing
  <2> QED  BY <1>2, <1>3, <1>4, <2>1
<1>6. CASE read_first
  <2>1. /\ at # "write"
        /\ \/ UNCHANGED <<modifiers, consoleVars>>
           \/ goto("extended")
           \/ \E b \in Byte : process(b, FALSE)
    BY <1>6 DEF read_first
  <2> QED  BY <1>2, <1>3, <1>4, <2>1
<1>7. CASE read_pause
  <2>1. at # "write" /\ (goto("write") \/ UNCHANGED <<modifiers, consoleVars>>)
    BY <1>7 DEF read_pause
  <2> QED  BY <1>2, <1>3, <1>4, <2>1
<1>8. CASE read_extended
  <2>1. /\ at # "write"
        /\ goto("print_down") \/ goto("print_up") \/ \E b \in Byte : process(b, TRUE)
    BY <1>8 DEF read_extended
  <2> QED  BY <1>2, <1>3, <1>4, <2>1
<1>9. ASSUME NEW place, NEW started, NEW ended, NEW scan_code,
             place # "write", started # "write",
             read_print(place, started, ended, scan_code)
      PROVE  Goal
  <2>1. /\ at # "write"
        /\ goto(started) \/ goto("write") \/ process(scan_code, TRUE)
    BY <1>9 DEF read_print
  <2> QED  BY <1>2, <1>3, <1>4, <2>1
<1> QED  BY <1>5, <1>6, <1>7, <1>8, <1>9 DEF keyboard_read

-----------------------------------------------------------------------------
TtyInv == TtyTypes /\ NothingLeftBehind

LEMMA TtyInvInit == Init => TtyInv
<1> SUFFICES ASSUME Init PROVE TtyInv
  OBVIOUS
<1>1. p_tty = 0 /\ current_console = 0 /\ 0 \in Tty
  BY Sizes DEF Init, Tty
<1>2. in_buffer = [t \in Tty |-> empty_ring(TTY_IN_BYTES, "nul")]
  BY DEF Init
<1>3. /\ GoodRing(TTY_IN_BYTES, Char, empty_ring(TTY_IN_BYTES, "nul"))
      /\ empty_ring(TTY_IN_BYTES, "nul").count = 0
  <2>1. "nul" \in Char
    BY DEF Char
  <2> QED  BY <2>1, Sizes DEF empty_ring, GoodRing, Rings, Consistent, wrapped
<1>4. TtyTypes
  BY <1>1, <1>2, <1>3 DEF TtyTypes, GoodRing
<1>5. NothingLeftBehind
  BY <1>2, <1>3 DEF NothingLeftBehind
<1> QED  BY <1>4, <1>5 DEF TtyInv

\* a character put into the empty buffer of p_tty is alone in it
LEMMA PutIntoEmpty ==
    ASSUME TtyTypes, NEW c \in Char, PutInto(c),
           \A t \in Tty : in_buffer[t].count = 0
    PROVE  /\ in_buffer' \in [Tty -> Rings(TTY_IN_BYTES, Char)]
           /\ \A t \in Tty : /\ GoodRing(TTY_IN_BYTES, Char, in_buffer'[t])
                             /\ in_buffer'[t].count > 0 =>
                                    in_buffer'[t].count = 1 /\ t = p_tty
<1> DEFINE r == in_buffer[p_tty]
           s == put(TTY_IN_BYTES, r, c)
<1>1. p_tty \in Tty /\ GoodRing(TTY_IN_BYTES, Char, r) /\ r.count = 0
  BY DEF TtyTypes
<1>2. GoodRing(TTY_IN_BYTES, Char, s)
  BY <1>1, Sizes, PutKeepsRing
<1>3. s.count = 1
  BY <1>1, Sizes DEF put
<1>4. s \in Rings(TTY_IN_BYTES, Char)
  BY <1>2 DEF GoodRing
<1>5. in_buffer' = [in_buffer EXCEPT ![p_tty] = s]
  BY DEF PutInto
<1> HIDE DEF s
<1> QED  BY <1>1, <1>2, <1>3, <1>4, <1>5 DEF TtyTypes

LEMMA TtyInvStep ==
    ASSUME TtyInv, [Next]_vars
    PROVE  TtyInv'
<1> USE DEF TtyInv
<1>1. CASE keyboard_read
  <2>1. /\ at # "write" /\ p_tty' = p_tty /\ current_console' \in Tty
        /\ in_buffer' = in_buffer \/ (PutsOrNot /\ at' = "write")
    BY <1>1, ReadEffect DEF TtyTypes
  <2>2. \A t \in Tty : in_buffer[t].count = 0
    <3>1. \A t \in Tty : in_buffer[t].count \in Nat
      BY DEF TtyTypes, Rings
    <3> QED  BY <2>1, <3>1 DEF NothingLeftBehind
  <2>3. CASE in_buffer' = in_buffer
    BY <2>1, <2>2, <2>3 DEF TtyTypes, NothingLeftBehind
  <2>4. ASSUME at' = "write", NEW c \in Char, PutInto(c) PROVE TtyInv'
    BY <2>1, <2>2, <2>4, PutIntoEmpty DEF TtyTypes, NothingLeftBehind
  <2> QED  BY <2>1, <2>3, <2>4 DEF PutsOrNot
<1>2. CASE tty_do_write
  <2>1. p_tty' \in Tty /\ current_console' = current_console
    BY <1>2 DEF tty_do_write, TtyTypes
  <2>2. CASE in_buffer[p_tty].count = 0
    <3>1. in_buffer' = in_buffer
      BY <1>2, <2>2 DEF tty_do_write
    <3>2. \A t \in Tty : ~(in_buffer[t].count > 0)
      BY <2>2 DEF NothingLeftBehind
    <3> QED  BY <2>1, <3>1, <3>2 DEF TtyTypes, NothingLeftBehind
  <2>3. CASE in_buffer[p_tty].count # 0
    <3> DEFINE r == in_buffer[p_tty]
               s == taken(TTY_IN_BYTES, r)
    <3>1. p_tty \in Tty /\ GoodRing(TTY_IN_BYTES, Char, r) /\ r.count \in Nat
      BY DEF TtyTypes, Rings
    <3>2. r.count = 1
      BY <2>3, <3>1 DEF NothingLeftBehind
    <3>3. GoodRing(TTY_IN_BYTES, Char, s)
      BY <3>1, <3>2, Sizes, TakenKeepsRing
    <3>4. s.count = 0
      BY <3>2 DEF taken
    <3>5. s \in Rings(TTY_IN_BYTES, Char)
      BY <3>3 DEF GoodRing
    <3>6. in_buffer' = [in_buffer EXCEPT ![p_tty] = s]
      BY <1>2, <2>3 DEF tty_do_write
    <3>7. \A t \in Tty : t # p_tty => ~(in_buffer[t].count > 0)
      BY DEF NothingLeftBehind
    <3> HIDE DEF s
    <3>8. TtyTypes'
      BY <2>1, <3>1, <3>3, <3>5, <3>6 DEF TtyTypes
    <3>9. NothingLeftBehind'
      BY <3>1, <3>4, <3>6, <3>7 DEF NothingLeftBehind, TtyTypes
    <3> QED  BY <3>8, <3>9
  <2> QED  BY <2>2, <2>3
<1>3. CASE UNCHANGED taskVars
  BY <1>3 DEF taskVars, consoleVars, TtyTypes, NothingLeftBehind
<1>4. CASE keyboard_handler
  BY <1>3, <1>4 DEF keyboard_handler
<1>5. ASSUME NEW k \in Keys, press(k) \/ release(k) PROVE TtyInv'
  BY <1>3, <1>5 DEF press, release
<1>6. CASE UNCHANGED vars
  BY <1>3, <1>6 DEF vars
<1> QED  BY <1>1, <1>2, <1>4, <1>5, <1>6 DEF Next

(***************************************************************************)
(* put_key never drops a character, and a switch of the console with the   *)
(* focus leaves none behind: whatever the sizes and the keys, a terminal   *)
(* holds at most the one character that task_tty is about to write.        *)
(***************************************************************************)
THEOREM NothingIsLeftBehind == Spec => []NothingLeftBehind
<1>1. TtyInv => NothingLeftBehind
  BY DEF TtyInv
<1> QED  BY <1>1, TtyInvInit, TtyInvStep, PTL DEF Spec

(***************************************************************************)
(* The rings stay rings, and task_tty and the focus stay on terminals,     *)
(* however many bytes are dropped, for every size of the buffers and every *)
(* number of terminals: put_key, get_byte_from_kbuf and keyboard_handler   *)
(* never leave their arrays, nor does select_console.                      *)
(***************************************************************************)
THEOREM RingsStayRings == Spec => []RingsOK
<1>1. KbInv /\ TtyInv => RingsOK
  BY DEF KbInv, TtyInv, TtyTypes, GoodRing, RingsOK
<1>2. Init => KbInv /\ TtyInv
  BY KbInvInit, TtyInvInit
<1>3. KbInv /\ TtyInv /\ [Next]_vars => KbInv' /\ TtyInv'
  BY KbStep, TtyInvStep
<1> QED  BY <1>1, <1>2, <1>3, PTL DEF Spec
-----------------------------------------------------------------------------
(* The screen                                                              *)

\* the console on view, and what a step of keyboard_read may do to it: a key
\* that moves the focus puts no character
OnView == DOMAIN current_addr = Tty /\ ScreenShowsFocus

ViewStep ==
    /\ OnView'
    /\ current_console' = current_console \/ in_buffer' = in_buffer

LEMMA InProcessShows ==
    ASSUME ConsoleForEveryKey, NEW key, NEW m, in_process(key, m),
           OnView, current_console \in Tty
    PROVE  ViewStep
<1> USE DEF ViewStep, OnView, ScreenShowsFocus
<1>1. ASSUME NEW c, put_key(c) PROVE ViewStep
  BY <1>1 DEF put_key
<1>2. ASSUME NEW f \in DOMAIN console_of, select_console(console_of[f]) PROVE ViewStep
  <2>1. console_of[f] \in Nat /\ console_of[f] < NR_CONSOLE
    <3>1. \A g \in DOMAIN console_of : console_of[g] \in Nat
      BY DEF console_of
    <3> QED  BY <3>1 DEF ConsoleForEveryKey
  <2>2. console_of[f] % NR_CONSOLE = console_of[f]
    BY <2>1, Sizes
  <2> QED  BY <1>2, <2>2 DEF select_console
<1>3. ASSUME NEW up, scroll_screen(up) PROVE ViewStep
  BY <1>3 DEF scroll_screen
<1>4. CASE UNCHANGED consoleVars
  BY <1>4 DEF consoleVars
<1> HIDE DEF ViewStep, OnView, ScreenShowsFocus
<1> QED  BY <1>1, <1>2, <1>3, <1>4 DEF in_process

LEMMA ReadShows ==
    ASSUME ConsoleForEveryKey, keyboard_read, OnView, current_console \in Tty
    PROVE  ViewStep
<1>1. CASE UNCHANGED consoleVars
  BY <1>1 DEF consoleVars, ViewStep, OnView, ScreenShowsFocus
<1>2. ASSUME NEW scan_code, NEW with_E0, process(scan_code, with_E0) PROVE ViewStep
  <2>1. ASSUME NEW key, NEW m, in_process(key, m) PROVE ViewStep
    BY <2>1, InProcessShows
  <2> QED  BY <1>1, <1>2, <2>1 DEF process
<1>3. ASSUME NEW place, goto(place) PROVE ViewStep
  BY <1>1, <1>3 DEF goto
<1>4. CASE read_nothing
  BY <1>3, <1>4 DEF read_nothing
<1>5. CASE read_first
  <2>1. \/ UNCHANGED <<modifiers, consoleVars>>
        \/ goto("extended")
        \/ \E b \in Byte : process(b, FALSE)
    BY <1>5 DEF read_first
  <2> QED  BY <1>1, <1>2, <1>3, <2>1
<1>6. CASE read_pause
  <2>1. goto("write") \/ UNCHANGED <<modifiers, consoleVars>>
    BY <1>6 DEF read_pause
  <2> QED  BY <1>1, <1>3, <2>1
<1>7. CASE read_extended
  <2>1. goto("print_down") \/ goto("print_up") \/ \E b \in Byte : process(b, TRUE)
    BY <1>7 DEF read_extended
  <2> QED  BY <1>2, <1>3, <2>1
<1>8. ASSUME NEW place, NEW started, NEW ended, NEW scan_code,
             read_print(place, started, ended, scan_code)
      PROVE  ViewStep
  <2>1. goto(started) \/ goto("write") \/ process(scan_code, TRUE)
    BY <1>8 DEF read_print
  <2> QED  BY <1>2, <1>3, <2>1
<1> QED  BY <1>4, <1>5, <1>6, <1>7, <1>8 DEF keyboard_read

LEMMA ReadKeepsFocus ==
    ASSUME keyboard_read, at' # "write"
    PROVE  UNCHANGED consoleVars
<1>1. ASSUME NEW scan_code, NEW with_E0, process(scan_code, with_E0) PROVE FALSE
  BY <1>1 DEF process
<1> QED  BY <1>1 DEF keyboard_read, read_nothing, read_first, read_pause, read_extended,
                     read_print, goto, get_byte

(***************************************************************************)
(* Why a late echo does not bring another console back: task_tty reads for *)
(* the terminal that has the focus, and only the read of a character that  *)
(* leaves the focus where it is has something to write.                    *)
(***************************************************************************)
ScreenInv ==
    /\ TtyInv /\ OnView
    /\ at # "write" => p_tty = current_console
    /\ in_buffer[p_tty].count > 0 => p_tty = current_console

LEMMA ScreenInvInit == Init => ScreenInv
<1> SUFFICES ASSUME Init PROVE ScreenInv
  OBVIOUS
<1>1. p_tty = 0 /\ current_console = 0 /\ 0 \in Tty
  BY Sizes DEF Init, Tty
<1>2. current_addr = [t \in Tty |-> v_mem_addr(t)] /\ video_addr = v_mem_addr(0)
  BY DEF Init
<1>3. OnView
  BY <1>1, <1>2 DEF OnView, ScreenShowsFocus
<1> QED  BY <1>1, <1>3, TtyInvInit DEF ScreenInv

LEMMA ScreenInvStep ==
    ASSUME ConsoleForEveryKey, ScreenInv, [Next]_vars
    PROVE  ScreenInv'
<1>1. TtyInv /\ TtyInv' /\ OnView
  BY TtyInvStep DEF ScreenInv
<1>2. CASE keyboard_read
  <2>1. current_console \in Tty /\ p_tty \in Tty
    BY <1>1 DEF TtyInv, TtyTypes
  <2>2. /\ at # "write" /\ p_tty' = p_tty
        /\ in_buffer' = in_buffer \/ at' = "write"
    BY <1>2, <2>1, ReadEffect
  <2>3. ViewStep
    BY <1>1, <1>2, <2>1, ReadShows
  <2>4. p_tty = current_console
    BY <2>2 DEF ScreenInv
  <2>5. ~(in_buffer[p_tty].count > 0)
    BY <1>1, <2>1, <2>2 DEF TtyInv, NothingLeftBehind
  <2>6. CASE current_console' = current_console
    BY <1>1, <2>2, <2>3, <2>4, <2>6 DEF ScreenInv, ViewStep
  <2>7. CASE in_buffer' = in_buffer /\ at' = "write"
    BY <1>1, <2>2, <2>3, <2>5, <2>7 DEF ScreenInv, ViewStep
  <2>8. CASE in_buffer' = in_buffer /\ at' # "write"
    <3>1. UNCHANGED current_console
      BY <1>2, <2>8, ReadKeepsFocus DEF consoleVars
    <3> QED  BY <2>6, <3>1
  <2> QED  BY <2>3, <2>6, <2>7, <2>8 DEF ViewStep
<1>3. CASE tty_do_write
  <2>1. /\ p_tty' = current_console /\ UNCHANGED <<current_console, current_addr>>
        /\ \/ UNCHANGED video_addr
           \/ in_buffer[p_tty].count # 0 /\ video_addr' = current_addr[p_tty]
    BY <1>3 DEF tty_do_write
  <2>2. in_buffer[p_tty].count \in Nat
    BY <1>1 DEF TtyInv, TtyTypes, Rings
  <2>3. in_buffer[p_tty].count # 0 => p_tty = current_console
    BY <2>2 DEF ScreenInv
  <2>4. OnView'
    BY <1>1, <2>1, <2>3 DEF OnView, ScreenShowsFocus
  <2> QED  BY <1>1, <2>1, <2>4 DEF ScreenInv
<1>4. CASE UNCHANGED taskVars
  BY <1>1, <1>4 DEF taskVars, consoleVars, ScreenInv, OnView, ScreenShowsFocus
<1>5. CASE keyboard_handler
  BY <1>4, <1>5 DEF keyboard_handler
<1>6. ASSUME NEW k \in Keys, press(k) \/ release(k) PROVE ScreenInv'
  BY <1>4, <1>6 DEF press, release
<1>7. CASE UNCHANGED vars
  BY <1>4, <1>7 DEF vars
<1> QED  BY <1>2, <1>3, <1>5, <1>6, <1>7 DEF Next

(***************************************************************************)
(* The VGA controller always shows the console that has the focus, with    *)
(* the consoles that const.h gives the function keys: whatever is typed,   *)
(* and however switches, scrolling and echoes follow one another.          *)
(***************************************************************************)
THEOREM FocusIsOnView ==
    ASSUME ConsoleForEveryKey
    PROVE  Spec => []ScreenShowsFocus
<1>1. ScreenInv => ScreenShowsFocus
  BY DEF ScreenInv, OnView
<1>2. ScreenInv /\ [Next]_vars => ScreenInv'
  BY ScreenInvStep
<1> QED  BY <1>1, <1>2, ScreenInvInit, PTL DEF Spec
-----------------------------------------------------------------------------
(***************************************************************************)
(* keyboard_read as a machine that reads a byte at a time.  A reader is    *)
(* what it remembers between two bytes, and the terminal that has the      *)
(* focus; After(r, b) is the reader that has read b, and Gives(r, b) what  *)
(* it has put into the terminal with that.                                 *)
(***************************************************************************)
Place == {"read", "pause", "extended", "print_down", "print_down_2",
          "print_up", "print_up_2"}

Reader == [at : Place, step : 1..5, mods : [Modifier -> BOOLEAN], on : Tty]

Chars == Seq(Tty \X Char)

ColumnOf(m, with_E0) == IF with_E0 THEN 3
                        ELSE IF m["shift_l"] \/ m["shift_r"] THEN 2 ELSE 1

KeyOf(m, c, with_E0) == keymap(c % 128)[ColumnOf(m, with_E0)]

ModsAfter(m, key, make) ==
    IF key \in DOMAIN slot THEN [m EXCEPT ![slot[key]] = make] ELSE m

FocusAfter(t, key, m) ==
    IF key \in DOMAIN console_of /\ (m["alt_l"] \/ m["alt_r"])
    THEN console_of[key] % NR_CONSOLE ELSE t

Given(t, key) == IF key \in Char THEN << <<t, key>> >>
                 ELSE IF key = "ENTER" THEN << <<t, "newline">> >>
                 ELSE IF key = "BACKSPACE" THEN << <<t, "rubout">> >>
                 ELSE <<>>

\* process(c, with_E0)
Processed(r, c, with_E0) ==
    LET key == KeyOf(r.mods, c, with_E0)
        m   == ModsAfter(r.mods, key, c < 128)
    IN  [at |-> "read", step |-> r.step, mods |-> m,
         on |-> IF c < 128 THEN FocusAfter(r.on, key, m) ELSE r.on]

ProcessedGives(r, c, with_E0) ==
    IF c < 128 THEN Given(r.on, KeyOf(r.mods, c, with_E0)) ELSE <<>>

\* does b end a key, and not lead on to another byte or end a sequence
Looks(r, b) ==
    \/ r.at = "read" /\ b \notin {E0, E1}
    \/ r.at = "extended" /\ b \notin {42, 183}
    \/ r.at \in {"print_down", "print_up"} /\ b # E0
    \/ r.at = "print_down_2" /\ b # 55
    \/ r.at = "print_up_2" /\ b # 170

Looked(r, b) == IF r.at \in {"print_down", "print_down_2"} THEN 42
                ELSE IF r.at \in {"print_up", "print_up_2"} THEN 183
                ELSE b

InPause(r, b) == b = pausebrk_scode[r.step] /\ r.step < 5

PlaceAfter(r, b) ==
    IF r.at = "read" THEN IF b = E1 THEN "pause" ELSE "extended"
    ELSE IF r.at = "pause" THEN IF InPause(r, b) THEN "pause" ELSE "read"
    ELSE IF r.at = "extended" THEN IF b = 42 THEN "print_down" ELSE "print_up"
    ELSE IF r.at = "print_down" THEN "print_down_2"
    ELSE IF r.at = "print_up" THEN "print_up_2"
    ELSE "read"

StepAfter(r, b) == IF r.at = "read" THEN IF b = E1 THEN 1 ELSE r.step
                   ELSE IF r.at = "pause" /\ InPause(r, b) THEN r.step + 1
                   ELSE r.step

Moved(r, place, i) == [at |-> place, step |-> i, mods |-> r.mods, on |-> r.on]

After(r, b) ==
    IF Looks(r, b) THEN Processed(r, Looked(r, b), r.at # "read")
    ELSE Moved(r, PlaceAfter(r, b), StepAfter(r, b))

Gives(r, b) ==
    IF Looks(r, b) THEN ProcessedGives(r, Looked(r, b), r.at # "read") ELSE <<>>

(***************************************************************************)
(* Reading the bytes s takes a reader from r to e and puts the characters  *)
(* d: run[i] is the reader that has read i of them, left[i] what the rest  *)
(* of them gives.                                                          *)
(***************************************************************************)
Reads(r, s, e, d) ==
    \E run \in [0..Len(s) -> Reader], left \in [0..Len(s) -> Chars] :
        /\ run[0] = r /\ run[Len(s)] = e
        /\ left[0] = d /\ left[Len(s)] = <<>>
        /\ \A i \in 1..Len(s) :
               /\ run[i] = After(run[i - 1], s[i])
               /\ left[i - 1] = Gives(run[i - 1], s[i]) \o left[i]

LEMMA CharsAssociate ==
    ASSUME NEW a \in Chars, NEW b \in Chars, NEW c \in Chars
    PROVE  (a \o b) \o c = a \o (b \o c)
<1> DEFINE T == Tty \X Char
<1>1. a \in Seq(T) /\ b \in Seq(T) /\ c \in Seq(T)
  BY DEF Chars
<1> HIDE DEF T
<1> QED  BY <1>1

LEMMA NamesTyped ==
    /\ \A key \in DOMAIN slot : slot[key] \in Modifier
    /\ \A key \in DOMAIN console_of : console_of[key] \in Nat
    /\ {"newline", "rubout"} \subseteq Char
    /\ \A b \in Byte : b \in Nat
<1>1. \A key \in DOMAIN slot : slot[key] \in Modifier
  BY DEF slot, Modifier
<1>2. \A key \in DOMAIN console_of : console_of[key] \in Nat
  BY DEF console_of
<1>3. {"newline", "rubout"} \subseteq Char
  BY DEF Char
<1>4. \A k \in DOMAIN code : code[k] \in Nat
  BY DEF code
<1>5. \A b \in Byte : b \in Nat
  BY <1>4 DEF Byte, E0, E1
<1> QED  BY <1>1, <1>2, <1>3, <1>5

LEMMA ProcessedTyped ==
    ASSUME NEW r \in Reader, NEW c \in Nat, NEW with_E0
    PROVE  Processed(r, c, with_E0) \in Reader /\ ProcessedGives(r, c, with_E0) \in Chars
<1> DEFINE key == KeyOf(r.mods, c, with_E0)
           m   == ModsAfter(r.mods, key, c < 128)
<1> HIDE DEF key
<1>1. m \in [Modifier -> BOOLEAN]
  BY NamesTyped DEF ModsAfter, Reader
<1> HIDE DEF m
<1>2. FocusAfter(r.on, key, m) \in Tty
  <2>1. r.on \in Tty
    BY DEF Reader
  <2>2. ASSUME key \in DOMAIN console_of PROVE console_of[key] % NR_CONSOLE \in Tty
    BY <2>2, NamesTyped, Sizes DEF Tty
  <2> QED  BY <2>1, <2>2 DEF FocusAfter
<1>3. Given(r.on, key) \in Chars
  <2>1. r.on \in Tty
    BY DEF Reader
  <2>2. ASSUME NEW x \in Char PROVE << <<r.on, x>> >> \in Chars
    BY <2>1 DEF Chars
  <2>3. <<>> \in Chars
    BY DEF Chars
  <2> QED  BY <2>2, <2>3, NamesTyped DEF Given
<1>4. Processed(r, c, with_E0) =
          [at |-> "read", step |-> r.step, mods |-> m,
           on |-> IF c < 128 THEN FocusAfter(r.on, key, m) ELSE r.on]
  BY DEF Processed, key, m
<1>5. Processed(r, c, with_E0) \in Reader
  BY <1>1, <1>2, <1>4 DEF Reader, Place
<1>6. ProcessedGives(r, c, with_E0) \in Chars
  <2>1. <<>> \in Chars
    BY DEF Chars
  <2> QED  BY <1>3, <2>1 DEF ProcessedGives, key
<1> QED  BY <1>5, <1>6

LEMMA AfterTyped ==
    ASSUME NEW r \in Reader, NEW b \in Byte
    PROVE  After(r, b) \in Reader /\ Gives(r, b) \in Chars
<1>1. CASE Looks(r, b)
  <2>1. Looked(r, b) \in Nat
    BY NamesTyped DEF Looked
  <2> QED  BY <1>1, <2>1, ProcessedTyped DEF After, Gives
<1>2. CASE ~Looks(r, b)
  <2>1. PlaceAfter(r, b) \in Place
    BY DEF PlaceAfter, Place
  <2>2. StepAfter(r, b) \in 1..5
    BY DEF StepAfter, InPause, Reader
  <2>3. After(r, b) = Moved(r, PlaceAfter(r, b), StepAfter(r, b))
    BY <1>2 DEF After
  <2>4. Gives(r, b) = <<>>
    BY <1>2 DEF Gives
  <2>5. <<>> \in Chars
    BY DEF Chars
  <2>6. After(r, b) \in Reader
    BY <2>1, <2>2, <2>3 DEF Reader, Moved
  <2> QED  BY <2>4, <2>5, <2>6
<1> QED  BY <1>1, <1>2
\* reading nothing
LEMMA ReadsNothing ==
    ASSUME NEW r \in Reader
    PROVE  Reads(r, <<>>, r, <<>>)
<1> DEFINE run  == [i \in 0..0 |-> r]
           left == [i \in 0..0 |-> <<>>]
<1>1. run \in [0..0 -> Reader] /\ left \in [0..0 -> Chars]
  BY DEF Chars
<1>2. run[0] = r /\ left[0] = <<>>
  OBVIOUS
<1>3. Len(<<>>) = 0
  OBVIOUS
<1> HIDE DEF run, left
<1> QED  BY <1>1, <1>2, <1>3 DEF Reads

LEMMA NothingRead ==
    ASSUME NEW r, NEW e, NEW d, Reads(r, <<>>, e, d)
    PROVE  e = r /\ d = <<>>
BY DEF Reads

\* the form in which the next two lemmas show that a reader reads
LEMMA ReadsThus ==
    ASSUME NEW s, NEW n, n = Len(s), NEW r, NEW e, NEW d,
           NEW run \in [0..n -> Reader], NEW left \in [0..n -> Chars],
           run[0] = r, run[n] = e, left[0] = d, left[n] = <<>>,
           \A i \in 1..n : /\ run[i] = After(run[i - 1], s[i])
                           /\ left[i - 1] = Gives(run[i - 1], s[i]) \o left[i]
    PROVE  Reads(r, s, e, d)
BY DEF Reads

LEMMA ReadsTyped ==
    ASSUME NEW s \in Seq(Byte), NEW r, NEW e, NEW d, Reads(r, s, e, d)
    PROVE  r \in Reader /\ e \in Reader /\ d \in Chars
BY DEF Reads

(***************************************************************************)
(* A byte more is read last: by the reader that has read the others, and   *)
(* what it gives comes last.                                               *)
(***************************************************************************)
LEMMA ReadsOneMore ==
    ASSUME NEW s \in Seq(Byte), NEW r, NEW e, NEW d, Reads(r, s, e, d),
           NEW b \in Byte
    PROVE  Reads(r, Append(s, b), After(e, b), d \o Gives(e, b))
<1>1. PICK run \in [0..Len(s) -> Reader], left \in [0..Len(s) -> Chars] :
        /\ run[0] = r /\ run[Len(s)] = e
        /\ left[0] = d /\ left[Len(s)] = <<>>
        /\ \A i \in 1..Len(s) :
               /\ run[i] = After(run[i - 1], s[i])
               /\ left[i - 1] = Gives(run[i - 1], s[i]) \o left[i]
  BY DEF Reads
<1> DEFINE n  == Len(s)
           t  == Append(s, b)
           g  == Gives(e, b)
           ru == [i \in 0..(n + 1) |-> IF i = n + 1 THEN After(e, b) ELSE run[i]]
           lg == [i \in 0..n |-> left[i] \o g]
           le == [i \in 0..(n + 1) |-> IF i = n + 1 THEN <<>> ELSE lg[i]]
<1>2. n \in Nat /\ e \in Reader
  BY <1>1
<1>3. After(e, b) \in Reader /\ g \in Chars
  BY <1>2, AfterTyped
<1>4. Len(t) = n + 1 /\ t[n + 1] = b /\ \A i \in 1..n : t[i] = s[i]
  OBVIOUS
<1> HIDE DEF n, t, g
<1>5. ru \in [0..(n + 1) -> Reader]
  BY <1>1, <1>2, <1>3 DEF n
<1>6. le \in [0..(n + 1) -> Chars]
  <2>1. \A i \in 0..n : left[i] \o g \in Chars
    BY <1>1, <1>3 DEF n, Chars
  <2>2. <<>> \in Chars
    BY DEF Chars
  <2>3. lg \in [0..n -> Chars]
    BY <2>1
  <2> HIDE DEF lg
  <2> QED  BY <1>2, <2>2, <2>3
<1>7. \A i \in 0..n : lg[i] = left[i] \o g
  OBVIOUS
<1> HIDE DEF lg
<1>8. ru[0] = r /\ ru[n + 1] = After(e, b)
  BY <1>1, <1>2
<1>9. le[0] = d \o g /\ le[n + 1] = <<>>
  <2>1. 0 \in 0..n /\ 0 # n + 1 /\ 0 \in 0..(n + 1) /\ n + 1 \in 0..(n + 1)
    BY <1>2
  <2>2. le[0] = lg[0] /\ le[n + 1] = <<>>
    BY <2>1
  <2> QED  BY <1>1, <1>7, <2>1, <2>2
<1>10. ASSUME NEW i \in 1..(n + 1)
       PROVE  /\ ru[i] = After(ru[i - 1], t[i])
              /\ le[i - 1] = Gives(ru[i - 1], t[i]) \o le[i]
  <2>1. CASE i = n + 1
    <3>1. ru[i - 1] = e /\ t[i] = b /\ ru[i] = After(e, b)
      BY <1>1, <1>2, <1>4, <2>1 DEF n
    <3>2. le[i - 1] = <<>> \o g /\ le[i] = <<>>
      <4>1. i - 1 = n /\ n \in 0..n /\ n # n + 1 /\ n \in 0..(n + 1)
        BY <1>2, <2>1
      <4>2. le[i - 1] = lg[n] /\ le[i] = <<>>
        BY <2>1, <4>1
      <4>3. lg[n] = left[n] \o g /\ left[n] = <<>>
        BY <1>1, <1>7, <4>1 DEF n
      <4> QED  BY <4>2, <4>3
    <3>3. <<>> \o g = g /\ g \o <<>> = g
      BY <1>3 DEF Chars
    <3> QED  BY <3>1, <3>2, <3>3 DEF g
  <2>2. CASE i # n + 1
    <3>1. i \in 1..n /\ i - 1 \in 0..n /\ i - 1 # n + 1 /\ i \in 0..n
      BY <1>2, <2>2
    <3>2. ru[i - 1] = run[i - 1] /\ ru[i] = run[i] /\ t[i] = s[i]
      BY <1>2, <1>4, <2>2, <3>1
    <3>3. run[i] = After(run[i - 1], s[i]) /\ left[i - 1] = Gives(run[i - 1], s[i]) \o left[i]
      BY <1>1, <3>1 DEF n
    <3>4. le[i - 1] = left[i - 1] \o g /\ le[i] = left[i] \o g
      <4>1. le[i - 1] = lg[i - 1] /\ le[i] = lg[i]
        BY <1>2, <2>2, <3>1
      <4> QED  BY <1>7, <3>1, <4>1
    <3>5. Gives(run[i - 1], s[i]) \in Chars /\ left[i] \in Chars
      <4>1. run[i - 1] \in Reader /\ s[i] \in Byte /\ left[i] \in Chars
        BY <1>1, <3>1 DEF n
      <4> QED  BY <4>1, AfterTyped
    <3> DEFINE gi == Gives(run[i - 1], s[i])
    <3> HIDE DEF gi
    <3>6. (gi \o left[i]) \o g = gi \o (left[i] \o g)
      <4> DEFINE li == left[i]
      <4>1. gi \in Chars /\ li \in Chars /\ g \in Chars
        BY <1>3, <3>5 DEF gi
      <4> HIDE DEF li
      <4>2. (gi \o li) \o g = gi \o (li \o g)
        BY <4>1, CharsAssociate
      <4> QED  BY <4>2 DEF li
    <3> HIDE DEF ru, le
    <3> QED  BY <3>2, <3>3, <3>4, <3>6 DEF gi
  <2> QED  BY <2>1, <2>2
<1> HIDE DEF ru, le
<1>11. Len(t) = n + 1
  BY <1>4
<1>12. Reads(r, t, After(e, b), d \o g)
  <2> DEFINE m == n + 1
  <2>1. m = Len(t) /\ ru \in [0..m -> Reader] /\ le \in [0..m -> Chars]
    BY <1>5, <1>6, <1>11
  <2>2. ru[0] = r /\ ru[m] = After(e, b) /\ le[0] = d \o g /\ le[m] = <<>>
    BY <1>8, <1>9
  <2>3. \A i \in 1..m : /\ ru[i] = After(ru[i - 1], t[i])
                         /\ le[i - 1] = Gives(ru[i - 1], t[i]) \o le[i]
    BY <1>10
  <2> HIDE DEF m
  <2> QED  BY <2>1, <2>2, <2>3, ReadsThus
<1> QED  BY <1>12 DEF t, g

(***************************************************************************)
(* The first byte is read first: the reader that has read it reads the     *)
(* rest, and what it gives comes before what they give.                    *)
(***************************************************************************)
LEMMA ReadsOneLess ==
    ASSUME NEW s \in Seq(Byte), s # <<>>, NEW r, NEW e, NEW d, Reads(r, s, e, d)
    PROVE  \E rest \in Chars : /\ Reads(After(r, Head(s)), Tail(s), e, rest)
                               /\ d = Gives(r, Head(s)) \o rest
<1>1. PICK run \in [0..Len(s) -> Reader], left \in [0..Len(s) -> Chars] :
        /\ run[0] = r /\ run[Len(s)] = e
        /\ left[0] = d /\ left[Len(s)] = <<>>
        /\ \A i \in 1..Len(s) :
               /\ run[i] = After(run[i - 1], s[i])
               /\ left[i - 1] = Gives(run[i - 1], s[i]) \o left[i]
  BY DEF Reads
<1> DEFINE n  == Len(s)
           t  == Tail(s)
           ru == [i \in 0..(n - 1) |-> run[i + 1]]
           le == [i \in 0..(n - 1) |-> left[i + 1]]
<1>2. n \in Nat /\ n > 0
  OBVIOUS
<1>3. Len(t) = n - 1 /\ Head(s) = s[1] /\ \A i \in 1..(n - 1) : t[i] = s[i + 1]
  OBVIOUS
<1> HIDE DEF n, t
<1>4. ru \in [0..(n - 1) -> Reader] /\ le \in [0..(n - 1) -> Chars]
  BY <1>1, <1>2 DEF n
<1>5. ru[0] = run[1] /\ ru[n - 1] = e /\ le[0] = left[1] /\ le[n - 1] = <<>>
  BY <1>1, <1>2 DEF n
<1>6. run[1] = After(r, Head(s)) /\ d = Gives(r, Head(s)) \o left[1]
  <2>1. 1 \in 1..Len(s) /\ 1 - 1 = 0
    BY <1>2 DEF n
  <2> QED  BY <1>1, <1>3, <2>1
<1>7. ASSUME NEW i \in 1..(n - 1)
      PROVE  /\ ru[i] = After(ru[i - 1], t[i])
             /\ le[i - 1] = Gives(ru[i - 1], t[i]) \o le[i]
  <2>1. i + 1 \in 1..Len(s) /\ i - 1 \in 0..(n - 1) /\ i \in 0..(n - 1)
    BY <1>2 DEF n
  <2>2. (i + 1) - 1 = i /\ (i - 1) + 1 = i
    OBVIOUS
  <2>3. ru[i - 1] = run[i] /\ ru[i] = run[i + 1] /\ le[i - 1] = left[i] /\ le[i] = left[i + 1]
    BY <2>1, <2>2
  <2>4. run[i + 1] = After(run[i], s[i + 1]) /\ left[i] = Gives(run[i], s[i + 1]) \o left[i + 1]
    BY <1>1, <2>1, <2>2
  <2>5. t[i] = s[i + 1]
    BY <1>3
  <2> HIDE DEF ru, le
  <2> QED  BY <2>3, <2>4, <2>5
<1> HIDE DEF ru, le
<1>8. Reads(After(r, Head(s)), t, e, left[1])
  <2> DEFINE m == n - 1
  <2>1. m = Len(t) /\ ru \in [0..m -> Reader] /\ le \in [0..m -> Chars]
    BY <1>3, <1>4
  <2>2. ru[0] = After(r, Head(s)) /\ ru[m] = e /\ le[0] = left[1] /\ le[m] = <<>>
    BY <1>5, <1>6
  <2>3. \A i \in 1..m : /\ ru[i] = After(ru[i - 1], t[i])
                         /\ le[i - 1] = Gives(ru[i - 1], t[i]) \o le[i]
    BY <1>7
  <2> HIDE DEF m
  <2> QED  BY <2>1, <2>2, <2>3, ReadsThus
<1>9. left[1] \in Chars
  BY <1>1, <1>2 DEF n
<1> QED  BY <1>6, <1>8, <1>9 DEF t

-----------------------------------------------------------------------------
(* A step of keyboard_read is a step of the reader                         *)

Now == [at |-> IF at = "write" THEN "read" ELSE at, step |-> step,
        mods |-> modifiers, on |-> current_console]

\* what has been put into a terminal and is not yet written
Gave == IF in_buffer[p_tty].count > 0
        THEN << <<p_tty, first(in_buffer[p_tty])>> >> ELSE <<>>

ReaderTypes ==
    /\ at \in Place \cup {"write"} /\ step \in 1..5
    /\ modifiers \in [Modifier -> BOOLEAN] /\ current_console \in Tty

\* nothing is waiting in a terminal, and task_tty serves the focus
Reading ==
    /\ ReaderTypes /\ TtyTypes
    /\ p_tty = current_console
    /\ \A t \in Tty : in_buffer[t].count = 0

LEMMA NowTyped == ASSUME ReaderTypes PROVE Now \in Reader
BY DEF Now, ReaderTypes, Reader, Place

LEMMA PutGives ==
    ASSUME Reading, NEW c \in Char, PutInto(c), p_tty' = p_tty
    PROVE  Gave' = << <<current_console, c>> >>
<1> DEFINE r == in_buffer[p_tty]
           s == put(TTY_IN_BYTES, r, c)
<1>1. p_tty \in Tty /\ GoodRing(TTY_IN_BYTES, Char, r) /\ r.count = 0
  BY DEF Reading, TtyTypes
<1>2. GoodRing(TTY_IN_BYTES, Char, s)
  BY <1>1, Sizes, PutKeepsRing
<1>3. s.count = 1
  BY <1>1, Sizes DEF put
<1>4. contents(TTY_IN_BYTES, s) = <<c>>
  <2>1. contents(TTY_IN_BYTES, r) = <<>>
    <3>1. contents(TTY_IN_BYTES, r) \in Seq(Char) /\ Len(contents(TTY_IN_BYTES, r)) = 0
      BY <1>1, Sizes, ContentsSeq
    <3> QED  BY <3>1
  <2>2. contents(TTY_IN_BYTES, s) = Append(<<>>, c)
    <3> DEFINE cr == contents(TTY_IN_BYTES, r)
    <3>1. r.count < TTY_IN_BYTES
      BY <1>1, Sizes
    <3>2. Append(cr, c) = Append(<<>>, c)
      BY <2>1
    <3> HIDE DEF r
    <3>3. contents(TTY_IN_BYTES, s) = Append(cr, c)
      BY <1>1, <3>1, Sizes, PutIntoRoom
    <3> QED  BY <3>2, <3>3
  <2> QED  BY <2>2
<1>5. first(s) = c
  <2>1. Head(contents(TTY_IN_BYTES, s)) = first(s)
    <3> HIDE DEF s
    <3> QED  BY <1>2, <1>3, Sizes, TakenIsTail
  <2> HIDE DEF s
  <2> QED  BY <1>4, <2>1
<1>6. in_buffer'[p_tty] = s
  <2>1. in_buffer' = [in_buffer EXCEPT ![p_tty] = s]
    BY DEF PutInto
  <2> HIDE DEF s
  <2> QED  BY <1>1, <2>1 DEF Reading, TtyTypes
<1> HIDE DEF s
<1>7. Gave' = << <<p_tty, first(in_buffer'[p_tty])>> >>
  BY <1>3, <1>6 DEF Gave
<1> QED  BY <1>5, <1>6, <1>7 DEF Reading

LEMMA KeyNames ==
    /\ DOMAIN console_of = {"F1", "F2", "F3"}
    /\ DOMAIN slot = {"SHIFT_L", "SHIFT_R", "CTRL_L", "CTRL_R", "ALT_L", "ALT_R"}
    /\ Char = {"a", "A", "*", "8", "2", "nul", "newline", "rubout"}
BY DEF console_of, slot, Char

LEMMA InProcessGives ==
    ASSUME Reading, p_tty' = p_tty, NEW key, NEW m, in_process(key, m)
    PROVE  /\ current_console' = FocusAfter(current_console, key, m)
           /\ Gave' = Given(current_console, key)
<1> DEFINE Goal == /\ current_console' = FocusAfter(current_console, key, m)
                   /\ Gave' = Given(current_console, key)
<1>1. Gave = <<>>
  BY DEF Gave, Reading, TtyTypes
<1>2. ASSUME in_buffer' = in_buffer PROVE Gave' = <<>>
  BY <1>1, <1>2 DEF Gave
<1>3. CASE key \in Char /\ put_key(key)
  <2>1. current_console' = current_console /\ PutInto(key)
    BY <1>3 DEF put_key, PutInto
  <2>2. Gave' = << <<current_console, key>> >>
    BY <1>3, <2>1, PutGives
  <2> QED  BY <1>3, <2>1, <2>2, KeyNames DEF FocusAfter, Given
<1>4. CASE key = "ENTER" /\ put_key("newline")
  <2>1. current_console' = current_console /\ PutInto("newline")
    BY <1>4 DEF put_key, PutInto
  <2>2. Gave' = << <<current_console, "newline">> >>
    BY <2>1, PutGives, KeyNames
  <2> QED  BY <1>4, <2>1, <2>2, KeyNames DEF FocusAfter, Given
<1>5. CASE key = "BACKSPACE" /\ put_key("rubout")
  <2>1. current_console' = current_console /\ PutInto("rubout")
    BY <1>5 DEF put_key, PutInto
  <2>2. Gave' = << <<current_console, "rubout">> >>
    BY <2>1, PutGives, KeyNames
  <2> QED  BY <1>5, <2>1, <2>2, KeyNames DEF FocusAfter, Given
<1>6. CASE key \in {"UP", "DOWN"} /\ scroll_screen(key = "UP")
  <2>1. current_console' = current_console /\ in_buffer' = in_buffer
    BY <1>6 DEF scroll_screen
  <2> QED  BY <1>2, <1>6, <2>1, KeyNames DEF FocusAfter, Given
<1>7. CASE /\ key \in DOMAIN console_of /\ (m["alt_l"] \/ m["alt_r"])
           /\ select_console(console_of[key])
  <2>1. current_console' = console_of[key] % NR_CONSOLE /\ in_buffer' = in_buffer
    BY <1>7 DEF select_console
  <2>2. current_console' = FocusAfter(current_console, key, m)
    BY <1>7, <2>1 DEF FocusAfter
  <2>3. Given(current_console, key) = <<>>
    BY <1>7, KeyNames DEF Given
  <2> QED  BY <1>2, <2>1, <2>2, <2>3
<1>8. CASE /\ key \notin Char \cup {"ENTER", "BACKSPACE"}
           /\ ~(key \in DOMAIN console_of /\ (m["alt_l"] \/ m["alt_r"]))
           /\ UNCHANGED consoleVars
  <2>1. current_console' = current_console /\ in_buffer' = in_buffer
    BY <1>8 DEF consoleVars
  <2> QED  BY <1>2, <1>8, <2>1 DEF FocusAfter, Given
<1> HIDE DEF Goal
<1> QED
  <2>1. Goal
    BY <1>3, <1>4, <1>5, <1>6, <1>7, <1>8 DEF Goal, in_process
  <2> QED  BY <2>1 DEF Goal

\* goto(place) and the other steps that only move the reader
LEMMA GotoMoves ==
    ASSUME Reading, p_tty' = p_tty, UNCHANGED <<modifiers, consoleVars>>,
           NEW place, place = IF at' = "write" THEN "read" ELSE at',
           NEW i, i = step'
    PROVE  /\ Now' = Moved(Now, place, i)
           /\ Gave' = <<>>
<1>1. /\ modifiers' = modifiers /\ current_console' = current_console
      /\ in_buffer' = in_buffer
  BY DEF consoleVars
<1>2. Gave' = <<>>
  BY <1>1 DEF Gave, Reading, TtyTypes
<1>3. Now' = Moved(Now, place, i)
  BY <1>1 DEF Now, Moved
<1> QED  BY <1>2, <1>3

LEMMA ProcessIsProcessed ==
    ASSUME Reading, p_tty' = p_tty, NEW c, NEW with_E0 \in BOOLEAN,
           process(c, with_E0)
    PROVE  Now' = Processed(Now, c, with_E0) /\ Gave' = ProcessedGives(Now, c, with_E0)
<1> DEFINE key == KeyOf(modifiers, c, with_E0)
           m   == ModsAfter(modifiers, key, c < 128)
<1>1. column(with_E0) = ColumnOf(modifiers, with_E0)
  BY DEF column, ColumnOf
<1>2. /\ modifiers' = m /\ step' = step /\ at' = "write"
      /\ IF c < 128 THEN in_process(key, m) ELSE UNCHANGED consoleVars
  BY <1>1 DEF process, KeyOf, ModsAfter
<1>3. Now.mods = modifiers /\ Now.on = current_console /\ Now.step = step
  BY DEF Now
<1>4. Processed(Now, c, with_E0) =
          [at |-> "read", step |-> step, mods |-> m,
           on |-> IF c < 128 THEN FocusAfter(current_console, key, m) ELSE current_console]
  BY <1>3 DEF Processed
<1>5. ProcessedGives(Now, c, with_E0) =
          IF c < 128 THEN Given(current_console, key) ELSE <<>>
  BY <1>3 DEF ProcessedGives
<1>6. Now' = [at |-> "read", step |-> step, mods |-> m, on |-> current_console']
  BY <1>2 DEF Now
<1> HIDE DEF key, m
<1>7. CASE c < 128
  <2>1. /\ current_console' = FocusAfter(current_console, key, m)
        /\ Gave' = Given(current_console, key)
    BY <1>2, <1>7, InProcessGives
  <2> QED  BY <1>4, <1>5, <1>6, <1>7, <2>1
<1>8. CASE ~(c < 128)
  <2>1. current_console' = current_console /\ in_buffer' = in_buffer
    BY <1>2, <1>8 DEF consoleVars
  <2>2. Gave' = <<>>
    BY <2>1 DEF Gave, Reading, TtyTypes
  <2> QED  BY <1>4, <1>5, <1>6, <1>8, <2>1, <2>2
<1> QED  BY <1>7, <1>8

(***************************************************************************)
(* Each step of keyboard_read that takes a byte is the step of the reader  *)
(* for that byte; the one that finds no byte changes neither.              *)
(***************************************************************************)
LEMMA ReadIsAfter ==
    ASSUME Reading, keyboard_read
    PROVE  \/ kb_buffer' = kb_buffer /\ Now' = Now /\ Gave' = <<>>
           \/ /\ kb_buffer.count > 0
              /\ kb_buffer' = taken(KB_IN_BYTES, kb_buffer)
              /\ first(kb_buffer) \in Byte
              /\ Now' = After(Now, first(kb_buffer))
              /\ Gave' = Gives(Now, first(kb_buffer))
<1> DEFINE b == first(kb_buffer)
           Goal == Now' = After(Now, b) /\ Gave' = Gives(Now, b)
<1>1. p_tty' = p_tty
  BY DEF keyboard_read
<1>2. at # "write" => Now.at = at
  BY DEF Now
<1>3. Now.step = step
  BY DEF Now
<1>4. ASSUME NEW c, NEW with_E0 \in BOOLEAN, process(c, with_E0),
             Looks(Now, b), c = Looked(Now, b), with_E0 = (Now.at # "read")
      PROVE  Goal
  BY <1>1, <1>4, ProcessIsProcessed DEF After, Gives
<1>5. ASSUME NEW c, process(c, TRUE), Looks(Now, b), c = Looked(Now, b), Now.at # "read"
     PROVE  Goal
  <2>1. TRUE = (Now.at # "read")
    BY <1>5
  <2> HIDE DEF Goal
  <2> QED  BY <1>4, <1>5, <2>1
<1>6. ASSUME UNCHANGED <<modifiers, consoleVars>>, ~Looks(Now, b), NEW place,
             place = PlaceAfter(Now, b), place = IF at' = "write" THEN "read" ELSE at',
             step' = StepAfter(Now, b)
      PROVE  Goal
  <2>1. Gives(Now, b) = <<>>
    BY <1>6 DEF Gives
  <2>2. After(Now, b) = Moved(Now, place, StepAfter(Now, b))
    BY <1>6 DEF After
  <2>3. Now' = Moved(Now, place, StepAfter(Now, b)) /\ Gave' = <<>>
    BY <1>1, <1>6, GotoMoves
  <2> QED  BY <2>1, <2>2, <2>3
<1> HIDE DEF Goal
<1>7. CASE read_nothing
  <2>1. /\ kb_buffer' = kb_buffer /\ at = "read" /\ at' = "write" /\ step' = step
        /\ UNCHANGED <<modifiers, consoleVars>>
    BY <1>7 DEF read_nothing, goto
  <2>2. /\ modifiers' = modifiers /\ current_console' = current_console
        /\ in_buffer' = in_buffer
    BY <2>1 DEF consoleVars
  <2>3. Now' = Now
    BY <2>1, <2>2 DEF Now
  <2>4. Gave' = <<>>
    BY <1>1, <2>2 DEF Gave, Reading, TtyTypes
  <2> QED  BY <2>1, <2>3, <2>4
<1>8. CASE read_first
  <2>1. /\ at = "read" /\ get_byte(b) /\ b \in Byte
        /\ CASE b = E1 -> at' = "pause" /\ step' = 1 /\ UNCHANGED <<modifiers, consoleVars>>
             [] b = E0 -> goto("extended")
             [] OTHER  -> process(b, FALSE)
    BY <1>8 DEF read_first, get_byte
  <2>2. E0 # E1 /\ Now.at = "read"
    BY <1>2, <2>1 DEF E0, E1
  <2>3. ASSUME b = E1 PROVE Goal
    <3>1. at' = "pause" /\ step' = 1 /\ UNCHANGED <<modifiers, consoleVars>>
      BY <2>1, <2>2, <2>3
    <3>2. ~Looks(Now, b) /\ PlaceAfter(Now, b) = "pause" /\ StepAfter(Now, b) = 1
      BY <2>2, <2>3 DEF Looks, PlaceAfter, StepAfter
    <3> QED  BY <1>6, <3>1, <3>2
  <2>4. ASSUME b = E0 PROVE Goal
    <3>1. at' = "extended" /\ step' = step /\ UNCHANGED <<modifiers, consoleVars>>
      BY <2>1, <2>2, <2>4 DEF goto
    <3>2. ~Looks(Now, b) /\ PlaceAfter(Now, b) = "extended" /\ StepAfter(Now, b) = step
      BY <1>3, <2>2, <2>4 DEF Looks, PlaceAfter, StepAfter
    <3> QED  BY <1>6, <3>1, <3>2
  <2>5. ASSUME b \notin {E0, E1} PROVE Goal
    <3>1. process(b, FALSE)
      BY <2>1, <2>5
    <3>2. Looks(Now, b) /\ Looked(Now, b) = b /\ FALSE = (Now.at # "read")
      BY <2>2, <2>5 DEF Looks, Looked
    <3> QED  BY <1>4, <3>1, <3>2
  <2>6. Goal
    BY <2>3, <2>4, <2>5
  <2> QED  BY <2>1, <2>6 DEF get_byte, Goal
<1>9. CASE read_pause
  <2>1. /\ at = "pause" /\ get_byte(b) /\ b \in Byte
        /\ IF b = pausebrk_scode[step] /\ step < 5
           THEN step' = step + 1 /\ UNCHANGED <<at, modifiers, consoleVars>>
           ELSE goto("write")
    BY <1>9 DEF read_pause, get_byte
  <2>2. Now.at = "pause" /\ ~Looks(Now, b)
    BY <1>2, <2>1 DEF Looks
  <2>3. ASSUME InPause(Now, b) PROVE Goal
    <3>1. at' = "pause" /\ step' = step + 1 /\ UNCHANGED <<modifiers, consoleVars>>
      BY <1>3, <2>1, <2>3 DEF InPause
    <3>2. PlaceAfter(Now, b) = "pause" /\ StepAfter(Now, b) = step + 1
      BY <1>3, <2>2, <2>3 DEF PlaceAfter, StepAfter
    <3> QED  BY <1>6, <2>2, <3>1, <3>2
  <2>4. ASSUME ~InPause(Now, b) PROVE Goal
    <3>1. at' = "write" /\ step' = step /\ UNCHANGED <<modifiers, consoleVars>>
      BY <1>3, <2>1, <2>4 DEF InPause, goto
    <3>2. PlaceAfter(Now, b) = "read" /\ StepAfter(Now, b) = step
      BY <1>3, <2>2, <2>4 DEF PlaceAfter, StepAfter
    <3> QED  BY <1>6, <2>2, <3>1, <3>2
  <2>5. Goal
    BY <2>3, <2>4
  <2> QED  BY <2>1, <2>5 DEF get_byte, Goal
<1>10. CASE read_extended
  <2>1. /\ at = "extended" /\ get_byte(b) /\ b \in Byte
        /\ CASE b = 42  -> goto("print_down")
             [] b = 183 -> goto("print_up")
             [] OTHER   -> process(b, TRUE)
    BY <1>10 DEF read_extended, get_byte
  <2>2. Now.at = "extended"
    BY <1>2, <2>1
  <2>3. ASSUME b = 42 PROVE Goal
    <3>1. at' = "print_down" /\ step' = step /\ UNCHANGED <<modifiers, consoleVars>>
      BY <2>1, <2>3 DEF goto
    <3>2. ~Looks(Now, b) /\ PlaceAfter(Now, b) = "print_down" /\ StepAfter(Now, b) = step
      BY <1>3, <2>2, <2>3 DEF Looks, PlaceAfter, StepAfter
    <3> QED  BY <1>6, <3>1, <3>2
  <2>4. ASSUME b = 183 PROVE Goal
    <3>1. at' = "print_up" /\ step' = step /\ UNCHANGED <<modifiers, consoleVars>>
      BY <2>1, <2>4 DEF goto
    <3>2. ~Looks(Now, b) /\ PlaceAfter(Now, b) = "print_up" /\ StepAfter(Now, b) = step
      BY <1>3, <2>2, <2>4 DEF Looks, PlaceAfter, StepAfter
    <3> QED  BY <1>6, <3>1, <3>2
  <2>5. ASSUME b \notin {42, 183} PROVE Goal
    <3>1. process(b, TRUE)
      BY <2>1, <2>5
    <3>2. Looks(Now, b) /\ Looked(Now, b) = b /\ Now.at # "read"
      BY <2>2, <2>5 DEF Looks, Looked
    <3> QED  BY <1>5, <3>1, <3>2
  <2>6. Goal
    BY <2>3, <2>4, <2>5
  <2> QED  BY <2>1, <2>6 DEF get_byte, Goal
<1>11. CASE read_print("print_down", "print_down_2", 55, 42)
  <2>1. /\ get_byte(b) /\ b \in Byte
        /\ \/ at = "print_down" /\ b = E0 /\ goto("print_down_2")
           \/ at = "print_down_2" /\ b = 55 /\ goto("write")
           \/ /\ (at = "print_down" /\ b # E0) \/ (at = "print_down_2" /\ b # 55)
              /\ process(42, TRUE)
    BY <1>11 DEF read_print, get_byte
  <2>2. at # "write" /\ Now.at = at
    BY <1>2, <2>1
  <2>3. ASSUME at = "print_down", b = E0, goto("print_down_2") PROVE Goal
    <3>1. at' = "print_down_2" /\ step' = step /\ UNCHANGED <<modifiers, consoleVars>>
      BY <2>3 DEF goto
    <3>2. ~Looks(Now, b) /\ PlaceAfter(Now, b) = "print_down_2" /\ StepAfter(Now, b) = step
      BY <1>3, <2>2, <2>3 DEF Looks, PlaceAfter, StepAfter
    <3> QED  BY <1>6, <3>1, <3>2
  <2>4. ASSUME at = "print_down_2", b = 55, goto("write") PROVE Goal
    <3>1. at' = "write" /\ step' = step /\ UNCHANGED <<modifiers, consoleVars>>
      BY <2>4 DEF goto
    <3>2. ~Looks(Now, b) /\ PlaceAfter(Now, b) = "read" /\ StepAfter(Now, b) = step
      BY <1>3, <2>2, <2>4 DEF Looks, PlaceAfter, StepAfter
    <3> QED  BY <1>6, <3>1, <3>2
  <2>5. ASSUME (at = "print_down" /\ b # E0) \/ (at = "print_down_2" /\ b # 55),
               process(42, TRUE)
        PROVE  Goal
    <3>1. Looks(Now, b) /\ 42 = Looked(Now, b) /\ Now.at # "read"
      BY <2>2, <2>5 DEF Looks, Looked
    <3>2. process(42, TRUE)
      BY <2>5
    <3> QED  BY <1>5, <3>1, <3>2
  <2>6. Goal
    BY <2>1, <2>3, <2>4, <2>5
  <2> QED  BY <2>1, <2>6 DEF get_byte, Goal
<1>12. CASE read_print("print_up", "print_up_2", 170, 183)
  <2>1. /\ get_byte(b) /\ b \in Byte
        /\ \/ at = "print_up" /\ b = E0 /\ goto("print_up_2")
           \/ at = "print_up_2" /\ b = 170 /\ goto("write")
           \/ /\ (at = "print_up" /\ b # E0) \/ (at = "print_up_2" /\ b # 170)
              /\ process(183, TRUE)
    BY <1>12 DEF read_print, get_byte
  <2>2. at # "write" /\ Now.at = at
    BY <1>2, <2>1
  <2>3. ASSUME at = "print_up", b = E0, goto("print_up_2") PROVE Goal
    <3>1. at' = "print_up_2" /\ step' = step /\ UNCHANGED <<modifiers, consoleVars>>
      BY <2>3 DEF goto
    <3>2. ~Looks(Now, b) /\ PlaceAfter(Now, b) = "print_up_2" /\ StepAfter(Now, b) = step
      BY <1>3, <2>2, <2>3 DEF Looks, PlaceAfter, StepAfter
    <3> QED  BY <1>6, <3>1, <3>2
  <2>4. ASSUME at = "print_up_2", b = 170, goto("write") PROVE Goal
    <3>1. at' = "write" /\ step' = step /\ UNCHANGED <<modifiers, consoleVars>>
      BY <2>4 DEF goto
    <3>2. ~Looks(Now, b) /\ PlaceAfter(Now, b) = "read" /\ StepAfter(Now, b) = step
      BY <1>3, <2>2, <2>4 DEF Looks, PlaceAfter, StepAfter
    <3> QED  BY <1>6, <3>1, <3>2
  <2>5. ASSUME (at = "print_up" /\ b # E0) \/ (at = "print_up_2" /\ b # 170),
               process(183, TRUE)
        PROVE  Goal
    <3>1. Looks(Now, b) /\ 183 = Looked(Now, b) /\ Now.at # "read"
      BY <2>2, <2>5 DEF Looks, Looked
    <3>2. process(183, TRUE)
      BY <2>5
    <3> QED  BY <1>5, <3>1, <3>2
  <2>6. Goal
    BY <2>1, <2>3, <2>4, <2>5
  <2> QED  BY <2>1, <2>6 DEF get_byte, Goal
<1> QED  BY <1>7, <1>8, <1>9, <1>10, <1>11, <1>12 DEF keyboard_read

-----------------------------------------------------------------------------
(* The keys                                                                *)

\* one Alt key is used, of the two that share alt_l
OneAlt == ~({"LALT", "RALT"} \subseteq Keys)

\* the modifiers a reader keeps are those that are down
Agrees(m, h) ==
    /\ m["shift_l"] <=> "LSHIFT" \in h
    /\ m["shift_r"] <=> "RSHIFT" \in h
    /\ m["ctrl_l"]  <=> "LCTRL" \in h
    /\ m["ctrl_r"]  <=> "RCTRL" \in h
    /\ ~m["alt_r"]
    /\ OneAlt => (m["alt_l"] <=> h \cap {"LALT", "RALT"} # {})

\* the entry of keymap for a key, whatever its column
KeyName == [LSHIFT |-> "SHIFT_L", RSHIFT |-> "SHIFT_R", LCTRL |-> "CTRL_L",
            RCTRL |-> "CTRL_R", LALT |-> "ALT_L", RALT |-> "ALT_R",
            ENTER |-> "ENTER", BS |-> "BACKSPACE", UP |-> "UP", DOWN |-> "DOWN",
            F1 |-> "F1", F2 |-> "F2", F3 |-> "F3"]

LEMMA CodeFacts ==
    /\ DOMAIN code = DOMAIN KeyName \cup {"A"}
    /\ DOMAIN KeyName = {"LSHIFT", "RSHIFT", "LCTRL", "RCTRL", "LALT", "RALT", "ENTER",
                         "BS", "UP", "DOWN", "F1", "F2", "F3"}
    /\ \A k \in DOMAIN code : code[k] \in 14..80
    /\ \A k \in Extended : k \in DOMAIN code /\ code[k] # 42 /\ code[k] + 128 # 183
    /\ code["A"] = 30 /\ "A" \notin Extended
<1>1. DOMAIN code = DOMAIN KeyName \cup {"A"}
  BY DEF code, KeyName
<1>2. DOMAIN KeyName = {"LSHIFT", "RSHIFT", "LCTRL", "RCTRL", "LALT", "RALT", "ENTER",
                        "BS", "UP", "DOWN", "F1", "F2", "F3"}
  BY DEF KeyName
<1>3. \A k \in DOMAIN code : code[k] \in 14..80
  BY DEF code
<1>4. \A k \in Extended : k \in DOMAIN code /\ code[k] # 42 /\ code[k] + 128 # 183
  BY DEF code, Extended
<1>5. code["A"] = 30 /\ "A" \notin Extended
  BY DEF code, Extended
<1> QED  BY <1>1, <1>2, <1>3, <1>4, <1>5

LEMMA KeymapRows ==
    /\ keymap(14) = <<"BACKSPACE", "BACKSPACE", "nul">>
    /\ keymap(28) = <<"ENTER", "ENTER", "PAD_ENTER">>
    /\ keymap(29) = <<"CTRL_L", "CTRL_L", "CTRL_R">>
    /\ keymap(42) = <<"SHIFT_L", "SHIFT_L", "nul">>
    /\ keymap(54) = <<"SHIFT_R", "SHIFT_R", "nul">>
    /\ keymap(56) = <<"ALT_L", "ALT_L", "ALT_R">>
    /\ keymap(59) = <<"F1", "F1", "nul">>
    /\ keymap(60) = <<"F2", "F2", "nul">>
    /\ keymap(61) = <<"F3", "F3", "nul">>
    /\ keymap(72) = <<"PAD_UP", "8", "UP">>
    /\ keymap(80) = <<"PAD_DOWN", "2", "DOWN">>
<1>1. keymap(14) = <<"BACKSPACE", "BACKSPACE", "nul">>
  BY DEF keymap
<1>2. keymap(28) = <<"ENTER", "ENTER", "PAD_ENTER">>
  BY DEF keymap
<1>3. keymap(29) = <<"CTRL_L", "CTRL_L", "CTRL_R">>
  BY DEF keymap
<1>4. keymap(42) = <<"SHIFT_L", "SHIFT_L", "nul">>
  BY DEF keymap
<1>5. keymap(54) = <<"SHIFT_R", "SHIFT_R", "nul">>
  BY DEF keymap
<1>6. keymap(56) = <<"ALT_L", "ALT_L", "ALT_R">>
  BY DEF keymap
<1>7. keymap(59) = <<"F1", "F1", "nul">>
  BY DEF keymap
<1>8. keymap(60) = <<"F2", "F2", "nul">>
  BY DEF keymap
<1>9. keymap(61) = <<"F3", "F3", "nul">>
  BY DEF keymap
<1>10. keymap(72) = <<"PAD_UP", "8", "UP">>
  BY DEF keymap
<1>11. keymap(80) = <<"PAD_DOWN", "2", "DOWN">>
  BY DEF keymap
<1> QED  BY <1>1, <1>2, <1>3, <1>4, <1>5, <1>6, <1>7, <1>8, <1>9, <1>10, <1>11

LEMMA ColumnsOfKey ==
    ASSUME NEW k \in DOMAIN KeyName
    PROVE  /\ k \in Extended => keymap(code[k])[3] = KeyName[k]
           /\ k \notin Extended => /\ keymap(code[k])[1] = KeyName[k]
                                  /\ keymap(code[k])[2] = KeyName[k]
<1>1. CASE k = "LSHIFT"
  <2>1. code[k] = 42 /\ KeyName[k] = "SHIFT_L" /\ k \notin Extended
    BY <1>1 DEF code, KeyName, Extended
  <2> QED  BY <2>1, KeymapRows
<1>2. CASE k = "RSHIFT"
  <2>1. code[k] = 54 /\ KeyName[k] = "SHIFT_R" /\ k \notin Extended
    BY <1>2 DEF code, KeyName, Extended
  <2> QED  BY <2>1, KeymapRows
<1>3. CASE k = "LCTRL"
  <2>1. code[k] = 29 /\ KeyName[k] = "CTRL_L" /\ k \notin Extended
    BY <1>3 DEF code, KeyName, Extended
  <2> QED  BY <2>1, KeymapRows
<1>4. CASE k = "RCTRL"
  <2>1. code[k] = 29 /\ KeyName[k] = "CTRL_R" /\ k \in Extended
    BY <1>4 DEF code, KeyName, Extended
  <2> QED  BY <2>1, KeymapRows
<1>5. CASE k = "LALT"
  <2>1. code[k] = 56 /\ KeyName[k] = "ALT_L" /\ k \notin Extended
    BY <1>5 DEF code, KeyName, Extended
  <2> QED  BY <2>1, KeymapRows
<1>6. CASE k = "RALT"
  <2>1. code[k] = 56 /\ KeyName[k] = "ALT_R" /\ k \in Extended
    BY <1>6 DEF code, KeyName, Extended
  <2> QED  BY <2>1, KeymapRows
<1>7. CASE k = "ENTER"
  <2>1. code[k] = 28 /\ KeyName[k] = "ENTER" /\ k \notin Extended
    BY <1>7 DEF code, KeyName, Extended
  <2> QED  BY <2>1, KeymapRows
<1>8. CASE k = "BS"
  <2>1. code[k] = 14 /\ KeyName[k] = "BACKSPACE" /\ k \notin Extended
    BY <1>8 DEF code, KeyName, Extended
  <2> QED  BY <2>1, KeymapRows
<1>9. CASE k = "UP"
  <2>1. code[k] = 72 /\ KeyName[k] = "UP" /\ k \in Extended
    BY <1>9 DEF code, KeyName, Extended
  <2> QED  BY <2>1, KeymapRows
<1>10. CASE k = "DOWN"
  <2>1. code[k] = 80 /\ KeyName[k] = "DOWN" /\ k \in Extended
    BY <1>10 DEF code, KeyName, Extended
  <2> QED  BY <2>1, KeymapRows
<1>11. CASE k = "F1"
  <2>1. code[k] = 59 /\ KeyName[k] = "F1" /\ k \notin Extended
    BY <1>11 DEF code, KeyName, Extended
  <2> QED  BY <2>1, KeymapRows
<1>12. CASE k = "F2"
  <2>1. code[k] = 60 /\ KeyName[k] = "F2" /\ k \notin Extended
    BY <1>12 DEF code, KeyName, Extended
  <2> QED  BY <2>1, KeymapRows
<1>13. CASE k = "F3"
  <2>1. code[k] = 61 /\ KeyName[k] = "F3" /\ k \notin Extended
    BY <1>13 DEF code, KeyName, Extended
  <2> QED  BY <2>1, KeymapRows
<1> QED
  BY <1>1, <1>2, <1>3, <1>4, <1>5, <1>6, <1>7, <1>8, <1>9, <1>10, <1>11, <1>12, <1>13, CodeFacts

LEMMA KeyOfKey ==
    ASSUME NEW k \in DOMAIN KeyName, NEW m, NEW with_E0 \in BOOLEAN,
           with_E0 = (k \in Extended), NEW c \in {code[k], code[k] + 128}
    PROVE  KeyOf(m, c, with_E0) = KeyName[k]
<1>1. code[k] \in 14..80
  BY CodeFacts
<1>2. c % 128 = code[k]
  BY <1>1
<1>3. KeyOf(m, c, with_E0) = keymap(code[k])[ColumnOf(m, with_E0)]
  BY <1>2 DEF KeyOf
<1>4. with_E0 => ColumnOf(m, with_E0) = 3
  BY DEF ColumnOf
<1>5. ~with_E0 => ColumnOf(m, with_E0) \in {1, 2}
  BY DEF ColumnOf
<1>6. CASE with_E0
  BY <1>3, <1>4, <1>6, ColumnsOfKey
<1>7. CASE ~with_E0
  BY <1>3, <1>5, <1>7, ColumnsOfKey
<1> QED  BY <1>6, <1>7

LEMMA KeyOfA ==
    ASSUME NEW m, NEW c \in {30, 158}, NEW with_E0, ~with_E0
    PROVE  KeyOf(m, c, with_E0) = IF m["shift_l"] \/ m["shift_r"] THEN "A" ELSE "a"
<1>1. c % 128 = 30
  OBVIOUS
<1>2. keymap(30)[1] = "a" /\ keymap(30)[2] = "A"
  BY DEF keymap
<1> QED  BY <1>1, <1>2 DEF KeyOf, ColumnOf

LEMMA SlotFacts ==
    /\ slot["SHIFT_L"] = "shift_l" /\ slot["SHIFT_R"] = "shift_r"
    /\ slot["CTRL_L"] = "ctrl_l" /\ slot["CTRL_R"] = "ctrl_r"
    /\ slot["ALT_L"] = "alt_l" /\ slot["ALT_R"] = "alt_l"
    /\ Modifier = {"shift_l", "shift_r", "ctrl_l", "ctrl_r", "alt_l", "alt_r"}
BY DEF slot, Modifier

LEMMA SlotSet ==
    ASSUME NEW m \in [Modifier -> BOOLEAN], NEW key \in DOMAIN slot
    PROVE  /\ ModsAfter(m, key, TRUE)[slot[key]]
           /\ ~ModsAfter(m, key, FALSE)[slot[key]]
           /\ \A w \in Modifier \ {slot[key]} : /\ ModsAfter(m, key, TRUE)[w] = m[w]
                                               /\ ModsAfter(m, key, FALSE)[w] = m[w]
BY NamesTyped DEF ModsAfter

\* a modifier key that goes down or up is set or cleared
LEMMA ModifierAgrees ==
    ASSUME NEW m \in [Modifier -> BOOLEAN], NEW h \in SUBSET Keys, Agrees(m, h),
           NEW k \in Keys, k \in DOMAIN KeyName
    PROVE  /\ Agrees(ModsAfter(m, KeyName[k], TRUE), h \cup {k})
           /\ Agrees(ModsAfter(m, KeyName[k], FALSE), h \ {k})
<1> DEFINE down == ModsAfter(m, KeyName[k], TRUE)
           up   == ModsAfter(m, KeyName[k], FALSE)
<1> HIDE DEF down, up
<1>1. ASSUME NEW v \in Modifier, KeyName[k] \in DOMAIN slot, slot[KeyName[k]] = v
      PROVE  /\ down[v] /\ ~up[v]
             /\ \A w \in Modifier \ {v} : down[w] = m[w] /\ up[w] = m[w]
  <2> DEFINE key == KeyName[k]
  <2>1. key \in DOMAIN slot /\ slot[key] = v
    BY <1>1
  <2> HIDE DEF key
  <2>2. /\ ModsAfter(m, key, TRUE)[v]
        /\ ~ModsAfter(m, key, FALSE)[v]
        /\ \A w \in Modifier \ {v} : /\ ModsAfter(m, key, TRUE)[w] = m[w]
                                    /\ ModsAfter(m, key, FALSE)[w] = m[w]
    BY <2>1, SlotSet
  <2>3. down = ModsAfter(m, key, TRUE) /\ up = ModsAfter(m, key, FALSE)
    BY DEF down, up, key
  <2> QED  BY <2>2, <2>3
<1>2. CASE k = "LSHIFT"
  <2>1. KeyName[k] = "SHIFT_L"
    BY <1>2 DEF KeyName
  <2>2. /\ down["shift_l"] /\ ~up["shift_l"]
        /\ \A w \in Modifier \ {"shift_l"} : down[w] = m[w] /\ up[w] = m[w]
    BY <1>1, <2>1, SlotFacts, KeyNames
  <2>3. (h \cup {k}) \cap {"LALT", "RALT"} = h \cap {"LALT", "RALT"}
    BY <1>2
  <2>4. (h \ {k}) \cap {"LALT", "RALT"} = h \cap {"LALT", "RALT"}
    BY <1>2
  <2>5. Agrees(down, h \cup {k})
    BY <1>2, <2>2, <2>3, SlotFacts DEF Agrees
  <2>6. Agrees(up, h \ {k})
    BY <1>2, <2>2, <2>4, SlotFacts DEF Agrees
  <2> QED  BY <2>5, <2>6 DEF down, up
<1>3. CASE k = "RSHIFT"
  <2>1. KeyName[k] = "SHIFT_R"
    BY <1>3 DEF KeyName
  <2>2. /\ down["shift_r"] /\ ~up["shift_r"]
        /\ \A w \in Modifier \ {"shift_r"} : down[w] = m[w] /\ up[w] = m[w]
    BY <1>1, <2>1, SlotFacts, KeyNames
  <2>3. (h \cup {k}) \cap {"LALT", "RALT"} = h \cap {"LALT", "RALT"}
    BY <1>3
  <2>4. (h \ {k}) \cap {"LALT", "RALT"} = h \cap {"LALT", "RALT"}
    BY <1>3
  <2>5. Agrees(down, h \cup {k})
    BY <1>3, <2>2, <2>3, SlotFacts DEF Agrees
  <2>6. Agrees(up, h \ {k})
    BY <1>3, <2>2, <2>4, SlotFacts DEF Agrees
  <2> QED  BY <2>5, <2>6 DEF down, up
<1>4. CASE k = "LCTRL"
  <2>1. KeyName[k] = "CTRL_L"
    BY <1>4 DEF KeyName
  <2>2. /\ down["ctrl_l"] /\ ~up["ctrl_l"]
        /\ \A w \in Modifier \ {"ctrl_l"} : down[w] = m[w] /\ up[w] = m[w]
    BY <1>1, <2>1, SlotFacts, KeyNames
  <2>3. (h \cup {k}) \cap {"LALT", "RALT"} = h \cap {"LALT", "RALT"}
    BY <1>4
  <2>4. (h \ {k}) \cap {"LALT", "RALT"} = h \cap {"LALT", "RALT"}
    BY <1>4
  <2>5. Agrees(down, h \cup {k})
    BY <1>4, <2>2, <2>3, SlotFacts DEF Agrees
  <2>6. Agrees(up, h \ {k})
    BY <1>4, <2>2, <2>4, SlotFacts DEF Agrees
  <2> QED  BY <2>5, <2>6 DEF down, up
<1>5. CASE k = "RCTRL"
  <2>1. KeyName[k] = "CTRL_R"
    BY <1>5 DEF KeyName
  <2>2. /\ down["ctrl_r"] /\ ~up["ctrl_r"]
        /\ \A w \in Modifier \ {"ctrl_r"} : down[w] = m[w] /\ up[w] = m[w]
    BY <1>1, <2>1, SlotFacts, KeyNames
  <2>3. (h \cup {k}) \cap {"LALT", "RALT"} = h \cap {"LALT", "RALT"}
    BY <1>5
  <2>4. (h \ {k}) \cap {"LALT", "RALT"} = h \cap {"LALT", "RALT"}
    BY <1>5
  <2>5. Agrees(down, h \cup {k})
    BY <1>5, <2>2, <2>3, SlotFacts DEF Agrees
  <2>6. Agrees(up, h \ {k})
    BY <1>5, <2>2, <2>4, SlotFacts DEF Agrees
  <2> QED  BY <2>5, <2>6 DEF down, up
<1>6. CASE k = "LALT"
  <2>1. KeyName[k] = "ALT_L"
    BY <1>6 DEF KeyName
  <2>2. /\ down["alt_l"] /\ ~up["alt_l"]
        /\ \A w \in Modifier \ {"alt_l"} : down[w] = m[w] /\ up[w] = m[w]
    BY <1>1, <2>1, SlotFacts, KeyNames
  <2>3. OneAlt => (h \ {k}) \cap {"LALT", "RALT"} = {}
    BY <1>6 DEF OneAlt
  <2>4. (h \cup {k}) \cap {"LALT", "RALT"} # {}
    BY <1>6
  <2>5. Agrees(down, h \cup {k})
    BY <1>6, <2>2, <2>4, SlotFacts DEF Agrees
  <2>6. Agrees(up, h \ {k})
    BY <1>6, <2>2, <2>3, SlotFacts DEF Agrees
  <2> QED  BY <2>5, <2>6 DEF down, up
<1>7. CASE k = "RALT"
  <2>1. KeyName[k] = "ALT_R"
    BY <1>7 DEF KeyName
  <2>2. /\ down["alt_l"] /\ ~up["alt_l"]
        /\ \A w \in Modifier \ {"alt_l"} : down[w] = m[w] /\ up[w] = m[w]
    BY <1>1, <2>1, SlotFacts, KeyNames
  <2>3. OneAlt => (h \ {k}) \cap {"LALT", "RALT"} = {}
    BY <1>7 DEF OneAlt
  <2>4. (h \cup {k}) \cap {"LALT", "RALT"} # {}
    BY <1>7
  <2>5. Agrees(down, h \cup {k})
    BY <1>7, <2>2, <2>4, SlotFacts DEF Agrees
  <2>6. Agrees(up, h \ {k})
    BY <1>7, <2>2, <2>3, SlotFacts DEF Agrees
  <2> QED  BY <2>5, <2>6 DEF down, up
<1>8. CASE k \notin {"LSHIFT", "RSHIFT", "LCTRL", "RCTRL", "LALT", "RALT"}
  <2>1. KeyName[k] \notin DOMAIN slot
    BY <1>8, CodeFacts, KeyNames DEF KeyName
  <2>2. down = m /\ up = m
    BY <2>1 DEF down, up, ModsAfter
  <2>3. /\ (h \cup {k}) \cap {"LALT", "RALT"} = h \cap {"LALT", "RALT"}
        /\ (h \ {k}) \cap {"LALT", "RALT"} = h \cap {"LALT", "RALT"}
    BY <1>8
  <2>4. Agrees(m, h \cup {k}) /\ Agrees(m, h \ {k})
    BY <1>8, <2>3 DEF Agrees
  <2> QED  BY <2>2, <2>4 DEF down, up
<1> QED  BY <1>2, <1>3, <1>4, <1>5, <1>6, <1>7, <1>8

LEMMA OtherAgrees ==
    ASSUME NEW m, NEW h, Agrees(m, h), NEW k \in {"A", "PRTSC", "PAUSE"}
    PROVE  Agrees(m, h \cup {k}) /\ Agrees(m, h \ {k})
BY DEF Agrees

-----------------------------------------------------------------------------
(* The bytes of a key, read one after another                              *)

LEMMA OneByte ==
    ASSUME NEW s \in Seq(Byte), NEW a \in Byte
    PROVE  s \o <<a>> = Append(s, a) /\ Append(s, a) \in Seq(Byte)
OBVIOUS

LEMMA TwoBytes ==
    ASSUME NEW s \in Seq(Byte), NEW a \in Byte, NEW b \in Byte
    PROVE  s \o <<a, b>> = Append(Append(s, a), b) /\ s \o <<a, b>> \in Seq(Byte)
OBVIOUS

\* a key without E0
LEMMA ReadsPlain ==
    ASSUME NEW s \in Seq(Byte), NEW r, NEW e, NEW d, Reads(r, s, e, d),
           e.at = "read", NEW c \in Byte, c \notin {E0, E1},
           NEW with_E0 \in BOOLEAN, ~with_E0
    PROVE  Reads(r, s \o <<c>>, Processed(e, c, with_E0), d \o ProcessedGives(e, c, with_E0))
<1>1. Reads(r, Append(s, c), After(e, c), d \o Gives(e, c))
  BY ReadsOneMore
<1>2. Looks(e, c) /\ Looked(e, c) = c /\ (e.at # "read") = with_E0
  BY DEF Looks, Looked
<1>3. After(e, c) = Processed(e, c, with_E0)
  BY <1>2 DEF After
<1>4. Gives(e, c) = ProcessedGives(e, c, with_E0)
  BY <1>2 DEF Gives
<1> QED  BY <1>1, <1>3, <1>4, OneByte

\* two bytes that only move the reader
LEMMA ReadsSilent ==
    ASSUME NEW s \in Seq(Byte), NEW r, NEW e, NEW d, Reads(r, s, e, d),
           NEW b \in Byte, ~Looks(e, b),
           NEW e2, e2 = Moved(e, PlaceAfter(e, b), StepAfter(e, b))
    PROVE  Reads(r, Append(s, b), e2, d)
<1>1. Reads(r, Append(s, b), After(e, b), d \o Gives(e, b))
  BY ReadsOneMore
<1>2. After(e, b) = e2 /\ Gives(e, b) = <<>>
  BY DEF After, Gives
<1>3. d \in Chars /\ d \o <<>> = d
  <2>1. d \in Chars
    BY ReadsTyped
  <2> QED  BY <2>1 DEF Chars
<1> QED  BY <1>1, <1>2, <1>3

\* a key with E0
LEMMA ReadsExtended ==
    ASSUME NEW s \in Seq(Byte), NEW r, NEW e, NEW d, Reads(r, s, e, d),
           e.at = "read", NEW c \in Byte, c \notin {42, 183},
           NEW with_E0 \in BOOLEAN, with_E0
    PROVE  Reads(r, s \o <<E0, c>>, Processed(e, c, with_E0), d \o ProcessedGives(e, c, with_E0))
<1> DEFINE f == Moved(e, "extended", e.step)
           t == Append(s, E0)
<1>1. E0 \in Byte /\ E0 # E1
  BY DEF Byte, E0, E1
<1>2. ~Looks(e, E0) /\ PlaceAfter(e, E0) = "extended" /\ StepAfter(e, E0) = e.step
  BY <1>1 DEF Looks, PlaceAfter, StepAfter
<1>3. Reads(r, t, f, d)
  BY <1>1, <1>2, ReadsSilent
<1>4. t \in Seq(Byte)
  BY <1>1
<1>5. f.at = "extended" /\ f.step = e.step /\ f.mods = e.mods /\ f.on = e.on
  BY DEF Moved
<1>6. s \o <<E0, c>> = Append(t, c)
  BY <1>1, TwoBytes
<1> HIDE DEF f, t
<1>7. Reads(r, Append(t, c), After(f, c), d \o Gives(f, c))
  BY <1>3, <1>4, ReadsOneMore
<1>8. Looks(f, c) /\ Looked(f, c) = c /\ (f.at # "read") = with_E0
  BY <1>5 DEF Looks, Looked
<1>9. After(f, c) = Processed(f, c, with_E0)
  BY <1>8 DEF After
<1>10. Gives(f, c) = ProcessedGives(f, c, with_E0)
  BY <1>8 DEF Gives
<1>11. /\ Processed(f, c, with_E0) = Processed(e, c, with_E0)
       /\ ProcessedGives(f, c, with_E0) = ProcessedGives(e, c, with_E0)
  BY <1>5 DEF Processed, ProcessedGives
<1> QED  BY <1>6, <1>7, <1>9, <1>10, <1>11

\* a byte that only moves the reader, after others that only moved it
LEMMA ReadsMove ==
    ASSUME NEW s \in Seq(Byte), NEW r, NEW e, NEW d, NEW place, NEW i,
           Reads(r, s, Moved(e, place, i), d),
           NEW b \in Byte, ~Looks(Moved(e, place, i), b),
           NEW p, p = PlaceAfter(Moved(e, place, i), b),
           NEW j, j = StepAfter(Moved(e, place, i), b)
    PROVE  Append(s, b) \in Seq(Byte) /\ Reads(r, Append(s, b), Moved(e, p, j), d)
<1> DEFINE f == Moved(e, place, i)
<1>1. Moved(f, p, j) = Moved(e, p, j)
  BY DEF Moved
<1>2. Reads(r, s, f, d) /\ ~Looks(f, b) /\ p = PlaceAfter(f, b) /\ j = StepAfter(f, b)
  OBVIOUS
<1> HIDE DEF f
<1>3. Reads(r, Append(s, b), Moved(f, p, j), d)
  BY <1>2, ReadsSilent
<1> QED  BY <1>1, <1>3

\* PrintScreen going down and up, and Pause, leave everything as it is
LEMMA ReadsPrintDown ==
    ASSUME NEW s \in Seq(Byte), NEW r, NEW e, NEW d, Reads(r, s, e, d), e.at = "read"
    PROVE  Reads(r, s \o <<E0, 42, E0, 55>>, Moved(e, "read", e.step), d)
<1> DEFINE m(place, i) == Moved(e, place, i)
           s1 == Append(s, E0)
           s2 == Append(s1, 42)
           s3 == Append(s2, E0)
           s4 == Append(s3, 55)
<1>1. {E0, E1, 69, 197, 55, 183, 42, 29, 157, 170} \subseteq Byte /\ E0 # E1 /\ e \in Reader
  BY CodesAreBytes, ReadsTyped DEF E0, E1
<1> HIDE DEF m
<1>2. m("read", e.step) = e
  BY <1>1 DEF m, Moved, Reader
<1>3. s1 \in Seq(Byte) /\ Reads(r, s1, m("extended", e.step), d)
  <2>1. /\ ~Looks(m("read", e.step), E0)
        /\ PlaceAfter(m("read", e.step), E0) = "extended"
        /\ StepAfter(m("read", e.step), E0) = e.step
    BY <1>1 DEF m, Moved, Looks, PlaceAfter, StepAfter, InPause, pausebrk_scode
  <2> HIDE DEF m
  <2> QED  BY <1>1, <1>2, <2>1, ReadsMove DEF m
<1>4. s2 \in Seq(Byte) /\ Reads(r, s2, m("print_down", e.step), d)
  <2>1. /\ ~Looks(m("extended", e.step), 42)
        /\ PlaceAfter(m("extended", e.step), 42) = "print_down"
        /\ StepAfter(m("extended", e.step), 42) = e.step
    BY <1>1 DEF m, Moved, Looks, PlaceAfter, StepAfter, InPause, pausebrk_scode
  <2> HIDE DEF s1
  <2> QED  BY <1>1, <1>3, <2>1, ReadsMove DEF m
<1>5. s3 \in Seq(Byte) /\ Reads(r, s3, m("print_down_2", e.step), d)
  <2>1. /\ ~Looks(m("print_down", e.step), E0)
        /\ PlaceAfter(m("print_down", e.step), E0) = "print_down_2"
        /\ StepAfter(m("print_down", e.step), E0) = e.step
    BY <1>1 DEF m, Moved, Looks, PlaceAfter, StepAfter, InPause, pausebrk_scode
  <2> HIDE DEF s1, s2
  <2> QED  BY <1>1, <1>4, <2>1, ReadsMove DEF m
<1>6. s4 \in Seq(Byte) /\ Reads(r, s4, m("read", e.step), d)
  <2>1. /\ ~Looks(m("print_down_2", e.step), 55)
        /\ PlaceAfter(m("print_down_2", e.step), 55) = "read"
        /\ StepAfter(m("print_down_2", e.step), 55) = e.step
    BY <1>1 DEF m, Moved, Looks, PlaceAfter, StepAfter, InPause, pausebrk_scode
  <2> HIDE DEF s1, s2, s3
  <2> QED  BY <1>1, <1>5, <2>1, ReadsMove DEF m
<1>7. s \o <<E0, 42, E0, 55>> = s4
  <2>1. E0 \in Byte /\ 42 \in Byte /\ 55 \in Byte
    BY <1>1
  <2> QED  BY <2>1
<1> HIDE DEF s4
<1> QED  BY <1>6, <1>7 DEF m

LEMMA ReadsPrintUp ==
    ASSUME NEW s \in Seq(Byte), NEW r, NEW e, NEW d, Reads(r, s, e, d), e.at = "read"
    PROVE  Reads(r, s \o <<E0, 183, E0, 170>>, Moved(e, "read", e.step), d)
<1> DEFINE m(place, i) == Moved(e, place, i)
           s1 == Append(s, E0)
           s2 == Append(s1, 183)
           s3 == Append(s2, E0)
           s4 == Append(s3, 170)
<1>1. {E0, E1, 69, 197, 55, 183, 42, 29, 157, 170} \subseteq Byte /\ E0 # E1 /\ e \in Reader
  BY CodesAreBytes, ReadsTyped DEF E0, E1
<1> HIDE DEF m
<1>2. m("read", e.step) = e
  BY <1>1 DEF m, Moved, Reader
<1>3. s1 \in Seq(Byte) /\ Reads(r, s1, m("extended", e.step), d)
  <2>1. /\ ~Looks(m("read", e.step), E0)
        /\ PlaceAfter(m("read", e.step), E0) = "extended"
        /\ StepAfter(m("read", e.step), E0) = e.step
    BY <1>1 DEF m, Moved, Looks, PlaceAfter, StepAfter, InPause, pausebrk_scode
  <2> HIDE DEF m
  <2> QED  BY <1>1, <1>2, <2>1, ReadsMove DEF m
<1>4. s2 \in Seq(Byte) /\ Reads(r, s2, m("print_up", e.step), d)
  <2>1. /\ ~Looks(m("extended", e.step), 183)
        /\ PlaceAfter(m("extended", e.step), 183) = "print_up"
        /\ StepAfter(m("extended", e.step), 183) = e.step
    BY <1>1 DEF m, Moved, Looks, PlaceAfter, StepAfter, InPause, pausebrk_scode
  <2> HIDE DEF s1
  <2> QED  BY <1>1, <1>3, <2>1, ReadsMove DEF m
<1>5. s3 \in Seq(Byte) /\ Reads(r, s3, m("print_up_2", e.step), d)
  <2>1. /\ ~Looks(m("print_up", e.step), E0)
        /\ PlaceAfter(m("print_up", e.step), E0) = "print_up_2"
        /\ StepAfter(m("print_up", e.step), E0) = e.step
    BY <1>1 DEF m, Moved, Looks, PlaceAfter, StepAfter, InPause, pausebrk_scode
  <2> HIDE DEF s1, s2
  <2> QED  BY <1>1, <1>4, <2>1, ReadsMove DEF m
<1>6. s4 \in Seq(Byte) /\ Reads(r, s4, m("read", e.step), d)
  <2>1. /\ ~Looks(m("print_up_2", e.step), 170)
        /\ PlaceAfter(m("print_up_2", e.step), 170) = "read"
        /\ StepAfter(m("print_up_2", e.step), 170) = e.step
    BY <1>1 DEF m, Moved, Looks, PlaceAfter, StepAfter, InPause, pausebrk_scode
  <2> HIDE DEF s1, s2, s3
  <2> QED  BY <1>1, <1>5, <2>1, ReadsMove DEF m
<1>7. s \o <<E0, 183, E0, 170>> = s4
  <2>1. E0 \in Byte /\ 183 \in Byte /\ 170 \in Byte
    BY <1>1
  <2> QED  BY <2>1
<1> HIDE DEF s4
<1> QED  BY <1>6, <1>7 DEF m

LEMMA ReadsPause ==
    ASSUME NEW s \in Seq(Byte), NEW r, NEW e, NEW d, Reads(r, s, e, d), e.at = "read"
    PROVE  Reads(r, s \o <<E1, 29, 69, E1, 157, 197>>, Moved(e, "read", 5), d)
<1> DEFINE m(place, i) == Moved(e, place, i)
           s1 == Append(s, E1)
           s2 == Append(s1, 29)
           s3 == Append(s2, 69)
           s4 == Append(s3, E1)
           s5 == Append(s4, 157)
           s6 == Append(s5, 197)
<1>1. {E0, E1, 69, 197, 55, 183, 42, 29, 157, 170} \subseteq Byte /\ E0 # E1 /\ e \in Reader
  BY CodesAreBytes, ReadsTyped DEF E0, E1
<1> HIDE DEF m
<1>2. m("read", e.step) = e
  BY <1>1 DEF m, Moved, Reader
<1>3. s1 \in Seq(Byte) /\ Reads(r, s1, m("pause", 1), d)
  <2>1. /\ ~Looks(m("read", e.step), E1)
        /\ PlaceAfter(m("read", e.step), E1) = "pause"
        /\ StepAfter(m("read", e.step), E1) = 1
    BY <1>1 DEF m, Moved, Looks, PlaceAfter, StepAfter, InPause, pausebrk_scode
  <2> HIDE DEF m
  <2> QED  BY <1>1, <1>2, <2>1, ReadsMove DEF m
<1>4. s2 \in Seq(Byte) /\ Reads(r, s2, m("pause", 2), d)
  <2>1. /\ ~Looks(m("pause", 1), 29)
        /\ PlaceAfter(m("pause", 1), 29) = "pause"
        /\ StepAfter(m("pause", 1), 29) = 2
    BY <1>1 DEF m, Moved, Looks, PlaceAfter, StepAfter, InPause, pausebrk_scode
  <2> HIDE DEF s1
  <2> QED  BY <1>1, <1>3, <2>1, ReadsMove DEF m
<1>5. s3 \in Seq(Byte) /\ Reads(r, s3, m("pause", 3), d)
  <2>1. /\ ~Looks(m("pause", 2), 69)
        /\ PlaceAfter(m("pause", 2), 69) = "pause"
        /\ StepAfter(m("pause", 2), 69) = 3
    BY <1>1 DEF m, Moved, Looks, PlaceAfter, StepAfter, InPause, pausebrk_scode
  <2> HIDE DEF s1, s2
  <2> QED  BY <1>1, <1>4, <2>1, ReadsMove DEF m
<1>6. s4 \in Seq(Byte) /\ Reads(r, s4, m("pause", 4), d)
  <2>1. /\ ~Looks(m("pause", 3), E1)
        /\ PlaceAfter(m("pause", 3), E1) = "pause"
        /\ StepAfter(m("pause", 3), E1) = 4
    BY <1>1 DEF m, Moved, Looks, PlaceAfter, StepAfter, InPause, pausebrk_scode
  <2> HIDE DEF s1, s2, s3
  <2> QED  BY <1>1, <1>5, <2>1, ReadsMove DEF m
<1>7. s5 \in Seq(Byte) /\ Reads(r, s5, m("pause", 5), d)
  <2>1. /\ ~Looks(m("pause", 4), 157)
        /\ PlaceAfter(m("pause", 4), 157) = "pause"
        /\ StepAfter(m("pause", 4), 157) = 5
    BY <1>1 DEF m, Moved, Looks, PlaceAfter, StepAfter, InPause, pausebrk_scode
  <2> HIDE DEF s1, s2, s3, s4
  <2> QED  BY <1>1, <1>6, <2>1, ReadsMove DEF m
<1>8. s6 \in Seq(Byte) /\ Reads(r, s6, m("read", 5), d)
  <2>1. /\ ~Looks(m("pause", 5), 197)
        /\ PlaceAfter(m("pause", 5), 197) = "read"
        /\ StepAfter(m("pause", 5), 197) = 5
    BY <1>1 DEF m, Moved, Looks, PlaceAfter, StepAfter, InPause, pausebrk_scode
  <2> HIDE DEF s1, s2, s3, s4, s5
  <2> QED  BY <1>1, <1>7, <2>1, ReadsMove DEF m
<1>9. s \o <<E1, 29, 69, E1, 157, 197>> = s6
  <2> DEFINE a == E1
             b == 29
             c == 69
             x == 157
             y == 197
  <2>1. a \in Byte /\ b \in Byte /\ c \in Byte /\ x \in Byte /\ y \in Byte
    BY <1>1
  <2> HIDE DEF a, b, c, x, y
  <2>2. s \o <<a, b, c, a, x, y>> =
            Append(Append(Append(Append(Append(Append(s, a), b), c), a), x), y)
    BY <2>1, SMTT(20)
  <2> QED  BY <2>2, Zenon DEF a, b, c, x, y
<1> HIDE DEF s6
<1> QED  BY <1>8, <1>9 DEF m

-----------------------------------------------------------------------------
(* What a key does to the reader, and what it means to the user            *)

\* the byte c of key k makes f of reader e, with the keys of h down before
WentDown(e, h, k, c, x, f) ==
    /\ f.at = "read" /\ Agrees(f.mods, h \cup {k})
    /\ f.on = FocusAfter(e.on, KeyName[k], f.mods)
    /\ ProcessedGives(e, c, x) = Given(e.on, KeyName[k])

WentUp(e, h, k, b, x, f) ==
    /\ f.at = "read" /\ Agrees(f.mods, h \ {k}) /\ f.on = e.on
    /\ ProcessedGives(e, b, x) = <<>>

LEMMA KeyGoesDown ==
    ASSUME NEW e \in Reader, NEW h \in SUBSET Keys, Agrees(e.mods, h),
           NEW k \in Keys, k \in DOMAIN KeyName,
           NEW x \in BOOLEAN, x <=> k \in Extended,
           NEW c, c = code[k], NEW f, f = Processed(e, c, x)
    PROVE  WentDown(e, h, k, c, x, f)
<1> DEFINE m == ModsAfter(e.mods, KeyName[k], TRUE)
<1>1. c < 128 /\ (c < 128) = TRUE
  <2>1. c \in 14..80
    BY CodeFacts
  <2> QED  BY <2>1
<1>2. KeyOf(e.mods, c, x) = KeyName[k]
  <2>1. x = (k \in Extended)
    OBVIOUS
  <2> QED  BY <2>1, KeyOfKey
<1>3. Agrees(m, h \cup {k})
  <2>1. e.mods \in [Modifier -> BOOLEAN]
    BY DEF Reader
  <2> QED  BY <2>1, ModifierAgrees
<1>4. f = [at |-> "read", step |-> e.step, mods |-> m,
           on |-> FocusAfter(e.on, KeyName[k], m)]
  BY <1>1, <1>2 DEF Processed
<1> HIDE DEF m
<1>5. f.at = "read" /\ f.mods = m /\ f.on = FocusAfter(e.on, KeyName[k], m)
  BY <1>4
<1>6. ProcessedGives(e, c, x) = Given(e.on, KeyName[k])
  BY <1>1, <1>2 DEF ProcessedGives
<1> QED  BY <1>3, <1>5, <1>6 DEF WentDown

LEMMA KeyGoesUp ==
    ASSUME NEW e \in Reader, NEW h \in SUBSET Keys, Agrees(e.mods, h),
           NEW k \in Keys, k \in DOMAIN KeyName,
           NEW x \in BOOLEAN, x <=> k \in Extended,
           NEW b, b = code[k] + 128, NEW f, f = Processed(e, b, x)
    PROVE  WentUp(e, h, k, b, x, f)
<1> DEFINE m == ModsAfter(e.mods, KeyName[k], FALSE)
<1>1. ~(b < 128) /\ (b < 128) = FALSE
  <2>1. code[k] \in 14..80
    BY CodeFacts
  <2> QED  BY <2>1
<1>2. KeyOf(e.mods, b, x) = KeyName[k]
  <2>1. x = (k \in Extended)
    OBVIOUS
  <2> QED  BY <2>1, KeyOfKey
<1>3. Agrees(m, h \ {k})
  <2>1. e.mods \in [Modifier -> BOOLEAN]
    BY DEF Reader
  <2> QED  BY <2>1, ModifierAgrees
<1>4. f = [at |-> "read", step |-> e.step, mods |-> m, on |-> e.on]
  BY <1>1, <1>2 DEF Processed
<1> HIDE DEF m
<1>5. f.at = "read" /\ f.mods = m /\ f.on = e.on
  BY <1>4
<1>6. ProcessedGives(e, b, x) = <<>>
  BY <1>1 DEF ProcessedGives
<1> QED  BY <1>3, <1>5, <1>6 DEF WentUp

\* reader e sees A as the letter y
Letter(e, x, y) ==
    /\ KeyOf(e.mods, 30, x) = y /\ KeyOf(e.mods, 158, x) = y
    /\ y \in Char
    /\ \A make \in BOOLEAN : ModsAfter(e.mods, y, make) = e.mods
    /\ FocusAfter(e.on, y, e.mods) = e.on

LEMMA AKey ==
    ASSUME NEW e \in Reader, NEW h \in SUBSET Keys, Agrees(e.mods, h),
           NEW x \in BOOLEAN, ~x,
           NEW y, y = IF h \cap {"LSHIFT", "RSHIFT"} # {} THEN "A" ELSE "a"
    PROVE  Letter(e, x, y)
<1>1. KeyOf(e.mods, 30, x) = y /\ KeyOf(e.mods, 158, x) = y
  <2>1. e.mods["shift_l"] \/ e.mods["shift_r"] <=> h \cap {"LSHIFT", "RSHIFT"} # {}
    BY DEF Agrees
  <2> QED  BY <2>1, KeyOfA
<1>2. y \in {"A", "a"}
  OBVIOUS
<1>3. y \notin DOMAIN slot /\ y \notin DOMAIN console_of /\ y \in Char
  BY <1>2, KeyNames
<1>4. \A make \in BOOLEAN : ModsAfter(e.mods, y, make) = e.mods
  BY <1>3 DEF ModsAfter
<1>5. FocusAfter(e.on, y, e.mods) = e.on
  BY <1>3 DEF FocusAfter
<1> QED  BY <1>1, <1>3, <1>4, <1>5 DEF Letter

AWentDown(e, h, x, y, f) ==
    /\ f.at = "read" /\ Agrees(f.mods, h \cup {"A"}) /\ f.on = e.on
    /\ ProcessedGives(e, 30, x) = Given(e.on, y)
    /\ y \in Char

LEMMA AGoesDown ==
    ASSUME NEW e \in Reader, NEW h \in SUBSET Keys, Agrees(e.mods, h),
           NEW x \in BOOLEAN, ~x,
           NEW y, y = IF h \cap {"LSHIFT", "RSHIFT"} # {} THEN "A" ELSE "a",
           NEW f, f = Processed(e, 30, x)
    PROVE  AWentDown(e, h, x, y, f)
<1>1. 30 < 128 /\ (30 < 128) \in BOOLEAN
  OBVIOUS
<1>2. Letter(e, x, y)
  BY AKey
<1>3. f = [at |-> "read", step |-> e.step, mods |-> e.mods, on |-> e.on]
  BY <1>1, <1>2 DEF Processed, Letter
<1>4. f.at = "read" /\ f.mods = e.mods /\ f.on = e.on
  BY <1>3
<1>5. ProcessedGives(e, 30, x) = Given(e.on, y)
  BY <1>1, <1>2 DEF ProcessedGives, Letter
<1>6. Agrees(e.mods, h \cup {"A"})
  BY OtherAgrees
<1> QED  BY <1>2, <1>4, <1>5, <1>6 DEF AWentDown, Letter

LEMMA AGoesUp ==
    ASSUME NEW e \in Reader, NEW h \in SUBSET Keys, Agrees(e.mods, h),
           NEW x \in BOOLEAN, ~x, NEW f, f = Processed(e, 158, x)
    PROVE  WentUp(e, h, "A", 158, x, f)
<1>1. ~(158 < 128) /\ (158 < 128) \in BOOLEAN
  OBVIOUS
<1> DEFINE y == IF h \cap {"LSHIFT", "RSHIFT"} # {} THEN "A" ELSE "a"
<1>2. y = IF h \cap {"LSHIFT", "RSHIFT"} # {} THEN "A" ELSE "a"
  OBVIOUS
<1> HIDE DEF y
<1>3. Letter(e, x, y)
  BY <1>2, AKey
<1>4. f = [at |-> "read", step |-> e.step, mods |-> e.mods, on |-> e.on]
  BY <1>1, <1>3 DEF Processed, Letter
<1>5. f.at = "read" /\ f.mods = e.mods /\ f.on = e.on
  BY <1>4
<1>6. ProcessedGives(e, 158, x) = <<>>
  BY <1>1 DEF ProcessedGives
<1>7. Agrees(e.mods, h \ {"A"})
  BY OtherAgrees
<1> QED  BY <1>5, <1>6, <1>7 DEF WentUp

\* the terminal that the user means to have the focus after k
Wanted(t, k) == IF k \in DOMAIN console_of /\ held \cap {"LALT", "RALT"} # {}
                THEN console_of[k] % NR_CONSOLE ELSE t

\* what the user means to type with k into terminal t
Meant(t, k) == [i \in DOMAIN typed(k) |-> <<t, typed(k)[i]>>]

\* alt_l says whether an Alt key is down, or no key looks at it
FocusClear == OneAlt \/ Keys \cap DOMAIN console_of = {}

LEMMA KeyFocus ==
    ASSUME FocusClear, NEW k \in Keys, k \in DOMAIN KeyName,
           NEW m, Agrees(m, held \cup {k}), NEW t
    PROVE  FocusAfter(t, KeyName[k], m) = Wanted(t, k)
<1>1. CASE k \in {"F1", "F2", "F3"}
  <2>1. KeyName[k] = k /\ k \in DOMAIN console_of
    BY <1>1, KeyNames DEF KeyName
  <2>2. OneAlt
    BY <2>1 DEF FocusClear
  <2>3. m["alt_l"] \/ m["alt_r"] <=> held \cap {"LALT", "RALT"} # {}
    BY <1>1, <2>2 DEF Agrees
  <2> QED  BY <2>1, <2>3 DEF FocusAfter, Wanted
<1>2. CASE k \notin {"F1", "F2", "F3"}
  <2>1. KeyName[k] \notin DOMAIN console_of /\ k \notin DOMAIN console_of
    BY <1>2, KeyNames, CodeFacts DEF KeyName
  <2> QED  BY <2>1 DEF FocusAfter, Wanted
<1> QED  BY <1>1, <1>2

LEMMA OneMeant ==
    ASSUME NEW t, NEW c, NEW q, q = <<c>>
    PROVE  [i \in DOMAIN q |-> <<t, q[i]>>] = << <<t, c>> >>
OBVIOUS

LEMMA NoneMeant ==
    ASSUME NEW t, NEW q, q = <<>>
    PROVE  [i \in DOMAIN q |-> <<t, q[i]>>] = <<>>
OBVIOUS

LEMMA KeyMeans ==
    ASSUME NEW k \in DOMAIN KeyName, NEW t
    PROVE  Meant(t, k) = Given(t, KeyName[k])
<1>1. CASE k = "ENTER"
  <2>1. typed(k) = <<"newline">> /\ KeyName[k] = "ENTER"
    BY <1>1 DEF typed, KeyName
  <2>2. Given(t, KeyName[k]) = << <<t, "newline">> >>
    BY <2>1, KeyNames DEF Given
  <2> QED  BY <2>1, <2>2, OneMeant DEF Meant
<1>2. CASE k = "BS"
  <2>1. typed(k) = <<"rubout">> /\ KeyName[k] = "BACKSPACE"
    BY <1>2 DEF typed, KeyName
  <2>2. Given(t, KeyName[k]) = << <<t, "rubout">> >>
    BY <2>1, KeyNames DEF Given
  <2> QED  BY <2>1, <2>2, OneMeant DEF Meant
<1>3. CASE k \notin {"ENTER", "BS"}
  <2>1. typed(k) = <<>>
    BY <1>3, CodeFacts DEF typed
  <2>2. KeyName[k] \notin Char \cup {"ENTER", "BACKSPACE"}
    BY <1>3, KeyNames, CodeFacts DEF KeyName
  <2>3. Given(t, KeyName[k]) = <<>>
    BY <2>2 DEF Given
  <2> QED  BY <2>1, <2>3, NoneMeant DEF Meant
<1> QED  BY <1>1, <1>2, <1>3

LEMMA AMeans ==
    ASSUME NEW t, NEW x, x = IF held \cap {"LSHIFT", "RSHIFT"} # {} THEN "A" ELSE "a",
           x \in Char
    PROVE  Meant(t, "A") = Given(t, x)
<1>1. typed("A") = <<x>>
  BY DEF typed, Shifted
<1>2. Meant(t, "A") = << <<t, x>> >>
  BY <1>1, OneMeant DEF Meant
<1> QED  BY <1>2 DEF Given

LEMMA OtherMeans ==
    ASSUME NEW t, NEW k \in {"PRTSC", "PAUSE"}
    PROVE  Meant(t, k) = <<>> /\ Wanted(t, k) = t
<1>1. typed(k) = <<>> /\ k \notin DOMAIN console_of
  BY KeyNames DEF typed
<1> QED  BY <1>1, NoneMeant DEF Meant, Wanted

LEMMA KeyBytes ==
    ASSUME NEW k \in DOMAIN KeyName, NEW c, c = code[k], NEW b, b = c + 128
    PROVE  /\ c \in Byte /\ b \in Byte
           /\ k \in Extended    => /\ make_bytes(k) = <<E0, c>> /\ break_bytes(k) = <<E0, b>>
                                  /\ c \notin {42, 183} /\ b \notin {42, 183}
           /\ k \notin Extended => /\ make_bytes(k) = <<c>> /\ break_bytes(k) = <<b>>
                                  /\ c \notin {E0, E1} /\ b \notin {E0, E1}
<1>1. k \in DOMAIN code /\ k # "PRTSC" /\ k # "PAUSE"
  BY CodeFacts
<1>2. c \in 14..80 /\ (k \in Extended => c # 42 /\ b # 183)
  BY <1>1, CodeFacts
<1>3. b \in 142..208
  BY <1>2
<1>4. c # 183 /\ c # 224 /\ c # 225 /\ b # 42 /\ b # 224 /\ b # 225
  BY <1>2, <1>3
<1>5. c \in Byte /\ b \in Byte
  BY <1>1, CodesAreBytes
<1>6. k \in Extended => make_bytes(k) = <<E0, c>> /\ break_bytes(k) = <<E0, b>>
  BY <1>1 DEF make_bytes, break_bytes
<1>7. k \notin Extended => make_bytes(k) = <<c>> /\ break_bytes(k) = <<b>>
  BY <1>1 DEF make_bytes, break_bytes
<1>8. E0 = 224 /\ E1 = 225
  BY DEF E0, E1
<1> QED  BY <1>2, <1>4, <1>5, <1>6, <1>7, <1>8

LEMMA OtherBytes ==
    /\ make_bytes("PRTSC") = <<E0, 42, E0, 55>>
    /\ make_bytes("PAUSE") = <<E1, 29, 69, E1, 157, 197>>
    /\ make_bytes("A") = <<30>>
    /\ break_bytes("PRTSC") = <<E0, 183, E0, 170>>
    /\ break_bytes("PAUSE") = <<>>
    /\ break_bytes("A") = <<158>>
    /\ {30, 158} \subseteq Byte /\ {30, 158} \cap {E0, E1} = {}
<1>1. /\ make_bytes("PRTSC") = <<E0, 42, E0, 55>>
      /\ make_bytes("PAUSE") = <<E1, 29, 69, E1, 157, 197>>
  BY DEF make_bytes, Extended
<1>2. /\ break_bytes("PRTSC") = <<E0, 183, E0, 170>>
      /\ break_bytes("PAUSE") = <<>>
  BY DEF break_bytes, Extended
<1>3. "A" \in DOMAIN code /\ code["A"] = 30 /\ "A" \notin Extended
  BY CodeFacts
<1>4. 30 + 128 = 158
  OBVIOUS
<1>5. make_bytes("A") = <<30>> /\ break_bytes("A") = <<158>>
  BY <1>3, <1>4 DEF make_bytes, break_bytes
<1>6. {30, 158} \subseteq Byte
  BY <1>3, <1>4, CodesAreBytes
<1>7. {30, 158} \cap {E0, E1} = {}
  BY DEF E0, E1
<1> QED  BY <1>1, <1>2, <1>5, <1>6, <1>7

(***************************************************************************)
(* A key that goes down and has its bytes read, after those of the keys    *)
(* before it: the modifiers agree with the keys down then, and it gives    *)
(* and does to the focus what the user means.                              *)
(***************************************************************************)
PressRead(r, s, e, d, k) ==
    \E f : /\ Reads(r, s \o make_bytes(k), f, d \o Meant(e.on, k))
           /\ f.at = "read" /\ Agrees(f.mods, held \cup {k})
           /\ FocusClear => f.on = Wanted(e.on, k)

LEMMA PressReads ==
    ASSUME NEW s \in Seq(Byte), NEW r, NEW e, NEW d, Reads(r, s, e, d), e.at = "read",
           held \in SUBSET Keys, Agrees(e.mods, held), NEW k \in Keys
    PROVE  PressRead(r, s, e, d, k)
<1> SUFFICES \E f : /\ Reads(r, s \o make_bytes(k), f, d \o Meant(e.on, k))
                    /\ f.at = "read" /\ Agrees(f.mods, held \cup {k})
                    /\ FocusClear => f.on = Wanted(e.on, k)
  BY DEF PressRead
<1>1. e \in Reader /\ d \in Chars /\ d \o <<>> = d
  <2>1. e \in Reader /\ d \in Chars
    BY ReadsTyped
  <2> QED  BY <2>1 DEF Chars
<1>2. CASE k \in DOMAIN KeyName /\ k \in Extended
  <2> DEFINE c == code[k]
             x == TRUE
             f == Processed(e, c, x)
  <2>1. x \in BOOLEAN /\ (x <=> k \in Extended) /\ x
    BY <1>2
  <2>2. /\ make_bytes(k) = <<E0, c>> /\ c \in Byte
        /\ c \notin {42, 183}
    BY <1>2, KeyBytes
  <2>3. c = code[k] /\ f = Processed(e, c, x)
    OBVIOUS
  <2> HIDE DEF x, c, f
  <2>4. WentDown(e, held, k, c, x, f)
    BY <1>1, <1>2, <2>3, <2>1, KeyGoesDown
  <2>5. Reads(r, s \o <<E0, c>>, f, d \o ProcessedGives(e, c, x))
    BY <2>3, <2>1, <2>2, ReadsExtended
  <2> HIDE DEF f
  <2>6. ProcessedGives(e, c, x) = Meant(e.on, k)
    BY <1>2, <2>4, KeyMeans DEF WentDown
  <2>7. FocusClear => f.on = Wanted(e.on, k)
    BY <1>2, <2>4, KeyFocus DEF WentDown
  <2> QED  BY <2>2, <2>4, <2>5, <2>6, <2>7 DEF WentDown
<1>3. CASE k \in DOMAIN KeyName /\ k \notin Extended
  <2> DEFINE c == code[k]
             x == FALSE
             f == Processed(e, c, x)
  <2>1. x \in BOOLEAN /\ (x <=> k \in Extended) /\ ~x
    BY <1>3
  <2>2. /\ make_bytes(k) = <<c>> /\ c \in Byte
        /\ c \notin {E0, E1}
    BY <1>3, KeyBytes
  <2>3. c = code[k] /\ f = Processed(e, c, x)
    OBVIOUS
  <2> HIDE DEF x, c, f
  <2>4. WentDown(e, held, k, c, x, f)
    BY <1>1, <1>3, <2>3, <2>1, KeyGoesDown
  <2>5. Reads(r, s \o <<c>>, f, d \o ProcessedGives(e, c, x))
    BY <2>3, <2>1, <2>2, ReadsPlain
  <2> HIDE DEF f
  <2>6. ProcessedGives(e, c, x) = Meant(e.on, k)
    BY <1>3, <2>4, KeyMeans DEF WentDown
  <2>7. FocusClear => f.on = Wanted(e.on, k)
    BY <1>3, <2>4, KeyFocus DEF WentDown
  <2> QED  BY <2>2, <2>4, <2>5, <2>6, <2>7 DEF WentDown
<1>4. CASE k = "A"
  <2> DEFINE no == FALSE
             x  == IF held \cap {"LSHIFT", "RSHIFT"} # {} THEN "A" ELSE "a"
             f  == Processed(e, 30, no)
  <2>1. /\ f = Processed(e, 30, no)
        /\ x = IF held \cap {"LSHIFT", "RSHIFT"} # {} THEN "A" ELSE "a"
    OBVIOUS
  <2>2. no \in BOOLEAN /\ ~no
    OBVIOUS
  <2> HIDE DEF no, f, x
  <2>3. make_bytes(k) = <<30>> /\ 30 \in Byte /\ 30 \notin {E0, E1}
    BY <1>4, OtherBytes
  <2>4. Reads(r, s \o <<30>>, f, d \o ProcessedGives(e, 30, no))
    BY <2>1, <2>2, <2>3, ReadsPlain
  <2>5. AWentDown(e, held, no, x, f)
    BY <1>1, <1>4, <2>1, <2>2, AGoesDown
  <2>6. Meant(e.on, k) = Given(e.on, x)
    BY <1>4, <2>1, <2>5, AMeans DEF AWentDown
  <2>7. Wanted(e.on, k) = e.on
    BY <1>4, KeyNames DEF Wanted
  <2> QED  BY <1>4, <2>3, <2>4, <2>5, <2>6, <2>7 DEF AWentDown
<1>5. ASSUME k \in {"PRTSC", "PAUSE"}, NEW f, Reads(r, s \o make_bytes(k), f, d),
             f.at = "read", f.mods = e.mods, f.on = e.on
      PROVE  \E g : /\ Reads(r, s \o make_bytes(k), g, d \o Meant(e.on, k))
                    /\ g.at = "read" /\ Agrees(g.mods, held \cup {k})
                    /\ FocusClear => g.on = Wanted(e.on, k)
  <2>1. Meant(e.on, k) = <<>> /\ Wanted(e.on, k) = e.on
    BY <1>5, OtherMeans
  <2>2. Agrees(e.mods, held \cup {k})
    BY <1>5, OtherAgrees
  <2> QED  BY <1>1, <1>5, <2>1, <2>2
<1>6. \A i : LET f == Moved(e, "read", i)
             IN  f.at = "read" /\ f.mods = e.mods /\ f.on = e.on
  BY DEF Moved
<1>7. CASE k = "PRTSC"
  <2>1. Reads(r, s \o <<E0, 42, E0, 55>>, Moved(e, "read", e.step), d)
    BY ReadsPrintDown
  <2>2. Reads(r, s \o make_bytes(k), Moved(e, "read", e.step), d)
    BY <1>7, <2>1, OtherBytes, Zenon
  <2> QED  BY <1>5, <1>6, <1>7, <2>2
<1>8. CASE k = "PAUSE"
  <2>1. Reads(r, s \o <<E1, 29, 69, E1, 157, 197>>, Moved(e, "read", 5), d)
    BY ReadsPause
  <2>2. Reads(r, s \o make_bytes(k), Moved(e, "read", 5), d)
    BY <1>8, <2>1, OtherBytes, Zenon
  <2> QED  BY <1>5, <1>6, <1>8, <2>2
<1> QED  BY <1>2, <1>3, <1>4, <1>7, <1>8, CodeFacts, KeyboardAssumption

\* a key that goes up and has its bytes read
ReleaseRead(r, s, e, d, k) ==
    \E f : /\ Reads(r, s \o break_bytes(k), f, d)
           /\ f.at = "read" /\ Agrees(f.mods, held \ {k}) /\ f.on = e.on

LEMMA ReleaseReads ==
    ASSUME NEW s \in Seq(Byte), NEW r, NEW e, NEW d, Reads(r, s, e, d), e.at = "read",
           held \in SUBSET Keys, Agrees(e.mods, held), NEW k \in Keys
    PROVE  ReleaseRead(r, s, e, d, k)
<1> SUFFICES \E f : /\ Reads(r, s \o break_bytes(k), f, d)
                    /\ f.at = "read" /\ Agrees(f.mods, held \ {k}) /\ f.on = e.on
  BY DEF ReleaseRead
<1>1. e \in Reader /\ d \in Chars /\ d \o <<>> = d
  <2>1. e \in Reader /\ d \in Chars
    BY ReadsTyped
  <2> QED  BY <2>1 DEF Chars
<1>2. CASE k \in DOMAIN KeyName /\ k \in Extended
  <2> DEFINE c == code[k]
             b == c + 128
             x == TRUE
             f == Processed(e, b, x)
  <2>1. x \in BOOLEAN /\ (x <=> k \in Extended) /\ x
    BY <1>2
  <2>2. /\ break_bytes(k) = <<E0, b>> /\ b \in Byte
        /\ b \notin {42, 183}
    BY <1>2, KeyBytes
  <2>3. b = code[k] + 128 /\ f = Processed(e, b, x)
    OBVIOUS
  <2> HIDE DEF x, b, c, f
  <2>4. WentUp(e, held, k, b, x, f)
    BY <1>1, <1>2, <2>3, <2>1, KeyGoesUp
  <2>5. Reads(r, s \o <<E0, b>>, f, d \o ProcessedGives(e, b, x))
    <3>1. Reads(r, s \o <<E0, b>>, Processed(e, b, x), d \o ProcessedGives(e, b, x))
      BY <2>1, <2>2, ReadsExtended
    <3> QED  BY <2>3, <3>1
  <2> HIDE DEF f
  <2> QED  BY <1>1, <2>2, <2>4, <2>5 DEF WentUp
<1>3. CASE k \in DOMAIN KeyName /\ k \notin Extended
  <2> DEFINE c == code[k]
             b == c + 128
             x == FALSE
             f == Processed(e, b, x)
  <2>1. x \in BOOLEAN /\ (x <=> k \in Extended) /\ ~x
    BY <1>3
  <2>2. /\ break_bytes(k) = <<b>> /\ b \in Byte
        /\ b \notin {E0, E1}
    BY <1>3, KeyBytes
  <2>3. b = code[k] + 128 /\ f = Processed(e, b, x)
    OBVIOUS
  <2> HIDE DEF x, b, c, f
  <2>4. WentUp(e, held, k, b, x, f)
    BY <1>1, <1>3, <2>3, <2>1, KeyGoesUp
  <2>5. Reads(r, s \o <<b>>, f, d \o ProcessedGives(e, b, x))
    BY <2>3, <2>1, <2>2, ReadsPlain
  <2> HIDE DEF f
  <2> QED  BY <1>1, <2>2, <2>4, <2>5 DEF WentUp
<1>4. CASE k = "A"
  <2> DEFINE no == FALSE
             f  == Processed(e, 158, no)
  <2>1. f = Processed(e, 158, no)
    OBVIOUS
  <2>2. no \in BOOLEAN /\ ~no
    OBVIOUS
  <2> HIDE DEF no, f
  <2>3. break_bytes(k) = <<158>> /\ 158 \in Byte /\ 158 \notin {E0, E1}
    BY <1>4, OtherBytes
  <2>4. Reads(r, s \o <<158>>, f, d \o ProcessedGives(e, 158, no))
    BY <2>1, <2>2, <2>3, ReadsPlain
  <2>5. WentUp(e, held, "A", 158, no, f)
    BY <1>1, <2>1, <2>2, AGoesUp
  <2> HIDE DEF f
  <2> QED  BY <1>1, <1>4, <2>3, <2>4, <2>5 DEF WentUp
<1>5. CASE k = "PRTSC"
  <2> DEFINE f == Moved(e, "read", e.step)
  <2>1. Reads(r, s \o <<E0, 183, E0, 170>>, f, d)
    BY ReadsPrintUp
  <2>2. f.at = "read" /\ f.mods = e.mods /\ f.on = e.on
    BY DEF Moved
  <2>3. Agrees(e.mods, held \ {k})
    BY <1>5, OtherAgrees
  <2> HIDE DEF f
  <2>4. Reads(r, s \o break_bytes(k), f, d)
    BY <1>5, <2>1, OtherBytes, Zenon
  <2> QED  BY <2>2, <2>3, <2>4
<1>6. CASE k = "PAUSE"
  <2>1. s \o break_bytes(k) = s
    <3>1. break_bytes(k) = <<>>
      BY <1>6, OtherBytes
    <3>2. s \o <<>> = s
      OBVIOUS
    <3> QED  BY <3>1, <3>2
  <2>2. Agrees(e.mods, held \ {k})
    BY <1>6, OtherAgrees
  <2> QED  BY <2>1, <2>2
<1> QED  BY <1>2, <1>3, <1>4, <1>5, <1>6, CodeFacts, KeyboardAssumption

-----------------------------------------------------------------------------
(***************************************************************************)
(* Why the modifiers and the characters follow the keys.  The bytes in     *)
(* kb_buffer and on the wire are what the reader has still to read.  Read  *)
(* to their end, they leave it between two keys, with the modifiers of the *)
(* keys that are down; and if Alt is clear, with the focus where the user  *)
(* has put it and everything due in its terminal.                          *)
(***************************************************************************)
stream == contents(KB_IN_BYTES, kb_buffer) \o wire

Follows(e, d) ==
    /\ Reads(Now, stream, e, d) /\ e.at = "read" /\ Agrees(e.mods, held)
    /\ FocusClear => e.on = focus /\ due = Gave \o d

StreamInv ==
    /\ KbInv /\ TtyInv /\ ReaderTypes /\ held \in SUBSET Keys
    /\ at # "write" => p_tty = current_console
    /\ ~lost => \E e, d : Follows(e, d)

LEMMA StreamTyped ==
    ASSUME KbInv
    PROVE  /\ contents(KB_IN_BYTES, kb_buffer) \in Seq(Byte)
           /\ Len(contents(KB_IN_BYTES, kb_buffer)) = kb_buffer.count
           /\ kb_buffer.count \in 0..KB_IN_BYTES
           /\ wire \in Seq(Byte) /\ stream \in Seq(Byte)
<1>1. /\ contents(KB_IN_BYTES, kb_buffer) \in Seq(Byte)
      /\ Len(contents(KB_IN_BYTES, kb_buffer)) = kb_buffer.count
  BY ContentsSeq, Sizes DEF KbInv
<1>2. kb_buffer.count \in 0..KB_IN_BYTES /\ wire \in Seq(Byte)
  BY DEF KbInv, GoodRing, Rings
<1> QED  BY <1>1, <1>2 DEF stream

LEMMA GaveTyped ==
    ASSUME TtyInv
    PROVE  /\ Gave \in Chars
           /\ at # "write" => Gave = <<>> /\ \A t \in Tty : in_buffer[t].count = 0
<1>1. p_tty \in Tty /\ \A t \in Tty : in_buffer[t] \in Rings(TTY_IN_BYTES, Char)
  BY DEF TtyInv, TtyTypes
<1>2. first(in_buffer[p_tty]) \in Char
  BY <1>1, Sizes DEF first, Rings
<1>3. Gave \in Chars
  <2> DEFINE pair == <<p_tty, first(in_buffer[p_tty])>>
  <2>1. pair \in Tty \X Char
    BY <1>1, <1>2
  <2> HIDE DEF pair
  <2>2. <<pair>> \in Chars /\ <<>> \in Chars
    BY <2>1 DEF Chars
  <2> QED  BY <2>2 DEF Gave, pair
<1>4. \A t \in Tty : in_buffer[t].count \in Nat
  BY <1>1 DEF Rings
<1>5. at # "write" => \A t \in Tty : in_buffer[t].count = 0
  BY <1>4 DEF TtyInv, NothingLeftBehind
<1> QED  BY <1>1, <1>3, <1>5 DEF Gave

LEMMA MeantTyped ==
    ASSUME NEW t \in Tty, NEW k
    PROVE  Meant(t, k) \in Chars
<1>1. {"A", "a", "newline", "rubout"} \subseteq Char
  BY DEF Char
<1>2. typed(k) \in Seq(Char)
  BY <1>1 DEF typed
<1> DEFINE q == typed(k)
<1>3. q \in Seq(Char)
  BY <1>2
<1> HIDE DEF q
<1>4. [i \in DOMAIN q |-> <<t, q[i]>>] \in Seq(Tty \X Char)
  BY <1>3
<1> QED  BY <1>4 DEF Meant, Chars, q

LEMMA StreamInvInit == Init => StreamInv
<1> SUFFICES ASSUME Init PROVE StreamInv
  OBVIOUS
<1>1. KbInv /\ TtyInv /\ contents(KB_IN_BYTES, kb_buffer) = <<>>
  BY KbInvInit, TtyInvInit
<1>2. /\ at = "read" /\ step = 1 /\ modifiers = [m \in Modifier |-> FALSE]
      /\ p_tty = 0 /\ current_console = 0 /\ focus = 0
      /\ wire = <<>> /\ held = {} /\ due = <<>>
  BY DEF Init
<1>3. ReaderTypes /\ at # "write"
  <2>1. 0 \in Tty
    BY Sizes DEF Tty
  <2> QED  BY <1>2, <2>1 DEF ReaderTypes, Place
<1>4. stream = <<>>
  BY <1>1, <1>2 DEF stream
<1>5. Reads(Now, stream, Now, <<>>)
  BY <1>3, <1>4, NowTyped, ReadsNothing
<1>6. Agrees(Now.mods, held)
  <2>1. \A w \in Modifier : ~Now.mods[w]
    BY <1>2 DEF Now
  <2> QED  BY <1>2, <2>1, SlotFacts DEF Agrees
<1>7. Now.at = "read" /\ Now.on = focus
  BY <1>2 DEF Now
<1>8. due = Gave \o <<>>
  <2>1. Gave = <<>>
    BY <1>1, <1>3, GaveTyped
  <2> QED  BY <1>2, <2>1
<1>9. Follows(Now, <<>>)
  BY <1>5, <1>6, <1>7, <1>8 DEF Follows
<1> QED  BY <1>1, <1>2, <1>3, <1>9 DEF StreamInv

\* a byte that is read is the first of the stream
LEMMA ReadFollows ==
    ASSUME StreamInv, keyboard_read, TtyInv'
    PROVE  /\ ReaderTypes'
           /\ (at # "write" => p_tty = current_console)'
           /\ (~lost => \E e, d : Follows(e, d))'
<1>1. KbInv /\ TtyInv /\ ReaderTypes /\ current_console \in Tty
  BY DEF StreamInv, ReaderTypes
<1>2. /\ at # "write" /\ p_tty' = p_tty /\ current_console' \in Tty
      /\ in_buffer' = in_buffer \/ (PutsOrNot /\ at' = "write")
  BY <1>1, ReadEffect
<1>3. Reading /\ Gave = <<>>
  <2>1. p_tty = current_console
    BY <1>2 DEF StreamInv
  <2>2. Gave = <<>> /\ \A t \in Tty : in_buffer[t].count = 0
    BY <1>1, <1>2, GaveTyped
  <2> QED  BY <1>1, <2>1, <2>2 DEF Reading, TtyInv
<1>4. UNCHANGED <<wire, lost, held, focus, due>>
  BY DEF keyboard_read, userVars
<1>5. (at # "write" => p_tty = current_console)'
  BY <1>2, <1>3, ReadKeepsFocus DEF consoleVars, Reading
<1>6. Now \in Reader
  BY <1>1, NowTyped
<1>7. CASE kb_buffer' = kb_buffer /\ Now' = Now /\ Gave' = <<>>
  <2>1. stream' = stream
    BY <1>4, <1>7 DEF stream
  <2>2. \A e, d : Follows(e, d) => Follows(e, d)'
    BY <1>3, <1>4, <1>7, <2>1 DEF Follows
  <2>3. Now' \in Reader
    BY <1>6, <1>7
  <2>4. ReaderTypes'
    BY <1>2, <2>3 DEF ReaderTypes, Reader, Now
  <2> QED  BY <1>4, <1>5, <2>2, <2>4 DEF StreamInv
<1>8. CASE /\ kb_buffer.count > 0
           /\ kb_buffer' = taken(KB_IN_BYTES, kb_buffer)
           /\ first(kb_buffer) \in Byte
           /\ Now' = After(Now, first(kb_buffer))
           /\ Gave' = Gives(Now, first(kb_buffer))
  <2> DEFINE c == contents(KB_IN_BYTES, kb_buffer)
             b == first(kb_buffer)
  <2>1. c # <<>> /\ Head(c) = b /\ c' = Tail(c)
    BY <1>1, <1>8, Sizes, TakenIsTail DEF KbInv
  <2>2. stream = c \o wire /\ stream' = c' \o wire
    BY <1>4 DEF stream
  <2>3. c \in Seq(Byte) /\ wire \in Seq(Byte) /\ stream \in Seq(Byte)
    BY <1>1, StreamTyped
  <2> HIDE DEF c
  <2>4. stream # <<>> /\ Head(stream) = b /\ stream' = Tail(stream)
    BY <2>1, <2>2, <2>3
  <2>5. ReaderTypes'
    <3>1. Now' \in Reader
      BY <1>6, <1>8, AfterTyped
    <3> QED  BY <1>2, <3>1 DEF ReaderTypes, Reader, Now
  <2>6. ASSUME NEW e, NEW d, Follows(e, d) PROVE \E rest : Follows(e, rest)'
    <3>1. Reads(Now, stream, e, d)
      BY <2>6 DEF Follows
    <3>2. PICK rest \in Chars : /\ Reads(After(Now, b), stream', e, rest)
                                /\ d = Gives(Now, b) \o rest
      <4> DEFINE r == Now
                 s == stream
      <4>1. s \in Seq(Byte) /\ s # <<>> /\ Reads(r, s, e, d)
        BY <2>3, <2>4, <3>1
      <4> HIDE DEF r, s
      <4>2. \E rest \in Chars : /\ Reads(After(r, Head(s)), Tail(s), e, rest)
                                /\ d = Gives(r, Head(s)) \o rest
        BY <4>1, ReadsOneLess
      <4>3. Head(s) = b /\ Tail(s) = stream'
        BY <2>4 DEF s
      <4> QED  BY <4>2, <4>3 DEF r
    <3>3. d \in Chars
      BY <2>3, <3>1, ReadsTyped
    <3>4. <<>> \o d = d
      BY <3>3 DEF Chars
    <3>5. FocusClear => e.on = focus' /\ due' = Gave' \o rest
      BY <1>3, <1>4, <1>8, <2>6, <3>2, <3>4 DEF Follows
    <3>6. Reads(Now', stream', e, rest)
      BY <1>8, <3>2
    <3>7. e.at = "read" /\ Agrees(e.mods, held')
      BY <1>4, <2>6 DEF Follows
    <3>8. Follows(e, rest)'
      BY <3>5, <3>6, <3>7 DEF Follows
    <3> QED  BY <3>8
  <2> QED  BY <1>4, <1>5, <2>5, <2>6 DEF StreamInv
<1> QED  BY <1>3, <1>7, <1>8, ReadIsAfter

\* what tty_do_write writes is the first that is due
LEMMA WriteFollows ==
    ASSUME StreamInv, tty_do_write, TtyInv'
    PROVE  /\ ReaderTypes'
           /\ (at # "write" => p_tty = current_console)'
           /\ (~lost => \E e, d : Follows(e, d))'
<1>1. KbInv /\ TtyInv /\ ReaderTypes
  BY DEF StreamInv
<1>2. /\ at = "write" /\ at' = "read" /\ p_tty' = current_console
      /\ UNCHANGED <<kb_buffer, step, modifiers, current_console, wire, lost, held, focus>>
  BY DEF tty_do_write, userVars
<1>3. ReaderTypes' /\ Now' = Now /\ stream' = stream
  BY <1>1, <1>2 DEF ReaderTypes, Now, stream, Place
<1>4. Gave' = <<>>
  <2>1. TtyInv' => (at # "write" => Gave = <<>>)'
    BY GaveTyped, PTL
  <2> QED  BY <1>2, <2>1
<1>5. ASSUME NEW e, NEW d, Follows(e, d) PROVE Follows(e, d)'
  <2>1. Reads(Now', stream', e, d) /\ e.at = "read" /\ Agrees(e.mods, held')
    BY <1>2, <1>3, <1>5 DEF Follows
  <2>2. d \in Chars /\ <<>> \o d = d
    <3>1. d \in Chars
      BY <1>1, <1>5, StreamTyped, ReadsTyped DEF Follows
    <3> QED  BY <3>1 DEF Chars
  <2>3. ASSUME FocusClear PROVE e.on = focus' /\ due' = d
    <3>1. e.on = focus /\ due = Gave \o d
      BY <1>5, <2>3 DEF Follows
    <3>2. CASE in_buffer[p_tty].count = 0
      <4>1. Gave = <<>> /\ due' = due
        BY <3>2 DEF Gave, tty_do_write
      <4> QED  BY <1>2, <2>2, <3>1, <4>1, Zenon
    <3>3. CASE in_buffer[p_tty].count # 0
      <4> DEFINE pair == <<p_tty, first(in_buffer[p_tty])>>
      <4>1. in_buffer[p_tty].count > 0
        <5>1. in_buffer[p_tty] \in Rings(TTY_IN_BYTES, Char)
          BY <1>1 DEF TtyInv, TtyTypes
        <5> QED  BY <3>3, <5>1 DEF Rings
      <4>2. Gave = <<pair>> /\ due' = IF due = <<>> THEN due ELSE Tail(due)
        BY <3>3, <4>1 DEF Gave, tty_do_write
      <4> HIDE DEF pair
      <4>3. <<pair>> \o d # <<>> /\ Tail(<<pair>> \o d) = d
        BY <2>2 DEF Chars
      <4> QED  BY <1>2, <3>1, <4>2, <4>3, Zenon
    <3> QED  BY <3>2, <3>3
  <2> QED  BY <1>4, <2>1, <2>2, <2>3 DEF Follows
<1> QED  BY <1>2, <1>3, <1>5 DEF StreamInv

\* a byte goes from the wire into kb_buffer, or is lost
LEMMA InterruptFollows ==
    ASSUME StreamInv, keyboard_handler
    PROVE  /\ ReaderTypes'
           /\ (at # "write" => p_tty = current_console)'
           /\ (~lost => \E e, d : Follows(e, d))'
<1> DEFINE c == contents(KB_IN_BYTES, kb_buffer)
<1>1. KbInv /\ ReaderTypes
  BY DEF StreamInv
<1>2. /\ wire # <<>> /\ wire' = Tail(wire)
      /\ kb_buffer' = put(KB_IN_BYTES, kb_buffer, Head(wire))
      /\ lost' <=> (lost \/ kb_buffer.count = KB_IN_BYTES)
      /\ UNCHANGED <<at, step, modifiers, p_tty, in_buffer, current_console, held, focus, due>>
  BY DEF keyboard_handler, taskVars, consoleVars, userVars
<1>3. ReaderTypes' /\ Now' = Now /\ Gave' = Gave
  BY <1>1, <1>2 DEF ReaderTypes, Now, Gave
<1>4. ASSUME ~lost' PROVE ~lost /\ stream' = stream
  <2>1. ~lost /\ kb_buffer.count # KB_IN_BYTES
    BY <1>2, <1>4
  <2>2. /\ c \in Seq(Byte) /\ Len(c) = kb_buffer.count
        /\ kb_buffer.count \in 0..KB_IN_BYTES /\ wire \in Seq(Byte)
    BY <1>1, StreamTyped
  <2>3. Head(wire) \in Byte /\ Len(c) < KB_IN_BYTES
    BY <1>2, <2>1, <2>2, Sizes
  <2>4. c' = Append(c, Head(wire))
    BY <1>1, <1>2, <2>3, Sizes, PutAppends DEF KbInv
  <2>5. stream = c \o wire /\ stream' = c' \o wire'
    BY DEF stream
  <2> HIDE DEF c
  <2>6. Append(c, Head(wire)) \o Tail(wire) = c \o wire
    BY <1>2, <2>2
  <2> QED  BY <1>2, <2>1, <2>4, <2>5, <2>6
<1>5. ASSUME ~lost', NEW e, NEW d, Follows(e, d) PROVE Follows(e, d)'
  BY <1>2, <1>3, <1>4, <1>5 DEF Follows
<1> QED  BY <1>2, <1>3, <1>4, <1>5 DEF StreamInv

LEMMA PressFollows ==
    ASSUME StreamInv, NEW k \in Keys, press(k)
    PROVE  (~lost => \E e, d : Follows(e, d))'
<1> DEFINE c == contents(KB_IN_BYTES, kb_buffer)
<1>1. /\ wire = <<>> /\ wire' = make_bytes(k) /\ held' = held \cup {k}
      /\ focus' = Wanted(focus, k) /\ due' = due \o Meant(focus, k)
      /\ UNCHANGED <<kb_buffer, at, step, modifiers, p_tty, in_buffer, current_console, lost>>
  BY DEF press, Wanted, Meant, taskVars, consoleVars
<1>2. Now' = Now /\ Gave' = Gave
  BY <1>1 DEF Now, Gave
<1>3. c \in Seq(Byte) /\ stream = c /\ stream' = c \o make_bytes(k)
  <2>1. c \in Seq(Byte)
    BY StreamTyped DEF StreamInv
  <2> QED  BY <1>1, <2>1 DEF stream
<1> HIDE DEF c
<1>4. ASSUME NEW e, NEW d, Follows(e, d) PROVE \E f, g : Follows(f, g)'
  <2>1. /\ Reads(Now, c, e, d) /\ e.at = "read" /\ Agrees(e.mods, held)
        /\ held \in SUBSET Keys
    BY <1>3, <1>4 DEF Follows, StreamInv
  <2>2. PICK f : /\ Reads(Now, c \o make_bytes(k), f, d \o Meant(e.on, k))
                 /\ f.at = "read" /\ Agrees(f.mods, held \cup {k})
                 /\ FocusClear => f.on = Wanted(e.on, k)
    <3>1. PressRead(Now, c, e, d, k)
      BY <1>3, <2>1, PressReads
    <3> QED  BY <3>1 DEF PressRead
  <2> DEFINE g == Meant(e.on, k)
  <2>3. e \in Reader /\ d \in Chars
    BY <1>3, <2>1, ReadsTyped
  <2>4. g \in Chars
    <3>1. e.on \in Tty
      BY <2>3 DEF Reader
    <3> QED  BY <3>1, MeantTyped
  <2>5. Gave \in Chars
    BY GaveTyped DEF StreamInv
  <2>6. ASSUME FocusClear PROVE f.on = focus' /\ due' = Gave' \o (d \o g)
    <3>1. e.on = focus /\ due = Gave \o d
      BY <1>4, <2>6 DEF Follows
    <3>2. f.on = focus' /\ due' = (Gave \o d) \o g
      BY <1>1, <2>2, <2>6, <3>1
    <3> HIDE DEF g
    <3>3. (Gave \o d) \o g = Gave \o (d \o g)
      BY <2>3, <2>4, <2>5, CharsAssociate
    <3> QED  BY <1>2, <3>2, <3>3
  <2>7. Reads(Now', stream', f, d \o g) /\ f.at = "read" /\ Agrees(f.mods, held')
    BY <1>1, <1>2, <1>3, <2>2
  <2> HIDE DEF g
  <2>8. ASSUME NEW x, x = d \o g PROVE Follows(f, x)'
    BY <2>6, <2>7, <2>8 DEF Follows
  <2> QED  BY <2>8
<1> QED  BY <1>1, <1>4 DEF StreamInv

LEMMA ReleaseFollows ==
    ASSUME StreamInv, NEW k \in Keys, release(k)
    PROVE  (~lost => \E e, d : Follows(e, d))'
<1> DEFINE c == contents(KB_IN_BYTES, kb_buffer)
<1>1. /\ wire = <<>> /\ wire' = break_bytes(k) /\ held' = held \ {k}
      /\ UNCHANGED <<kb_buffer, at, step, modifiers, p_tty, in_buffer, current_console,
                     lost, focus, due>>
  BY DEF release, taskVars, consoleVars
<1>2. Now' = Now /\ Gave' = Gave
  BY <1>1 DEF Now, Gave
<1>3. c \in Seq(Byte) /\ stream = c /\ stream' = c \o break_bytes(k)
  <2>1. c \in Seq(Byte)
    BY StreamTyped DEF StreamInv
  <2> QED  BY <1>1, <2>1 DEF stream
<1> HIDE DEF c
<1>4. ASSUME NEW e, NEW d, Follows(e, d) PROVE \E f : Follows(f, d)'
  <2>1. /\ Reads(Now, c, e, d) /\ e.at = "read" /\ Agrees(e.mods, held)
        /\ held \in SUBSET Keys
    BY <1>3, <1>4 DEF Follows, StreamInv
  <2>2. PICK f : /\ Reads(Now, c \o break_bytes(k), f, d)
                 /\ f.at = "read" /\ Agrees(f.mods, held \ {k}) /\ f.on = e.on
    <3>1. ReleaseRead(Now, c, e, d, k)
      BY <1>3, <2>1, ReleaseReads
    <3> QED  BY <3>1 DEF ReleaseRead
  <2>3. FocusClear => f.on = focus' /\ due' = Gave' \o d
    BY <1>1, <1>2, <1>4, <2>2 DEF Follows
  <2>4. Follows(f, d)'
    BY <1>1, <1>2, <1>3, <2>2, <2>3 DEF Follows
  <2> QED  BY <2>4
<1> QED  BY <1>1, <1>4 DEF StreamInv

LEMMA StreamInvStep ==
    ASSUME StreamInv, [Next]_vars
    PROVE  StreamInv'
<1>1. KbInv' /\ TtyInv'
  BY KbStep, TtyInvStep DEF StreamInv
<1> DEFINE Kept == /\ ReaderTypes'
                   /\ (at # "write" => p_tty = current_console)'
                   /\ (~lost => \E e, d : Follows(e, d))'
<1>2. ASSUME UNCHANGED taskVars
      PROVE  ReaderTypes' /\ (at # "write" => p_tty = current_console)'
  BY <1>2 DEF taskVars, consoleVars, StreamInv, ReaderTypes
<1>3. CASE keyboard_read
  <2>1. Kept
    BY <1>1, <1>3, ReadFollows
  <2>2. held' = held
    BY <1>3 DEF keyboard_read, userVars
  <2> QED  BY <1>1, <2>1, <2>2 DEF StreamInv
<1>4. CASE tty_do_write
  <2>1. Kept
    BY <1>1, <1>4, WriteFollows
  <2>2. held' = held
    BY <1>4 DEF tty_do_write, userVars
  <2> QED  BY <1>1, <2>1, <2>2 DEF StreamInv
<1>5. CASE keyboard_handler
  <2>1. Kept
    BY <1>5, InterruptFollows
  <2>2. held' = held
    BY <1>5 DEF keyboard_handler, userVars
  <2> QED  BY <1>1, <2>1, <2>2 DEF StreamInv
<1>6. ASSUME NEW k \in Keys, press(k) PROVE StreamInv'
  <2>1. (~lost => \E e, d : Follows(e, d))'
    BY <1>6, PressFollows
  <2>2. held' \in SUBSET Keys /\ UNCHANGED taskVars
    BY <1>6 DEF press, StreamInv
  <2> QED  BY <1>1, <1>2, <2>1, <2>2 DEF StreamInv
<1>7. ASSUME NEW k \in Keys, release(k) PROVE StreamInv'
  <2>1. (~lost => \E e, d : Follows(e, d))'
    BY <1>7, ReleaseFollows
  <2>2. held' \in SUBSET Keys /\ UNCHANGED taskVars
    BY <1>7 DEF release, StreamInv
  <2> QED  BY <1>1, <1>2, <2>1, <2>2 DEF StreamInv
<1>8. CASE UNCHANGED vars
  <2>1. /\ UNCHANGED <<kb_buffer, wire, lost, due, held, focus, at, step, modifiers,
                       p_tty, in_buffer, current_console>>
        /\ UNCHANGED taskVars
    BY <1>8 DEF vars, taskVars, consoleVars, userVars
  <2>2. Now' = Now /\ Gave' = Gave /\ stream' = stream
    BY <2>1 DEF Now, Gave, stream
  <2>3. \A e, d : Follows(e, d) => Follows(e, d)'
    BY <2>1, <2>2 DEF Follows
  <2> QED  BY <1>1, <1>2, <2>1, <2>3 DEF StreamInv
<1> QED  BY <1>3, <1>4, <1>5, <1>6, <1>7, <1>8 DEF Next

(***************************************************************************)
(* While no byte is dropped, the modifiers of keyboard_read agree with the *)
(* keys that are down whenever everything has been read: for any keys, any *)
(* number of their presses and repetitions, and any size of the buffers.   *)
(***************************************************************************)
THEOREM ModifiersAgree == Spec => []ModifiersFollowKeys
<1>1. ASSUME StreamInv PROVE ModifiersFollowKeys
  <2>1. SUFFICES ASSUME AtRest, ~lost
                 PROVE  /\ modifiers["shift_l"] = ("LSHIFT" \in held)
                        /\ modifiers["shift_r"] = ("RSHIFT" \in held)
                        /\ modifiers["ctrl_l"]  = ("LCTRL" \in held)
                        /\ modifiers["ctrl_r"]  = ("RCTRL" \in held)
                        /\ \/ {"LALT", "RALT"} \subseteq Keys
                           \/ modifiers["alt_l"] = (held \cap {"LALT", "RALT"} # {})
    BY DEF ModifiersFollowKeys
  <2>2. PICK e, d : Follows(e, d)
    BY <1>1, <2>1 DEF StreamInv
  <2>3. stream = <<>>
    <3>1. wire = <<>> /\ kb_buffer.count = 0
      BY <2>1 DEF AtRest
    <3>2. /\ contents(KB_IN_BYTES, kb_buffer) \in Seq(Byte)
          /\ Len(contents(KB_IN_BYTES, kb_buffer)) = kb_buffer.count
      BY <1>1, StreamTyped DEF StreamInv
    <3> QED  BY <3>1, <3>2 DEF stream
  <2>4. e = Now
    BY <2>2, <2>3, NothingRead DEF Follows
  <2>5. Agrees(modifiers, held)
    BY <2>2, <2>4 DEF Follows, Now
  <2>6. \A w \in Modifier : modifiers[w] \in BOOLEAN
    BY <1>1 DEF StreamInv, ReaderTypes
  <2>7. /\ modifiers["shift_l"] \in BOOLEAN /\ modifiers["shift_r"] \in BOOLEAN
        /\ modifiers["ctrl_l"] \in BOOLEAN /\ modifiers["ctrl_r"] \in BOOLEAN
        /\ modifiers["alt_l"] \in BOOLEAN
    BY <2>6, SlotFacts
  <2>8. /\ modifiers["shift_l"] <=> "LSHIFT" \in held
        /\ modifiers["shift_r"] <=> "RSHIFT" \in held
        /\ modifiers["ctrl_l"]  <=> "LCTRL" \in held
        /\ modifiers["ctrl_r"]  <=> "RCTRL" \in held
        /\ \/ {"LALT", "RALT"} \subseteq Keys
           \/ modifiers["alt_l"] <=> held \cap {"LALT", "RALT"} # {}
    BY <2>5 DEF Agrees, OneAlt
  <2>9. ASSUME NEW p \in BOOLEAN, NEW q \in BOOLEAN, p <=> q PROVE p = q
    BY <2>9
  <2>10. /\ ("LSHIFT" \in held) \in BOOLEAN /\ ("RSHIFT" \in held) \in BOOLEAN
         /\ ("LCTRL" \in held) \in BOOLEAN /\ ("RCTRL" \in held) \in BOOLEAN
         /\ (held \cap {"LALT", "RALT"} # {}) \in BOOLEAN
    OBVIOUS
  <2>11. modifiers["shift_l"] = ("LSHIFT" \in held)
    BY <2>7, <2>8, <2>9, <2>10, Zenon
  <2>12. modifiers["shift_r"] = ("RSHIFT" \in held)
    BY <2>7, <2>8, <2>9, <2>10, Zenon
  <2>13. modifiers["ctrl_l"]  = ("LCTRL" \in held)
    BY <2>7, <2>8, <2>9, <2>10, Zenon
  <2>14. modifiers["ctrl_r"]  = ("RCTRL" \in held)
    BY <2>7, <2>8, <2>9, <2>10, Zenon
  <2>15. \/ {"LALT", "RALT"} \subseteq Keys
         \/ modifiers["alt_l"] = (held \cap {"LALT", "RALT"} # {})
    BY <2>7, <2>8, <2>9, <2>10, Zenon
  <2> QED  BY <2>11, <2>12, <2>13, <2>14, <2>15, Zenon
<1> QED  BY <1>1, StreamInvInit, StreamInvStep, PTL DEF Spec

(***************************************************************************)
(* While no byte is dropped, the characters reach the terminals in the     *)
(* order they were typed and with the Shift and the focus of that moment,  *)
(* if Alt is clear: one Alt key, or none of F1, F2 and F3.                 *)
(***************************************************************************)
THEOREM TypedReachesTerminal ==
    ASSUME FocusClear
    PROVE  Spec => TypedInOrder
<1> DEFINE Right == tty_do_write /\ in_buffer[p_tty].count > 0 /\ ~lost =>
                        due # <<>> /\ Head(due) = <<p_tty, first(in_buffer[p_tty])>>
<1>1. ASSUME StreamInv PROVE Right
  <2>1. SUFFICES ASSUME in_buffer[p_tty].count > 0, ~lost
                 PROVE  due # <<>> /\ Head(due) = <<p_tty, first(in_buffer[p_tty])>>
    OBVIOUS
  <2> DEFINE pair == <<p_tty, first(in_buffer[p_tty])>>
  <2>2. PICK e, d : Follows(e, d)
    BY <1>1, <2>1 DEF StreamInv
  <2>3. d \in Chars
    BY <1>1, <2>2, StreamTyped, ReadsTyped DEF Follows, StreamInv
  <2>4. due = <<pair>> \o d
    BY <2>1, <2>2 DEF Follows, Gave
  <2> HIDE DEF pair
  <2>5. due # <<>> /\ Head(due) = pair
    BY <2>3, <2>4 DEF Chars
  <2> QED  BY <2>5 DEF pair
<1>2. StreamInv /\ [Next]_vars => StreamInv'
  BY StreamInvStep
<1>3. StreamInv => [Right]_vars
  BY <1>1
<1> QED  BY <1>2, <1>3, StreamInvInit, PTL DEF Spec, TypedInOrder
=============================================================================
