-------------------------------- MODULE Ring ---------------------------------
(***************************************************************************)
(* The ring buffer that len-os has twice: kb_buffer, between the keyboard  *)
(* interrupt and task_tty, and in_buffer of each terminal, between         *)
(* keyboard_read and tty_do_write.  A ring of N places is a record of its  *)
(* buffer, the place to write next, the place to read next and a count.    *)
(***************************************************************************)
EXTENDS Integers, Sequences

Rings(N, Value) == [buffer : [0..(N - 1) -> Value],
                    head : 0..(N - 1), tail : 0..(N - 1), count : 0..N]

empty_ring(N, fill) ==
    [buffer |-> [i \in 0..(N - 1) |-> fill], head |-> 0, tail |-> 0, count |-> 0]

\* the pointer that does not wrap at the end of the buffer
advanced_flat(N, p) == IF p + 1 = N THEN p ELSE p + 1

\* a pointer moved by one place, back to the start at the end of the buffer
advanced(N, p) == IF p + 1 = N THEN 0 ELSE p + 1

\* a full ring drops what is put into it
put(N, r, x) ==
    IF r.count < N
    THEN [buffer |-> [r.buffer EXCEPT ![r.head] = x],
          head |-> advanced(N, r.head), tail |-> r.tail, count |-> r.count + 1]
    ELSE r

first(r) == r.buffer[r.tail]

\* a take that forgets the count
taken_uncounted(N, r) == [r EXCEPT !.tail = advanced(N, r.tail)]

taken(N, r) == [buffer |-> r.buffer, head |-> r.head,
                tail |-> advanced(N, r.tail), count |-> r.count - 1]

\* the place p places after the start of the buffer, once around at most
wrapped(N, p) == IF p >= N THEN p - N ELSE p

\* what the ring holds, oldest first
contents(N, r) == [i \in 1..r.count |-> r.buffer[wrapped(N, r.tail + i - 1)]]

\* the writing pointer is count places ahead of the reading one
Consistent(N, r) == r.head = wrapped(N, r.tail + r.count)
=============================================================================
