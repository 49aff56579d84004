------------------------- MODULE KeyboardRefinement -------------------------
(***************************************************************************)
(* kb_buffer as task_tty and the interrupt see it, without its pointers.   *)
(***************************************************************************)
EXTENDS Keyboard

Bytes == INSTANCE Fifo WITH
    Value  <- Byte,
    Places <- KB_IN_BYTES,
    queue  <- contents(KB_IN_BYTES, kb_buffer)

(***************************************************************************)
(* kb_buffer is a first-in-first-out queue: keyboard_handler appends a     *)
(* byte or drops it, get_byte_from_kbuf removes the oldest, and no byte is *)
(* overwritten, repeated or reordered when the pointers wrap.              *)
(***************************************************************************)
KbBufferIsFifo == Bytes!Spec
=============================================================================
