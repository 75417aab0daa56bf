------------------------------ MODULE MCFraming ------------------------------
(***************************************************************************)
(* Framing for TLC: buffers that start with two writable bytes behind one  *)
(* of prepend, and seven bytes to read, so that the buffer is filled to the  *)
(* last byte, grows, is moved to the front and overflows into extrabuf.    *)
(***************************************************************************)
EXTENDS Framing

MCBytes == {NUL, EOL} \cup 1..MaxBytes
MCResponse == <<1, 2, 3>>
=============================================================================
