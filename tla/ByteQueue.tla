------------------------------ MODULE ByteQueue ------------------------------
(***************************************************************************)
(* What a QRingBuffer promises: a queue of bytes. "out" is what the last   *)
(* operation returned.                                                     *)
(***************************************************************************)
EXTENDS Integers, Sequences

CONSTANT Bytes

VARIABLES bytes, out

vars == <<bytes, out>>

First(n) == SubSeq(bytes, 1, n)
Rest(n)  == SubSeq(bytes, n + 1, Len(bytes))

Init == bytes = <<>> /\ out = <<>>

\* At the end: reserve, putChar.
Put == /\ \E n \in 1..Len(bytes') : SubSeq(bytes', 1, Len(bytes') - n) = bytes
       /\ bytes' \in Seq(Bytes)
       /\ out' = <<>>

\* From the front: read, readLine, getChar, free.
Take == \E n \in 0..Len(bytes) : bytes' = Rest(n) /\ out' \in {First(n), <<>>}

\* All: clear.
Drop == bytes' = <<>> /\ out' = <<>>

\* Back at the front.
Unget == bytes' # <<>> /\ Head(bytes') \in Bytes /\ Tail(bytes') = bytes /\ out' = <<>>

Next == Put \/ Take \/ Drop \/ Unget

Spec == Init /\ [][Next]_vars
==============================================================================
