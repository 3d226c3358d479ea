-------------------------------- MODULE Loops --------------------------------
(***************************************************************************)
(* A C loop over the bytes of a buffer that writes to another buffer: turn *)
(* i writes turns[i].put and goes on at the byte turns[i].next.            *)
(***************************************************************************)
EXTENDS Naturals, Sequences

\* What the loop writes from byte i on.
WrittenFrom(turns) ==
    LET from[i \in Nat] == IF i \in DOMAIN turns THEN turns[i].put \o from[turns[i].next]
                           ELSE <<>>
    IN  from

Written(turns) == WrittenFrom(turns)[1]

\* The parts one after the other.
Concat(parts) == Written([i \in DOMAIN parts |-> [put |-> parts[i], next |-> i + 1]])
=============================================================================
