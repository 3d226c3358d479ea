-------------------------------- MODULE Ports --------------------------------
(***************************************************************************)
(* Port numbers: the search for a free passive port (network.c), in the    *)
(* unsigned 16-bit arithmetic of its variables, and the two bytes in which *)
(* PASV and PORT carry a port (protocol.c, parser.py).                     *)
(***************************************************************************)
EXTENDS Integers

CONSTANT Byte            \* 256 in the code: the values of a byte

ASSUME ByteIsPositive == Byte \in Nat \ {0}

Word == Byte * Byte      \* the values of a uint16_t
Port == 0 .. Word - 1

INVALID_SOCKET_T == -1

\* A faulty variant: the sum is kept in 16 bits before the modulo.
PortAtWraps(port_min, size, start, i) == (port_min + (((start + i) % Word) % size)) % Word

\* The i-th port the loop tries; start + i is an int.
PortAt(port_min, size, start, i) == (port_min + ((start + i) % size)) % Word

RangeSize(port_min, port_max) == (port_max - port_min + 1) % Word

\* The start is the clock and an address modulo the size: any number below it.
\* "free" are the ports that a socket can be bound to.
net_create_listening_socket_range(port_min, port_max, start, free) ==
    LET size == RangeSize(port_min, port_max)
        Bound(i) == PortAt(port_min, size, start, i) \in free
    IN  IF port_min > port_max \/ \A i \in 0 .. size - 1 : ~Bound(i) THEN INVALID_SOCKET_T
        ELSE PortAt(port_min, size, start,
                    CHOOSE i \in 0 .. size - 1 : Bound(i) /\ \A j \in 0 .. i - 1 : ~Bound(j))

-----------------------------------------------------------------------------
proto_address_to_pasv(port) == <<(port \div Byte) % Byte, (port % Byte) % Byte>>

parse_pasv_response(p) == p[1] * Byte + p[2]

format_port_command(port) == <<port \div Byte, port % Byte>>

Rejected == -1
proto_parse_port(p) == IF p[1] > Byte - 1 \/ p[2] > Byte - 1 THEN Rejected
                       ELSE (p[1] * Byte + p[2]) % Word

-----------------------------------------------------------------------------
\* Whatever port the search starts at, it finds one that is free if there is
\* any in the range, and none outside of it (network.c:149-191).  A port below
\* 1 would leave the choice to the system; the one caller, handler.c:397, asks
\* for 20000 to 65535.
FindsFree(port_min, port_max, start, free) ==
    LET found == net_create_listening_socket_range(port_min, port_max, start, free)
        usable == free \cap (port_min .. port_max)
    IN  IF usable = {} THEN found = INVALID_SOCKET_T ELSE found \in usable

\* The port the server listens on is the one the client connects to, and the
\* port the client listens on is the one the server connects to.
Carries(port) ==
    /\ parse_pasv_response(proto_address_to_pasv(port)) = port
    /\ proto_parse_port(format_port_command(port)) = port
=============================================================================
