----------------------------- MODULE ByteStream -----------------------------
(***************************************************************************)
(* One direction of the connection between the master and a controller,    *)
(* below the messages of module Protocol: toBits() makes a message a block *)
(* of cells, the kernels carry the cells, and the receiver puts header and *)
(* body together again. A cell is a field of the message: the opcode and   *)
(* the body's size are the header, then come the fields of the body.       *)
(***************************************************************************)
EXTENDS Naturals, Sequences

CONSTANTS
    Script,     \* the messages of this direction: [opcode, bodySize]
    SendBuffer  \* cells the kernels hold between writer and reader

VARIABLES
    sending,    \* cells the writer's kernel has taken
    arrived     \* cells the reader's kernel has for its process

HeaderSize == 2
Numbers == 1 .. Len(Script)
Size(m) == HeaderSize + Script[m].bodySize

\* Cell i of message m; memory that was freed, and memory never written to.
Cells == UNION {{<<m, i>> : i \in 1 .. Size(m)} : m \in Numbers}
Garbage == <<0, 0>>
Zero == <<0, 1>>

\* Message::toBits.
ToBits(m) == [i \in 1 .. Size(m) |-> <<m, i>>]

\* The opcode of a header, and the body sizes it may be read as: the bodySize
\* field, or any number when something else is in its place.
Opcode(header) ==
    IF header[1][1] \in Numbers /\ header[1][2] = 1
    THEN Script[header[1][1]].opcode ELSE "none"
BodySizes(header) ==
    IF header[2][1] \in Numbers /\ header[2][2] = 2
    THEN {Script[header[2][1]].bodySize}
    ELSE {Script[m].bodySize : m \in Numbers}

\* How much of n cells the kernel takes at once.
Taken(n) ==
    LET room == SendBuffer - Len(sending) - Len(arrived)
    IN  IF n < room THEN n ELSE room

\* The network carries a cell.
Transfer ==
    /\ sending # <<>>
    /\ arrived' = Append(arrived, Head(sending))
    /\ sending' = Tail(sending)

\* ba::read with transfer_all: the first n cells, and what is left.
Read(n) == SubSeq(arrived, 1, n)
Unread(n) == SubSeq(arrived, n + 1, Len(arrived))
=============================================================================
