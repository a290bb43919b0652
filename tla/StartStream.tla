---------------------------- MODULE StartStream -----------------------------
(***************************************************************************)
(* The DhtType, Profile and Start messages on their way to a controller.   *)
(* ControllerConnection::sendMessage keeps the block in writeBuffer_ while *)
(* an asynchronous write is under way, and the next sendMessage puts its   *)
(* own block there. The controller reads with getNextMessage, which looks  *)
(* at the error of the header's read and not at that of the body's.        *)
(***************************************************************************)
EXTENDS ByteStream

CONSTANT MasterMayDie

VARIABLES
    master,         \* "up" or "down"
    sent,           \* messages given to sendMessage
    taken,          \* per message: cells of its async_write in the kernel
    controller,     \* the message it waits for, or how far it got
    header,         \* the header of that message, <<>> before it is read
    received        \* blocks the controller acted upon

vars == <<sending, arrived, master, sent, taken, controller, header, received>>

\* What a memory cell of a message may hold when it is sent or read.
AllCells == Cells \cup {Garbage, Zero}

TypeOK ==
    /\ sending \in Seq(AllCells) /\ arrived \in Seq(AllCells)
    /\ Len(sending) + Len(arrived) <= SendBuffer
    /\ master \in {"up", "down"}
    /\ sent \in 0 .. Len(Script)
    /\ taken \in [Numbers -> Nat]
    /\ \A m \in Numbers : taken[m] <= IF m <= sent THEN Size(m) ELSE 0
    /\ controller \in {"DhtType", "Profile", "Start", "started", "exit",
                       "aborted"}
    /\ header = <<>> \/ header \in [1 .. HeaderSize -> AllCells]
    /\ header # <<>> => Opcode(header) = controller
    /\ received \in Seq(Seq(AllCells))

Init ==
    /\ sending = <<>> /\ arrived = <<>>
    /\ master = "up" /\ sent = 0 /\ taken = [m \in Numbers |-> 0]
    /\ controller = "DhtType" /\ header = <<>> /\ received = <<>>

-----------------------------------------------------------------------------
\* sendMessage: the block goes to writeBuffer_, and the kernel takes at once
\* what it has room for.
SendMessage ==
    /\ master = "up" /\ sent < Len(Script)
    /\ sent' = sent + 1
    /\ LET n == Taken(Size(sent'))
       IN  /\ taken' = [taken EXCEPT ![sent'] = n]
           /\ sending' = sending \o SubSeq(ToBits(sent'), 1, n)
    /\ UNCHANGED <<arrived, master, controller, header, received>>

\* What the memory that the write of m points to may hold: its block, as long
\* as writeBuffer_ was not assigned to. The assignment overwrites the block
\* or frees it, and freed memory holds the old cells or anything else.
Memory(m) ==
    {ToBits(m)} \cup
    (IF m = sent THEN {}
     ELSE {[i \in 1 .. Size(m) |-> IF i <= Size(sent) THEN <<sent, i>>
                                                      ELSE <<m, i>>],
           [i \in 1 .. Size(m) |-> Garbage]})

\* The completion of a part of an async_write sends the next part. handleAccept
\* sends DhtType and Profile, and no completion runs before it returns.
WriteMore(m) ==
    /\ master = "up" /\ sent # 1
    /\ m <= sent /\ taken[m] < Size(m)
    /\ LET n == Taken(Size(m) - taken[m])
       IN  /\ n > 0
           /\ taken' = [taken EXCEPT ![m] = @ + n]
           /\ \E block \in Memory(m) :
                 sending' = sending
                            \o SubSeq(block, taken[m] + 1, taken[m] + n)
    /\ UNCHANGED <<arrived, master, sent, controller, header, received>>

\* The process of the master ends: what the kernel has is still delivered.
Die ==
    /\ MasterMayDie
    /\ master = "up"
    /\ master' = "down"
    /\ UNCHANGED <<sending, arrived, sent, taken, controller, header,
                   received>>

Carry ==
    /\ Transfer
    /\ UNCHANGED <<master, sent, taken, controller, header, received>>

-----------------------------------------------------------------------------
Waiting == controller \in {"DhtType", "Profile", "Start"}
Truncated(n) == master = "down" /\ sending = <<>> /\ Len(arrived) < n

\* The first read of getNextMessage: "unexpected message opcode" is fatal.
ReadHeader ==
    /\ Waiting /\ header = <<>> /\ Len(arrived) >= HeaderSize
    /\ arrived' = Unread(HeaderSize)
    /\ IF Opcode(Read(HeaderSize)) = controller
       THEN header' = Read(HeaderSize) /\ UNCHANGED controller
       ELSE controller' = "exit" /\ UNCHANGED header
    /\ UNCHANGED <<sending, master, sent, taken, received>>

\* Its error is fatal. The mutant reads on.
HeaderErrorIgnored ==
    /\ Waiting /\ header = <<>> /\ Truncated(HeaderSize)
    /\ UNCHANGED vars
HeaderError ==
    /\ Waiting /\ header = <<>> /\ Truncated(HeaderSize)
    /\ controller' = "exit"
    /\ UNCHANGED <<sending, arrived, master, sent, taken, header, received>>

\* What the constructors of the messages, and their users, make of a body:
\* DhtNode::make exits when it does not know the type; the sizes of a Profile
\* must add up ("assert(copied == header.bodySize)"), and a profile string
\* that is not the one sent may be refused; Start takes what it gets.
After(message, body, size) ==
    CASE message = "DhtType" ->
            IF body = [i \in 1 .. size |-> <<1, HeaderSize + i>>]
            THEN {"Profile"} ELSE {"exit"}
      [] message = "Profile" ->
            IF body[1] # <<2, HeaderSize + 1>> \/ size # Script[2].bodySize
            THEN {"aborted"}
            ELSE IF body = [i \in 1 .. size |-> <<2, HeaderSize + i>>]
            THEN {"Start"} ELSE {"Start", "exit"}
      [] message = "Start" -> {"started"}

\* The second read: it returns when the body is complete or the stream ends,
\* and in both cases the rest of the zeroed vector stays zero.
ReadBody ==
    /\ header # <<>>
    /\ \E size \in BodySizes(header) :
          /\ Len(arrived) >= size \/ Truncated(size)
          /\ LET n == IF Len(arrived) < size THEN Len(arrived) ELSE size
                 body == [i \in 1 .. size |-> IF i <= n THEN arrived[i]
                                                        ELSE Zero]
             IN  /\ arrived' = Unread(n)
                 /\ controller' \in After(controller, body, size)
                 /\ received' = IF controller' \in {"exit", "aborted"}
                                THEN received
                                ELSE Append(received, header \o body)
    /\ header' = <<>>
    /\ UNCHANGED <<sending, master, sent, taken>>

MasterStep == SendMessage \/ \E m \in Numbers : WriteMore(m)
ReadStep == ReadHeader \/ HeaderError \/ ReadBody

-----------------------------------------------------------------------------
\* A block whose body the end of the master cut short.
CutShort(block) == master = "down" /\ \E i \in DOMAIN block : block[i] = Zero

\* A controller that got such a block will get no other.
GotLast == received # <<>> /\ CutShort(received[Len(received)])

Fifo == INSTANCE MessageFifo WITH
    Bits <- ToBits,
    handled <- IF GotLast THEN SubSeq(received, 1, Len(received) - 1)
                          ELSE received,
    over <- ~Waiting \/ GotLast

(***************************************************************************)
(* The controller acts upon the messages that the master sent, whole and   *)
(* in order, as module Network has it. This is so although sendMessage     *)
(* reuses writeBuffer_, as long as the kernel takes DhtType and Profile at *)
(* once. A body that getNextMessage takes although it came in part, and    *)
(* fills with zeros, is the last one, of a master that is gone.            *)
(***************************************************************************)
ImplementsFifo == Fifo!Spec
=============================================================================
