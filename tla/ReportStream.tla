---------------------------- MODULE ReportStream ----------------------------
(***************************************************************************)
(* The reports on their way to the master: reportResults and               *)
(* sendFinishMessage of a controller write block after block with blocking *)
(* writes; the master's ControllerConnection reads header and body with    *)
(* asynchronous reads. Either process may end at any point.                *)
(***************************************************************************)
EXTENDS ByteStream

VARIABLES
    writer,         \* "running", "done" (its process ended well) or "dead"
    writing,        \* message being written
    written,        \* its cells in the kernel
    reader,         \* what ControllerConnection waits for, or its end
    headerBuffer,
    bodyBuffer,
    handled         \* messages given to messageHandler_

vars == <<sending, arrived, writer, writing, written, reader, headerBuffer,
          bodyBuffer, handled>>

TypeOK ==
    /\ sending \in Seq(Cells) /\ arrived \in Seq(Cells)
    /\ Len(sending) + Len(arrived) <= SendBuffer
    /\ writer \in {"running", "done", "dead"}
    /\ writing \in 1 .. Len(Script) + 1
    /\ writing \in Numbers => written \in 0 .. Size(writing) - 1
    /\ reader \in {"header", "body", "finished", "disconnected", "closed"}
    /\ headerBuffer \in Seq(Cells)
    /\ reader = "body" =>
          \E m \in Numbers : headerBuffer = SubSeq(ToBits(m), 1, HeaderSize)
    /\ bodyBuffer \in Seq(Cells \cup {Zero})

Init ==
    /\ sending = <<>> /\ arrived = <<>>
    /\ writer = "running" /\ writing = 1 /\ written = 0
    /\ reader = "header" /\ headerBuffer = <<>> /\ bodyBuffer = <<>>
    /\ handled = <<>>

-----------------------------------------------------------------------------
Gone == writer # "running"

\* ba::write(socket_, bits): the kernel takes what it has room for, and the
\* call returns with the last cell. Nobody reads what goes to a closed socket.
Write ==
    /\ writer = "running" /\ writing \in Numbers
    /\ LET left == SubSeq(ToBits(writing), written + 1, Size(writing))
           n == IF reader = "closed" THEN Len(left) ELSE Taken(Len(left))
       IN  /\ n > 0
           /\ sending' = IF reader = "closed" THEN sending
                         ELSE sending \o SubSeq(left, 1, n)
           /\ writing' = IF n = Len(left) THEN writing + 1 ELSE writing
           /\ written' = IF n = Len(left) THEN 0 ELSE written + n
    /\ UNCHANGED <<arrived, writer, reader, headerBuffer, bodyBuffer, handled>>

WriterEnds(how) ==
    /\ writer' = how
    /\ UNCHANGED <<sending, arrived, writing, written, reader, headerBuffer,
                   bodyBuffer, handled>>

\* "Error at reportResults", "Error at finish": exit(1).
WriteError ==
    /\ writer = "running" /\ writing \in Numbers
    /\ reader = "closed"
    /\ WriterEnds("dead")

Finishes == writer = "running" /\ writing \notin Numbers /\ WriterEnds("done")

Die == writer = "running" /\ WriterEnds("dead")

Carry ==
    /\ Transfer
    /\ UNCHANGED <<writer, writing, written, reader, headerBuffer, bodyBuffer,
                   handled>>

-----------------------------------------------------------------------------
\* handleMessage of the connection and of the master: a report is stored and
\* the next message waited for, a finish is the last message.
HandleMessage(header, body) ==
    /\ handled' = Append(handled, header \o body)
    /\ reader' = IF Opcode(header) = "Report" THEN "header" ELSE "finished"

\* A header is complete. bodyBuffer_ gets the size of the body, and keeps its
\* old content up to there.
HandleHeaderRead ==
    /\ reader = "header" /\ Len(arrived) >= HeaderSize
    /\ headerBuffer' = Read(HeaderSize)
    /\ arrived' = Unread(HeaderSize)
    /\ \E size \in BodySizes(headerBuffer') :
          IF size > 0
          THEN /\ bodyBuffer' = [i \in 1 .. size |->
                      IF i <= Len(bodyBuffer) THEN bodyBuffer[i] ELSE Zero]
               /\ reader' = "body"
               /\ UNCHANGED handled
          ELSE HandleMessage(headerBuffer', <<>>) /\ UNCHANGED bodyBuffer
    /\ UNCHANGED <<sending, writer, writing, written>>

\* async_read goes on until the body is complete, whatever the pieces.
HandleBodyRead ==
    /\ reader = "body" /\ Len(arrived) >= Len(bodyBuffer)
    /\ bodyBuffer' = Read(Len(bodyBuffer))
    /\ arrived' = Unread(Len(bodyBuffer))
    /\ HandleMessage(headerBuffer, bodyBuffer')
    /\ UNCHANGED <<sending, writer, writing, written, headerBuffer>>

\* The stream ended before the header or the body did.
Truncated(n) == Gone /\ sending = <<>> /\ Len(arrived) < n

\* disconnectionHandler_(), the same for both reads. The mutants handle the
\* body as far as it came, and read again.
HandleReadErrorOfHeaderOnly ==
    \/ /\ reader = "header" /\ Truncated(HeaderSize)
       /\ reader' = "disconnected"
       /\ UNCHANGED <<sending, arrived, writer, writing, written,
                      headerBuffer, bodyBuffer, handled>>
    \/ /\ reader = "body" /\ Truncated(Len(bodyBuffer))
       /\ HandleMessage(headerBuffer, bodyBuffer)
       /\ UNCHANGED <<sending, arrived, writer, writing, written,
                      headerBuffer, bodyBuffer>>
HandleReadErrorRetries ==
    /\ \/ reader = "header" /\ Truncated(HeaderSize)
       \/ reader = "body" /\ Truncated(Len(bodyBuffer))
    /\ reader' = "header" /\ arrived' = <<>>
    /\ UNCHANGED <<sending, writer, writing, written, headerBuffer,
                   bodyBuffer, handled>>
HandleReadError ==
    /\ \/ reader = "header" /\ Truncated(HeaderSize)
       \/ reader = "body" /\ Truncated(Len(bodyBuffer))
    /\ reader' = "disconnected"
    /\ UNCHANGED <<sending, arrived, writer, writing, written, headerBuffer,
                   bodyBuffer, handled>>

\* closeConnections, or the end of the master's process.
Close ==
    /\ reader # "closed"
    /\ reader' = "closed"
    /\ sending' = <<>> /\ arrived' = <<>>
    /\ UNCHANGED <<writer, writing, written, headerBuffer, bodyBuffer,
                   handled>>

Concluded == reader \in {"finished", "disconnected", "closed"}

ReadStep == HandleHeaderRead \/ HandleBodyRead \/ HandleReadError
WriteStep == Write \/ WriteError \/ Finishes

-----------------------------------------------------------------------------
Fifo == INSTANCE MessageFifo WITH
    Bits <- ToBits,
    sent <- IF written > 0 THEN writing ELSE writing - 1,
    over <- Concluded

(***************************************************************************)
(* However the blocks are cut on their way, and wherever the controller    *)
(* dies, the master handles whole messages in the order of reportResults   *)
(* and nothing after a disconnection: a report that came in part is never  *)
(* pushed into the results.                                                *)
(***************************************************************************)
ImplementsFifo == Fifo!Spec
=============================================================================
