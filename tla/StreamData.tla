----------------------------- MODULE StreamData -----------------------------
(***************************************************************************)
(* The data of one stream in one direction: the queues of                  *)
(* packages/ilp-protocol-stream/src/stream.ts, util/data-queue.ts and      *)
(* util/data-offset-sorter.ts, and the part of connection.ts that carries  *)
(* data frames and the two flow-control windows (of the stream and of the  *)
(* connection) between a writer's and a reader's connection.               *)
(*                                                                         *)
(* Like the code, each side has one packet in flight at a time.  A request *)
(* may be handled by the reader or not before its writer learns that it    *)
(* was rejected, and a request that was rejected on the way (it expired)   *)
(* may still arrive.  A byte is its position in what was written.          *)
(*                                                                         *)
(* Node's stream buffers are external: bytes that write() accepted are one *)
(* sequence, whether Node or the DataQueue holds them, and a reader that   *)
(* reads takes all that Node has buffered.  A reader is paused, or flowing *)
(* and handed its bytes at once.  Left out: the stream's money, final      *)
(* errors (the connection is destroyed, see ConnectionSend) and the frames *)
(* that only report that a side is blocked.                                *)
(***************************************************************************)
EXTENDS Integers, Sequences, SequencesExt

CONSTANTS
    PacketBytes,        \* MAX_DATA_SIZE less the packet's other frames
    FrameOverhead,      \* what a data frame may take besides its data: 20
    HighWaterMark,      \* Node's readableHighWaterMark: 16384
    BufferSizes,        \* the option connectionBufferSize of the writer and the reader
    MaxBytes,           \* bound: bytes the application writes
    MaxRejects          \* bound: packets of either side that are rejected

ASSUME DataAssumption ==
    /\ PacketBytes \in Nat /\ FrameOverhead \in Nat /\ HighWaterMark \in Nat \ {0}
    /\ BufferSizes \subseteq [writer : Nat, reader : Nat]
    /\ MaxBytes \in Nat /\ MaxRejects \in Nat

VARIABLES
    writer,     \* the writing side
    request,    \* its packet in flight
    late,       \* packets that were rejected but may still arrive
    reader,     \* the reading side
    update,     \* the reader's StreamMaxData frame in flight
    rejects,    \* bound: packets rejected so far
    written,    \* history: the bytes the application wrote
    faults      \* history: why bytes may stay unread, see DataDelivered

dataVars == <<writer, request, late, reader, update, rejects, written, faults>>

none == [none |-> TRUE]

Piece == [offset : Nat, data : Seq(Nat)]

\* A writer's record is removed when the stream's close event was handled, and a
\* StreamClose frame is then queued.
Writer ==
    [outgoing : Seq(Nat), outgoingOffset : Nat, retry : Seq(Piece),
     remoteMax : Nat,           \* _remoteMaxOffset of the stream
     connectionMax : Nat,       \* remoteMaxOffset of the connection
     bufferSize : Nat,
     sending : BOOLEAN,
     status : {"open", "ending", "removed"}, closeQueued : BOOLEAN]

Reader ==
    [entries : Seq(Piece),      \* the OffsetSorter's list
     readOffset : Nat, maxOffset : Nat,
     buffered : Seq(Nat),       \* what Node has buffered
     bufferSize : Nat,
     consumed : Seq(Nat),       \* history: what the application was handed
     flowing : BOOLEAN,
     sending : BOOLEAN,
     status : {"open", "ended", "destroyed"}]

Request ==
    [piece : Piece, close : BOOLEAN, handled : BOOLEAN,
     connectionMax : Nat, streamMax : Nat]   \* of the response, once handled

NoPiece == [offset |-> 0, data |-> <<>>]

DataInit ==
    /\ \E size \in BufferSizes, flows \in BOOLEAN :
          /\ writer = [outgoing |-> <<>>, outgoingOffset |-> 0, retry |-> <<>>,
                       remoteMax |-> HighWaterMark, connectionMax |-> size.writer,
                       bufferSize |-> size.writer, sending |-> FALSE,
                       status |-> "open", closeQueued |-> FALSE]
          /\ reader = [entries |-> <<>>, readOffset |-> 0, maxOffset |-> 0,
                       buffered |-> <<>>, consumed |-> <<>>,
                       bufferSize |-> size.reader, flowing |-> flows,
                       sending |-> FALSE, status |-> "open"]
    /\ request = none
    /\ late = {}
    /\ update = none
    /\ rejects = 0
    /\ written = <<>>
    /\ faults = {}

lesser(i, j) == IF i < j THEN i ELSE j

greater(i, j) == IF i > j THEN i ELSE j

drop(s, n) == SubSeq(s, n + 1, Len(s))

\* A reader that destroys its connection ends the exchange.
working == reader.status # "destroyed"

-----------------------------------------------------------------------------
(* The writing side *)

\* _write and _writev: the bytes are queued and the loop is started.
Write ==
    /\ working
    /\ writer.status = "open"
    /\ Len(written) < MaxBytes
    /\ \E n \in 1..(MaxBytes - Len(written)) :
          LET bytes == [i \in 1..n |-> Len(written) + i]
          IN  /\ written' = written \o bytes
              /\ writer' = [writer EXCEPT !.outgoing = @ \o bytes, !.sending = TRUE]
    /\ UNCHANGED <<request, late, reader, update, rejects, faults>>

\* The bytes a packet may carry, of which the connection's window may leave few
\* or none.
bytesLeftInPacket == lesser(PacketBytes, writer.connectionMax - writer.outgoingOffset)

\* Mutant: new data is sent whatever the peer's window is.
MutantAvailableData(size) ==
    IF writer.retry # <<>>
    THEN LET toSend == Head(writer.retry)
         IN  [offset |-> toSend.offset, data |-> SubSeq(toSend.data, 1, lesser(Len(toSend.data), size))]
    ELSE [offset |-> writer.outgoingOffset,
          data |-> SubSeq(writer.outgoing, 1, lesser(size, Len(writer.outgoing)))]

\* Data to be sent again goes first, split if it is longer than the packet takes;
\* new data respects the stream's window.
_getAvailableDataToSend(size) ==
    IF writer.retry # <<>>
    THEN LET toSend == Head(writer.retry)
         IN  [offset |-> toSend.offset,
              data |-> SubSeq(toSend.data, 1, lesser(Len(toSend.data), size))]
    ELSE [offset |-> writer.outgoingOffset,
          data |-> SubSeq(writer.outgoing, 1,
                          lesser(lesser(size, writer.remoteMax - writer.outgoingOffset),
                                 Len(writer.outgoing)))]

\* The writer once the piece was taken from its queues.
takenFrom(w, piece) ==
    IF w.retry # <<>>
    THEN LET toSend == Head(w.retry)
         IN  [w EXCEPT !.retry =
                 IF Len(toSend.data) > Len(piece.data)
                 THEN <<[offset |-> toSend.offset + Len(piece.data),
                         data |-> drop(toSend.data, Len(piece.data))]>> \o Tail(@)
                 ELSE Tail(@)]
    ELSE [w EXCEPT !.outgoing = drop(@, Len(piece.data)),
                   !.outgoingOffset = @ + Len(piece.data)]

\* The piece of the stream that goes into the next packet.
nextPiece ==
    IF writer.status # "removed" /\ bytesLeftInPacket > FrameOverhead
    THEN _getAvailableDataToSend(bytesLeftInPacket - FrameOverhead)
    ELSE NoPiece

\* The stream has data to send and its peer would take it, but what the connection's
\* window leaves is too little for a frame.
connectionBlocked ==
    /\ writer.status # "removed"
    /\ nextPiece.data = <<>>
    /\ _getAvailableDataToSend(PacketBytes - FrameOverhead).data # <<>>

\* Mutant: the loop also stops after a packet with data.
MutantKeepsSending(piece) == writer.closeQueued

\* The loop goes on after a packet with data or a StreamClose, which may have to be
\* sent again.
keepsSending(piece) == piece.data # <<>> \/ writer.closeQueued

\* One round of the send loop.  An open stream always has frames to send (its
\* limits), without one and without a StreamClose the loop stops.
SendRequest ==
    /\ working
    /\ writer.sending
    /\ request = none
    /\ LET piece == nextPiece
           after == takenFrom(writer, piece)
       IN  /\ writer' = [(IF piece.data = <<>> THEN writer ELSE after)
                            EXCEPT !.sending = keepsSending(piece), !.closeQueued = FALSE]
           /\ request' = IF writer.status = "removed" /\ ~writer.closeQueued THEN none
                         ELSE [piece |-> piece, close |-> writer.closeQueued, handled |-> FALSE,
                               connectionMax |-> 0, streamMax |-> 0]
    /\ faults' = IF connectionBlocked THEN faults \cup {"connectionWindow"}
                 ELSE faults \ {"connectionWindow"}
    /\ UNCHANGED <<late, reader, update, rejects, written>>

-----------------------------------------------------------------------------
(* The reading side *)

\* OffsetSorter.push: before the first entry whose offset is greater, or last.
pushEntry(entries, piece) ==
    LET place == CHOOSE i \in 1..Len(entries) + 1 :
                     /\ \A k \in 1..(i - 1) : entries[k].offset <= piece.offset
                     /\ i <= Len(entries) => entries[i].offset > piece.offset
    IN  InsertAt(entries, place, piece)

bytesOf(entries) == FlattenSeq([i \in DOMAIN entries |-> entries[i].data])

\* Mutant: data that overlaps what was read is read again.
MutantReadable(r, k) == r.entries[k].offset <= r.readOffset + Len(bytesOf(SubSeq(r.entries, 1, k - 1)))

\* OffsetSorter.read hands out its k-th entry after the ones before it.
readable(r, k) == r.entries[k].offset = r.readOffset + Len(bytesOf(SubSeq(r.entries, 1, k - 1)))

\* _read takes n entries when it is asked for size bytes...
takesEntries(r, n, size) ==
    \A k \in 1..n : /\ readable(r, k)
                    /\ k > 1 => Len(bytesOf(SubSeq(r.entries, 1, k - 1))) < size

\* ...and stops there: at a gap, or when it has as much as it was asked for.
stopsAfter(r, n, size) ==
    \/ n = Len(r.entries)
    \/ ~readable(r, n + 1)
    \/ n > 0 /\ Len(bytesOf(SubSeq(r.entries, 1, n))) >= size

entriesRead(r, size) ==
    CHOOSE n \in 0..Len(r.entries) : takesEntries(r, n, size) /\ stopsAfter(r, n, size)

\* _read: what it finds is pushed to Node.  A paused reader whose data ran out tells
\* the peer its new limit in a packet of its own.
_read(r, size) ==
    LET n == entriesRead(r, size)
        bytes == bytesOf(SubSeq(r.entries, 1, n))
    IN  [r EXCEPT !.entries = drop(@, n),
                  !.readOffset = IF n = 0 THEN @ ELSE r.entries[n].offset + Len(r.entries[n].data),
                  !.buffered = @ \o bytes,
                  !.sending = @ \/ (~r.flowing /\ (n = 0 \/ Len(bytes) < size))]

_pushIncomingData(r, piece) ==
    _read([r EXCEPT !.entries = pushEntry(@, piece),
                    !.maxOffset = greater(@, piece.offset + Len(piece.data))],
          HighWaterMark - Len(r.buffered))

\* maxAcceptable of the stream and of its connection.
maxAcceptable(r) == r.readOffset + HighWaterMark - Len(r.buffered)

connectionMaxAcceptable(r) == r.readOffset - Len(r.buffered) + r.bufferSize

exceedsWindow(r) == r.maxOffset > maxAcceptable(r) \/ r.maxOffset > connectionMaxAcceptable(r)

\* The application takes what Node has buffered.
takeBuffered(r) == [r EXCEPT !.buffered = <<>>, !.consumed = @ \o r.buffered]

\* handlePrepare of a packet with the piece, unless the stream has ended; the
\* application of a flowing reader is handed the bytes at once.
received(piece, close) ==
    LET pushed == IF piece.data = <<>> THEN reader ELSE _pushIncomingData(reader, piece)
        handed == IF reader.flowing THEN takeBuffered(pushed) ELSE pushed
    IN  IF reader.status # "open" THEN reader
        ELSE IF exceedsWindow(pushed) THEN [pushed EXCEPT !.status = "destroyed"]
        ELSE [handed EXCEPT !.status = IF close THEN "ended" ELSE @]

\* The reader handles the request in flight.  The connection's limit in its response
\* is the one before the request, the stream's limit the one after it.
HandleRequest ==
    /\ working
    /\ request # none /\ ~request.handled
    /\ reader' = received(request.piece, request.close)
    /\ request' = [request EXCEPT !.handled = TRUE,
                                  !.connectionMax = connectionMaxAcceptable(reader),
                                  !.streamMax = maxAcceptable(reader')]
    /\ UNCHANGED <<writer, late, update, rejects, written, faults>>

\* A request that was rejected on its way arrives nevertheless.
HandleLate ==
    /\ working
    /\ \E piece \in late :
          /\ reader' = received(piece, FALSE)
          /\ late' = late \ {piece}
    /\ faults' = faults \cup IF reader.status = "open" THEN {"duplicate"} ELSE {}
    /\ UNCHANGED <<writer, request, update, rejects, written>>

\* The application of a paused reader calls read(), for which Node first calls _read.
ReadAll ==
    /\ working
    /\ ~reader.flowing /\ reader.buffered # <<>>
    /\ reader' = takeBuffered(_read(reader, HighWaterMark))
    /\ UNCHANGED <<writer, request, late, update, rejects, written, faults>>

\* A round of the reader's send loop: the packet has no data, and the loop stops.
SendUpdate ==
    /\ working
    /\ reader.sending /\ update = none
    /\ reader' = [reader EXCEPT !.sending = FALSE]
    /\ update' = IF reader.status = "open" THEN [maxOffset |-> maxAcceptable(reader)] ELSE none
    /\ UNCHANGED <<writer, request, late, rejects, written, faults>>

-----------------------------------------------------------------------------
(* Answers and frames the writing side receives *)

\* StreamMaxData: a greater limit is kept and starts the send loop.
streamMaxData(w, maxOffset) ==
    IF maxOffset > w.remoteMax /\ w.status # "removed"
    THEN [w EXCEPT !.remoteMax = maxOffset, !.sending = TRUE]
    ELSE w

\* ConnectionMaxData: limits only grow, except that one equal to this side's own
\* buffer size is taken as it is.
connectionMaxData(w, maxOffset) ==
    [w EXCEPT !.connectionMax = IF maxOffset # w.bufferSize THEN greater(@, maxOffset)
                                ELSE maxOffset]

ReceiveResponse ==
    /\ working
    /\ request # none /\ request.handled
    /\ writer' = streamMaxData(connectionMaxData(writer, request.connectionMax), request.streamMax)
    /\ request' = none
    /\ UNCHANGED <<late, reader, update, rejects, written, faults>>

\* undoRejectedPacket: without a record of the stream its data is forgotten.
undone(w) ==
    [w EXCEPT !.retry = IF request.piece.data # <<>> /\ w.status # "removed"
                        THEN Append(@, request.piece) ELSE @,
              !.closeQueued = @ \/ request.close]

\* The reject of a connector, or of the receiver because of the money in the packet,
\* which answers with its connection's limit.
RejectRequest ==
    /\ working
    /\ request # none /\ rejects < MaxRejects
    /\ rejects' = rejects + 1
    /\ request' = none
    /\ \/ /\ writer' = undone(writer)
          /\ late' \in {late, IF request.handled \/ request.piece.data = <<>> THEN late
                             ELSE late \cup {request.piece}}
       \/ /\ request.handled
          /\ writer' = undone(connectionMaxData(writer, request.connectionMax))
          /\ late' = late
    /\ faults' = faults \cup
          IF request.piece.data = <<>> THEN {}
          ELSE (IF request.handled THEN {"duplicate"} ELSE {})
               \cup (IF writer.status = "removed" THEN {"forgotten"} ELSE {})
    /\ UNCHANGED <<reader, update, written>>

\* The reader's own packet arrives, or is rejected; its limit is then not sent again.
ReceiveUpdate ==
    /\ working
    /\ update # none
    /\ writer' = streamMaxData(writer, update.maxOffset)
    /\ update' = none
    /\ UNCHANGED <<request, late, reader, rejects, written, faults>>

RejectUpdate ==
    /\ working
    /\ update # none /\ rejects < MaxRejects
    /\ rejects' = rejects + 1
    /\ update' = none
    /\ faults' = faults \cup {"lostUpdate"}
    /\ UNCHANGED <<writer, request, late, reader, written>>

-----------------------------------------------------------------------------
(* The writer's application ends the stream *)

End ==
    /\ working
    /\ writer.status = "open"
    /\ writer' = [writer EXCEPT !.status = "ending"]
    /\ UNCHANGED <<request, late, reader, update, rejects, written, faults>>

\* Node calls _final when every byte was taken from the queue, sent or not, and the
\* close event removes the record.
removeStreamRecord ==
    /\ working
    /\ writer.status = "ending" /\ writer.outgoing = <<>>
    /\ writer' = [writer EXCEPT !.status = "removed", !.closeQueued = TRUE, !.sending = TRUE,
                                !.retry = <<>>]
    /\ faults' = faults \cup IF writer.retry # <<>> THEN {"forgotten"} ELSE {}
    /\ UNCHANGED <<request, late, reader, update, rejects, written>>

DataNext ==
    \/ Write \/ SendRequest \/ HandleRequest \/ HandleLate \/ ReadAll \/ SendUpdate
    \/ ReceiveResponse \/ RejectRequest \/ ReceiveUpdate \/ RejectUpdate
    \/ End \/ removeStreamRecord

DataSpec == DataInit /\ [][DataNext]_dataVars

\* The loops run, packets are answered, and the application reads: weak fairness of
\* these actions, each of which ends its own guard.  Nothing makes the application
\* write or end, and the bound on rejects stands for a path that recovers.
DataFairness ==
    /\ []<>(request = none \/ ~working)
    /\ []<>(update = none \/ ~working)
    /\ []<>(~(writer.sending /\ request = none) \/ ~working)
    /\ []<>(~(reader.sending /\ update = none) \/ ~working)
    /\ []<>(reader.flowing \/ reader.buffered = <<>> \/ ~working)
    /\ []<>(~(writer.status = "ending" /\ writer.outgoing = <<>>) \/ ~working)

-----------------------------------------------------------------------------
(* Properties *)

Fifo == INSTANCE ByteFifo WITH read <- reader.consumed

(* The data of a stream is a queue of bytes: whatever is rejected, sent again, split,  *)
(* late or received twice, _getAvailableDataToSend, _resendOutgoingData and the        *)
(* OffsetSorter hand the reader the bytes that were written, once and in order.        *)
DataIsFifo == Fifo!Spec

(* A writer that respects the limits it was told (_getAvailableDataToSend and the      *)
(* connection's window of loadAndSendPacket) is never taken to exceed the limits the   *)
(* reader computes from its offsets, so the reader does not destroy the connection;    *)
(* except where the writer's own buffer is the larger one, which it assumes for its    *)
(* peer and does not correct: ConnectionMaxData only lowers it to its own size.        *)
WindowRespected == writer.bufferSize <= reader.bufferSize => reader.status # "destroyed"

(* Every byte written is read in the end, if the path recovers, although packets are   *)
(* rejected and sent again, windows close and open and the loops stop and restart.     *)
(* The faults are what the code does not recover from: data that is received twice     *)
(* (the second copy stays at the head of the OffsetSorter), a rejected StreamMaxData   *)
(* (control frames are not sent again), data of a stream that ended before its packet  *)
(* was answered, and a loop whose last round found the connection's window closed to   *)
(* data that the stream could send: its opening does not start the loop.  MaxBytes     *)
(* bounds what is written, so to catch up again and again is to read it all.           *)
DataDelivered == []<>(reader.consumed = written \/ faults # {} \/ ~working)

=============================================================================
