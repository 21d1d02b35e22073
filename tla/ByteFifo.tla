------------------------------ MODULE ByteFifo ------------------------------
(***************************************************************************)
(* What one direction of a stream promises its applications: the bytes     *)
(* that are read are the bytes that were written, once and in order.       *)
(***************************************************************************)
EXTENDS Naturals, Sequences

VARIABLES
    written,    \* the bytes given to write(), oldest first
    read        \* the bytes handed to the reader, oldest first

Init == written = <<>> /\ read = <<>>

\* More bytes follow the ones that were written.
Write ==
    /\ Len(written') > Len(written)
    /\ SubSeq(written', 1, Len(written)) = written
    /\ UNCHANGED read

\* The reader gets the next bytes.
Read ==
    /\ Len(read') \in Len(read) + 1 .. Len(written)
    /\ read' = SubSeq(written, 1, Len(read'))
    /\ UNCHANGED written

Next == Write \/ Read

Spec == Init /\ [][Next]_<<written, read>>

=============================================================================
