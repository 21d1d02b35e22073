-------------------------- MODULE StreamDataProofs --------------------------
(***************************************************************************)
(* Proofs about the data of a stream, for any number of bytes, rejects and *)
(* late packets and any sizes of packets, windows and buffers.             *)
(*                                                                         *)
(* DataIsFifo, the refinement of ByteFifo, rests on what every piece of    *)
(* data is, wherever it waits: a run of consecutive bytes that starts at   *)
(* its offset and was taken from the writer's queue.  The OffsetSorter     *)
(* hands out only pieces that continue what was read, so that what it      *)
(* reads is a run as well (ByteInv).  WindowRespected adds what the limits *)
(* that are known, or are on their way, have to do with the bytes the      *)
(* application was handed, which only grow (WindowInv).                    *)
(***************************************************************************)
EXTENDS StreamData, PrefixSums, SequenceTheorems, TLAPS

\* Consecutive bytes: the ones behind the first from.
Run(s, from) == s \in Seq(Nat) /\ \A i \in 1 .. Len(s) : s[i] = from + i

\* A piece of what the writer has taken from its queue.
GoodPiece(p, end) == p \in Piece /\ Run(p.data, p.offset) /\ p.offset + Len(p.data) <= end

Pieces(es, end) == es \in Seq(Piece) /\ \A i \in 1 .. Len(es) : GoodPiece(es[i], end)

\* The application was handed the first bytes, Node has the next ones, up to readOffset.
ReaderInv(r, end) ==
    /\ r \in Reader
    /\ Pieces(r.entries, end)
    /\ r.readOffset <= end /\ r.maxOffset <= end
    /\ Run(r.consumed, 0) /\ Run(r.buffered, Len(r.consumed))
    /\ Len(r.consumed) + Len(r.buffered) = r.readOffset

\* What is still to be sent begins where the pieces taken so far end.
WriterInv(w, all) ==
    /\ w \in Writer
    /\ Run(all, 0) /\ Run(w.outgoing, w.outgoingOffset)
    /\ w.outgoingOffset + Len(w.outgoing) = Len(all)
    /\ Pieces(w.retry, w.outgoingOffset)

\* A packet carries a piece, and a handled one its answer.
RequestInv(q, end) == q # none => q \in Request /\ GoodPiece(q.piece, end)

ByteInv ==
    /\ WriterInv(writer, written)
    /\ ReaderInv(reader, writer.outgoingOffset)
    /\ RequestInv(request, writer.outgoingOffset)
    /\ \A p \in late : GoodPiece(p, writer.outgoingOffset)
    /\ update # none => update \in [maxOffset : Nat]

\* A limit the reader accepts, now and later.
StreamLimit(r, n) == n <= Len(r.consumed) + HighWaterMark

ConnectionLimit(r, n) == n <= Len(r.consumed) + r.bufferSize

\* The windows the writer knows are below those limits, and so is what it has sent, which
\* may be above the connection's window it knows now.
Windows(w, r) ==
    /\ w.outgoingOffset <= w.remoteMax /\ StreamLimit(r, w.remoteMax)
    /\ w.bufferSize <= r.bufferSize =>
          /\ ConnectionLimit(r, w.connectionMax) /\ ConnectionLimit(r, w.outgoingOffset)
          /\ r.status # "destroyed"

\* So are the limits on their way.
AnswerLimits(q, w, r) ==
    q # none /\ q.handled =>
        /\ StreamLimit(r, q.streamMax)
        /\ w.bufferSize <= r.bufferSize => ConnectionLimit(r, q.connectionMax)

UpdateLimit(u, r) == u # none => StreamLimit(r, u.maxOffset)

WindowInv ==
    /\ Windows(writer, reader)
    /\ AnswerLimits(request, writer, reader)
    /\ UpdateLimit(update, reader)

DataInv == ByteInv /\ WindowInv

-----------------------------------------------------------------------------
(* Runs of bytes *)

\* Nothing is a run, wherever it starts.
LEMMA RunEmpty ==
  ASSUME NEW from \in Nat
  PROVE  Run(<<>>, from) /\ Len(<<>>) = 0
BY DEF Run

\* There is a run of any length.
LEMMA RunExists ==
  ASSUME NEW from \in Nat, NEW n \in Nat
  PROVE  Run([i \in 1 .. n |-> from + i], from) /\ Len([i \in 1 .. n |-> from + i]) = n
<1>. DEFINE s == [i \in 1 .. n |-> from + i]
<1>1. s \in [1 .. n -> Nat] /\ \A i \in 1 .. n : s[i] = from + i
  OBVIOUS
<1>. HIDE DEF s
<1>2. s \in Seq(Nat) /\ Len(s) = n
  BY <1>1
<1>. QED  BY <1>1, <1>2 DEF Run, s

\* Two runs that follow each other are a run.
LEMMA RunConcat ==
  ASSUME NEW from \in Nat, NEW s, NEW t, Run(s, from), Run(t, from + Len(s))
  PROVE  Run(s \o t, from) /\ Len(s \o t) = Len(s) + Len(t)
<1>1. s \in Seq(Nat) /\ t \in Seq(Nat) /\ Len(s) \in Nat /\ Len(t) \in Nat
  BY DEF Run
<1>2. /\ s \o t \in Seq(Nat)
      /\ Len(s \o t) = Len(s) + Len(t)
      /\ \A i \in 1 .. Len(s) + Len(t) :
            (s \o t)[i] = IF i <= Len(s) THEN s[i] ELSE t[i - Len(s)]
  BY <1>1, ConcatProperties
<1>3. ASSUME NEW i \in 1 .. Len(s \o t)
      PROVE  (s \o t)[i] = from + i
  <2>1. CASE i <= Len(s)
    BY <1>1, <1>2, <2>1 DEF Run
  <2>2. CASE i > Len(s)
    <3>1. i - Len(s) \in 1 .. Len(t)
      BY <1>1, <1>2, <2>2
    <3>2. t[i - Len(s)] = (from + Len(s)) + (i - Len(s))
      BY <3>1 DEF Run
    <3>. QED  BY <1>1, <1>2, <2>2, <3>2
  <2>. QED  BY <1>1, <2>1, <2>2
<1>. QED  BY <1>2, <1>3 DEF Run

\* The first bytes of a run are a run.
LEMMA RunPrefix ==
  ASSUME NEW from \in Nat, NEW s, Run(s, from), NEW n \in 0 .. Len(s)
  PROVE  Run(SubSeq(s, 1, n), from) /\ Len(SubSeq(s, 1, n)) = n
<1>1. s \in Seq(Nat) /\ Len(s) \in Nat
  BY DEF Run
<1>2. \A i \in 1 .. n : s[i] \in Nat
  BY <1>1
<1>3. /\ SubSeq(s, 1, n) \in Seq(Nat)
      /\ Len(SubSeq(s, 1, n)) = IF 1 <= n THEN n - 1 + 1 ELSE 0
      /\ \A i \in 1 .. n - 1 + 1 : SubSeq(s, 1, n)[i] = s[1 + i - 1]
  BY <1>1, <1>2, SubSeqProperties
<1>4. Len(SubSeq(s, 1, n)) = n
  BY <1>1, <1>3
<1>5. \A i \in 1 .. n : SubSeq(s, 1, n)[i] = s[i]
  BY <1>1, <1>3
<1>6. \A i \in 1 .. n : s[i] = from + i
  BY <1>1 DEF Run
<1>. QED  BY <1>3, <1>4, <1>5, <1>6 DEF Run

\* What is left of a run is a run.
LEMMA RunDrop ==
  ASSUME NEW from \in Nat, NEW s, Run(s, from), NEW n \in 0 .. Len(s)
  PROVE  Run(drop(s, n), from + n) /\ Len(drop(s, n)) = Len(s) - n
<1>. DEFINE d == SubSeq(s, n + 1, Len(s))
<1>1. s \in Seq(Nat) /\ Len(s) \in Nat
  BY DEF Run
<1>2. \A i \in n + 1 .. Len(s) : s[i] \in Nat
  BY <1>1
<1>3. /\ d \in Seq(Nat)
      /\ Len(d) = IF n + 1 <= Len(s) THEN Len(s) - (n + 1) + 1 ELSE 0
      /\ \A i \in 1 .. Len(s) - (n + 1) + 1 : d[i] = s[n + 1 + i - 1]
  BY <1>1, <1>2, SubSeqProperties
<1>4. Len(d) = Len(s) - n
  BY <1>1, <1>3
<1>5. ASSUME NEW i \in 1 .. Len(d)
      PROVE  d[i] = (from + n) + i
  <2>1. i \in 1 .. Len(s) - (n + 1) + 1 /\ n + 1 + i - 1 = n + i /\ n + i \in 1 .. Len(s)
    BY <1>1, <1>4
  <2>2. d[i] = s[n + i]
    BY <1>3, <2>1
  <2>3. s[n + i] = from + (n + i)
    BY <2>1 DEF Run
  <2>. QED  BY <2>2, <2>3
<1>. QED  BY <1>3, <1>4, <1>5 DEF Run, drop

\* Runs of the same place and length are the same.
LEMMA RunUnique ==
  ASSUME NEW from \in Nat, NEW s, NEW t, Run(s, from), Run(t, from), Len(s) = Len(t)
  PROVE  s = t
<1>1. s \in Seq(Nat) /\ t \in Seq(Nat) /\ \A i \in 1 .. Len(s) : s[i] = t[i]
  BY DEF Run
<1>. QED  BY <1>1, SeqEqual

-----------------------------------------------------------------------------
(* Lists of pieces *)

\* A piece stays good when the writer goes on.
LEMMA PieceMore ==
  ASSUME NEW end \in Nat, NEW more \in Nat, end <= more, NEW p, GoodPiece(p, end)
  PROVE  GoodPiece(p, more)
<1>1. p.offset \in Nat /\ Len(p.data) \in Nat
  BY DEF GoodPiece, Piece
<1>. QED  BY <1>1 DEF GoodPiece

LEMMA PiecesMore ==
  ASSUME NEW end \in Nat, NEW more \in Nat, end <= more, NEW es, Pieces(es, end)
  PROVE  Pieces(es, more)
BY PieceMore DEF Pieces

\* What is left of a list, and a list with one more at its end.
LEMMA PiecesDrop ==
  ASSUME NEW end \in Nat, NEW es, Pieces(es, end), NEW n \in 0 .. Len(es)
  PROVE  Pieces(drop(es, n), end)
<1>. DEFINE d == SubSeq(es, n + 1, Len(es))
<1>1. es \in Seq(Piece) /\ Len(es) \in Nat
  BY DEF Pieces
<1>2. \A i \in n + 1 .. Len(es) : es[i] \in Piece
  BY <1>1
<1>3. /\ d \in Seq(Piece)
      /\ Len(d) = IF n + 1 <= Len(es) THEN Len(es) - (n + 1) + 1 ELSE 0
      /\ \A i \in 1 .. Len(es) - (n + 1) + 1 : d[i] = es[n + 1 + i - 1]
  BY <1>1, <1>2, SubSeqProperties
<1>4. ASSUME NEW i \in 1 .. Len(d)
      PROVE  GoodPiece(d[i], end)
  <2>1. i \in 1 .. Len(es) - (n + 1) + 1 /\ n + 1 + i - 1 \in 1 .. Len(es)
    BY <1>1, <1>3
  <2>. QED  BY <1>3, <2>1 DEF Pieces
<1>. QED  BY <1>3, <1>4 DEF Pieces, drop

LEMMA PiecesAppend ==
  ASSUME NEW end \in Nat, NEW es, Pieces(es, end), NEW p, GoodPiece(p, end)
  PROVE  Pieces(Append(es, p), end)
<1>1. es \in Seq(Piece) /\ p \in Piece /\ Len(es) \in Nat
  BY DEF Pieces, GoodPiece
<1>2. /\ Append(es, p) \in Seq(Piece) /\ Len(Append(es, p)) = Len(es) + 1
      /\ \A i \in 1 .. Len(es) : Append(es, p)[i] = es[i]
      /\ Append(es, p)[Len(es) + 1] = p
  BY <1>1, AppendProperties
<1>3. ASSUME NEW i \in 1 .. Len(es) + 1
      PROVE  GoodPiece(Append(es, p)[i], end)
  <2>1. i \in 1 .. Len(es) \/ i = Len(es) + 1
    BY <1>1
  <2>. QED  BY <1>2, <2>1 DEF Pieces
<1>. QED  BY <1>2, <1>3 DEF Pieces

\* The first of a list is replaced or taken.
LEMMA PiecesTail ==
  ASSUME NEW end \in Nat, NEW es, Pieces(es, end), es # <<>>
  PROVE  GoodPiece(Head(es), end) /\ Pieces(Tail(es), end)
<1>1. es \in Seq(Piece) /\ Len(es) \in Nat \ {0} /\ 1 \in 1 .. Len(es)
  BY EmptySeq DEF Pieces
<1>2. /\ Tail(es) \in Seq(Piece) /\ Len(Tail(es)) = Len(es) - 1
      /\ \A i \in 1 .. Len(Tail(es)) : Tail(es)[i] = es[i + 1]
  BY <1>1, HeadTailProperties
<1>3. Head(es) = es[1]
  BY <1>1
<1>4. ASSUME NEW i \in 1 .. Len(Tail(es))
      PROVE  GoodPiece(Tail(es)[i], end)
  <2>1. i + 1 \in 1 .. Len(es)
    BY <1>1, <1>2
  <2>. QED  BY <1>2, <2>1 DEF Pieces
<1>. QED  BY <1>1, <1>2, <1>3, <1>4 DEF Pieces

\* Two lists in one.
LEMMA PiecesConcat ==
  ASSUME NEW end \in Nat, NEW a, NEW b, Pieces(a, end), Pieces(b, end)
  PROVE  Pieces(a \o b, end)
<1>1. a \in Seq(Piece) /\ b \in Seq(Piece) /\ Len(a) \in Nat /\ Len(b) \in Nat
  BY DEF Pieces
<1>2. /\ a \o b \in Seq(Piece) /\ Len(a \o b) = Len(a) + Len(b)
      /\ \A j \in 1 .. Len(a) + Len(b) : (a \o b)[j] = IF j <= Len(a) THEN a[j] ELSE b[j - Len(a)]
  BY <1>1, ConcatProperties
<1>3. ASSUME NEW j \in 1 .. Len(a) + Len(b)
      PROVE  GoodPiece((a \o b)[j], end)
  <2>1. CASE j <= Len(a)
    BY <1>1, <1>2, <2>1 DEF Pieces
  <2>2. CASE j > Len(a)
    <3>1. j - Len(a) \in 1 .. Len(b) /\ (a \o b)[j] = b[j - Len(a)]
      BY <1>1, <1>2, <2>2
    <3>. QED  BY <3>1 DEF Pieces
  <2>. QED  BY <1>1, <2>1, <2>2
<1>. QED  BY <1>2, <1>3 DEF Pieces

LEMMA PiecesOne ==
  ASSUME NEW end \in Nat, NEW p, GoodPiece(p, end)
  PROVE  Pieces(<<p>>, end)
BY DEF Pieces, GoodPiece

\* OffsetSorter.push finds a place, and its list has one piece more.
LEMMA PiecesPush ==
  ASSUME NEW end \in Nat, NEW es, Pieces(es, end), NEW p, GoodPiece(p, end)
  PROVE  Pieces(pushEntry(es, p), end)
<1>. DEFINE Place(i) == /\ \A k \in 1 .. (i - 1) : es[k].offset <= p.offset
                        /\ i <= Len(es) => es[i].offset > p.offset
            T == {i \in 1 .. Len(es) + 1 : i <= Len(es) => es[i].offset > p.offset}
<1>1. es \in Seq(Piece) /\ p \in Piece /\ Len(es) \in Nat
  BY DEF Pieces, GoodPiece
<1>2. p.offset \in Nat /\ \A i \in 1 .. Len(es) : es[i].offset \in Nat
  <2>1. \A i \in 1 .. Len(es) : es[i] \in Piece
    BY <1>1
  <2>. QED  BY <1>1, <2>1 DEF Piece
<1>3. T \subseteq Nat /\ Len(es) + 1 \in T
  BY <1>1
<1>4. PICK i \in T : \A j \in T : i <= j
  BY <1>3, LeastNatural
<1>5. i \in 1 .. Len(es) + 1 /\ Place(i)
  <2>1. ASSUME NEW k \in 1 .. (i - 1)
        PROVE  es[k].offset <= p.offset
    <3>1. k \in 1 .. Len(es) /\ k < i
      BY <1>1
    <3>2. k \notin T
      BY <1>1, <1>4, <3>1
    <3>. QED  BY <1>2, <3>1, <3>2
  <2>. QED  BY <2>1
<1>. DEFINE place == CHOOSE j \in 1 .. Len(es) + 1 : Place(j)
<1>6. place \in 1 .. Len(es) + 1
  <2>. HIDE DEF Place, T
  <2>. QED  BY <1>5
<1>7. pushEntry(es, p) = InsertAt(es, place, p)
  BY DEF pushEntry
<1>. HIDE DEF place
<1>. DEFINE s == SubSeq(es, 1, place - 1)
            t == SubSeq(es, place, Len(es))
<1>8. place \in Int /\ place - 1 \in Int /\ place >= 1 /\ place <= Len(es) + 1
  BY <1>1, <1>6
<1>9. (\A j \in 1 .. place - 1 : es[j] \in Piece) /\ (\A j \in place .. Len(es) : es[j] \in Piece)
  BY <1>1, <1>8
<1>10. /\ s \in Seq(Piece) /\ Len(s) = IF 1 <= place - 1 THEN (place - 1) - 1 + 1 ELSE 0
       /\ \A j \in 1 .. (place - 1) - 1 + 1 : s[j] = es[1 + j - 1]
  BY <1>8, <1>9, SubSeqProperties
<1>11. /\ t \in Seq(Piece) /\ Len(t) = IF place <= Len(es) THEN Len(es) - place + 1 ELSE 0
       /\ \A j \in 1 .. Len(es) - place + 1 : t[j] = es[place + j - 1]
  BY <1>1, <1>8, <1>9, SubSeqProperties
<1>12. Pieces(s, end)
  <2>1. ASSUME NEW j \in 1 .. Len(s)
        PROVE  GoodPiece(s[j], end)
    <3>1. j \in 1 .. (place - 1) - 1 + 1 /\ 1 + j - 1 \in 1 .. Len(es)
      BY <1>1, <1>8, <1>10
    <3>. QED  BY <1>10, <3>1 DEF Pieces
  <2>. QED  BY <1>10, <2>1 DEF Pieces
<1>13. Pieces(t, end)
  <2>1. ASSUME NEW j \in 1 .. Len(t)
        PROVE  GoodPiece(t[j], end)
    <3>1. j \in 1 .. Len(es) - place + 1 /\ place + j - 1 \in 1 .. Len(es)
      BY <1>1, <1>8, <1>11
    <3>. QED  BY <1>11, <3>1 DEF Pieces
  <2>. QED  BY <1>11, <2>1 DEF Pieces
<1>. HIDE DEF s, t
<1>14. Pieces((s \o <<p>>) \o t, end)
  BY <1>12, <1>13, PiecesOne, PiecesConcat
<1>. QED  BY <1>7, <1>14 DEF InsertAt, s, t

-----------------------------------------------------------------------------
(* The OffsetSorter *)

\* The first n pieces continue what was read up to from, without a gap.
Contiguous(es, from, n) ==
    \A k \in 1 .. n : es[k].offset = IF k = 1 THEN from ELSE es[k - 1].offset + Len(es[k - 1].data)

endOf(es, from, n) == IF n = 0 THEN from ELSE es[n].offset + Len(es[n].data)

\* Each piece ends behind the one before it.
LEMMA EndGrows ==
  ASSUME NEW end \in Nat, NEW es, Pieces(es, end), NEW n \in 0 .. Len(es), NEW from \in Nat,
         Contiguous(es, from, n)
  PROVE  /\ \A k \in 1 .. n : /\ es[k] \in Piece /\ Run(es[k].data, es[k].offset)
                              /\ es[k].offset = endOf(es, from, k - 1)
                              /\ endOf(es, from, k) = endOf(es, from, k - 1) + Len(es[k].data)
         /\ \A k \in 0 .. n : endOf(es, from, k) \in Nat /\ endOf(es, from, k) >= from
<1>1. \A k \in 1 .. n : /\ es[k] \in Piece /\ Run(es[k].data, es[k].offset)
                        /\ es[k].offset \in Nat /\ Len(es[k].data) \in Nat
  <2>1. Len(es) \in Nat /\ \A k \in 1 .. n : k \in 1 .. Len(es)
    BY DEF Pieces
  <2>. QED  BY <2>1 DEF Pieces, GoodPiece, Piece
<1>2. \A k \in 1 .. n : es[k].offset = endOf(es, from, k - 1)
  <2>1. ASSUME NEW k \in 1 .. n
        PROVE  es[k].offset = endOf(es, from, k - 1)
    <3>1. n \in Nat /\ (k - 1 = 0 <=> k = 1)
      BY DEF Pieces
    <3>. QED  BY <3>1 DEF Contiguous, endOf
  <2>. QED  BY <2>1
<1>3. \A k \in 1 .. n : endOf(es, from, k) = endOf(es, from, k - 1) + Len(es[k].data)
  BY <1>1, <1>2 DEF endOf
<1>. DEFINE T == {k \in 0 .. n : ~(endOf(es, from, k) \in Nat /\ endOf(es, from, k) >= from)}
<1>4. T = {}
  <2>. SUFFICES ASSUME T # {} PROVE FALSE
    OBVIOUS
  <2>1. PICK m \in T : \A j \in T : m <= j
    <3>1. T \subseteq Nat
      OBVIOUS
    <3>. QED  BY <3>1, LeastNatural
  <2>2. m # 0
    BY DEF endOf
  <2>3. m \in 1 .. n /\ m - 1 \in 0 .. n /\ m - 1 \notin T
    BY <2>1, <2>2
  <2>4. endOf(es, from, m - 1) \in Nat /\ endOf(es, from, m - 1) >= from
    BY <2>3
  <2>5. endOf(es, from, m) = endOf(es, from, m - 1) + Len(es[m].data) /\ Len(es[m].data) \in Nat
    BY <1>1, <1>3, <2>3
  <2>6. endOf(es, from, m) \in Nat /\ endOf(es, from, m) >= from
    BY <2>4, <2>5, SMTT(40)
  <2>. QED  BY <2>1, <2>6
<1>. QED  BY <1>1, <1>2, <1>3, <1>4

\* The bytes of contiguous pieces are a run.
LEMMA BytesOfContiguous ==
  ASSUME NEW end \in Nat, NEW es, Pieces(es, end), NEW n \in 0 .. Len(es), NEW from \in Nat,
         Contiguous(es, from, n)
  PROVE  LET bytes == bytesOf(SubSeq(es, 1, n))
         IN  Run(bytes, from) /\ Len(bytes) = endOf(es, from, n) - from
<1>. DEFINE p == SubSeq(es, 1, n)
            data == [i \in DOMAIN p |-> p[i].data]
            next(g) == [i \in 1 .. Len(data) |-> IF i = 1 THEN data[i] ELSE g[i - 1] \o data[i]]
            E(k) == endOf(es, from, k)
            f == [k \in 1 .. n |-> [i \in 1 .. E(k) - from |-> from + i]]
<1>1. es \in Seq(Piece) /\ Len(es) \in Nat /\ n \in Nat
  BY DEF Pieces
<1>2. p \in Seq(Piece) /\ Len(p) = n /\ \A i \in 1 .. n : p[i] = es[i]
  <2>1. \A i \in 1 .. n : es[i] \in Piece
    BY <1>1
  <2>2. /\ p \in Seq(Piece) /\ Len(p) = IF 1 <= n THEN n - 1 + 1 ELSE 0
        /\ \A i \in 1 .. n - 1 + 1 : p[i] = es[1 + i - 1]
    BY <1>1, <2>1, SubSeqProperties
  <2>. QED  BY <1>1, <2>2
<1>. HIDE DEF p
<1>3. DOMAIN p = 1 .. n
  BY <1>2, LenProperties
<1>4. /\ \A k \in 1 .. n : /\ es[k] \in Piece /\ Run(es[k].data, es[k].offset)
                           /\ es[k].offset = E(k - 1) /\ E(k) = E(k - 1) + Len(es[k].data)
      /\ \A k \in 0 .. n : E(k) \in Nat /\ E(k) >= from
  BY EndGrows
<1>5. data \in Seq(Seq(Nat)) /\ Len(data) = n /\ \A i \in 1 .. n : data[i] = es[i].data
  <2>1. \A i \in 1 .. n : p[i].data \in Seq(Nat)
    BY <1>2, <1>4 DEF Run
  <2>2. data \in [1 .. n -> Seq(Nat)]
    BY <1>3, <2>1
  <2>. QED  BY <1>1, <1>2, <1>3, <2>2
<1>. HIDE DEF data
<1>6. bytesOf(p) = FlattenSeq(data)
  BY DEF bytesOf, data
<1>7. CASE n = 0
  <2>1. FlattenSeq(data) = data
    BY <1>5, <1>7 DEF FlattenSeq
  <2>2. data = <<>>
    BY <1>5, <1>7, EmptySeq
  <2>. QED  BY <1>6, <1>7, <2>1, <2>2, RunEmpty DEF p, endOf
<1>8. CASE n # 0
  <2>1. ASSUME NEW k \in 1 .. n
        PROVE  Run(f[k], from) /\ Len(f[k]) = E(k) - from
    <3>1. k \in 0 .. n
      BY <1>1
    <3>2. E(k) - from \in Nat
      <4>. HIDE DEF E
      <4>. QED  BY <1>4, <3>1
    <3>3. f[k] = [i \in 1 .. E(k) - from |-> from + i]
      OBVIOUS
    <3>. HIDE DEF E, f
    <3>. QED  BY <3>2, <3>3, RunExists
  <2>2. \A k \in 1 .. n : Run(f[k], from) /\ Len(f[k]) = E(k) - from
    BY <2>1
  <2>. HIDE DEF f
  <2>3. ASSUME NEW g, NEW k \in 1 .. n,
               k # 1 => Run(g[k - 1], from) /\ Len(g[k - 1]) = E(k - 1) - from
        PROVE  /\ Run(next(g)[k], from) /\ Len(next(g)[k]) = E(k) - from
    <3>1. /\ data[k] = es[k].data /\ Run(data[k], E(k - 1)) /\ E(k) = E(k - 1) + Len(data[k])
          /\ next(g)[k] = IF k = 1 THEN data[k] ELSE g[k - 1] \o data[k]
      BY <1>4, <1>5
    <3>2. Len(data[k]) \in Nat /\ E(k - 1) \in Nat /\ E(k - 1) >= from
      <4>1. k - 1 \in 0 .. n
        BY <1>1
      <4>2. E(k - 1) \in Nat /\ E(k - 1) >= from
        <5>. HIDE DEF E
        <5>. QED  BY <1>4, <4>1
      <4>3. data[k] \in Seq(Nat)
        BY <3>1 DEF Run
      <4>. QED  BY <4>2, <4>3
    <3>3. CASE k = 1
      <4>1. E(0) = from
        BY DEF endOf
      <4>. HIDE DEF E, next
      <4>. QED  BY <3>1, <3>2, <3>3, <4>1
    <3>4. CASE k # 1
      <4>. HIDE DEF E, next
      <4>1. Run(g[k - 1], from) /\ Len(g[k - 1]) = E(k - 1) - from
        BY <2>3, <3>4
      <4>2. Len(g[k - 1]) \in Nat
        BY <4>1 DEF Run
      <4>3. E(k - 1) = from + Len(g[k - 1])
        BY <3>2, <4>1, <4>2
      <4>4. Run(data[k], from + Len(g[k - 1]))
        BY <3>1, <4>3
      <4>5. Run(g[k - 1] \o data[k], from) /\ Len(g[k - 1] \o data[k]) = Len(g[k - 1]) + Len(data[k])
        BY <4>1, <4>4, RunConcat
      <4>6. next(g)[k] = g[k - 1] \o data[k]
        BY <3>1, <3>4
      <4>7. Len(g[k - 1]) + Len(data[k]) = E(k) - from
        <5>1. E(k) = E(k - 1) + Len(data[k])
          BY <3>1
        <5>. DEFINE l == Len(g[k - 1])
                    d == Len(data[k])
                    e == E(k - 1)
                    e1 == E(k)
        <5>2. l \in Nat /\ d \in Nat /\ e = from + l /\ e1 = e + d
          BY <3>2, <4>2, <4>3, <5>1
        <5>. HIDE DEF l, d, e, e1
        <5>3. l + d = e1 - from
          BY <5>2
        <5>. QED  BY <5>3 DEF l, d, e1
      <4>. QED  BY <4>5, <4>6, <4>7
    <3>. QED  BY <3>3, <3>4
  <2>4. f = next(f)
    <3>1. ASSUME NEW k \in 1 .. n
          PROVE  f[k] = next(f)[k]
      <4>1. k # 1 => k - 1 \in 1 .. n
        BY <1>1
      <4>2. Run(next(f)[k], from) /\ Len(next(f)[k]) = E(k) - from
        <5>. HIDE DEF next, E
        <5>. QED  BY <2>2, <2>3, <4>1
      <4>. HIDE DEF next, E
      <4>. QED  BY <2>2, <4>2, RunUnique
    <3>2. f = [k \in 1 .. n |-> f[k]]
      BY DEF f
    <3>. QED  BY <1>5, <3>1, <3>2
  <2>5. PICK g : g = next(g) /\ FlattenSeq(data) = g[n]
    <3>1. Len(data) # 0
      BY <1>5, <1>8
    <3>. QED  BY <1>5, <2>4, <3>1 DEF FlattenSeq
  <2>. DEFINE T == {k \in 1 .. n : ~(Run(g[k], from) /\ Len(g[k]) = E(k) - from)}
  <2>6. T = {}
    <3>. SUFFICES ASSUME T # {} PROVE FALSE
      OBVIOUS
    <3>1. PICK m \in T : \A j \in T : m <= j
      <4>1. T \subseteq Nat
        OBVIOUS
      <4>. QED  BY <4>1, LeastNatural
    <3>2. m \in 1 .. n /\ (m # 1 => m - 1 \in 1 .. n /\ m - 1 \notin T)
      BY <3>1
    <3>3. m # 1 => Run(g[m - 1], from) /\ Len(g[m - 1]) = E(m - 1) - from
      BY <3>2
    <3>. HIDE DEF next, E
    <3>4. Run(next(g)[m], from) /\ Len(next(g)[m]) = E(m) - from
      BY <2>3, <3>2, <3>3
    <3>5. next(g)[m] = g[m]
      BY <2>5
    <3>. QED  BY <3>1, <3>4, <3>5
  <2>7. n \in 1 .. n
    BY <1>1, <1>8
  <2>8. Run(g[n], from) /\ Len(g[n]) = E(n) - from
    BY <2>6, <2>7
  <2>. QED  BY <1>6, <2>5, <2>8 DEF p
<1>. QED  BY <1>7, <1>8

\* Entries that can be read one after the other are contiguous.
LEMMA ReadableContiguous ==
  ASSUME NEW end \in Nat, NEW r, Pieces(r.entries, end), r.readOffset \in Nat,
         NEW n \in 0 .. Len(r.entries), \A k \in 1 .. n : readable(r, k)
  PROVE  Contiguous(r.entries, r.readOffset, n)
<1>. DEFINE es == r.entries
            from == r.readOffset
            T == {k \in 1 .. n : es[k].offset # endOf(es, from, k - 1)}
<1>1. Len(es) \in Nat /\ n \in Nat
  BY DEF Pieces
<1>2. T = {}
  <2>. SUFFICES ASSUME T # {} PROVE FALSE
    OBVIOUS
  <2>1. PICK m \in T : \A j \in T : m <= j
    <3>1. T \subseteq Nat
      OBVIOUS
    <3>. QED  BY <3>1, LeastNatural
  <2>2. m \in 1 .. n /\ m - 1 \in 0 .. Len(es) /\ \A k \in 1 .. m - 1 : k \in 1 .. n /\ k \notin T
    BY <1>1, <2>1
  <2>3. Contiguous(es, from, m - 1)
    <3>1. ASSUME NEW k \in 1 .. m - 1
          PROVE  es[k].offset = IF k = 1 THEN from ELSE es[k - 1].offset + Len(es[k - 1].data)
      <4>1. es[k].offset = endOf(es, from, k - 1)
        BY <2>2
      <4>2. (k - 1 = 0 <=> k = 1)
        BY <1>1, <2>2
      <4>. QED  BY <4>1, <4>2 DEF endOf
    <3>. QED  BY <3>1 DEF Contiguous
  <2>. HIDE DEF es, from
  <2>4. Len(bytesOf(SubSeq(es, 1, m - 1))) = endOf(es, from, m - 1) - from
    BY <2>2, <2>3, BytesOfContiguous, SMTT(40) DEF es, from
  <2>5. endOf(es, from, m - 1) \in Nat
    <3>1. \A k \in 0 .. m - 1 : endOf(es, from, k) \in Nat /\ endOf(es, from, k) >= from
      BY <2>2, <2>3, EndGrows DEF es, from
    <3>2. m - 1 \in 0 .. m - 1
      BY <1>1, <2>2
    <3>. QED  BY <3>1, <3>2
  <2>6. es[m].offset = from + Len(bytesOf(SubSeq(es, 1, m - 1)))
    BY <2>2 DEF readable, es, from
  <2>7. from \in Nat
    BY DEF from
  <2>8. es[m].offset = endOf(es, from, m - 1)
    BY <2>4, <2>5, <2>6, <2>7, SMTT(40)
  <2>. QED  BY <2>1, <2>8
<1>3. ASSUME NEW k \in 1 .. n
      PROVE  es[k].offset = IF k = 1 THEN from ELSE es[k - 1].offset + Len(es[k - 1].data)
  <2>1. es[k].offset = endOf(es, from, k - 1)
    BY <1>2
  <2>2. (k - 1 = 0 <=> k = 1)
    BY <1>1
  <2>. QED  BY <2>1, <2>2 DEF endOf
<1>. QED  BY <1>3 DEF Contiguous

\* The loop of _read stops: it has a number of entries to take, all of them readable.
LEMMA EntriesRead ==
  ASSUME NEW end \in Nat, NEW r, Pieces(r.entries, end), r.readOffset \in Nat, NEW size \in Int
  PROVE  /\ entriesRead(r, size) \in 0 .. Len(r.entries)
         /\ \A k \in 1 .. entriesRead(r, size) : readable(r, k)
<1>. DEFINE L(k) == Len(bytesOf(SubSeq(r.entries, 1, k)))
            Stop(n) == n = Len(r.entries) \/ ~readable(r, n + 1) \/ (n > 0 /\ L(n) >= size)
            Takes(n) == \A k \in 1 .. n : readable(r, k) /\ (k > 1 => L(k - 1) < size)
            T == {n \in 0 .. Len(r.entries) : Stop(n)}
<1>1. Len(r.entries) \in Nat
  BY DEF Pieces
<1>2. T \subseteq Nat /\ Len(r.entries) \in T
  BY <1>1
<1>3. PICK n \in T : \A j \in T : n <= j
  <2>. HIDE DEF T
  <2>. QED  BY <1>2, LeastNatural
<1>4. n \in 0 .. Len(r.entries) /\ Stop(n)
  OBVIOUS
<1>5. ASSUME NEW k \in 1 .. n
      PROVE  k - 1 \in 0 .. Len(r.entries) /\ readable(r, k) /\ (k > 1 => ~(L(k - 1) >= size))
  <2>1. k - 1 \in 0 .. Len(r.entries) /\ ~(n <= k - 1) /\ (k - 1) + 1 = k
    BY <1>1, <1>4
  <2>2. k - 1 \notin T
    <3>. HIDE DEF T
    <3>. QED  BY <1>3, <2>1
  <2>3. ~Stop(k - 1)
    <3>. HIDE DEF Stop
    <3>. QED  BY <2>1, <2>2
  <2>4. readable(r, k)
    <3>. HIDE DEF L
    <3>. QED  BY <2>1, <2>3
  <2>5. k > 1 => k - 1 > 0
    BY <2>1
  <2>. HIDE DEF L
  <2>. QED  BY <2>1, <2>3, <2>4, <2>5
<1>6. Contiguous(r.entries, r.readOffset, n)
  BY <1>4, <1>5, ReadableContiguous
<1>7. ASSUME NEW k \in 1 .. n, k > 1
      PROVE  L(k - 1) < size
  <2>1. k - 1 \in 0 .. Len(r.entries) /\ \A j \in 1 .. k - 1 : j \in 1 .. n
    BY <1>1, <1>4
  <2>2. Contiguous(r.entries, r.readOffset, k - 1)
    BY <1>5, <2>1, ReadableContiguous
  <2>3. bytesOf(SubSeq(r.entries, 1, k - 1)) \in Seq(Nat)
    BY <2>1, <2>2, BytesOfContiguous DEF Run
  <2>4. L(k - 1) \in Nat
    BY <2>3
  <2>5. ~(L(k - 1) >= size)
    <3>. HIDE DEF L
    <3>. QED  BY <1>5, <1>7
  <2>. HIDE DEF L
  <2>. QED  BY <2>4, <2>5
<1>8. Takes(n)
  <2>. HIDE DEF L
  <2>. QED  BY <1>5, <1>7
<1>9. takesEntries(r, n, size) /\ stopsAfter(r, n, size)
  BY <1>4, <1>8 DEF takesEntries, stopsAfter
<1>. DEFINE c == CHOOSE m \in 0 .. Len(r.entries) : takesEntries(r, m, size) /\ stopsAfter(r, m, size)
<1>10. c \in 0 .. Len(r.entries) /\ takesEntries(r, c, size)
  BY <1>4, <1>9
<1>11. entriesRead(r, size) = c
  BY DEF entriesRead
<1>. HIDE DEF c
<1>. QED  BY <1>10, <1>11 DEF takesEntries

-----------------------------------------------------------------------------
(* The reading side *)

\* What the steps of the reader leave alone.
SameStream(q, r) == q.bufferSize = r.bufferSize /\ q.flowing = r.flowing /\ q.status = r.status

LEMMA ReaderTypes ==
  ASSUME NEW end \in Nat, NEW r, ReaderInv(r, end)
  PROVE  /\ r.readOffset \in Nat /\ r.maxOffset \in Nat /\ r.bufferSize \in Nat
         /\ Len(r.consumed) \in Nat /\ Len(r.buffered) \in Nat
         /\ maxAcceptable(r) = Len(r.consumed) + HighWaterMark
         /\ connectionMaxAcceptable(r) = Len(r.consumed) + r.bufferSize
<1>1. /\ r.readOffset \in Nat /\ r.maxOffset \in Nat /\ r.bufferSize \in Nat
      /\ Len(r.consumed) \in Nat /\ Len(r.buffered) \in Nat
  BY DEF ReaderInv, Reader
<1>2. r.readOffset = Len(r.consumed) + Len(r.buffered)
  BY <1>1 DEF ReaderInv
<1>3. HighWaterMark \in Nat
  BY DataAssumption
<1>. DEFINE o == r.readOffset
            c == Len(r.consumed)
            b == Len(r.buffered)
            d == r.bufferSize
<1>4. o \in Nat /\ c \in Nat /\ b \in Nat /\ d \in Nat /\ o = c + b
  BY <1>1, <1>2
<1>. HIDE DEF o, c, b, d
<1>5. o + HighWaterMark - b = c + HighWaterMark /\ o - b + d = c + d
  BY <1>3, <1>4
<1>. QED  BY <1>1, <1>5, Zenon DEF maxAcceptable, connectionMaxAcceptable, o, c, b, d

\* _read moves bytes from the sorter to Node's buffer.
LEMMA ReadStep ==
  ASSUME NEW end \in Nat, NEW r, ReaderInv(r, end), NEW size \in Int
  PROVE  LET q == _read(r, size)
         IN  ReaderInv(q, end) /\ q.consumed = r.consumed /\ q.maxOffset = r.maxOffset /\ SameStream(q, r)
<1>. DEFINE q == _read(r, size)
            n == entriesRead(r, size)
            bytes == bytesOf(SubSeq(r.entries, 1, n))
            offset == IF n = 0 THEN r.readOffset ELSE r.entries[n].offset + Len(r.entries[n].data)
            sends == r.sending \/ (~r.flowing /\ (n = 0 \/ Len(bytes) < size))
<1>1. r \in Reader /\ Pieces(r.entries, end) /\ r.readOffset \in Nat /\ r.readOffset <= end
  BY DEF ReaderInv, Reader
<1>2. n \in 0 .. Len(r.entries) /\ Contiguous(r.entries, r.readOffset, n)
  BY <1>1, EntriesRead, ReadableContiguous
<1>3. Run(bytes, r.readOffset) /\ Len(bytes) = endOf(r.entries, r.readOffset, n) - r.readOffset
  <2>. HIDE DEF n
  <2>. QED  BY <1>1, <1>2, BytesOfContiguous
<1>4. offset = endOf(r.entries, r.readOffset, n)
  BY DEF endOf
<1>5. offset \in Nat
  <2>. HIDE DEF n, offset
  <2>1. \A k \in 0 .. n : endOf(r.entries, r.readOffset, k) \in Nat
    BY <1>1, <1>2, EndGrows
  <2>2. n \in 0 .. n
    BY <1>1, <1>2 DEF Pieces
  <2>. QED  BY <1>4, <2>1, <2>2
<1>6. offset <= end
  <2>1. CASE n = 0
    BY <1>1, <2>1
  <2>2. CASE n # 0
    <3>1. n \in 1 .. Len(r.entries)
      <4>. HIDE DEF n
      <4>. QED  BY <1>1, <1>2, <2>2 DEF Pieces
    <3>. HIDE DEF n
    <3>2. GoodPiece(r.entries[n], end)
      BY <1>1, <3>1 DEF Pieces
    <3>. QED  BY <2>2, <3>2 DEF GoodPiece
  <2>. QED  BY <2>1, <2>2
<1>7. Pieces(drop(r.entries, n), end)
  <2>. HIDE DEF n
  <2>. QED  BY <1>1, <1>2, PiecesDrop
<1>8. q = [r EXCEPT !.entries = drop(r.entries, n), !.readOffset = offset,
                    !.buffered = r.buffered \o bytes, !.sending = sends]
  BY DEF _read
<1>9. Run(r.buffered \o bytes, Len(r.consumed)) /\ Len(r.buffered \o bytes) = Len(r.buffered) + Len(bytes)
  <2>1. Len(r.consumed) \in Nat /\ Run(r.buffered, Len(r.consumed))
        /\ r.readOffset = Len(r.consumed) + Len(r.buffered)
    BY DEF ReaderInv, Reader
  <2>. HIDE DEF bytes
  <2>. QED  BY <1>3, <2>1, RunConcat, ZenonT(40)
<1>10. Len(r.consumed) + Len(r.buffered \o bytes) = offset
  <2>1. Len(r.consumed) \in Nat /\ Len(r.buffered) \in Nat /\ r.readOffset = Len(r.consumed) + Len(r.buffered)
    BY DEF ReaderInv, Reader
  <2>2. Len(bytes) = offset - r.readOffset
    BY <1>3, <1>4
  <2>. HIDE DEF bytes, offset
  <2>. QED  BY <1>1, <1>5, <1>9, <2>1, <2>2
<1>11. sends \in BOOLEAN
  BY <1>1 DEF Reader
<1>. HIDE DEF n, bytes, offset, sends, q
<1>12. /\ q.entries = drop(r.entries, n) /\ q.readOffset = offset /\ q.buffered = r.buffered \o bytes
       /\ q.sending = sends /\ q.consumed = r.consumed /\ q.maxOffset = r.maxOffset
       /\ SameStream(q, r)
  BY <1>1, <1>8 DEF Reader, SameStream
<1>13. q \in Reader
  <2>1. drop(r.entries, n) \in Seq(Piece) /\ r.buffered \o bytes \in Seq(Nat)
    BY <1>7, <1>9 DEF Pieces, Run
  <2>. QED  BY <1>1, <1>5, <1>8, <1>11, <2>1 DEF Reader
<1>14. ReaderInv(q, end)
  BY <1>6, <1>7, <1>9, <1>10, <1>12, <1>13 DEF ReaderInv
<1>. QED  BY <1>12, <1>14 DEF q

\* A piece that arrives is sorted in, and what continues what was read goes to Node.
LEMMA PushStep ==
  ASSUME NEW end \in Nat, NEW r, ReaderInv(r, end), NEW p, GoodPiece(p, end)
  PROVE  LET q == _pushIncomingData(r, p)
         IN  ReaderInv(q, end) /\ q.consumed = r.consumed /\ SameStream(q, r)
<1>. DEFINE most == greater(r.maxOffset, p.offset + Len(p.data))
            sorted == [r EXCEPT !.entries = pushEntry(r.entries, p), !.maxOffset = most]
            size == HighWaterMark - Len(r.buffered)
<1>1. r \in Reader /\ Pieces(r.entries, end) /\ r.maxOffset \in Nat /\ r.maxOffset <= end
  BY DEF ReaderInv, Reader
<1>2. Pieces(pushEntry(r.entries, p), end)
  BY <1>1, PiecesPush
<1>3. most \in Nat /\ most <= end
  <2>1. p.offset \in Nat /\ Len(p.data) \in Nat /\ p.offset + Len(p.data) <= end
    BY DEF GoodPiece, Piece
  <2>. QED  BY <1>1, <2>1 DEF greater
<1>4. size \in Int
  BY ReaderTypes, DataAssumption
<1>. HIDE DEF most, size
<1>5. /\ sorted.entries = pushEntry(r.entries, p) /\ sorted.maxOffset = most
      /\ sorted.readOffset = r.readOffset /\ sorted.buffered = r.buffered
      /\ sorted.consumed = r.consumed /\ SameStream(sorted, r)
  BY <1>1 DEF Reader, SameStream
<1>6. sorted \in Reader
  BY <1>1, <1>2, <1>3 DEF Reader, Pieces
<1>7. _pushIncomingData(r, p) = _read(sorted, size)
  BY DEF _pushIncomingData, most, size
<1>. HIDE DEF sorted
<1>8. ReaderInv(sorted, end)
  BY <1>2, <1>3, <1>5, <1>6 DEF ReaderInv
<1>9. LET q == _read(sorted, size)
      IN  ReaderInv(q, end) /\ q.consumed = sorted.consumed /\ SameStream(q, sorted)
  BY <1>4, <1>8, ReadStep
<1>. QED  BY <1>5, <1>7, <1>9 DEF SameStream

\* The application gets what Node has.
LEMMA TakeStep ==
  ASSUME NEW end \in Nat, NEW r, ReaderInv(r, end)
  PROVE  LET q == takeBuffered(r)
         IN  /\ ReaderInv(q, end) /\ SameStream(q, r)
             /\ Len(q.consumed) = r.readOffset /\ Len(q.consumed) >= Len(r.consumed)
<1>. DEFINE q == takeBuffered(r)
<1>1. /\ r \in Reader /\ Run(r.consumed, 0) /\ Run(r.buffered, Len(r.consumed))
      /\ Len(r.consumed) + Len(r.buffered) = r.readOffset
  BY DEF ReaderInv
<1>2. Len(r.consumed) \in Nat /\ Len(r.buffered) \in Nat /\ r.readOffset \in Nat
  BY ReaderTypes
<1>3. Run(r.consumed \o r.buffered, 0) /\ Len(r.consumed \o r.buffered) = r.readOffset
  <2>1. 0 \in Nat /\ Run(r.buffered, 0 + Len(r.consumed))
    BY <1>1, <1>2
  <2>. QED  BY <1>1, <2>1, RunConcat
<1>4. Run(<<>>, r.readOffset) /\ Len(<<>>) = 0
  BY <1>2, RunEmpty
<1>5. /\ q.buffered = <<>> /\ q.consumed = r.consumed \o r.buffered /\ q.entries = r.entries
      /\ q.readOffset = r.readOffset /\ q.maxOffset = r.maxOffset /\ SameStream(q, r)
  BY <1>1 DEF takeBuffered, Reader, SameStream
<1>6. q \in Reader
  <2>1. <<>> \in Seq(Nat) /\ r.consumed \o r.buffered \in Seq(Nat)
    BY <1>3, <1>4 DEF Run
  <2>2. q = [r EXCEPT !.buffered = <<>>, !.consumed = r.consumed \o r.buffered]
    BY DEF takeBuffered
  <2>. HIDE DEF q
  <2>. QED  BY <1>1, <2>1, <2>2 DEF Reader
<1>. HIDE DEF q
<1>7. ReaderInv(q, end)
  <2>1. Len(q.consumed) + Len(q.buffered) = q.readOffset
    <3>1. Len(q.consumed) = r.readOffset /\ Len(q.buffered) = 0 /\ q.readOffset = r.readOffset
      BY <1>3, <1>4, <1>5, Zenon
    <3>. QED  BY <1>2, <3>1
  <2>2. Run(q.buffered, Len(q.consumed)) /\ Run(q.consumed, 0)
    BY <1>3, <1>4, <1>5
  <2>3. Pieces(q.entries, end) /\ q.readOffset <= end /\ q.maxOffset <= end
    BY <1>5 DEF ReaderInv
  <2>. QED  BY <1>6, <2>1, <2>2, <2>3 DEF ReaderInv
<1>8. Len(q.consumed) = r.readOffset /\ Len(q.consumed) >= Len(r.consumed)
  <2>1. Len(q.consumed) = r.readOffset
    BY <1>3, <1>5, Zenon
  <2>2. r.readOffset >= Len(r.consumed)
    <3>. DEFINE c == Len(r.consumed)
                b == Len(r.buffered)
    <3>1. c \in Nat /\ b \in Nat /\ c + b = r.readOffset
      BY <1>1, <1>2
    <3>. HIDE DEF c, b
    <3>2. r.readOffset >= c
      BY <3>1
    <3>. QED  BY <3>2 DEF c
  <2>. QED  BY <2>1, <2>2, Zenon
<1>. QED  BY <1>5, <1>7, <1>8, Zenon DEF q

\* The stream's status and the loop's flag say nothing of its bytes.
LEMMA ReaderStatus ==
  ASSUME NEW end \in Nat, NEW r, ReaderInv(r, end), NEW v \in {"open", "ended", "destroyed"}
  PROVE  LET q == [r EXCEPT !.status = v]
         IN  ReaderInv(q, end) /\ q.consumed = r.consumed /\ q.bufferSize = r.bufferSize /\ q.status = v
<1>. DEFINE q == [r EXCEPT !.status = v]
<1>1. r \in Reader
  BY DEF ReaderInv
<1>2. /\ q.entries = r.entries /\ q.readOffset = r.readOffset /\ q.maxOffset = r.maxOffset
      /\ q.buffered = r.buffered /\ q.consumed = r.consumed /\ q.bufferSize = r.bufferSize
      /\ q.status = v /\ q \in Reader
  BY <1>1 DEF Reader
<1>. HIDE DEF q
<1>3. ReaderInv(q, end)
  BY <1>2 DEF ReaderInv
<1>. QED  BY <1>2, <1>3 DEF q

LEMMA ReaderMore ==
  ASSUME NEW end \in Nat, NEW more \in Nat, end <= more, NEW r, ReaderInv(r, end)
  PROVE  ReaderInv(r, more)
<1>1. r.readOffset \in Nat /\ r.maxOffset \in Nat /\ r.readOffset <= end /\ r.maxOffset <= end
  BY ReaderTypes DEF ReaderInv
<1>2. r.readOffset <= more /\ r.maxOffset <= more
  BY <1>1
<1>3. Pieces(r.entries, more)
  BY PiecesMore DEF ReaderInv
<1>. QED  BY <1>2, <1>3 DEF ReaderInv

\* A packet destroys the reader only when what the writer has sent is above one of the
\* limits the reader computes.
LEMMA ReceivedStep ==
  ASSUME NEW end \in Nat, ReaderInv(reader, end), NEW p, GoodPiece(p, end), NEW close \in BOOLEAN
  PROVE  LET q == received(p, close)
         IN  /\ ReaderInv(q, end)
             /\ q.bufferSize = reader.bufferSize
             /\ Len(q.consumed) >= Len(reader.consumed)
             /\ q.consumed = reader.consumed \/ Len(q.consumed) <= end
             /\ reader.status # "destroyed" /\ q.status = "destroyed" =>
                   \/ end > Len(reader.consumed) + HighWaterMark
                   \/ end > Len(reader.consumed) + reader.bufferSize
<1>. DEFINE pushed == IF p.data = <<>> THEN reader ELSE _pushIncomingData(reader, p)
            handed == IF reader.flowing THEN takeBuffered(pushed) ELSE pushed
            q == received(p, close)
<1>1. q = IF reader.status # "open" THEN reader
          ELSE IF exceedsWindow(pushed) THEN [pushed EXCEPT !.status = "destroyed"]
          ELSE [handed EXCEPT !.status = IF close THEN "ended" ELSE handed.status]
  BY DEF received
<1>2. ReaderInv(pushed, end) /\ pushed.consumed = reader.consumed /\ SameStream(pushed, reader)
  BY PushStep DEF SameStream
<1>. HIDE DEF pushed
<1>3. /\ ReaderInv(handed, end) /\ SameStream(handed, pushed)
      /\ Len(handed.consumed) >= Len(pushed.consumed)
      /\ handed.consumed = pushed.consumed \/ Len(handed.consumed) <= end
  <2>1. Len(pushed.consumed) \in Nat
    BY <1>2, ReaderTypes
  <2>2. CASE reader.flowing
    <3>1. handed = takeBuffered(pushed)
      BY <2>2
    <3>. HIDE DEF handed
    <3>2. pushed.readOffset <= end
      BY <1>2 DEF ReaderInv
    <3>3. /\ ReaderInv(handed, end) /\ SameStream(handed, pushed)
          /\ Len(handed.consumed) = pushed.readOffset /\ Len(handed.consumed) >= Len(pushed.consumed)
      BY <1>2, <3>1, TakeStep
    <3>. QED  BY <3>2, <3>3
  <2>3. CASE ~reader.flowing
    <3>1. handed = pushed
      BY <2>3
    <3>. HIDE DEF handed
    <3>. QED  BY <1>2, <2>1, <3>1 DEF SameStream
  <2>. QED  BY <2>2, <2>3
<1>. HIDE DEF handed, q
<1>4. CASE reader.status # "open"
  <2>1. q = reader
    BY <1>1, <1>4
  <2>2. Len(reader.consumed) \in Nat
    BY ReaderTypes
  <2>. QED  BY <2>1, <2>2 DEF q
<1>5. CASE reader.status = "open" /\ exceedsWindow(pushed)
  <2>1. q = [pushed EXCEPT !.status = "destroyed"]
    BY <1>1, <1>5
  <2>2. ReaderInv(q, end) /\ q.consumed = pushed.consumed /\ q.bufferSize = pushed.bufferSize
    BY <1>2, <2>1, ReaderStatus
  <2>3. Len(reader.consumed) \in Nat
    BY ReaderTypes
  <2>4. pushed.bufferSize = reader.bufferSize
    BY <1>2 DEF SameStream
  <2>5. \/ pushed.maxOffset > Len(reader.consumed) + HighWaterMark
        \/ pushed.maxOffset > Len(reader.consumed) + reader.bufferSize
    <3>1. /\ maxAcceptable(pushed) = Len(reader.consumed) + HighWaterMark
          /\ connectionMaxAcceptable(pushed) = Len(reader.consumed) + reader.bufferSize
      BY <1>2, <2>4, ReaderTypes
    <3>. QED  BY <1>5, <3>1 DEF exceedsWindow
  <2>6. pushed.maxOffset \in Nat /\ pushed.maxOffset <= end
    BY <1>2, ReaderTypes DEF ReaderInv
  <2>7. reader.bufferSize \in Nat /\ HighWaterMark \in Nat
    BY ReaderTypes, DataAssumption
  <2>8. \/ end > Len(reader.consumed) + HighWaterMark
        \/ end > Len(reader.consumed) + reader.bufferSize
    <3>. DEFINE c == Len(reader.consumed)
                b == reader.bufferSize
                m == pushed.maxOffset
    <3>1. c \in Nat /\ b \in Nat /\ m \in Nat /\ m <= end /\ (m > c + HighWaterMark \/ m > c + b)
      BY <2>3, <2>5, <2>6, <2>7
    <3>. HIDE DEF c, b, m
    <3>2. end > c + HighWaterMark \/ end > c + b
      BY <2>7, <3>1
    <3>. QED  BY <3>2 DEF c, b
  <2>9. Len(q.consumed) = Len(reader.consumed) /\ Len(reader.consumed) >= Len(reader.consumed)
    BY <1>2, <2>2, <2>3
  <2>. QED  BY <1>2, <2>2, <2>4, <2>8, <2>9 DEF q
<1>6. CASE reader.status = "open" /\ ~exceedsWindow(pushed)
  <2>. DEFINE v == IF close THEN "ended" ELSE handed.status
  <2>1. handed.status = "open" /\ handed.bufferSize = reader.bufferSize
    BY <1>2, <1>3, <1>6 DEF SameStream
  <2>2. v \in {"open", "ended", "destroyed"} /\ v # "destroyed"
    BY <2>1
  <2>3. q = [handed EXCEPT !.status = v]
    BY <1>1, <1>6
  <2>. HIDE DEF v
  <2>4. ReaderInv(q, end) /\ q.consumed = handed.consumed /\ q.bufferSize = handed.bufferSize /\ q.status = v
    BY <1>3, <2>2, <2>3, ReaderStatus, ZenonT(40)
  <2>. QED  BY <1>2, <1>3, <2>1, <2>2, <2>4 DEF q
<1>. QED  BY <1>4, <1>5, <1>6

-----------------------------------------------------------------------------
(* The writing side *)

LEMMA WriterTypes ==
  ASSUME NEW w, NEW all, WriterInv(w, all)
  PROVE  /\ w.outgoingOffset \in Nat /\ Len(w.outgoing) \in Nat /\ w.outgoing \in Seq(Nat)
         /\ w.remoteMax \in Nat /\ w.connectionMax \in Nat /\ w.bufferSize \in Nat
         /\ Len(all) \in Nat
BY DEF WriterInv, Writer, Run

\* Limits, status and flags say nothing of the writer's bytes.
LEMMA WriterSame ==
  ASSUME NEW w, NEW all, WriterInv(w, all), NEW q \in Writer, q.outgoing = w.outgoing,
         q.outgoingOffset = w.outgoingOffset, Pieces(q.retry, w.outgoingOffset)
  PROVE  WriterInv(q, all)
BY DEF WriterInv

\* _getAvailableDataToSend takes a piece to be sent again...
LEMMA TakesRetry ==
  ASSUME WriterInv(writer, written), writer.retry # <<>>, NEW size \in Nat
  PROVE  LET piece == _getAvailableDataToSend(size)
             w == takenFrom(writer, piece)
         IN  /\ GoodPiece(piece, writer.outgoingOffset)
             /\ WriterInv(w, written)
             /\ w.outgoingOffset = writer.outgoingOffset /\ w.outgoing = writer.outgoing
             /\ w.remoteMax = writer.remoteMax /\ w.connectionMax = writer.connectionMax
             /\ w.bufferSize = writer.bufferSize
<1>. DEFINE toSend == Head(writer.retry)
            m == lesser(Len(toSend.data), size)
            data == SubSeq(toSend.data, 1, m)
            piece == _getAvailableDataToSend(size)
            rest == [offset |-> toSend.offset + m, data |-> drop(toSend.data, m)]
            again == IF Len(toSend.data) > m THEN <<rest>> \o Tail(writer.retry) ELSE Tail(writer.retry)
            end == writer.outgoingOffset
<1>1. writer \in Writer /\ end \in Nat /\ Pieces(writer.retry, end)
  BY WriterTypes DEF WriterInv
<1>2. GoodPiece(toSend, end) /\ Pieces(Tail(writer.retry), end)
  <2>. HIDE DEF end
  <2>. QED  BY <1>1, PiecesTail
<1>. HIDE DEF toSend, end
<1>3. /\ toSend.offset \in Nat /\ Run(toSend.data, toSend.offset) /\ Len(toSend.data) \in Nat
      /\ toSend.offset + Len(toSend.data) <= end
  BY <1>2 DEF GoodPiece, Piece
<1>4. m \in 0 .. Len(toSend.data)
  BY <1>3 DEF lesser
<1>. HIDE DEF m
<1>5. Run(data, toSend.offset) /\ Len(data) = m
  BY <1>3, <1>4, RunPrefix
<1>6. Run(drop(toSend.data, m), toSend.offset + m) /\ Len(drop(toSend.data, m)) = Len(toSend.data) - m
  BY <1>3, <1>4, RunDrop
<1>7. piece = [offset |-> toSend.offset, data |-> data]
  BY DEF _getAvailableDataToSend, m, toSend
<1>. HIDE DEF data, piece
<1>8. piece.data = data /\ piece.offset = toSend.offset /\ piece \in Piece
  BY <1>3, <1>5, <1>7 DEF Piece, Run
<1>9. GoodPiece(piece, end)
  <2>1. toSend.offset + m <= end
    <3>. DEFINE l == Len(toSend.data)
                o == toSend.offset
    <3>1. l \in Nat /\ o \in Nat /\ o + l <= end /\ m \in 0 .. l
      BY <1>3, <1>4
    <3>. HIDE DEF l, o
    <3>2. o + m <= end
      BY <1>1, <3>1
    <3>. QED  BY <3>2 DEF o
  <2>. QED  BY <1>5, <1>8, <2>1 DEF GoodPiece
<1>10. GoodPiece(rest, end)
  <2>1. toSend.offset + m \in Nat /\ (toSend.offset + m) + (Len(toSend.data) - m) <= end
    <3>. DEFINE l == Len(toSend.data)
                o == toSend.offset
    <3>1. l \in Nat /\ o \in Nat /\ o + l <= end /\ m \in 0 .. l
      BY <1>3, <1>4
    <3>. HIDE DEF l, o
    <3>2. o + m \in Nat /\ (o + m) + (l - m) <= end
      BY <1>1, <3>1
    <3>. QED  BY <3>2 DEF o, l
  <2>2. rest \in Piece
    BY <1>6, <2>1 DEF Piece, Run
  <2>3. rest.offset = toSend.offset + m /\ rest.data = drop(toSend.data, m)
    OBVIOUS
  <2>. HIDE DEF rest
  <2>. QED  BY <1>6, <2>1, <2>2, <2>3 DEF GoodPiece
<1>. HIDE DEF rest
<1>11. Pieces(again, end)
  BY <1>1, <1>2, <1>10, PiecesOne, PiecesConcat
<1>. DEFINE w == takenFrom(writer, piece)
<1>12. w = [writer EXCEPT !.retry = again]
  BY <1>5, <1>8 DEF takenFrom, rest, toSend
<1>. HIDE DEF again, w
<1>13. /\ w \in Writer /\ w.retry = again /\ w.outgoingOffset = writer.outgoingOffset
       /\ w.outgoing = writer.outgoing /\ w.remoteMax = writer.remoteMax
       /\ w.connectionMax = writer.connectionMax /\ w.bufferSize = writer.bufferSize
  BY <1>1, <1>11, <1>12 DEF Writer, Pieces
<1>14. WriterInv(w, written)
  BY <1>11, <1>13, WriterSame DEF end
<1>. QED  BY <1>9, <1>13, <1>14 DEF end, piece, w

\* ...or new data, as much as the stream's window takes.
LEMMA TakesNew ==
  ASSUME WriterInv(writer, written), writer.retry = <<>>, NEW size \in Nat,
         writer.outgoingOffset <= writer.remoteMax
  PROVE  LET piece == _getAvailableDataToSend(size)
             w == takenFrom(writer, piece)
         IN  /\ GoodPiece(piece, w.outgoingOffset)
             /\ WriterInv(w, written)
             /\ w.outgoingOffset = writer.outgoingOffset + Len(piece.data)
             /\ w.outgoingOffset <= writer.remoteMax
             /\ Len(piece.data) <= size
             /\ w.remoteMax = writer.remoteMax /\ w.connectionMax = writer.connectionMax
             /\ w.bufferSize = writer.bufferSize
<1>. DEFINE o == writer.outgoingOffset
            l == Len(writer.outgoing)
            m == lesser(lesser(size, writer.remoteMax - o), l)
            data == SubSeq(writer.outgoing, 1, m)
            piece == _getAvailableDataToSend(size)
            w == takenFrom(writer, piece)
<1>1. /\ writer \in Writer /\ o \in Nat /\ l \in Nat /\ writer.remoteMax \in Nat /\ o <= writer.remoteMax
      /\ Run(writer.outgoing, o) /\ Pieces(writer.retry, o) /\ o + l = Len(written)
  BY WriterTypes DEF WriterInv
<1>. HIDE DEF o, l
<1>2. m \in 0 .. l /\ m <= size /\ o + m <= writer.remoteMax /\ m \in Nat
  BY <1>1 DEF lesser
<1>3. piece = [offset |-> o, data |-> data]
  BY DEF _getAvailableDataToSend, o, l
<1>. HIDE DEF m
<1>4. Run(data, o) /\ Len(data) = m
  BY <1>1, <1>2, RunPrefix DEF l
<1>5. Run(drop(writer.outgoing, m), o + m) /\ Len(drop(writer.outgoing, m)) = l - m
  BY <1>1, <1>2, RunDrop DEF l
<1>. HIDE DEF data, piece
<1>6. piece.data = data /\ piece.offset = o /\ piece \in Piece
  BY <1>1, <1>3, <1>4 DEF Piece, Run
<1>7. w = [writer EXCEPT !.outgoing = drop(writer.outgoing, m), !.outgoingOffset = o + m]
  BY <1>4, <1>6 DEF takenFrom, o
<1>. HIDE DEF w
<1>8. /\ w \in Writer /\ w.outgoing = drop(writer.outgoing, m) /\ w.outgoingOffset = o + m
      /\ w.retry = writer.retry /\ w.remoteMax = writer.remoteMax
      /\ w.connectionMax = writer.connectionMax /\ w.bufferSize = writer.bufferSize
  <2>. DEFINE d == drop(writer.outgoing, m)
              n == o + m
  <2>1. d \in Seq(Nat) /\ n \in Nat
    BY <1>1, <1>2, <1>5 DEF Run
  <2>2. w = [writer EXCEPT !.outgoing = d, !.outgoingOffset = n]
    BY <1>7
  <2>. HIDE DEF d, n
  <2>3. /\ w \in Writer /\ w.outgoing = d /\ w.outgoingOffset = n
        /\ w.retry = writer.retry /\ w.remoteMax = writer.remoteMax
        /\ w.connectionMax = writer.connectionMax /\ w.bufferSize = writer.bufferSize
    BY <1>1, <2>1, <2>2 DEF Writer
  <2>. QED  BY <2>3 DEF d, n
<1>9. GoodPiece(piece, o + m)
  <2>1. o + m <= o + m
    BY <1>1, <1>2
  <2>. QED  BY <1>4, <1>6, <2>1 DEF GoodPiece
<1>10. WriterInv(w, written)
  <2>1. o + m \in Nat /\ o <= o + m /\ (o + m) + (l - m) = o + l
    BY <1>1, <1>2
  <2>2. Pieces(w.retry, o + m)
    BY <1>1, <1>8, <2>1, PiecesMore
  <2>3. (o + m) + Len(w.outgoing) = Len(written)
    BY <1>1, <1>5, <1>8, <2>1, Zenon
  <2>4. Run(written, 0)
    BY DEF WriterInv
  <2>. QED  BY <1>5, <1>8, <2>2, <2>3, <2>4 DEF WriterInv
<1>11. Len(piece.data) = m
  BY <1>4, <1>6
<1>. QED  BY <1>2, <1>8, <1>9, <1>10, <1>11 DEF o, piece, w

\* The piece in the next packet is one the writer may send, or there is none.
LEMMA NextPieceStep ==
  ASSUME WriterInv(writer, written), writer.outgoingOffset <= writer.remoteMax
  PROVE  LET w == IF nextPiece.data = <<>> THEN writer ELSE takenFrom(writer, nextPiece)
         IN  /\ GoodPiece(nextPiece, w.outgoingOffset)
             /\ WriterInv(w, written)
             /\ writer.outgoingOffset <= w.outgoingOffset /\ w.outgoingOffset <= writer.remoteMax
             /\ w.outgoingOffset = writer.outgoingOffset \/ w.outgoingOffset <= writer.connectionMax
             /\ w.remoteMax = writer.remoteMax /\ w.connectionMax = writer.connectionMax
             /\ w.bufferSize = writer.bufferSize
<1>. DEFINE o == writer.outgoingOffset
            c == writer.connectionMax
            size == bytesLeftInPacket - FrameOverhead
            w == IF nextPiece.data = <<>> THEN writer ELSE takenFrom(writer, nextPiece)
<1>1. o \in Nat /\ c \in Nat /\ writer.remoteMax \in Nat /\ o <= writer.remoteMax
  BY WriterTypes
<1>2. CASE ~(writer.status # "removed" /\ bytesLeftInPacket > FrameOverhead)
  <2>1. nextPiece = [offset |-> 0, data |-> <<>>]
    BY <1>2 DEF nextPiece, NoPiece
  <2>2. nextPiece.data = <<>> /\ nextPiece.offset = 0 /\ nextPiece \in Piece
    BY <2>1 DEF Piece
  <2>3. w = writer
    BY <2>2
  <2>4. GoodPiece(nextPiece, o)
    <3>1. Run(<<>>, 0) /\ Len(<<>>) = 0
      BY RunEmpty
    <3>. QED  BY <1>1, <2>2, <3>1 DEF GoodPiece
  <2>5. o <= o
    BY <1>1
  <2>. HIDE DEF w
  <2>. QED  BY <1>1, <2>3, <2>4, <2>5 DEF w
<1>3. CASE writer.status # "removed" /\ bytesLeftInPacket > FrameOverhead
  <2>1. size \in Nat /\ o + size <= c
    <3>1. PacketBytes \in Nat /\ FrameOverhead \in Nat
      BY DataAssumption
    <3>2. bytesLeftInPacket = lesser(PacketBytes, c - o)
      BY DEF bytesLeftInPacket
    <3>. HIDE DEF c, o
    <3>. QED  BY <1>1, <1>3, <3>1, <3>2 DEF lesser
  <2>2. nextPiece = _getAvailableDataToSend(size)
    BY <1>3 DEF nextPiece
  <2>. HIDE DEF size
  <2>3. CASE writer.retry # <<>>
    <3>. DEFINE t == takenFrom(writer, nextPiece)
    <3>1. /\ GoodPiece(nextPiece, o) /\ WriterInv(t, written)
          /\ t.outgoingOffset = o /\ t.remoteMax = writer.remoteMax
          /\ t.connectionMax = writer.connectionMax /\ t.bufferSize = writer.bufferSize
      BY <2>1, <2>2, <2>3, TakesRetry
    <3>2. o <= o
      BY <1>1
    <3>3. w = writer \/ w = t
      OBVIOUS
    <3>. HIDE DEF w, t
    <3>. QED  BY <1>1, <3>1, <3>2, <3>3 DEF w
  <2>4. CASE writer.retry = <<>>
    <3>. DEFINE t == takenFrom(writer, nextPiece)
                m == Len(nextPiece.data)
    <3>1. /\ GoodPiece(nextPiece, t.outgoingOffset) /\ WriterInv(t, written)
          /\ t.outgoingOffset = o + m /\ t.outgoingOffset <= writer.remoteMax /\ m <= size
          /\ t.remoteMax = writer.remoteMax /\ t.connectionMax = writer.connectionMax
          /\ t.bufferSize = writer.bufferSize
      BY <2>1, <2>2, <2>4, TakesNew
    <3>2. m \in Nat /\ (nextPiece.data = <<>> => m = 0)
      BY <3>1, EmptySeq DEF GoodPiece, Piece
    <3>3. IF nextPiece.data = <<>> THEN w = writer ELSE w = t
      OBVIOUS
    <3>. HIDE DEF w, t, m, o, c
    <3>4. o <= o + m /\ o + m <= c /\ (m = 0 => o + m = o) /\ o <= o
      BY <1>1, <2>1, <3>1, <3>2
    <3>5. CASE nextPiece.data = <<>>
      BY <1>1, <3>1, <3>2, <3>3, <3>4, <3>5 DEF w, o
    <3>6. CASE nextPiece.data # <<>>
      BY <1>1, <3>1, <3>2, <3>3, <3>4, <3>6 DEF w, o, c
    <3>. QED  BY <3>5, <3>6
  <2>. QED  BY <2>3, <2>4
<1>. QED  BY <1>2, <1>3

-----------------------------------------------------------------------------
(* The steps *)

\* A step of the reader hands the application more bytes or none.
NoByteLost == written' = written /\ Len(reader'.consumed) >= Len(reader.consumed)

LEMMA DataInit_Inv == DataInit => DataInv
<1>. SUFFICES ASSUME DataInit PROVE DataInv
  OBVIOUS
<1>1. PICK size \in BufferSizes, flows \in BOOLEAN :
          /\ writer = [outgoing |-> <<>>, outgoingOffset |-> 0, retry |-> <<>>,
                       remoteMax |-> HighWaterMark, connectionMax |-> size.writer,
                       bufferSize |-> size.writer, sending |-> FALSE,
                       status |-> "open", closeQueued |-> FALSE]
          /\ reader = [entries |-> <<>>, readOffset |-> 0, maxOffset |-> 0,
                       buffered |-> <<>>, consumed |-> <<>>,
                       bufferSize |-> size.reader, flowing |-> flows,
                       sending |-> FALSE, status |-> "open"]
  BY DEF DataInit
<1>2. size.writer \in Nat /\ size.reader \in Nat /\ HighWaterMark \in Nat
  BY DataAssumption
<1>3. request = none /\ late = {} /\ update = none /\ written = <<>>
  BY DEF DataInit
<1>4. Run(<<>>, 0) /\ Len(<<>>) = 0 /\ Pieces(<<>>, 0)
  BY RunEmpty DEF Pieces
<1>5. WriterInv(writer, written)
  <2>1. writer \in Writer
    BY <1>1, <1>2 DEF Writer
  <2>2. writer.outgoing = <<>> /\ writer.outgoingOffset = 0 /\ writer.retry = <<>>
    BY <1>1
  <2>. QED  BY <1>3, <1>4, <2>1, <2>2 DEF WriterInv
<1>6. ReaderInv(reader, writer.outgoingOffset)
  <2>1. reader \in Reader
    BY <1>1, <1>2 DEF Reader
  <2>2. /\ reader.entries = <<>> /\ reader.readOffset = 0 /\ reader.maxOffset = 0
        /\ reader.buffered = <<>> /\ reader.consumed = <<>> /\ writer.outgoingOffset = 0
    BY <1>1
  <2>. QED  BY <1>4, <2>1, <2>2 DEF ReaderInv
<1>7. ByteInv
  BY <1>3, <1>5, <1>6 DEF ByteInv, RequestInv
<1>8. /\ writer.outgoingOffset = 0 /\ writer.remoteMax = HighWaterMark
      /\ writer.connectionMax = size.writer /\ writer.bufferSize = size.writer
      /\ reader.bufferSize = size.reader /\ Len(reader.consumed) = 0 /\ reader.status = "open"
  BY <1>1, <1>4
<1>9. WindowInv
  BY <1>2, <1>3, <1>8 DEF WindowInv, Windows, AnswerLimits, UpdateLimit, StreamLimit, ConnectionLimit
<1>. QED  BY <1>7, <1>9 DEF DataInv

\* What follows from the invariant for the steps.
LEMMA DataFacts ==
  ASSUME DataInv
  PROVE  /\ writer \in Writer /\ reader \in Reader
         /\ writer.outgoingOffset \in Nat /\ writer.remoteMax \in Nat
         /\ writer.connectionMax \in Nat /\ writer.bufferSize \in Nat
         /\ reader.bufferSize \in Nat /\ HighWaterMark \in Nat
         /\ Len(reader.consumed) \in Nat /\ Len(written) \in Nat
BY WriterTypes, ReaderTypes, DataAssumption DEF DataInv, ByteInv, WriterInv, ReaderInv

\* A limit that is accepted stays accepted when the reader goes on.
LEMMA LimitsGrow ==
  ASSUME NEW r, NEW q, Len(r.consumed) \in Nat, Len(q.consumed) \in Nat, r.bufferSize \in Nat,
         Len(q.consumed) >= Len(r.consumed), q.bufferSize = r.bufferSize, NEW n \in Nat
  PROVE  /\ StreamLimit(r, n) => StreamLimit(q, n)
         /\ ConnectionLimit(r, n) => ConnectionLimit(q, n)
<1>. DEFINE a == Len(r.consumed)
            b == Len(q.consumed)
            s == r.bufferSize
<1>1. a \in Nat /\ b \in Nat /\ s \in Nat /\ b >= a /\ HighWaterMark \in Nat
  BY DataAssumption
<1>. HIDE DEF a, b, s
<1>2. (n <= a + HighWaterMark => n <= b + HighWaterMark) /\ (n <= a + s => n <= b + s)
  BY <1>1
<1>. QED  BY <1>2 DEF StreamLimit, ConnectionLimit, a, b, s

\* The windows stay respected when the reader goes on and is not destroyed.
LEMMA ReaderGoesOn ==
  ASSUME DataInv, NEW q, ReaderInv(q, writer.outgoingOffset), q.bufferSize = reader.bufferSize,
         Len(q.consumed) >= Len(reader.consumed),
         writer.bufferSize <= q.bufferSize => q.status # "destroyed"
  PROVE  Windows(writer, q) /\ AnswerLimits(request, writer, q) /\ UpdateLimit(update, q)
<1>1. /\ writer.outgoingOffset \in Nat /\ writer.remoteMax \in Nat /\ writer.connectionMax \in Nat
      /\ reader.bufferSize \in Nat /\ Len(reader.consumed) \in Nat
  BY DataFacts
<1>2. Len(q.consumed) \in Nat
  BY <1>1, ReaderTypes
<1>3. \A n \in Nat : /\ StreamLimit(reader, n) => StreamLimit(q, n)
                     /\ ConnectionLimit(reader, n) => ConnectionLimit(q, n)
  BY <1>1, <1>2, LimitsGrow
<1>4. Windows(writer, q)
  BY <1>1, <1>3 DEF DataInv, WindowInv, Windows
<1>5. AnswerLimits(request, writer, q)
  <2>1. request # none => request.streamMax \in Nat /\ request.connectionMax \in Nat
    BY DEF DataInv, ByteInv, RequestInv, Request
  <2>. QED  BY <1>3, <2>1 DEF DataInv, WindowInv, AnswerLimits
<1>6. UpdateLimit(update, q)
  <2>1. update # none => update.maxOffset \in Nat
    BY DEF DataInv, ByteInv
  <2>. QED  BY <1>3, <2>1 DEF DataInv, WindowInv, UpdateLimit
<1>. QED  BY <1>4, <1>5, <1>6

\* What a packet does to the reader, in a state of the system.
LEMMA ReceivedSafely ==
  ASSUME DataInv, working, NEW p, GoodPiece(p, writer.outgoingOffset), NEW close \in BOOLEAN
  PROVE  LET q == received(p, close)
         IN  /\ ReaderInv(q, writer.outgoingOffset) /\ q.bufferSize = reader.bufferSize
             /\ Len(q.consumed) >= Len(reader.consumed)
             /\ writer.bufferSize <= q.bufferSize => q.status # "destroyed"
<1>. DEFINE q == received(p, close)
            o == writer.outgoingOffset
            c == Len(reader.consumed)
            b == reader.bufferSize
            m == writer.remoteMax
<1>1. /\ ReaderInv(q, o) /\ q.bufferSize = b /\ Len(q.consumed) >= c
      /\ reader.status # "destroyed" /\ q.status = "destroyed" => o > c + HighWaterMark \/ o > c + b
  BY DataFacts, ReceivedStep DEF DataInv, ByteInv
<1>2. o \in Nat /\ c \in Nat /\ b \in Nat /\ m \in Nat /\ HighWaterMark \in Nat /\ writer.bufferSize \in Nat
  BY DataFacts
<1>3. o <= m /\ m <= c + HighWaterMark /\ (writer.bufferSize <= b => o <= c + b)
  BY DEF DataInv, WindowInv, Windows, StreamLimit, ConnectionLimit
<1>4. reader.status # "destroyed"
  BY DEF working
<1>. HIDE DEF q, o, c, b, m
<1>5. writer.bufferSize <= b => ~(o > c + HighWaterMark \/ o > c + b)
  BY <1>2, <1>3
<1>. QED  BY <1>1, <1>4, <1>5 DEF q, o, c, b

LEMMA HandleRequestStep == DataInv /\ HandleRequest => DataInv' /\ NoByteLost
<1>. SUFFICES ASSUME DataInv, HandleRequest PROVE DataInv' /\ NoByteLost
  OBVIOUS
<1>. DEFINE o == writer.outgoingOffset
            q == received(request.piece, request.close)
<1>1. /\ working /\ request # none /\ reader' = q
      /\ request' = [request EXCEPT !.handled = TRUE,
                                    !.connectionMax = connectionMaxAcceptable(reader),
                                    !.streamMax = maxAcceptable(q)]
      /\ UNCHANGED <<writer, late, update, rejects, written, faults>>
  BY DEF HandleRequest
<1>2. request \in Request /\ GoodPiece(request.piece, o) /\ request.close \in BOOLEAN
  BY <1>1 DEF DataInv, ByteInv, RequestInv, Request
<1>3. /\ ReaderInv(q, o) /\ q.bufferSize = reader.bufferSize /\ Len(q.consumed) >= Len(reader.consumed)
      /\ writer.bufferSize <= q.bufferSize => q.status # "destroyed"
  BY <1>1, <1>2, ReceivedSafely
<1>. HIDE DEF q
<1>4. Windows(writer, q) /\ UpdateLimit(update, q)
  BY <1>3, ReaderGoesOn
<1>. DEFINE cm == connectionMaxAcceptable(reader)
            sm == maxAcceptable(q)
            rq == [request EXCEPT !.handled = TRUE, !.connectionMax = cm, !.streamMax = sm]
<1>5. /\ cm = Len(reader.consumed) + reader.bufferSize /\ sm = Len(q.consumed) + HighWaterMark
      /\ Len(reader.consumed) \in Nat /\ reader.bufferSize \in Nat
      /\ Len(q.consumed) \in Nat /\ HighWaterMark \in Nat
  BY <1>3, DataFacts, ReaderTypes DEF DataInv, ByteInv
<1>. HIDE DEF cm, sm
<1>6. cm \in Nat /\ sm \in Nat
  <2>. DEFINE a == Len(reader.consumed)
              b == Len(q.consumed)
  <2>1. a \in Nat /\ b \in Nat /\ cm = a + reader.bufferSize /\ sm = b + HighWaterMark
    BY <1>5
  <2>. HIDE DEF a, b
  <2>. QED  BY <1>5, <2>1
<1>7. /\ rq.piece = request.piece /\ rq.connectionMax = cm /\ rq.streamMax = sm /\ rq \in Request
  BY <1>2, <1>6 DEF Request
<1>8. request' = rq
  BY <1>1 DEF cm, sm
<1>. HIDE DEF rq
<1>9. RequestInv(request', o)
  BY <1>2, <1>7, <1>8 DEF RequestInv
<1>10. StreamLimit(q, sm) /\ ConnectionLimit(q, cm)
  <2>. DEFINE a == Len(reader.consumed)
              b == Len(q.consumed)
              s == reader.bufferSize
  <2>1. /\ a \in Nat /\ b \in Nat /\ s \in Nat /\ b >= a /\ cm = a + s /\ sm = b + HighWaterMark
        /\ q.bufferSize = s
    BY <1>3, <1>5
  <2>. HIDE DEF a, b, s
  <2>2. sm <= b + HighWaterMark /\ cm <= b + s
    BY <1>5, <2>1
  <2>. QED  BY <2>1, <2>2 DEF StreamLimit, ConnectionLimit, b
<1>11. AnswerLimits(request', writer, q)
  BY <1>7, <1>8, <1>10 DEF AnswerLimits
<1>12. ByteInv'
  BY <1>1, <1>3, <1>9 DEF DataInv, ByteInv
<1>13. WindowInv'
  BY <1>1, <1>4, <1>11 DEF WindowInv
<1>14. NoByteLost
  BY <1>1, <1>3 DEF NoByteLost
<1>. QED  BY <1>12, <1>13, <1>14 DEF DataInv

LEMMA HandleLateStep == DataInv /\ HandleLate => DataInv' /\ NoByteLost
<1>. SUFFICES ASSUME DataInv, HandleLate PROVE DataInv' /\ NoByteLost
  OBVIOUS
<1>1. PICK p \in late : reader' = received(p, FALSE) /\ late' = late \ {p}
  BY DEF HandleLate
<1>. DEFINE q == received(p, FALSE)
            o == writer.outgoingOffset
<1>2. working /\ GoodPiece(p, o) /\ UNCHANGED <<writer, request, update, rejects, written>>
  BY DEF HandleLate, DataInv, ByteInv
<1>3. /\ ReaderInv(q, o) /\ q.bufferSize = reader.bufferSize /\ Len(q.consumed) >= Len(reader.consumed)
      /\ writer.bufferSize <= q.bufferSize => q.status # "destroyed"
  BY <1>2, ReceivedSafely
<1>4. reader' = q
  BY <1>1
<1>. HIDE DEF q
<1>5. Windows(writer, q) /\ AnswerLimits(request, writer, q) /\ UpdateLimit(update, q)
  BY <1>3, ReaderGoesOn
<1>6. ByteInv'
  BY <1>1, <1>2, <1>3, <1>4 DEF DataInv, ByteInv
<1>7. WindowInv'
  BY <1>2, <1>4, <1>5 DEF WindowInv
<1>8. NoByteLost
  BY <1>2, <1>3, <1>4 DEF NoByteLost
<1>. QED  BY <1>6, <1>7, <1>8 DEF DataInv

LEMMA ReadAllStep == DataInv /\ ReadAll => DataInv' /\ NoByteLost
<1>. SUFFICES ASSUME DataInv, ReadAll PROVE DataInv' /\ NoByteLost
  OBVIOUS
<1>. DEFINE o == writer.outgoingOffset
            r == _read(reader, HighWaterMark)
            q == takeBuffered(r)
<1>1. working /\ reader' = q /\ UNCHANGED <<writer, request, late, update, rejects, written, faults>>
  BY DEF ReadAll
<1>2. o \in Nat /\ HighWaterMark \in Int /\ ReaderInv(reader, o) /\ Len(reader.consumed) \in Nat
  BY DataFacts DEF DataInv, ByteInv
<1>3. ReaderInv(r, o) /\ r.consumed = reader.consumed /\ SameStream(r, reader)
  BY <1>2, ReadStep
<1>. HIDE DEF r
<1>4. ReaderInv(q, o) /\ SameStream(q, r) /\ Len(q.consumed) >= Len(r.consumed)
  BY <1>2, <1>3, TakeStep
<1>. HIDE DEF q
<1>5. /\ q.bufferSize = reader.bufferSize /\ Len(q.consumed) >= Len(reader.consumed)
      /\ q.status = reader.status
  BY <1>3, <1>4 DEF SameStream
<1>6. q.status # "destroyed"
  BY <1>1, <1>5 DEF working
<1>7. Windows(writer, q) /\ AnswerLimits(request, writer, q) /\ UpdateLimit(update, q)
  BY <1>4, <1>5, <1>6, ReaderGoesOn
<1>8. ByteInv'
  BY <1>1, <1>4 DEF DataInv, ByteInv
<1>9. WindowInv'
  BY <1>1, <1>7 DEF WindowInv
<1>10. NoByteLost
  BY <1>1, <1>5 DEF NoByteLost
<1>. QED  BY <1>8, <1>9, <1>10 DEF DataInv

LEMMA SendUpdateStep == DataInv /\ SendUpdate => DataInv' /\ NoByteLost
<1>. SUFFICES ASSUME DataInv, SendUpdate PROVE DataInv' /\ NoByteLost
  OBVIOUS
<1>. DEFINE o == writer.outgoingOffset
            q == [reader EXCEPT !.sending = FALSE]
<1>1. /\ working /\ reader' = q
      /\ update' = IF reader.status = "open" THEN [maxOffset |-> maxAcceptable(reader)] ELSE none
      /\ UNCHANGED <<writer, request, late, rejects, written, faults>>
  BY DEF SendUpdate
<1>2. /\ o \in Nat /\ ReaderInv(reader, o) /\ reader \in Reader /\ Len(reader.consumed) \in Nat
      /\ HighWaterMark \in Nat
  BY DataFacts DEF DataInv, ByteInv
<1>3. /\ q \in Reader /\ q.entries = reader.entries /\ q.readOffset = reader.readOffset
      /\ q.maxOffset = reader.maxOffset /\ q.buffered = reader.buffered
      /\ q.consumed = reader.consumed /\ q.bufferSize = reader.bufferSize /\ q.status = reader.status
  BY <1>2 DEF Reader
<1>. HIDE DEF q
<1>4. ReaderInv(q, o)
  BY <1>2, <1>3 DEF ReaderInv
<1>5. Len(q.consumed) >= Len(reader.consumed) /\ q.status # "destroyed"
  BY <1>1, <1>2, <1>3 DEF working
<1>6. Windows(writer, q) /\ AnswerLimits(request, writer, q)
  BY <1>3, <1>4, <1>5, ReaderGoesOn
<1>. DEFINE sm == maxAcceptable(reader)
            c == Len(reader.consumed)
<1>7. sm = c + HighWaterMark
  BY <1>2, ReaderTypes
<1>8. sm \in Nat /\ sm <= c + HighWaterMark
  <2>1. c \in Nat
    BY <1>2
  <2>. HIDE DEF sm, c
  <2>. QED  BY <1>2, <1>7, <2>1
<1>9. update' # none => update' \in [maxOffset : Nat] /\ update'.maxOffset = sm
  <2>. HIDE DEF sm, c
  <2>. QED  BY <1>1, <1>8 DEF sm
<1>10. UpdateLimit(update', q)
  BY <1>3, <1>8, <1>9 DEF UpdateLimit, StreamLimit
<1>11. ByteInv'
  BY <1>1, <1>4, <1>9 DEF DataInv, ByteInv
<1>12. WindowInv'
  BY <1>1, <1>6, <1>10 DEF WindowInv
<1>13. NoByteLost
  BY <1>1, <1>3, <1>5 DEF NoByteLost
<1>. QED  BY <1>11, <1>12, <1>13 DEF DataInv

\* The windows stay respected when the writer takes nothing from its queue and learns
\* limits the reader accepts.
LEMMA WriterGoesOn ==
  ASSUME DataInv, NEW w, w.outgoingOffset = writer.outgoingOffset, w.bufferSize = writer.bufferSize,
         w.remoteMax \in Nat, w.remoteMax >= writer.remoteMax, StreamLimit(reader, w.remoteMax),
         writer.bufferSize <= reader.bufferSize => ConnectionLimit(reader, w.connectionMax)
  PROVE  /\ Windows(w, reader)
         /\ \A q : AnswerLimits(q, writer, reader) => AnswerLimits(q, w, reader)
<1>1. writer.outgoingOffset <= w.remoteMax
  BY DataFacts DEF DataInv, WindowInv, Windows
<1>2. Windows(w, reader)
  BY <1>1 DEF DataInv, WindowInv, Windows
<1>. QED  BY <1>2 DEF AnswerLimits

\* A StreamMaxData frame, and a ConnectionMaxData frame.
LEMMA LearnsStreamMax ==
  ASSUME NEW w \in Writer, NEW n \in Nat
  PROVE  LET q == streamMaxData(w, n)
         IN  /\ q \in Writer /\ q.outgoing = w.outgoing /\ q.outgoingOffset = w.outgoingOffset
             /\ q.retry = w.retry /\ q.bufferSize = w.bufferSize /\ q.connectionMax = w.connectionMax
             /\ q.remoteMax \in {w.remoteMax, n} /\ q.remoteMax >= w.remoteMax /\ q.remoteMax \in Nat
<1>1. w.remoteMax \in Nat
  BY DEF Writer
<1>2. CASE n > w.remoteMax /\ w.status # "removed"
  <2>. DEFINE q == [w EXCEPT !.remoteMax = n, !.sending = TRUE]
  <2>1. streamMaxData(w, n) = q
    BY <1>2 DEF streamMaxData
  <2>2. /\ q \in Writer /\ q.outgoing = w.outgoing /\ q.outgoingOffset = w.outgoingOffset
        /\ q.retry = w.retry /\ q.bufferSize = w.bufferSize /\ q.connectionMax = w.connectionMax
        /\ q.remoteMax = n
    BY DEF Writer
  <2>. HIDE DEF q
  <2>. QED  BY <1>1, <1>2, <2>1, <2>2
<1>3. CASE ~(n > w.remoteMax /\ w.status # "removed")
  <2>1. streamMaxData(w, n) = w
    BY <1>3 DEF streamMaxData
  <2>. QED  BY <1>1, <2>1
<1>. QED  BY <1>2, <1>3

LEMMA LearnsConnectionMax ==
  ASSUME NEW w \in Writer, NEW n \in Nat
  PROVE  LET q == connectionMaxData(w, n)
         IN  /\ q \in Writer /\ q.outgoing = w.outgoing /\ q.outgoingOffset = w.outgoingOffset
             /\ q.retry = w.retry /\ q.bufferSize = w.bufferSize /\ q.remoteMax = w.remoteMax
             /\ q.connectionMax \in {w.connectionMax, n} /\ q.status = w.status
<1>. DEFINE m == IF n # w.bufferSize THEN greater(w.connectionMax, n) ELSE n
            q == [w EXCEPT !.connectionMax = m]
<1>1. connectionMaxData(w, n) = q
  BY DEF connectionMaxData
<1>2. m \in {w.connectionMax, n} /\ m \in Nat
  BY DEF greater, Writer
<1>. HIDE DEF m
<1>3. /\ q \in Writer /\ q.outgoing = w.outgoing /\ q.outgoingOffset = w.outgoingOffset
      /\ q.retry = w.retry /\ q.bufferSize = w.bufferSize /\ q.remoteMax = w.remoteMax
      /\ q.connectionMax = m /\ q.status = w.status
  BY <1>2 DEF Writer
<1>. HIDE DEF q
<1>. QED  BY <1>1, <1>2, <1>3

\* A step of the writing side that takes nothing from the queue.
LEMMA WriterStep ==
  ASSUME DataInv, WriterInv(writer', written), writer'.outgoingOffset = writer.outgoingOffset,
         writer'.bufferSize = writer.bufferSize, writer'.remoteMax >= writer.remoteMax,
         StreamLimit(reader, writer'.remoteMax),
         writer.bufferSize <= reader.bufferSize => ConnectionLimit(reader, writer'.connectionMax),
         request' \in {request, none}, update' \in {update, none},
         \A p \in late' : GoodPiece(p, writer.outgoingOffset),
         reader' = reader, written' = written
  PROVE  DataInv' /\ NoByteLost
<1>. DEFINE w == writer'
<1>1. w.remoteMax \in Nat
  BY WriterTypes
<1>2. Windows(w, reader) /\ \A q : AnswerLimits(q, writer, reader) => AnswerLimits(q, w, reader)
  <2>. HIDE DEF w
  <2>. QED  BY <1>1, WriterGoesOn DEF w
<1>3. RequestInv(request', writer.outgoingOffset) /\ AnswerLimits(request', writer, reader)
  BY DEF DataInv, ByteInv, WindowInv, RequestInv, AnswerLimits
<1>4. UpdateLimit(update', reader) /\ (update' # none => update' \in [maxOffset : Nat])
  BY DEF DataInv, ByteInv, WindowInv, UpdateLimit
<1>5. ByteInv'
  BY <1>3, <1>4 DEF DataInv, ByteInv
<1>6. WindowInv'
  BY <1>2, <1>3, <1>4 DEF WindowInv
<1>7. NoByteLost
  BY DataFacts DEF NoByteLost
<1>. QED  BY <1>5, <1>6, <1>7 DEF DataInv

\* The limits the writer knows already.
LEMMA KnownLimits ==
  ASSUME DataInv
  PROVE  /\ StreamLimit(reader, writer.remoteMax) /\ writer.remoteMax >= writer.remoteMax
         /\ writer.bufferSize <= reader.bufferSize => ConnectionLimit(reader, writer.connectionMax)
         /\ Pieces(writer.retry, writer.outgoingOffset) /\ WriterInv(writer, written)
         /\ \A p \in late : GoodPiece(p, writer.outgoingOffset)
<1>1. writer.remoteMax \in Nat
  BY DataFacts
<1>. QED  BY <1>1 DEF DataInv, ByteInv, WindowInv, Windows, WriterInv

LEMMA ReceiveResponseStep == DataInv /\ ReceiveResponse => DataInv' /\ NoByteLost
<1>. SUFFICES ASSUME DataInv, ReceiveResponse PROVE DataInv' /\ NoByteLost
  OBVIOUS
<1>. DEFINE c == connectionMaxData(writer, request.connectionMax)
            w == streamMaxData(c, request.streamMax)
<1>1. /\ request # none /\ request.handled /\ writer' = w /\ request' = none
      /\ UNCHANGED <<late, reader, update, rejects, written, faults>>
  BY DEF ReceiveResponse
<1>2. request.connectionMax \in Nat /\ request.streamMax \in Nat
  BY <1>1 DEF DataInv, ByteInv, RequestInv, Request
<1>3. /\ StreamLimit(reader, request.streamMax)
      /\ writer.bufferSize <= reader.bufferSize => ConnectionLimit(reader, request.connectionMax)
  BY <1>1 DEF DataInv, WindowInv, AnswerLimits
<1>4. /\ c \in Writer /\ c.outgoing = writer.outgoing /\ c.outgoingOffset = writer.outgoingOffset
      /\ c.retry = writer.retry /\ c.bufferSize = writer.bufferSize /\ c.remoteMax = writer.remoteMax
      /\ c.connectionMax \in {writer.connectionMax, request.connectionMax}
  BY <1>2, DataFacts, LearnsConnectionMax
<1>. HIDE DEF c
<1>5. /\ w \in Writer /\ w.outgoing = c.outgoing /\ w.outgoingOffset = c.outgoingOffset
      /\ w.retry = c.retry /\ w.bufferSize = c.bufferSize /\ w.connectionMax = c.connectionMax
      /\ w.remoteMax \in {c.remoteMax, request.streamMax} /\ w.remoteMax >= c.remoteMax
  BY <1>2, <1>4, LearnsStreamMax
<1>. HIDE DEF w
<1>6. WriterInv(w, written)
  BY <1>4, <1>5, KnownLimits, WriterSame
<1>7. StreamLimit(reader, w.remoteMax) /\ w.remoteMax >= writer.remoteMax
  BY <1>3, <1>4, <1>5, KnownLimits
<1>8. writer.bufferSize <= reader.bufferSize => ConnectionLimit(reader, w.connectionMax)
  BY <1>3, <1>4, <1>5, KnownLimits
<1>. QED  BY <1>1, <1>4, <1>5, <1>6, <1>7, <1>8, KnownLimits, WriterStep

LEMMA ReceiveUpdateStep == DataInv /\ ReceiveUpdate => DataInv' /\ NoByteLost
<1>. SUFFICES ASSUME DataInv, ReceiveUpdate PROVE DataInv' /\ NoByteLost
  OBVIOUS
<1>. DEFINE w == streamMaxData(writer, update.maxOffset)
<1>1. /\ update # none /\ writer' = w /\ update' = none
      /\ UNCHANGED <<request, late, reader, rejects, written, faults>>
  BY DEF ReceiveUpdate
<1>2. update.maxOffset \in Nat /\ StreamLimit(reader, update.maxOffset)
  BY <1>1 DEF DataInv, ByteInv, WindowInv, UpdateLimit
<1>3. /\ w \in Writer /\ w.outgoing = writer.outgoing /\ w.outgoingOffset = writer.outgoingOffset
      /\ w.retry = writer.retry /\ w.bufferSize = writer.bufferSize
      /\ w.connectionMax = writer.connectionMax
      /\ w.remoteMax \in {writer.remoteMax, update.maxOffset} /\ w.remoteMax >= writer.remoteMax
  BY <1>2, DataFacts, LearnsStreamMax
<1>. HIDE DEF w
<1>4. WriterInv(w, written)
  BY <1>3, KnownLimits, WriterSame
<1>5. StreamLimit(reader, w.remoteMax)
  BY <1>2, <1>3, KnownLimits
<1>. QED  BY <1>1, <1>3, <1>4, <1>5, KnownLimits, WriterStep

LEMMA RejectUpdateStep == DataInv /\ RejectUpdate => DataInv' /\ NoByteLost
<1>. SUFFICES ASSUME DataInv, RejectUpdate PROVE DataInv' /\ NoByteLost
  OBVIOUS
<1>1. update' = none /\ UNCHANGED <<writer, request, late, reader, written>>
  BY DEF RejectUpdate
<1>. QED  BY <1>1, KnownLimits, WriterStep

\* undoRejectedPacket queues the piece again, unless the stream's record is gone.
LEMMA UndoneStep ==
  ASSUME DataInv, request # none, NEW w, WriterInv(w, written), w.outgoingOffset = writer.outgoingOffset
  PROVE  LET q == undone(w)
         IN  /\ WriterInv(q, written) /\ q.outgoingOffset = w.outgoingOffset
             /\ q.bufferSize = w.bufferSize /\ q.remoteMax = w.remoteMax
             /\ q.connectionMax = w.connectionMax
<1>. DEFINE o == writer.outgoingOffset
            again == IF request.piece.data # <<>> /\ w.status # "removed"
                     THEN Append(w.retry, request.piece) ELSE w.retry
            queued == w.closeQueued \/ request.close
            q == [w EXCEPT !.retry = again, !.closeQueued = queued]
<1>1. o \in Nat /\ GoodPiece(request.piece, o) /\ request.close \in BOOLEAN
  BY DataFacts DEF DataInv, ByteInv, RequestInv, Request
<1>2. w \in Writer /\ Pieces(w.retry, o)
  BY DEF WriterInv
<1>3. Pieces(again, o)
  BY <1>1, <1>2, PiecesAppend
<1>4. queued \in BOOLEAN
  OBVIOUS
<1>5. undone(w) = q
  BY DEF undone
<1>. HIDE DEF again, queued
<1>6. /\ q \in Writer /\ q.retry = again /\ q.outgoing = w.outgoing /\ q.outgoingOffset = w.outgoingOffset
      /\ q.bufferSize = w.bufferSize /\ q.remoteMax = w.remoteMax /\ q.connectionMax = w.connectionMax
  BY <1>2, <1>3, <1>4 DEF Writer, Pieces
<1>. HIDE DEF q
<1>7. WriterInv(q, written)
  BY <1>3, <1>6, WriterSame
<1>. QED  BY <1>5, <1>6, <1>7

LEMMA RejectRequestStep == DataInv /\ RejectRequest => DataInv' /\ NoByteLost
<1>. SUFFICES ASSUME DataInv, RejectRequest PROVE DataInv' /\ NoByteLost
  OBVIOUS
<1>. DEFINE c == connectionMaxData(writer, request.connectionMax)
<1>1. /\ request # none /\ request' = none /\ UNCHANGED <<reader, update, written>>
      /\ \/ writer' = undone(writer)
         \/ request.handled /\ writer' = undone(c)
      /\ late' \subseteq late \cup {request.piece}
  BY DEF RejectRequest
<1>2. GoodPiece(request.piece, writer.outgoingOffset) /\ request.connectionMax \in Nat
  BY <1>1 DEF DataInv, ByteInv, RequestInv, Request
<1>3. \A p \in late' : GoodPiece(p, writer.outgoingOffset)
  BY <1>1, <1>2, KnownLimits
<1>4. CASE writer' = undone(writer)
  <2>1. /\ WriterInv(writer', written) /\ writer'.outgoingOffset = writer.outgoingOffset
        /\ writer'.bufferSize = writer.bufferSize /\ writer'.remoteMax = writer.remoteMax
        /\ writer'.connectionMax = writer.connectionMax
    BY <1>1, <1>4, KnownLimits, UndoneStep
  <2>. QED  BY <1>1, <1>3, <2>1, KnownLimits, WriterStep
<1>5. CASE request.handled /\ writer' = undone(c)
  <2>1. /\ c \in Writer /\ c.outgoing = writer.outgoing /\ c.outgoingOffset = writer.outgoingOffset
        /\ c.retry = writer.retry /\ c.bufferSize = writer.bufferSize /\ c.remoteMax = writer.remoteMax
        /\ c.connectionMax \in {writer.connectionMax, request.connectionMax}
    BY <1>2, DataFacts, LearnsConnectionMax
  <2>2. writer' = undone(c)
    BY <1>5
  <2>. HIDE DEF c
  <2>3. WriterInv(c, written)
    BY <2>1, KnownLimits, WriterSame
  <2>4. /\ WriterInv(writer', written) /\ writer'.outgoingOffset = c.outgoingOffset
        /\ writer'.bufferSize = c.bufferSize /\ writer'.remoteMax = c.remoteMax
        /\ writer'.connectionMax = c.connectionMax
    BY <1>1, <2>1, <2>2, <2>3, UndoneStep
  <2>5. writer.bufferSize <= reader.bufferSize => ConnectionLimit(reader, request.connectionMax)
    BY <1>1, <1>5 DEF DataInv, WindowInv, AnswerLimits
  <2>6. writer.bufferSize <= reader.bufferSize => ConnectionLimit(reader, writer'.connectionMax)
    BY <2>1, <2>4, <2>5, KnownLimits
  <2>. QED  BY <1>1, <1>3, <2>1, <2>4, <2>6, KnownLimits, WriterStep
<1>. QED  BY <1>1, <1>4, <1>5

LEMMA EndStep == DataInv /\ End => DataInv' /\ NoByteLost
<1>. SUFFICES ASSUME DataInv, End PROVE DataInv' /\ NoByteLost
  OBVIOUS
<1>. DEFINE w == [writer EXCEPT !.status = "ending"]
<1>1. writer' = w /\ UNCHANGED <<request, late, reader, update, rejects, written, faults>>
  BY DEF End
<1>2. /\ w \in Writer /\ w.outgoing = writer.outgoing /\ w.outgoingOffset = writer.outgoingOffset
      /\ w.retry = writer.retry /\ w.bufferSize = writer.bufferSize
      /\ w.connectionMax = writer.connectionMax /\ w.remoteMax = writer.remoteMax
  BY DataFacts DEF Writer
<1>. HIDE DEF w
<1>3. WriterInv(w, written)
  BY <1>2, KnownLimits, WriterSame
<1>. QED  BY <1>1, <1>2, <1>3, KnownLimits, WriterStep

LEMMA RemoveStep == DataInv /\ removeStreamRecord => DataInv' /\ NoByteLost
<1>. SUFFICES ASSUME DataInv, removeStreamRecord PROVE DataInv' /\ NoByteLost
  OBVIOUS
<1>. DEFINE nothing == <<>>
            w == [writer EXCEPT !.status = "removed", !.closeQueued = TRUE, !.sending = TRUE,
                                !.retry = nothing]
<1>1. writer' = w /\ UNCHANGED <<request, late, reader, update, rejects, written>>
  BY DEF removeStreamRecord
<1>2. nothing \in Seq(Piece) /\ Pieces(nothing, writer.outgoingOffset)
  BY DEF Pieces
<1>. HIDE DEF nothing
<1>3. /\ w \in Writer /\ w.outgoing = writer.outgoing /\ w.outgoingOffset = writer.outgoingOffset
      /\ w.retry = nothing /\ w.bufferSize = writer.bufferSize
      /\ w.connectionMax = writer.connectionMax /\ w.remoteMax = writer.remoteMax
  BY <1>2, DataFacts DEF Writer
<1>. HIDE DEF w
<1>4. WriterInv(w, written)
  BY <1>2, <1>3, KnownLimits, WriterSame
<1>. QED  BY <1>1, <1>3, <1>4, KnownLimits, WriterStep

\* A packet is sent: what is taken from the queue is within the windows the writer knows.
LEMMA SendRequestStep == DataInv /\ SendRequest => DataInv' /\ NoByteLost
<1>. SUFFICES ASSUME DataInv, SendRequest PROVE DataInv' /\ NoByteLost
  OBVIOUS
<1>. DEFINE t == IF nextPiece.data = <<>> THEN writer ELSE takenFrom(writer, nextPiece)
            keeps == keepsSending(nextPiece)
            w == [t EXCEPT !.sending = keeps, !.closeQueued = FALSE]
            q == [piece |-> nextPiece, close |-> writer.closeQueued, handled |-> FALSE,
                  connectionMax |-> 0, streamMax |-> 0]
            o == writer.outgoingOffset
<1>1. /\ writer' = w /\ request' \in {none, q} /\ UNCHANGED <<late, reader, update, rejects, written>>
  BY DEF SendRequest
<1>2. WriterInv(writer, written) /\ o <= writer.remoteMax
  BY DEF DataInv, ByteInv, WindowInv, Windows
<1>3. /\ GoodPiece(nextPiece, t.outgoingOffset) /\ WriterInv(t, written)
      /\ o <= t.outgoingOffset /\ t.outgoingOffset <= writer.remoteMax
      /\ t.outgoingOffset = o \/ t.outgoingOffset <= writer.connectionMax
      /\ t.remoteMax = writer.remoteMax /\ t.connectionMax = writer.connectionMax
      /\ t.bufferSize = writer.bufferSize
  BY <1>2, NextPieceStep
<1>4. keeps \in BOOLEAN /\ writer.closeQueued \in BOOLEAN
  BY DataFacts DEF keepsSending, Writer
<1>. HIDE DEF t, keeps
<1>5. t \in Writer
  BY <1>3 DEF WriterInv
<1>6. /\ w \in Writer /\ w.outgoing = t.outgoing /\ w.outgoingOffset = t.outgoingOffset
      /\ w.retry = t.retry /\ w.bufferSize = t.bufferSize
      /\ w.connectionMax = t.connectionMax /\ w.remoteMax = t.remoteMax
  BY <1>4, <1>5 DEF Writer
<1>7. q \in Request /\ q.piece = nextPiece /\ q.handled = FALSE
  BY <1>3, <1>4 DEF Request, GoodPiece
<1>. HIDE DEF w, q
<1>. DEFINE e == w.outgoingOffset
<1>8. WriterInv(w, written) /\ o \in Nat /\ e \in Nat /\ o <= e
  <2>1. WriterInv(w, written)
    BY <1>3, <1>6, WriterSame DEF WriterInv
  <2>. QED  BY <1>3, <1>6, <2>1, WriterTypes, DataFacts
<1>9. RequestInv(request', e)
  BY <1>1, <1>3, <1>6, <1>7 DEF RequestInv
<1>10. ByteInv'
  <2>1. ReaderInv(reader, e)
    <3>. HIDE DEF e, o
    <3>1. ReaderInv(reader, o)
      BY DEF DataInv, ByteInv, o
    <3>. QED  BY <1>8, <3>1, ReaderMore
  <2>2. \A p \in late : GoodPiece(p, e)
    <3>. HIDE DEF e, o
    <3>1. \A p \in late : GoodPiece(p, o)
      BY DEF DataInv, ByteInv, o
    <3>. QED  BY <1>8, <3>1, PieceMore
  <2>3. update # none => update \in [maxOffset : Nat]
    BY DEF DataInv, ByteInv
  <2>. QED  BY <1>1, <1>8, <1>9, <2>1, <2>2, <2>3 DEF ByteInv
<1>11. Windows(w, reader)
  <2>1. /\ StreamLimit(reader, writer.remoteMax)
        /\ writer.bufferSize <= reader.bufferSize =>
              /\ ConnectionLimit(reader, writer.connectionMax) /\ ConnectionLimit(reader, o)
              /\ reader.status # "destroyed"
    BY DEF DataInv, WindowInv, Windows
  <2>2. writer.bufferSize <= reader.bufferSize => ConnectionLimit(reader, e)
    <3>. DEFINE c == Len(reader.consumed)
                b == reader.bufferSize
                m == writer.connectionMax
    <3>1. c \in Nat /\ b \in Nat /\ m \in Nat /\ (e = o \/ e <= m)
      BY <1>3, <1>6, DataFacts
    <3>2. writer.bufferSize <= b => m <= c + b /\ o <= c + b
      BY <2>1 DEF ConnectionLimit
    <3>. HIDE DEF c, b, m, e, o
    <3>3. writer.bufferSize <= b => e <= c + b
      BY <1>8, <3>1, <3>2
    <3>. QED  BY <3>3 DEF ConnectionLimit, c, b
  <2>. QED  BY <1>3, <1>6, <2>1, <2>2 DEF Windows
<1>12. AnswerLimits(request', w, reader) /\ UpdateLimit(update, reader)
  BY <1>1, <1>7 DEF AnswerLimits, DataInv, WindowInv
<1>13. WindowInv'
  BY <1>1, <1>11, <1>12 DEF WindowInv
<1>14. NoByteLost
  BY <1>1, DataFacts DEF NoByteLost
<1>. QED  BY <1>10, <1>13, <1>14 DEF DataInv

\* The application writes: its bytes continue the ones that are queued, and the queue
\* of ByteFifo.
LEMMA WriteStep == DataInv /\ Write => DataInv' /\ Fifo!Write
<1>. SUFFICES ASSUME DataInv, Write PROVE DataInv' /\ Fifo!Write
  OBVIOUS
<1>. DEFINE l == Len(written)
            o == writer.outgoingOffset
<1>1. l \in Nat /\ o \in Nat /\ writer \in Writer /\ WriterInv(writer, written) /\ MaxBytes \in Nat
  BY DataFacts, DataAssumption DEF DataInv, ByteInv
<1>2. PICK n \in 1 .. (MaxBytes - l) :
          LET bytes == [i \in 1 .. n |-> l + i]
          IN  /\ written' = written \o bytes
              /\ writer' = [writer EXCEPT !.outgoing = writer.outgoing \o bytes, !.sending = TRUE]
  BY DEF Write
<1>. DEFINE bytes == [i \in 1 .. n |-> l + i]
            all == written \o bytes
            out == writer.outgoing \o bytes
            w == [writer EXCEPT !.outgoing = out, !.sending = TRUE]
<1>3. n \in Nat /\ n > 0
  BY <1>1
<1>4. Run(bytes, l) /\ Len(bytes) = n
  <2>. HIDE DEF l
  <2>. QED  BY <1>1, <1>3, RunExists
<1>5. written' = all /\ writer' = w /\ UNCHANGED <<request, late, reader, update, rejects, faults>>
  BY <1>2 DEF Write
<1>. HIDE DEF bytes
<1>6. /\ Run(written, 0) /\ Run(writer.outgoing, o) /\ o + Len(writer.outgoing) = l
      /\ Len(writer.outgoing) \in Nat /\ Pieces(writer.retry, o)
  BY <1>1, WriterTypes DEF WriterInv
<1>7. Run(all, 0) /\ Len(all) = l + n
  <2>1. 0 + Len(written) = l
    BY <1>1
  <2>2. Run(bytes, 0 + Len(written))
    BY <1>4, <2>1
  <2>. QED  BY <1>4, <1>6, <2>2, RunConcat
<1>8. Run(out, o) /\ Len(out) = Len(writer.outgoing) + n
  <2>. HIDE DEF o
  <2>1. Run(writer.outgoing, o) /\ Run(bytes, o + Len(writer.outgoing))
    BY <1>4, <1>6
  <2>2. Run(out, o) /\ Len(out) = Len(writer.outgoing) + Len(bytes)
    BY <1>1, <2>1, RunConcat, SMTT(40)
  <2>. QED  BY <1>4, <2>2
<1>. HIDE DEF out
<1>9. /\ w \in Writer /\ w.outgoing = out /\ w.outgoingOffset = o
      /\ w.retry = writer.retry /\ w.bufferSize = writer.bufferSize
      /\ w.connectionMax = writer.connectionMax /\ w.remoteMax = writer.remoteMax
  <2>1. out \in Seq(Nat)
    BY <1>8 DEF Run
  <2>. QED  BY <1>1, <2>1 DEF Writer
<1>. HIDE DEF w, all
<1>10. WriterInv(w, all)
  <2>1. o + Len(out) = Len(all)
    <3>. DEFINE k == Len(writer.outgoing)
    <3>1. k \in Nat /\ o + k = l /\ Len(out) = k + n /\ Len(all) = l + n
      BY <1>6, <1>7, <1>8
    <3>. HIDE DEF k, l, o
    <3>. QED  BY <1>1, <1>3, <3>1
  <2>. QED  BY <1>6, <1>7, <1>8, <1>9, <2>1 DEF WriterInv
<1>11. Windows(w, reader) /\ \A q : AnswerLimits(q, writer, reader) => AnswerLimits(q, w, reader)
  BY <1>1, <1>9, DataFacts, KnownLimits, WriterGoesOn
<1>12. DataInv'
  <2>1. ByteInv'
    BY <1>5, <1>9, <1>10 DEF DataInv, ByteInv
  <2>2. WindowInv'
    BY <1>5, <1>11 DEF DataInv, WindowInv
  <2>. QED  BY <2>1, <2>2 DEF DataInv
<1>13. SubSeq(all, 1, l) = written
  <2>1. l \in 0 .. Len(all)
    <3>. HIDE DEF l
    <3>. QED  BY <1>1, <1>3, <1>7
  <2>2. Run(SubSeq(all, 1, l), 0) /\ Len(SubSeq(all, 1, l)) = l
    BY <1>7, <2>1, RunPrefix
  <2>. QED  BY <1>6, <2>2, RunUnique
<1>14. Len(all) > l
  <2>. HIDE DEF l
  <2>. QED  BY <1>1, <1>3, <1>7
<1>. QED  BY <1>5, <1>12, <1>13, <1>14 DEF Fifo!Write

-----------------------------------------------------------------------------
(* The theorems *)

\* Every step but Write leaves what was written alone and takes nothing back.
LEMMA NextDataInv ==
  DataInv /\ [DataNext]_dataVars => DataInv' /\ (Fifo!Write \/ NoByteLost)
<1>. SUFFICES ASSUME DataInv, [DataNext]_dataVars
              PROVE  DataInv' /\ (Fifo!Write \/ NoByteLost)
  OBVIOUS
<1>1. CASE UNCHANGED dataVars
  <2>1. UNCHANGED <<writer, request, late, reader, update, rejects, written, faults>>
    BY <1>1 DEF dataVars
  <2>. QED  BY <2>1, KnownLimits, WriterStep
<1>2. CASE Write
  BY <1>2, WriteStep
<1>3. CASE SendRequest
  BY <1>3, SendRequestStep
<1>4. CASE HandleRequest
  BY <1>4, HandleRequestStep
<1>5. CASE HandleLate
  BY <1>5, HandleLateStep
<1>6. CASE ReadAll
  BY <1>6, ReadAllStep
<1>7. CASE SendUpdate
  BY <1>7, SendUpdateStep
<1>8. CASE ReceiveResponse
  BY <1>8, ReceiveResponseStep
<1>9. CASE RejectRequest
  BY <1>9, RejectRequestStep
<1>10. CASE ReceiveUpdate
  BY <1>10, ReceiveUpdateStep
<1>11. CASE RejectUpdate
  BY <1>11, RejectUpdateStep
<1>12. CASE End
  BY <1>12, EndStep
<1>13. CASE removeStreamRecord
  BY <1>13, RemoveStep
<1>. QED  BY <1>1, <1>2, <1>3, <1>4, <1>5, <1>6, <1>7, <1>8, <1>9, <1>10, <1>11, <1>12, <1>13 DEF DataNext

\* The bytes the application was handed are the first ones that were written.
FirstBytes ==
    /\ Run(reader.consumed, 0) /\ Len(reader.consumed) \in 0 .. Len(written)
    /\ reader.consumed = SubSeq(written, 1, Len(reader.consumed))

LEMMA ConsumedIsPrefix == DataInv => FirstBytes
<1>. SUFFICES ASSUME DataInv PROVE FirstBytes
  OBVIOUS
<1>. DEFINE c == Len(reader.consumed)
            b == Len(reader.buffered)
            l == Len(written)
            o == writer.outgoingOffset
            k == Len(writer.outgoing)
<1>1. /\ Run(reader.consumed, 0) /\ Run(written, 0) /\ c + b = reader.readOffset
      /\ reader.readOffset <= o /\ o + k = l
  BY DEF DataInv, ByteInv, ReaderInv, WriterInv
<1>2. c \in Nat /\ b \in Nat /\ l \in Nat /\ o \in Nat /\ k \in Nat /\ reader.readOffset \in Nat
  BY DataFacts, WriterTypes, ReaderTypes DEF DataInv, ByteInv
<1>3. c \in 0 .. l
  <2>. HIDE DEF c, b, l, o, k
  <2>. QED  BY <1>1, <1>2
<1>4. Run(SubSeq(written, 1, c), 0) /\ Len(SubSeq(written, 1, c)) = c
  BY <1>1, <1>3, RunPrefix
<1>5. reader.consumed = SubSeq(written, 1, c)
  BY <1>1, <1>4, RunUnique
<1>. QED  BY <1>1, <1>3, <1>5 DEF FirstBytes

\* A step that loses no byte hands out the next ones of the queue, or none.
LEMMA NoByteLostStep ==
  ASSUME DataInv, DataInv', NoByteLost
  PROVE  Fifo!Read \/ UNCHANGED <<written, reader.consumed>>
<1>. DEFINE c == Len(reader.consumed)
            d == Len(reader'.consumed)
            l == Len(written)
<1>1. Run(reader.consumed, 0) /\ c \in 0 .. l /\ l \in Nat
  BY ConsumedIsPrefix, DataFacts DEF FirstBytes
<1>2. /\ Run(reader'.consumed, 0) /\ d \in 0 .. Len(written')
      /\ reader'.consumed = SubSeq(written', 1, d)
  <2>1. FirstBytes'
    BY ConsumedIsPrefix, PTL
  <2>. QED  BY <2>1 DEF FirstBytes
<1>3. written' = written /\ d >= c
  BY DEF NoByteLost
<1>4. CASE d = c
  <2>1. reader'.consumed = reader.consumed
    BY <1>1, <1>2, <1>4, RunUnique
  <2>. QED  BY <1>3, <2>1
<1>5. CASE d # c
  <2>1. d \in c + 1 .. l
    <3>1. d \in 0 .. l
      BY <1>2, <1>3
    <3>. HIDE DEF c, d, l
    <3>. QED  BY <1>1, <1>3, <1>5, <3>1
  <2>. QED  BY <1>2, <1>3, <2>1 DEF Fifo!Read
<1>. QED  BY <1>4, <1>5

LEMMA DataSafe == DataSpec => []DataInv
<1>1. DataInit => DataInv
  BY DataInit_Inv
<1>2. DataInv /\ [DataNext]_dataVars => DataInv'
  BY NextDataInv
<1>. QED  BY <1>1, <1>2, PTL DEF DataSpec

(* The windows of _getAvailableDataToSend and loadAndSendPacket never let a writer     *)
(* whose own buffer is not the larger one send what handleStreamData takes to exceed   *)
(* the reader's limits, whatever is rejected, late or sent again, with any sizes.      *)
THEOREM DataKeepsWindows == DataSpec => []WindowRespected
<1>1. DataInv => WindowRespected
  BY DEF DataInv, WindowInv, Windows, WindowRespected
<1>. QED  BY <1>1, DataSafe, PTL

(* The stream implements ByteFifo: the queues of stream.ts and data-queue.ts and the   *)
(* OffsetSorter hand the reader the bytes that were written, once and in order, for    *)
(* any number of rejects and late or repeated packets.                                 *)
THEOREM DataRefinesFifo == DataSpec => DataIsFifo
<1>1. DataInit => Fifo!Init
  BY DEF DataInit, Fifo!Init
<1>2. DataInv /\ [DataNext]_dataVars => DataInv' /\ (Fifo!Write \/ NoByteLost)
  BY NextDataInv
<1>3. DataInv /\ DataInv' /\ (Fifo!Write \/ NoByteLost)
         => [Fifo!Next]_<<written, reader.consumed>>
  BY NoByteLostStep DEF Fifo!Next
<1>. QED  BY <1>1, <1>2, <1>3, DataSafe, PTL DEF DataSpec, DataIsFifo, Fifo!Spec

=============================================================================
