------------------------------ MODULE ChunkCursor ------------------------------
(***************************************************************************)
(* The buffer between a byte stream and the forward reader                 *)
(* (parser/zip-chunk-cursor.ts).  The stream delivers a file in pieces of  *)
(* any size; the cursor holds the pieces not yet consumed, each a range of *)
(* the file, and knows whether the stream has ended.  Bytes that were      *)
(* consumed together are the ranges they came from, joined.                *)
(***************************************************************************)
EXTENDS ZipReader

Piece(from, to) == [from |-> from, to |-> to]
PieceLength(piece) == piece.to - piece.from
NoPieces == <<>>

Buffered(c) == SumOf(PieceLength, c.pending)
NewCursor == [pending |-> <<>>, done |-> FALSE, bytesRead |-> 0]

(* fill(): a piece of length zero is not kept. *)
Pushed(c, piece) ==
  IF PieceLength(piece) = 0 THEN c ELSE [c EXCEPT !.pending = Append(@, piece)]

(* The first n bytes, in the pieces they lie in, and what stays. *)
FirstBytes(pending, n) ==
  LET before(i) == SumOf(PieceLength, SubSeq(pending, 1, i - 1))
      cut(i) == IF before(i) + PieceLength(pending[i]) <= n THEN pending[i]
                ELSE [pending[i] EXCEPT !.to = pending[i].from + (n - before(i))]
  IN  [i \in {j \in DOMAIN pending : before(j) < n} |-> cut(i)]
Behind(pending, n) ==
  LET before(i) == SumOf(PieceLength, SubSeq(pending, 1, i - 1))
      after(i) == IF before(i) >= n THEN <<pending[i]>>
                  ELSE IF before(i) + PieceLength(pending[i]) <= n THEN <<>>
                  ELSE <<[pending[i] EXCEPT !.from = pending[i].from + (n - before(i))]>>
  IN  Joined(after, [i \in DOMAIN pending |-> i])
Consumed(c, n) == [c EXCEPT !.pending = Behind(@, n), !.bytesRead = @ + n]

(* consume(n): never past the head piece. *)
HeadLength(c, n) ==
  IF PieceLength(Head(c.pending)) < n THEN PieceLength(Head(c.pending)) ELSE n

(* nextChunk(): the head piece, whole.                                     *)
nextChunk(c) == [c |-> Consumed(c, PieceLength(Head(c.pending))), piece |-> Head(c.pending)]

(* Mutant: what is put back stays counted as read. *)
unread_Counted(c, piece) ==
  IF PieceLength(piece) = 0 THEN c ELSE [c EXCEPT !.pending = <<piece>> \o @]

unread(c, piece) ==
  IF PieceLength(piece) = 0 THEN c
  ELSE [c EXCEPT !.pending = <<piece>> \o @, !.bytesRead = @ - PieceLength(piece)]

(* Pieces that follow one another are one range; others are none. *)
OneRange(pieces) ==
  IF pieces = <<>> THEN Piece(0, 0)
  ELSE IF \A i \in 1 .. Len(pieces) - 1 : pieces[i].to = pieces[i + 1].from
  THEN Piece(pieces[1].from, Last(pieces).to)
  ELSE Piece(-1, -1)
=============================================================================
