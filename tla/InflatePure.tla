---------------------------- MODULE InflatePure -----------------------------
(***************************************************************************)
(* The one-shot decoder (codecs/inflate-pure.ts).  It reads a whole buffer *)
(* and is a record of how far it has come: the bit it is at, the value it  *)
(* has read last, its output, and "OK" or the code it failed with.         *)
(***************************************************************************)
EXTENDS DeflateEncoder

Truncated == "ZIP_DEFLATE_TRUNCATED"
Corrupt == "ZIP_DEFLATE_CORRUPT"
Overflow == "ZIP_INFLATE_OUTPUT_OVERFLOW"

Fresh(bits, maxOutput) ==
  [code |-> "OK", bits |-> bits, at |-> 0, value |-> 0, final |-> 0, out |-> <<>>,
   maxOutput |-> maxOutput]
Works(d) == d.code = "OK"
Fails(d, code) == [d EXCEPT !.code = code]

readBits(d, n) ==
  IF d.at + n > Len(d.bits) THEN Fails(d, Truncated)
  ELSE [d EXCEPT !.at = @ + n, !.value = ValueOf(SubSeq(d.bits, d.at + 1, d.at + n))]

RECURSIVE SymbolFrom(_, _, _)
SymbolFrom(d, table, walk) ==
  CASE IsFound(walk) -> [d EXCEPT !.value = walk.symbol]
    [] IsLost(walk) -> Fails(d, Corrupt)
    [] d.at = Len(d.bits) /\ ~IsFound(walk) /\ ~IsLost(walk) -> Fails(d, Truncated)
    [] OTHER -> SymbolFrom([d EXCEPT !.at = @ + 1], table, Walked(walk, table, d.bits[d.at + 1]))
decodeSymbol(d, table) == SymbolFrom(d, table, NoWalk)

(* Output is bounded before it is made. *)
Produces(d, bytes) ==
  IF Len(d.out) + Len(bytes) > d.maxOutput THEN Fails(d, Overflow)
  ELSE [d EXCEPT !.out = @ \o bytes]

-----------------------------------------------------------------------------
(* Stored blocks start and end on a byte. *)
StoredData(d, len) ==
  LET end == d.at + len * ByteBits
      piece == [i \in 1 .. len |-> ValueOf(SubSeq(d.bits, d.at + (i - 1) * ByteBits + 1,
                                                  d.at + i * ByteBits))]
  IN  IF end > Len(d.bits) THEN Fails(d, Truncated) ELSE Produces([d EXCEPT !.at = end], piece)
StoredLength(d, len, nlen) ==
  CASE ~Works(nlen) -> Fails(d, Truncated)
    [] Works(nlen) /\ nlen.value # STORED_MAX - len -> Fails(d, Corrupt)
    [] OTHER -> StoredData(nlen, len)
ByteAligned(d) ==
  [d EXCEPT !.at = ((@ + ByteBits - 1) \div ByteBits) * ByteBits]
Stored(d, len) == StoredLength(d, len.value, IF Works(len) THEN readBits(len, 2 * ByteBits) ELSE len)
StoredBlock(d) == Stored(d, readBits(ByteAligned(d), 2 * ByteBits))

(* A repetition of a code length: which, how often at least, and the width *)
(* of what comes on top; it stops at the end of the sequence. *)
Repetition(sym) ==
  CASE sym = Repeat -> [least |-> 3, width |-> RepeatBits.last]
    [] sym = Zeros -> [least |-> 3, width |-> RepeatBits.zeros]
    [] sym = ManyZeros -> [least |-> LeastMany, width |-> RepeatBits.many]
Repeated(lengths, sym, n, total) ==
  LET room == total - Len(lengths)
      value == IF sym = Repeat THEN Last(lengths) ELSE 0
  IN  lengths \o Copies(IF n < room THEN n ELSE room, value)

(* A sequence of lengths as a function of symbols. *)
Lengths(seq) == [s \in 0 .. Len(seq) - 1 |-> seq[s + 1]]

RECURSIVE CodeLengths(_, _, _, _)
RepeatFrom(d, read, lengths, sym, table, total) ==
  IF Works(read)
  THEN CodeLengths(read, Repeated(lengths, sym, Repetition(sym).least + read.value, total),
                   table, total)
  ELSE [d |-> read, lengths |-> lengths]
LengthFrom(d, lengths, table, total) ==
  CASE ~Works(d) -> [d |-> d, lengths |-> lengths]
    [] Works(d) /\ d.value <= MaxBits -> CodeLengths(d, Append(lengths, d.value), table, total)
    [] Works(d) /\ d.value = Repeat /\ lengths = <<>> ->
         [d |-> Fails(d, Corrupt), lengths |-> lengths]
    [] OTHER -> RepeatFrom(d, readBits(d, Repetition(d.value).width), lengths, d.value, table, total)
CodeLengths(d, lengths, table, total) ==
  IF Len(lengths) = total THEN [d |-> d, lengths |-> lengths]
  ELSE LengthFrom(decodeSymbol(d, table), lengths, table, total)

(* What the code-length lengths say, by symbol. *)
Unordered(read) ==
  [s \in 0 .. ManyZeros |->
     IF \E k \in DOMAIN read : CL_ORDER[k] = s
     THEN read[CHOOSE k \in DOMAIN read : CL_ORDER[k] = s] ELSE 0]

-----------------------------------------------------------------------------
(* A match repeats what is already there, its own beginning included. *)
CopyOf(out, dist, len) ==
  LET copy[n \in 0 .. len] ==
        IF n = 0 THEN out
        ELSE LET before == copy[n - 1] IN Append(before, before[Len(before) - dist + 1])
  IN  SubSeq(copy[len], Len(out) + 1, Len(out) + len)

RECURSIVE SymbolsFrom(_, _, _)
Copied(d, len, dist, lits, dists) ==
  CASE ~Works(d) -> d
    [] Works(d) /\ dist > Len(d.out) -> Fails(d, Corrupt)
    [] OTHER -> SymbolsFrom(IF Len(d.out) + len > d.maxOutput THEN Fails(d, Overflow)
                            ELSE Produces(d, CopyOf(d.out, dist, len)), lits, dists)
DistanceFrom(d, len, lits, dists) ==
  CASE ~Works(d) -> d
    [] Works(d) /\ d.value >= Len(DIST_BASE) -> Fails(d, Corrupt)
    [] OTHER -> LET extra == readBits(d, DIST_EXTRA[d.value + 1])
                IN  Copied(extra, len, DIST_BASE[d.value + 1] + extra.value, lits, dists)
MatchFrom(d, base, lits, dists) ==
  IF Works(d) THEN DistanceFrom(decodeSymbol(d, dists), base + d.value, lits, dists) ELSE d
Interpreted(d, lits, dists) ==
  CASE ~Works(d) \/ d.value = EOB -> d
    [] Works(d) /\ d.value < EOB -> SymbolsFrom(Produces(d, <<d.value>>), lits, dists)
    [] Works(d) /\ d.value - EOB > Len(LEN_BASE) -> Fails(d, Corrupt)
    [] OTHER -> MatchFrom(readBits(d, LEN_EXTRA[d.value - EOB]), LEN_BASE[d.value - EOB], lits, dists)
SymbolsFrom(d, lits, dists) == IF Works(d) THEN Interpreted(decodeSymbol(d, lits), lits, dists) ELSE d

(* A block under two codes, if they are codes. *)
Coded(d, litTable, distTable) ==
  IF Decodable(litTable.counts, FALSE) /\ Decodable(distTable.counts, FALSE)
  THEN SymbolsFrom(d, litTable, distTable) ELSE Fails(d, Corrupt)
CodedAs(read, hlit) ==
  IF ~Works(read.d) THEN read.d
  ELSE Coded(read.d, buildHuffmanTable(Lengths(SubSeq(read.lengths, 1, hlit))),
             buildHuffmanTable(Lengths(SubSeq(read.lengths, hlit + 1, Len(read.lengths)))))
UnderTable(d, table, hlit, hdist) ==
  IF Decodable(table.counts, TRUE) THEN CodedAs(CodeLengths(d, <<>>, table, hlit + hdist), hlit)
                                   ELSE Fails(d, Corrupt)
RECURSIVE LengthsOfLengths(_, _, _, _, _)
LengthsOfLengths(d, read, hclen, hlit, hdist) ==
  IF ~Works(d) THEN d
  ELSE IF Len(read) = hclen THEN UnderTable(d, buildHuffmanTable(Unordered(read)), hlit, hdist)
  ELSE LET next == readBits(d, ClBits)
       IN  LengthsOfLengths(next, Append(read, next.value), hclen, hlit, hdist)
DynamicBlock(d) ==
  LET hlit == readBits(d, HlitBits)
      hdist == readBits(hlit, HdistBits)
      hclen == readBits(hdist, HclenBits)
  IN  IF Works(hlit) /\ Works(hdist) /\ Works(hclen)
      THEN LengthsOfLengths(hclen, <<>>, hclen.value + LeastHclen, hlit.value + EOB + 1, hdist.value + 1)
      ELSE Fails(d, Truncated)
FixedBlock(d) == Coded(d, buildHuffmanTable(FixedLitLens), buildHuffmanTable(FixedDistLens))

Block(d) ==
  CASE ~Works(d) -> d
    [] Works(d) /\ d.value = 0 -> StoredBlock(d)
    [] Works(d) /\ d.value = 1 -> FixedBlock(d)
    [] Works(d) /\ d.value = 2 -> DynamicBlock(d)
    [] OTHER -> Fails(d, Corrupt)
RECURSIVE BlocksFrom(_)
NextBlock(d) == IF Works(d) THEN Block(readBits([d EXCEPT !.final = d.value], 2)) ELSE d
BlocksFrom(d) ==
  IF Works(d) /\ d.final = 0 THEN BlocksFrom(NextBlock(readBits(d, 1))) ELSE d

(* The output, or why there is none; and the bytes that were read. *)
Result(d) ==
  [code |-> d.code, out |-> IF Works(d) THEN d.out ELSE <<>>,
   consumed |-> (d.at + ByteBits - 1) \div ByteBits]
inflateRawJS(bits, maxOutput) == Result(BlocksFrom(Fresh(bits, maxOutput)))
=============================================================================
