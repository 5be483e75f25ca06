---------------------------- MODULE InflateStream ---------------------------
(***************************************************************************)
(* The resumable decoder (codecs/inflate-stream.ts, createInflator()).     *)
(* The source is a generator that is suspended wherever it runs out of     *)
(* input: between two bits of a code, in the middle of a header, inside a  *)
(* stored block.  Here it is a record, and each step is what the generator *)
(* does between two points where it could be suspended.                    *)
(***************************************************************************)
EXTENDS InflatePure

CONSTANT KEEP   \* 32768: the history a slide preserves

WIN_SIZE == 2 * KEEP

VARIABLES
  inflator,   \* the decoder's state and its generator's locals
  wire,       \* the bytes of the stream the caller has not pushed yet, as bits
  received,   \* the output push() has returned
  pushed      \* how many bytes have been pushed

inflatorVars == <<inflator, wire, received, pushed>>

(* A decoder before its first push(). *)
createInflator(maxOutput) ==
  [phase |-> "need", at |-> "final", code |-> "OK", maxOutput |-> maxOutput,
   buf |-> <<>>, pos |-> 0, bitBuf |-> <<>>, win |-> <<>>, emitStart |-> 0, totalOut |-> 0,
   out |-> <<>>, final |-> 0, len |-> 0, hlit |-> 0, hdist |-> 0, hclen |-> 0, read |-> <<>>,
   sym |-> 0, walk |-> NoWalk, table |-> <<>>, lits |-> <<>>, dists |-> <<>>,
   consumedBase |-> 0, finished |-> FALSE, leftover |-> <<>>]
NoInflator == [createInflator(0) EXCEPT !.phase = "none"]

BufferedBytes(s) == Len(s.buf) \div ByteBits
bytesConsumed(s) == s.consumedBase + s.pos

-----------------------------------------------------------------------------
(* Input.  How many bits the next operation reads at once. *)
Wanted(s) ==
  CASE s.at \in {"final", "code", "sym", "dist"} -> 1
    [] s.at = "type" -> 2
    [] s.at \in {"storedLen", "storedNlen"} -> 2 * ByteBits
    [] s.at = "stored" -> ByteBits
    [] s.at = "hlit" -> HlitBits
    [] s.at = "hdist" -> HdistBits
    [] s.at = "hclen" -> HclenBits
    [] s.at = "clLength" -> ClBits
    [] s.at = "repeat" -> Repetition(s.sym).width
    [] s.at = "lenExtra" -> LEN_EXTRA[s.sym - EOB]
    [] s.at = "distExtra" -> DIST_EXTRA[s.sym + 1]
Available(s) == Len(s.bitBuf) + Len(s.buf) - ByteBits * s.pos

(* Bytes are fetched one at a time, and no sooner than they are needed. *)
Missing(s, n) ==
  IF n <= Len(s.bitBuf) THEN 0 ELSE (n - Len(s.bitBuf) + ByteBits - 1) \div ByteBits
Fetched(s, bytes) ==
  [s EXCEPT !.bitBuf = @ \o SubSeq(s.buf, ByteBits * s.pos + 1, ByteBits * (s.pos + bytes)),
            !.pos = @ + bytes]

(* What a step works on: the state without the n bits it read. *)
Without(s, n) == [s EXCEPT !.bitBuf = SubSeq(@, n + 1, Len(@))]
Shifted(s, n) == Without(Fetched(s, Missing(s, n)), n)
FirstBits(s, n) == ValueOf(SubSeq(Fetched(s, Missing(s, n)).bitBuf, 1, n))

-----------------------------------------------------------------------------
(* Output goes to the window, and from there to the pieces the running     *)
(* push() will return. *)
Flushed(s) ==
  [s EXCEPT !.out = @ \o SubSeq(s.win, s.emitStart + 1, Len(s.win)), !.emitStart = Len(s.win)]

(* A full window keeps its newest half. *)
Slid(s) ==
  [Flushed(s) EXCEPT !.win = SubSeq(@, Len(@) - KEEP + 1, Len(@)), !.emitStart = KEEP]
Roomy(s) == IF Len(s.win) = WIN_SIZE THEN Slid(s) ELSE s
Put(s, byte) == [s EXCEPT !.win = Append(@, byte), !.totalOut = @ + 1]

Failed(s, code) == [s EXCEPT !.phase = "failed", !.code = code, !.out = <<>>]
Bounded(s, needed, then) == IF s.totalOut + needed > s.maxOutput THEN Failed(s, Overflow) ELSE then

RECURSIVE CopiedFrom(_, _, _)
CopiedFrom(s, distance, length) ==
  IF length = 0 THEN s
  ELSE LET t == Roomy(s)
       IN  CopiedFrom(Put(t, t.win[Len(t.win) - distance + 1]), distance, length - 1)

-----------------------------------------------------------------------------
(* A block is over; the stream is over with the final one.                 *)
Ended(s) ==
  [Flushed(s) EXCEPT !.phase = "done", !.finished = TRUE,
                     !.leftover = SubSeq(s.buf, ByteBits * s.pos + 1, Len(s.buf))]
BlockDone(s) == IF s.final = 1 THEN Ended(s) ELSE [s EXCEPT !.at = "final"]

Reads(at) ==
  inflator.phase = "running" /\ inflator.at = at /\ Wanted(inflator) <= Available(inflator)
Does(then(_, _)) ==
  /\ inflator' = then(Shifted(inflator, Wanted(inflator)), FirstBits(inflator, Wanted(inflator)))
  /\ UNCHANGED <<wire, received, pushed>>

ReadFinal == Reads("final") /\ Does(LAMBDA s, v : [s EXCEPT !.final = v, !.at = "type"])

(* The fixed codes, or the fields that describe others. *)
UnderCodes(s, lits, dists) ==
  IF Decodable(lits.counts, FALSE) /\ Decodable(dists.counts, FALSE)
  THEN [s EXCEPT !.at = "sym", !.lits = lits, !.dists = dists, !.walk = NoWalk,
                 !.read = <<>>, !.table = <<>>]
  ELSE Failed(s, Corrupt)
Typed(s, type) ==
  CASE type = 0 -> [s EXCEPT !.bitBuf = <<>>, !.at = "storedLen"]
    [] type = 1 -> UnderCodes(s, buildHuffmanTable(FixedLitLens), buildHuffmanTable(FixedDistLens))
    [] type = 2 -> [s EXCEPT !.at = "hlit"]
    [] OTHER -> Failed(s, Corrupt)
ReadType == Reads("type") /\ Does(Typed)

(* Stored: two lengths, then bytes, as many at a time as are at hand and   *)
(* the window has room for. *)
Lengthy(s, nlen) ==
  IF nlen # STORED_MAX - s.len THEN Failed(s, Corrupt)
  ELSE Bounded(s, s.len, IF s.len = 0 THEN BlockDone(s) ELSE [s EXCEPT !.at = "stored"])
ReadStoredLen == Reads("storedLen") /\ Does(LAMBDA s, v : [s EXCEPT !.len = v, !.at = "storedNlen"])
ReadStoredNlen == Reads("storedNlen") /\ Does(Lengthy)

Smallest(S) == CHOOSE x \in S : \A y \in S : x <= y
StoredBytes(s, take) ==
  [i \in 1 .. take |-> ValueOf(SubSeq(s.buf, ByteBits * (s.pos + i - 1) + 1, ByteBits * (s.pos + i)))]
StoredTaken(s, take) ==
  LET t == [s EXCEPT !.win = @ \o StoredBytes(s, take), !.pos = @ + take, !.totalOut = @ + take,
                     !.len = @ - take]
  IN  IF t.len = 0 THEN BlockDone(t) ELSE t
StoredFrom(s) ==
  StoredTaken(s, Smallest({s.len, BufferedBytes(s) - s.pos, WIN_SIZE - Len(s.win)}))
CopyStored ==
  Reads("stored") /\ inflator' = StoredFrom(Roomy(inflator)) /\ UNCHANGED <<wire, received, pushed>>

-----------------------------------------------------------------------------
(* The header of a dynamic block.                                          *)
ReadHlit == Reads("hlit") /\ Does(LAMBDA s, v : [s EXCEPT !.hlit = v + EOB + 1, !.at = "hdist"])
ReadHdist == Reads("hdist") /\ Does(LAMBDA s, v : [s EXCEPT !.hdist = v + 1, !.at = "hclen"])
ReadHclen ==
  Reads("hclen") /\ Does(LAMBDA s, v : [s EXCEPT !.hclen = v + LeastHclen, !.at = "clLength"])

ClTabled(s, table) ==
  IF Decodable(table.counts, TRUE)
  THEN [s EXCEPT !.at = "code", !.table = table, !.read = <<>>, !.walk = NoWalk]
  ELSE Failed(s, Corrupt)
ClRead(s) == IF Len(s.read) < s.hclen THEN s ELSE ClTabled(s, buildHuffmanTable(Unordered(s.read)))
ReadClLength == Reads("clLength") /\ Does(LAMBDA s, v : ClRead([s EXCEPT !.read = Append(@, v)]))

(* The code lengths so far; with the last one both codes are known. *)
Extended(s, lengths) ==
  IF Len(lengths) < s.hlit + s.hdist
  THEN [s EXCEPT !.read = lengths, !.at = "code", !.walk = NoWalk]
  ELSE UnderCodes(s, buildHuffmanTable(Lengths(SubSeq(lengths, 1, s.hlit))),
                  buildHuffmanTable(Lengths(SubSeq(lengths, s.hlit + 1, Len(lengths)))))

(* A step of a walk, to the next bit, to a symbol or to nowhere. *)
Walking(s, walk, then(_, _)) ==
  CASE IsFound(walk) -> then([s EXCEPT !.walk = NoWalk], walk.symbol)
    [] IsLost(walk) -> Failed(s, Corrupt)
    [] OTHER -> [s EXCEPT !.walk = walk]

CodeRead(s, sym) ==
  CASE sym <= MaxBits -> Extended(s, Append(s.read, sym))
    [] sym = Repeat /\ s.read = <<>> -> Failed(s, Corrupt)
    [] OTHER -> [s EXCEPT !.sym = sym, !.at = "repeat"]
ReadCode == Reads("code") /\ Does(LAMBDA s, v : Walking(s, Walked(s.walk, s.table, v), CodeRead))
ReadRepeat ==
  Reads("repeat")
    /\ Does(LAMBDA s, v : Extended(s, Repeated(s.read, s.sym, Repetition(s.sym).least + v,
                                               s.hlit + s.hdist)))

-----------------------------------------------------------------------------
(* Symbols.                                                                *)
SymbolRead(s, sym) ==
  CASE sym < EOB -> Bounded(s, 1, Put(Roomy(s), sym))
    [] sym = EOB -> BlockDone(s)
    [] sym > EOB /\ sym - EOB > Len(LEN_BASE) -> Failed(s, Corrupt)
    [] OTHER -> [s EXCEPT !.sym = sym, !.at = "lenExtra"]
ReadSymbol == Reads("sym") /\ Does(LAMBDA s, v : Walking(s, Walked(s.walk, s.lits, v), SymbolRead))
ReadLenExtra ==
  Reads("lenExtra")
    /\ Does(LAMBDA s, v : [s EXCEPT !.len = LEN_BASE[s.sym - EOB] + v, !.at = "dist"])

DistanceRead(s, sym) ==
  IF sym >= Len(DIST_BASE) THEN Failed(s, Corrupt) ELSE [s EXCEPT !.sym = sym, !.at = "distExtra"]
ReadDistance ==
  Reads("dist") /\ Does(LAMBDA s, v : Walking(s, Walked(s.walk, s.dists, v), DistanceRead))

(* A match reaches back into the window, which a slide in between must     *)
(* have kept. *)
Matched(s, distance) ==
  IF distance > s.totalOut THEN Failed(s, Corrupt)
  ELSE Bounded(s, s.len, [CopiedFrom(s, distance, IF s.totalOut + s.len > s.maxOutput THEN 0
                                                  ELSE s.len) EXCEPT !.at = "sym"])
ReadDistExtra ==
  Reads("distExtra") /\ Does(LAMBDA s, v : Matched(s, DIST_BASE[s.sym + 1] + v))

-----------------------------------------------------------------------------
(* push() takes the next bytes and returns when they are used up, when the *)
(* stream is over, or with an error, which ends the generator: one push()  *)
(* later it looks finished.                                                *)
Push(bytes) ==
  LET chunk == SubSeq(wire, 1, ByteBits * bytes)
      base == inflator.consumedBase + BufferedBytes(inflator)
  IN  /\ inflator.phase \in {"need", "failed"}
      /\ wire' = SubSeq(wire, ByteBits * bytes + 1, Len(wire)) /\ pushed' = pushed + bytes
      /\ inflator' = IF inflator.phase = "need"
                     THEN [inflator EXCEPT !.phase = "running", !.consumedBase = base,
                                           !.buf = chunk, !.pos = 0]
                     ELSE [inflator EXCEPT !.phase = "done", !.consumedBase = base,
                                           !.finished = TRUE,
                                           !.leftover = SubSeq(inflator.buf, ByteBits * inflator.pos + 1,
                                                              Len(inflator.buf))]
      /\ UNCHANGED received

(* Out of input: what is left of the chunk is fetched, and push() returns. *)
Refill ==
  /\ inflator.phase = "running" /\ Wanted(inflator) > Available(inflator)
  /\ inflator' = [Flushed(Fetched(inflator, BufferedBytes(inflator) - inflator.pos))
                    EXCEPT !.phase = "need", !.out = <<>>]
  /\ received' = received \o Flushed(inflator).out
  /\ UNCHANGED <<wire, pushed>>

(* The stream is over: push() returns what it had collected. *)
Return ==
  /\ inflator.phase = "done" /\ inflator.out # <<>>
  /\ received' = received \o inflator.out
  /\ inflator' = [inflator EXCEPT !.out = <<>>]
  /\ UNCHANGED <<wire, pushed>>

Decoding ==
  \/ ReadFinal \/ ReadType \/ ReadStoredLen \/ ReadStoredNlen \/ CopyStored
  \/ ReadHlit \/ ReadHdist \/ ReadHclen \/ ReadClLength \/ ReadCode \/ ReadRepeat
  \/ ReadSymbol \/ ReadLenExtra \/ ReadDistance \/ ReadDistExtra \/ Refill \/ Return
=============================================================================
