--------------------------- MODULE DeflateEncoder ---------------------------
(***************************************************************************)
(* The pure encoder (codecs/deflate-pure.ts): LZ77 with hash chains and    *)
(* one deferred match, cut into blocks, each written in the cheapest of    *)
(* the three forms.  The format is scaled down by constants: the width of  *)
(* a byte, the alphabets, the window, the widths of the header fields.     *)
(* Positions count from 0, as in the code.                                 *)
(***************************************************************************)
EXTENDS HuffmanCodes

CONSTANTS
  ByteBits,                \* 8
  ClMaxBits,               \* 7: the longest code of a code length
  LEN_BASE, LEN_EXTRA,     \* match lengths: the first of each symbol, and its extra bits
  DIST_BASE, DIST_EXTRA,   \* distances, the same
  CL_ORDER,                \* the order in which code lengths of code lengths are sent
  FixedLitLens, FixedDistLens,            \* the fixed codes
  HlitBits, HdistBits, HclenBits, ClBits, LeastHclen, \* the fields of a dynamic header
  RepeatBits,              \* how many times: of the last length, of zero, of many zeros
  WSIZE,                   \* the encoder's window
  TOO_FAR,
  BLOCK_SYMS,
  Config,                  \* what a level means: good, lazy, nice, chain
  Hash(_, _, _)

MIN_MATCH == 3
MAX_MATCH == LEN_BASE[Len(LEN_BASE)]
EOB == 2 ^ ByteBits
NumLit == EOB + 1 + Len(LEN_BASE)
NumDist == Len(DIST_BASE)
STORED_MAX == 2 ^ (2 * ByteBits) - 1

(* The alphabet of code lengths: the lengths, then the three repetitions.  *)
Repeat == MaxBits + 1
Zeros == MaxBits + 2
ManyZeros == MaxBits + 3
MaxRun(extra, least) == least + 2 ^ extra - 1
LeastMany == MaxRun(RepeatBits.zeros, 3) + 1

-----------------------------------------------------------------------------
(* Symbols: a literal has no distance. *)
Literal(c) == [value |-> c, dist |-> 0]
Match(len, dist) == [value |-> len, dist |-> dist]

LastBase(base, n) ==
  CHOOSE i \in DOMAIN base : base[i] <= n /\ \A j \in DOMAIN base : base[j] <= n => j <= i
lengthSym(len) == LastBase(LEN_BASE, len)
distSym(dist) == LastBase(DIST_BASE, dist)
LitSym(sym) == IF sym.dist = 0 THEN sym.value ELSE EOB + lengthSym(sym.value)

litFreq(syms) ==
  [s \in 0 .. NumLit - 1 |->
     IF s = EOB THEN 1 ELSE Cardinality({k \in DOMAIN syms : LitSym(syms[k]) = s})]
distFreq(syms) ==
  [d \in 0 .. NumDist - 1 |->
     Cardinality({k \in DOMAIN syms : syms[k].dist # 0 /\ distSym(syms[k].dist) = d + 1})]

-----------------------------------------------------------------------------
(* The code lengths of a dynamic block, run-length encoded.                *)

Token(sym, arg, width) == [sym |-> sym, arg |-> arg, width |-> width]
Copies(n, token) == [i \in 1 .. n |-> token]

RECURSIVE ZeroRun(_)
ZeroRun(run) ==
  LET most == MaxRun(RepeatBits.many, LeastMany)
      r == IF run > most THEN most ELSE run
  IN  IF run >= LeastMany
      THEN <<Token(ManyZeros, r - LeastMany, RepeatBits.many)>> \o ZeroRun(run - r)
      ELSE IF run >= 3 THEN <<Token(Zeros, run - 3, RepeatBits.zeros)>>
      ELSE Copies(run, Token(0, 0, 0))

RECURSIVE ValueRun(_, _)
ValueRun(v, run) ==
  LET most == MaxRun(RepeatBits.last, 3)
      r == IF run > most THEN most ELSE run
  IN  IF run >= 3 THEN <<Token(Repeat, r - 3, RepeatBits.last)>> \o ValueRun(v, run - r)
      ELSE Copies(run, Token(v, 0, 0))

(* The two alphabets are one sequence: a run may cross from one into the   *)
(* other. *)
RunLength(seq) == CHOOSE n \in DOMAIN seq :
                    (\A i \in 1 .. n : seq[i] = seq[1]) /\ (n = Len(seq) \/ seq[n + 1] # seq[1])
RECURSIVE Tokens(_, _)
Tokens(seq, prevLen) ==
  IF seq = <<>> THEN <<>>
  ELSE LET v == seq[1]
           run == RunLength(seq)
           said == IF v = 0 THEN ZeroRun(run)
                   ELSE IF v = prevLen THEN ValueRun(v, run)
                   ELSE <<Token(v, 0, 0)>> \o ValueRun(v, run - 1)
       IN  said \o Tokens(SubSeq(seq, run + 1, Len(seq)), v)
Leading(lengths, n) == [i \in 1 .. n |-> lengths[i - 1]]
tokenizeCodeLengths(litLens, hlit, distLens, hdist) ==
  Tokens(Leading(litLens, hlit) \o Leading(distLens, hdist), -1)
clFreq(tokens) ==
  [s \in 0 .. ManyZeros |-> Cardinality({k \in DOMAIN tokens : tokens[k].sym = s})]

(* How much of an alphabet is sent: all up to the last code, and no less   *)
(* than the least. *)
Sent(lengths, least, number) ==
  CHOOSE n \in least .. number :
    (n = least \/ lengths[n] # 0) /\ \A m \in n + 1 .. number : lengths[m] = 0

-----------------------------------------------------------------------------
(* Blocks.  What is written is a sequence of bits.                         *)

Aligned(bits) == bits \o Copies((ByteBits - (Len(bits) % ByteBits)) % ByteBits, 0)
Bytes(data) == FlattenSeq([i \in DOMAIN data |-> BitsOf(data[i], ByteBits)])

(* A stored block says its length twice, the second time inverted. *)
StoredPiece(bits, piece, isFinal) ==
  LET width == 2 * ByteBits
  IN  Aligned(bits \o <<IF isFinal THEN 1 ELSE 0, 0, 0>>)
        \o BitsOf(Len(piece), width) \o BitsOf(STORED_MAX - Len(piece), width) \o Bytes(piece)
RECURSIVE writeStoredRange(_, _, _)
writeStoredRange(bits, data, isFinal) ==
  IF Len(data) <= STORED_MAX THEN StoredPiece(bits, data, isFinal)
  ELSE writeStoredRange(StoredPiece(bits, SubSeq(data, 1, STORED_MAX), FALSE),
                        SubSeq(data, STORED_MAX + 1, Len(data)), isFinal)

(* The bits of the symbols of a block, under a pair of codes. *)
dataBits(lits, dists, litLens, distLens) ==
  LET lit(s) == lits[s] * (litLens[s] + (IF s > EOB THEN LEN_EXTRA[s - EOB] ELSE 0))
      dist(d) == dists[d] * (distLens[d] + DIST_EXTRA[d + 1])
  IN  SumFunction([s \in DOMAIN lits |-> lit(s)]) + SumFunction([d \in DOMAIN dists |-> dist(d)])

(* The dynamic header, as the codes it sends. *)
HeaderOf(litLens, distLens, hlit, hdist, tokens, clLens) ==
  LET order == [k \in DOMAIN CL_ORDER |-> clLens[CL_ORDER[k]]]
  IN  [litLens |-> litLens, distLens |-> distLens, hlit |-> hlit, hdist |-> hdist,
       tokens |-> tokens, clLens |-> clLens, order |-> order,
       hclen |-> Sent(order, LeastHclen, Len(order))]
Tokenized(litLens, distLens, hlit, hdist, tokens) ==
  HeaderOf(litLens, distLens, hlit, hdist, tokens, buildCodeLengths(clFreq(tokens), ClMaxBits))
Header(litLens, distLens, hlit, hdist) ==
  Tokenized(litLens, distLens, hlit, hdist, tokenizeCodeLengths(litLens, hlit, distLens, hdist))
DynamicHeader(litLens, distLens) ==
  Header(litLens, distLens,
         Sent([i \in 1 .. NumLit |-> litLens[i - 1]], EOB + 1, NumLit),
         Sent([i \in 1 .. NumDist |-> distLens[i - 1]], 1, NumDist))

TokenBits(header, token) ==
  Code(header.clLens, token.sym) \o BitsOf(token.arg, token.width)
HeaderBits(header) ==
  BitsOf(header.hlit - (EOB + 1), HlitBits) \o BitsOf(header.hdist - 1, HdistBits)
    \o BitsOf(header.hclen - LeastHclen, HclenBits)
    \o FlattenSeq([k \in 1 .. header.hclen |-> BitsOf(header.order[k], ClBits)])
    \o FlattenSeq([k \in DOMAIN header.tokens |-> TokenBits(header, header.tokens[k])])
clBits(header) ==
  SumFunction([k \in DOMAIN header.tokens |->
                 header.clLens[header.tokens[k].sym] + header.tokens[k].width])

SymbolBits(sym, litCodes, distCodes) ==
  IF sym.dist = 0 THEN litCodes[sym.value]
  ELSE LET li == lengthSym(sym.value)
           dc == distSym(sym.dist)
       IN  litCodes[EOB + li] \o BitsOf(sym.value - LEN_BASE[li], LEN_EXTRA[li])
             \o distCodes[dc - 1] \o BitsOf(sym.dist - DIST_BASE[dc], DIST_EXTRA[dc])
CodedBits(syms, litCodes, distCodes) ==
  FlattenSeq([k \in DOMAIN syms |-> SymbolBits(syms[k], litCodes, distCodes)]) \o litCodes[EOB]

(* The cheapest form; on a tie stored before fixed before dynamic. *)
Cheapest(bits, data, syms, isFinal, header, dynamicBits, fixedBits, storedBits) ==
  LET final == IF isFinal THEN 1 ELSE 0
  IN  CASE storedBits <= fixedBits /\ storedBits <= dynamicBits ->
             writeStoredRange(bits, data, isFinal)
        [] fixedBits <= dynamicBits /\ fixedBits < storedBits ->
             bits \o <<final, 1, 0>> \o CodedBits(syms, buildCanonicalCodes(FixedLitLens),
                                                  buildCanonicalCodes(FixedDistLens))
        [] OTHER ->
             bits \o <<final, 0, 1>> \o HeaderBits(header)
               \o CodedBits(syms, buildCanonicalCodes(header.litLens),
                            buildCanonicalCodes(header.distLens))

storedCost(bits, n) ==
  LET pieces == IF n = 0 THEN 1 ELSE (n + STORED_MAX - 1) \div STORED_MAX
      pad0 == (ByteBits - ((Len(bits) + 3) % ByteBits)) % ByteBits
  IN  3 + pad0 + 4 * ByteBits + ByteBits * n + (pieces - 1) * 5 * ByteBits
Costed(bits, data, syms, isFinal, lits, dists, header) ==
  Cheapest(bits, data, syms, isFinal, header,
           3 + HlitBits + HdistBits + HclenBits + ClBits * header.hclen + clBits(header)
             + dataBits(lits, dists, header.litLens, header.distLens),
           3 + dataBits(lits, dists, FixedLitLens, FixedDistLens),
           storedCost(bits, Len(data)))
emitBlock(bits, data, syms, isFinal) ==
  LET lits == litFreq(syms)
      dists == distFreq(syms)
  IN  Costed(bits, data, syms, isFinal, lits, dists,
             DynamicHeader(buildCodeLengths(lits, MaxBits), buildCodeLengths(dists, MaxBits)))

-----------------------------------------------------------------------------
(* The search.  The scan is where it stands, the match it has put off, the *)
(* hash chains, and the block under construction.                          *)

At0(data, p) == data[p + 1]
hashAt(data, p) == Hash(At0(data, p), At0(data, p + 1), At0(data, p + 2))
None == -1

(* Position p goes to the head of its chain. *)
Inserted(scan, data, p) ==
  IF p > Len(data) - MIN_MATCH THEN scan
  ELSE LET h == hashAt(data, p)
       IN  [scan EXCEPT !.prev = ((p % WSIZE) :> scan.head[h]) @@ @, !.head[h] = p]
Candidate(scan, data, p) ==
  IF p > Len(data) - MIN_MATCH THEN None ELSE scan.head[hashAt(data, p)]
RECURSIVE InsertedAll(_, _, _, _)
InsertedAll(scan, data, p, last) ==
  IF p > last THEN scan ELSE InsertedAll(Inserted(scan, data, p), data, p + 1, last)

Common(data, cand, pos, maxLen) ==
  CHOOSE k \in 0 .. maxLen :
    /\ \A i \in 0 .. k - 1 : At0(data, cand + i) = At0(data, pos + i)
    /\ k = maxLen \/ At0(data, cand + k) # At0(data, pos + k)

(* Mutant: a slot of the ring is trusted, however old what it holds. *)
Chained_Unchecked(data, prev, pos, cand, chain, best, nice, maxLen) ==
  LET k == Common(data, cand, pos, maxLen)
  IN  IF chain = 0 \/ cand < 0 \/ k <= best.len THEN best ELSE [len |-> k, dist |-> pos - cand]

(* The chain from a candidate on, to where it leaves the window or turns   *)
(* forward: slots of the ring are reused, and nothing clears them.         *)
RECURSIVE Chained(_, _, _, _, _, _, _, _)
Chained(data, prev, pos, cand, chain, best, nice, maxLen) ==
  IF chain = 0 \/ cand < pos - WSIZE \/ cand < 0 \/ cand >= pos THEN best
  ELSE LET k == Common(data, cand, pos, maxLen)
           better == IF k > best.len THEN [len |-> k, dist |-> pos - cand] ELSE best
       IN  IF k > best.len /\ (k >= nice \/ k >= maxLen) THEN better
           ELSE Chained(data, prev, pos, prev[cand % WSIZE], chain - 1, better, nice, maxLen)

NoMatch == [len |-> 0, dist |-> 0]
longestMatch(data, prev, pos, cand, bestSoFar, cfg) ==
  LET left == Len(data) - pos
      maxLen == IF left < MAX_MATCH THEN left ELSE MAX_MATCH
      least == IF bestSoFar > 2 THEN bestSoFar ELSE 2
      nice == IF cfg.nice < maxLen THEN cfg.nice ELSE maxLen
      chain == IF bestSoFar >= cfg.good THEN cfg.chain \div 4 ELSE cfg.chain
      best == Chained(data, prev, pos, cand, chain, [len |-> least, dist |-> 0], nice, maxLen)
  IN  IF maxLen < MIN_MATCH \/ least >= maxLen \/ best.dist = 0 THEN NoMatch ELSE best

(* A symbol that stands for the next n bytes, or none yet; a full block is *)
(* written. *)
Full(scan, data) ==
  IF Len(scan.syms) < BLOCK_SYMS THEN scan
  ELSE [scan EXCEPT !.bits = emitBlock(@, SubSeq(data, scan.blockStart + 1, scan.emittedEnd),
                                       scan.syms, FALSE),
                    !.blockStart = scan.emittedEnd, !.syms = <<>>]
Pushed(scan, data, sym, n) ==
  IF n = 0 THEN scan ELSE Full([scan EXCEPT !.syms = Append(@, sym), !.emittedEnd = @ + n], data)

(* The current match, unless the deferred one is too good to look. *)
Near(found) == IF found.len = MIN_MATCH /\ found.dist > TOO_FAR THEN NoMatch ELSE found
Current(scan, data, cand, cfg) ==
  IF cand < 0 \/ scan.defer.len >= cfg.lazy THEN NoMatch
  ELSE Near(longestMatch(data, scan.prev, scan.i, cand, scan.defer.len, cfg))

(* The deferred match is taken unless the one at hand is longer; a         *)
(* deferred position that lost is a literal. *)
Takes(scan, cur) ==
  scan.havePrev /\ scan.defer.len >= MIN_MATCH /\ cur.len <= scan.defer.len
Symbol(scan, data, cur) ==
  IF Takes(scan, cur) THEN Match(scan.defer.len, scan.defer.dist)
                      ELSE Literal(At0(data, scan.i - 1))
BytesOf(scan, cur) ==
  CASE Takes(scan, cur) -> scan.defer.len
    [] scan.havePrev /\ ~Takes(scan, cur) -> 1
    [] OTHER -> 0
Moved(scan, data, taken, cur, last) ==
  IF taken THEN [InsertedAll(scan, data, scan.i + 1, last)
                   EXCEPT !.i = last + 1, !.havePrev = FALSE, !.defer = NoMatch]
           ELSE [scan EXCEPT !.i = @ + 1, !.havePrev = TRUE, !.defer = cur]
Stepped(scan, data, cur) ==
  Moved(Pushed(scan, data, Symbol(scan, data, cur), BytesOf(scan, cur)), data, Takes(scan, cur),
        cur, scan.i + scan.defer.len - 2)
Searched(scan, data, cand, cfg) == Stepped(scan, data, Current(scan, data, cand, cfg))

RECURSIVE Scanned(_, _, _)
Scanned(scan, data, cfg) ==
  IF scan.i < Len(data)
  THEN Scanned(Searched(Inserted(scan, data, scan.i), data, Candidate(scan, data, scan.i), cfg),
               data, cfg)
  ELSE Pushed(scan, data, Literal(At0(data, Len(data) - 1)), IF scan.havePrev THEN 1 ELSE 0)

ScanStart ==
  [i |-> 0, havePrev |-> FALSE, defer |-> NoMatch, head |-> [h \in 0 .. WSIZE - 1 |-> None],
   prev |-> [p \in 0 .. WSIZE - 1 |-> 0], syms |-> <<>>, blockStart |-> 0, emittedEnd |-> 0,
   bits |-> <<>>]

(* One final block always, if need be without symbols. *)
Finished(scan, data) ==
  Aligned(emitBlock(scan.bits, SubSeq(data, scan.blockStart + 1, scan.emittedEnd), scan.syms, TRUE))
deflateStored(data) == writeStoredRange(<<>>, data, TRUE)
deflateRawJS(data, level) ==
  IF level = 0 THEN deflateStored(data) ELSE Finished(Scanned(ScanStart, data, Config[level]), data)
=============================================================================
