-------------------------------- MODULE Codec -------------------------------
(***************************************************************************)
(* Compression and decompression as the rest of the package calls them:    *)
(* the facades that choose an implementation (codecs/deflate.ts,           *)
(* codecs/inflate.ts, codecs/codec-registry.ts) over the pure encoder and  *)
(* the two pure decoders.  A compressed stream is decoded at once, or fed  *)
(* to the resumable decoder in pieces, as it is, with bytes of something   *)
(* else behind it, or damaged.                                             *)
(***************************************************************************)
EXTENDS InflateStream

CONSTANTS
  Corpus,                 \* what is compressed
  Few,                    \* of it, what is compressed in every state of the tiers
  Damageable,             \* of it, whose streams are damaged
  Levels,
  NodeHost,               \* process.versions.node is there
  HasRequire,             \* so is require(): not in a module
  HasDecompressionStream,
  PieceSizes              \* in how many bytes a stream is pushed

ASSUME CorpusAssumption == Few \subseteq Corpus /\ Damageable \subseteq Corpus
ASSUME PlatformAssumption == {NodeHost, HasRequire, HasDecompressionStream} \subseteq BOOLEAN

VARIABLES
  tiers,      \* the module-level state of the two facades
  packed,     \* the last stream compressed
  unpacked    \* what the one-shot facades made of it last

facade == <<tiers, packed, unpacked>>
vars == <<facade, inflatorVars>>

Untouched ==
  [deflateImpl |-> FALSE, inflateImpl |-> FALSE, nodeDeflate |-> "unknown",
   nodeInflate |-> "unknown", init |-> "idle"]
Nothing == [code |-> "none", out |-> <<>>]
NoStream ==
  [data |-> <<>>, level |-> 0, deterministic |-> FALSE, bits |-> <<>>, intact |-> FALSE,
   oneShot |-> Nothing]

Init ==
  /\ tiers = Untouched /\ packed = NoStream /\ unpacked = Nothing
  /\ inflator = NoInflator /\ wire = <<>> /\ received = <<>> /\ pushed = 0

-----------------------------------------------------------------------------
(* The tiers: an injected implementation, node:zlib if it has been found,  *)
(* the pure one.                                                           *)

Streams == inflator.phase # "none"

SetDeflateImpl(on) ==
  /\ ~Streams /\ tiers' = [tiers EXCEPT !.deflateImpl = on]
  /\ UNCHANGED <<packed, unpacked, inflatorVars>>
SetInflateImpl(on) ==
  /\ ~Streams /\ tiers' = [tiers EXCEPT !.inflateImpl = on]
  /\ UNCHANGED <<packed, unpacked, inflatorVars>>

(* The synchronous probe remembers that it has found nothing. *)
Probed(memo) ==
  IF memo # "unknown" THEN memo ELSE IF NodeHost /\ HasRequire THEN "zlib" ELSE "none"

(* initNodeZipCodecs() imports node:zlib, once for each direction, unless  *)
(* a probe has come before; between its steps anything may be called.      *)
InitNodeZipCodecs ==
  /\ ~Streams /\ tiers.init = "idle"
  /\ tiers' = IF tiers.nodeDeflate # "unknown" THEN [tiers EXCEPT !.init = "second"]
              ELSE IF NodeHost THEN [tiers EXCEPT !.init = "deflate"]
              ELSE [tiers EXCEPT !.nodeDeflate = "none", !.init = "second"]
  /\ UNCHANGED <<packed, unpacked, inflatorVars>>
ImportedDeflate ==
  /\ ~Streams /\ tiers.init = "deflate"
  /\ tiers' = [tiers EXCEPT !.nodeDeflate = "zlib", !.init = "second"]
  /\ UNCHANGED <<packed, unpacked, inflatorVars>>
InitSecond ==
  /\ ~Streams /\ tiers.init = "second"
  /\ tiers' = IF tiers.nodeInflate # "unknown" THEN [tiers EXCEPT !.init = "idle"]
              ELSE IF NodeHost THEN [tiers EXCEPT !.init = "inflate"]
              ELSE [tiers EXCEPT !.nodeInflate = "none", !.init = "idle"]
  /\ UNCHANGED <<packed, unpacked, inflatorVars>>
ImportedInflate ==
  /\ ~Streams /\ tiers.init = "inflate"
  /\ tiers' = [tiers EXCEPT !.nodeInflate = "zlib", !.init = "idle"]
  /\ UNCHANGED <<packed, unpacked, inflatorVars>>

-----------------------------------------------------------------------------
activeDeflateTier(deterministic) ==
  CASE deterministic -> "pure-pinned"
    [] ~deterministic /\ tiers.deflateImpl -> "injected"
    [] ~deterministic /\ ~tiers.deflateImpl /\ Probed(tiers.nodeDeflate) = "zlib" -> "node-zlib"
    [] OTHER -> "pure"

Asked(deterministic) ==
  IF deterministic \/ tiers.deflateImpl THEN tiers
  ELSE [tiers EXCEPT !.nodeDeflate = Probed(@)]
AskTier(deterministic) ==
  /\ ~Streams /\ tiers' = Asked(deterministic) /\ UNCHANGED <<packed, unpacked, inflatorVars>>

(* Another implementation writes some stream of its own for the data: as   *)
(* the pure encoder might on any level. *)
Freedom(tier, level) == IF tier \in {"injected", "node-zlib"} THEN Levels ELSE {level}

Compressed == packed # NoStream

(* One stream in each behaviour: nothing of an earlier one is kept. *)
DeflateRawSync(data, level, deterministic) ==
  /\ ~Streams /\ ~Compressed
  /\ \E some \in Freedom(activeDeflateTier(deterministic), level) :
       packed' = [data |-> data, level |-> level, deterministic |-> deterministic,
                  bits |-> deflateRawJS(data, some), intact |-> TRUE, oneShot |-> Nothing]
  /\ tiers' = Asked(deterministic) /\ UNCHANGED <<unpacked, inflatorVars>>

(* Only an injected decoder is asked before the probe.  Every tier decodes *)
(* what it is given; but the platform's stream knows no bound, and what it *)
(* gives is counted afterwards. *)
Measured(whole, maxOutput) ==
  IF Len(whole.out) > maxOutput THEN [whole EXCEPT !.code = Overflow, !.out = <<>>] ELSE whole
Inflate(byPlatform, maxOutput) ==
  /\ ~Streams /\ Compressed
  /\ unpacked' = Measured(inflateRawJS(packed.bits,
                                       IF byPlatform THEN Len(packed.data) ELSE maxOutput),
                          maxOutput)
  /\ tiers' = IF byPlatform \/ tiers.inflateImpl THEN tiers
              ELSE [tiers EXCEPT !.nodeInflate = Probed(@)]
  /\ UNCHANGED <<packed, inflatorVars>>
ByPlatform(streamed) == streamed /\ ~tiers.inflateImpl /\ HasDecompressionStream

-----------------------------------------------------------------------------
(* The resumable decoder on the last stream: as it is, with other bytes    *)
(* behind it, with a bit flipped, or bounded too tightly.  It does not     *)
(* look at the tiers: one state of them is enough.                         *)
Trailer == Copies(ByteBits, 1)
Damages ==
  IF packed.data \in Damageable
  THEN {[packed.bits EXCEPT ![i] = 1 - @] : i \in DOMAIN packed.bits} ELSE {}
Cases ==
  {[bits |-> packed.bits, tail |-> tail, short |-> 0] : tail \in {<<>>, Trailer}}
    \cup {[bits |-> bits, tail |-> <<>>, short |-> 0] : bits \in Damages}
    \cup {[bits |-> packed.bits, tail |-> <<>>, short |-> 1] :
            x \in {1} \cap DOMAIN packed.data}
CreateInflator ==
  /\ ~Streams /\ Compressed /\ tiers = Untouched /\ unpacked = Nothing
  /\ \E case \in Cases :
       LET maxOutput == Len(packed.data) - case.short
       IN  /\ inflator' = createInflator(maxOutput) /\ wire' = case.bits \o case.tail
           /\ packed' = [packed EXCEPT !.bits = case.bits,
                            !.intact = (case.bits = packed.bits /\ case.short = 0),
                            !.oneShot = inflateRawJS(case.bits \o case.tail, maxOutput)]
  /\ UNCHANGED <<tiers, unpacked, received, pushed>>

PushSome ==
  \E n \in PieceSizes :
    ByteBits * n <= Len(wire) /\ Push(n) /\ UNCHANGED facade

Compressing ==
  \E data \in (IF tiers = Untouched THEN Corpus ELSE Few), level \in Levels, d \in BOOLEAN :
    (tiers = Untouched => (d \/ data \in Few)) /\ DeflateRawSync(data, level, d)
Inflating ==
  \E short \in {0, 1} : short <= Len(packed.data) /\
    \E streamed \in BOOLEAN : Inflate(ByPlatform(streamed), Len(packed.data) - short)
Injecting == \E on \in BOOLEAN : SetDeflateImpl(on) \/ SetInflateImpl(on) \/ AskTier(on)
Importing == InitNodeZipCodecs \/ ImportedDeflate \/ InitSecond \/ ImportedInflate

Next ==
  \/ Injecting \/ Importing \/ Compressing \/ Inflating
  \/ CreateInflator \/ PushSome \/ (Decoding /\ UNCHANGED facade)
Spec == Init /\ [][Next]_vars

-----------------------------------------------------------------------------
(* Properties.                                                             *)

(* What either encoder form has written, the one-shot facades give back,   *)
(* by whichever tier and within the bound; and a pinned stream is the pure *)
(* encoder's (deflate.ts, inflate.ts). *)
FacadeIsExact ==
  /\ packed.intact /\ Streams => packed.oneShot = [code |-> "OK", out |-> packed.data,
                                        consumed |-> Len(packed.bits) \div ByteBits]
  /\ unpacked.code \in {"none", "OK", Overflow}
  /\ unpacked.code = "OK" => unpacked.out = packed.data
  /\ packed.deterministic /\ ~Streams =>
       packed.bits = deflateRawJS(packed.data, packed.level)

(* Whatever the pieces, the resumable decoder agrees with the one-shot one *)
(* on any bytes, damaged or not: it ends where that one ends, with the     *)
(* same output, gives back every byte it did not need, and fails or is     *)
(* left waiting only where the other fails; on the way it has given out    *)
(* nothing but a beginning of that output, within its bound.               *)
StreamIsExact ==
  LET expected == packed.oneShot
      given == received \o inflator.out
  IN  Streams =>
        /\ Len(given) <= inflator.maxOutput
        /\ expected.code = "OK" => inflator.code = "OK" /\ IsPrefix(given, expected.out)
        /\ inflator.phase = "done" /\ inflator.code = "OK" =>
             /\ expected.code = "OK" /\ given = expected.out
             /\ bytesConsumed(inflator) = expected.consumed
             /\ ByteBits * (pushed - expected.consumed) = Len(inflator.leftover)
        /\ inflator.phase = "need" /\ wire = <<>> => expected.code # "OK"

(* A content survives compression and decompression, byte for byte, by     *)
(* every pair of an encoder and a decoder (codecs/).                       *)
RoundTrip == FacadeIsExact /\ StreamIsExact
=============================================================================
