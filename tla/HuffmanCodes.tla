---------------------------- MODULE HuffmanCodes ----------------------------
(***************************************************************************)
(* Canonical Huffman codes, from both sides: the lengths and codes the     *)
(* encoder chooses (codecs/deflate-pure.ts) and the table the decoders     *)
(* build from lengths (codecs/inflate-shared.ts).  Bits are sequences of   *)
(* 0 and 1 in the order of the stream.  Symbols count from 0; a code's     *)
(* lengths are a function of its symbols, 0 for a symbol without a code.   *)
(***************************************************************************)
EXTENDS Integers, SequencesExt

CONSTANT MaxBits   \* 15

ASSUME MaxBitsAssumption == MaxBits \in Nat \ {0}

(* The n bits of a number, least significant first, and back. *)
BitsOf(value, n) == [i \in 1 .. n |-> (value \div 2 ^ (i - 1)) % 2]
ValueOf(bits) == SumFunction([i \in DOMAIN bits |-> bits[i] * 2 ^ (i - 1)])

-----------------------------------------------------------------------------
(* The encoder.                                                            *)

(* The symbols in use, rarest first. *)
InUse(f) == SelectSeq([i \in 1 .. Cardinality(DOMAIN f) |-> i - 1], LAMBDA s : f[s] > 0)
Leaves(freq) ==
  SortSeq(InUse(freq), LAMBDA a, b : freq[a] < freq[b] \/ (freq[a] = freq[b] /\ a < b))

(* Two queues, leaves and inner nodes, each in order of cost: a leaf goes  *)
(* before an inner node of the same cost. *)
PicksLeaf(q, m) ==
  q.leaf <= m /\ (q.inner > Len(q.cost) \/ q.cost[q.leaf] <= q.cost[q.inner])
Picked(q, m) ==
  IF PicksLeaf(q, m) THEN [q EXCEPT !.leaf = @ + 1, !.picked = Append(@, q.leaf)]
                     ELSE [q EXCEPT !.inner = @ + 1, !.picked = Append(@, q.inner)]
Paired(q) ==
  LET a == q.picked[1]
      b == q.picked[2]
      node == Len(q.cost) + 1
  IN  [q EXCEPT !.cost = Append(@, q.cost[a] + q.cost[b]),
                !.parent = (a :> node) @@ (b :> node) @@ @, !.picked = <<>>]
Parents(costs) ==
  LET m == Len(costs)
      tree[r \in 0 .. m - 1] ==
        IF r = 0
        THEN [cost |-> costs, parent |-> <<>>, leaf |-> 1, inner |-> m + 1, picked |-> <<>>]
        ELSE Paired(Picked(Picked(tree[r - 1], m), m))
  IN  tree[m - 1].parent
Depths(parent, root) ==
  LET depth[k \in 1 .. root] == IF k = root THEN 0 ELSE depth[parent[k]] + 1
  IN  depth

(* How many leaves have each length once no length passes maxBits: two     *)
(* leaves too deep at a time go next to one that is not.                   *)
RECURSIVE Repaired(_, _, _)
Repaired(count, overflow, maxBits) ==
  IF overflow <= 0 THEN count
  ELSE LET bits == CHOOSE b \in 1 .. maxBits - 1 :
                     count[b] > 0 /\ \A c \in b + 1 .. maxBits - 1 : count[c] = 0
           split == [[count EXCEPT ![bits] = @ - 1] EXCEPT ![bits + 1] = @ + 2]
       IN  Repaired([split EXCEPT ![maxBits] = @ - 1], overflow - 2, maxBits)

Counted(depth, m, maxBits) ==
  [b \in 1 .. maxBits |->
     Cardinality({j \in 1 .. m : depth[j] = b \/ (b = maxBits /\ depth[j] > maxBits)})]
TooDeep(depth, m, maxBits) == Cardinality({j \in 1 .. m : depth[j] > maxBits})

(* The rarest leaves get the longest codes. *)
Assigned(freq, leaves, count, maxBits) ==
  LET longer(b) == SumFunction([c \in b .. maxBits |-> count[c]])
      length(j) == CHOOSE b \in 1 .. maxBits : j <= longer(b) /\ j > longer(b + 1)
  IN  [s \in DOMAIN freq |->
         IF freq[s] = 0 THEN 0 ELSE length(CHOOSE j \in DOMAIN leaves : leaves[j] = s)]
Balanced(freq, leaves, depth, maxBits) ==
  LET m == Len(leaves)
  IN  Assigned(freq, leaves,
               Repaired(Counted(depth, m, maxBits), TooDeep(depth, m, maxBits), maxBits), maxBits)

(* A code needs two symbols: the second of a lone one is never used. *)
Lone(freq, s) == [x \in DOMAIN freq |-> IF x \in {s, IF s = 0 THEN 1 ELSE 0} THEN 1 ELSE 0]

buildCodeLengths(freq, maxBits) ==
  LET leaves == Leaves(freq)
      m == Len(leaves)
  IN  IF m <= 1 THEN Lone(freq, IF m = 0 THEN 0 ELSE leaves[1])
      ELSE Balanced(freq, leaves,
                    Depths(Parents([j \in 1 .. m |-> freq[leaves[j]]]), 2 * m - 1), maxBits)

(* The code of a symbol: codes of one length are consecutive, shorter ones *)
(* come first, and the first bit of a code is its highest.                 *)
Code(lengths, s) ==
  LET ahead == {x \in DOMAIN lengths : lengths[x] \in 1 .. lengths[s]
                                       /\ (lengths[x] < lengths[s] \/ x < s)}
      code == SumFunction([x \in ahead |-> 2 ^ (lengths[s] - lengths[x])])
  IN  Reverse(BitsOf(code, lengths[s]))
buildCanonicalCodes(lengths) == [s \in DOMAIN lengths |-> Code(lengths, s)]

-----------------------------------------------------------------------------
(* The decoders.                                                           *)

Counts(lengths) == [b \in 1 .. MaxBits |-> Cardinality({s \in DOMAIN lengths : lengths[s] = b})]

(* What is left of the code space, in codes of full length. *)
Left(counts) == 2 ^ MaxBits - SumFunction([b \in 1 .. MaxBits |-> counts[b] * 2 ^ (MaxBits - b)])

(* A code must be complete, but for one without symbols, and for a lone    *)
(* code of one bit where it is not the code of code lengths. *)
Decodable(counts, ofCodeLengths) ==
  \/ \A b \in 1 .. MaxBits : counts[b] = 0
  \/ Left(counts) = 0
  \/ ~ofCodeLengths /\ Left(counts) > 0 /\ \A b \in 2 .. MaxBits : counts[b] = 0

(* The symbols sorted by code. *)
SymbolsOf(lengths) ==
  SortSeq(InUse(lengths), LAMBDA a, b : lengths[a] < lengths[b] \/ (lengths[a] = lengths[b] /\ a < b))
buildHuffmanTable(lengths) == [counts |-> Counts(lengths), symbols |-> SymbolsOf(lengths)]

(* Decoding goes bit by bit: a walk is where it stands, and has found a    *)
(* symbol, or more than MaxBits bits that are no code.                     *)
NoWalk == [code |-> 0, first |-> 0, index |-> 0, len |-> 0, symbol |-> -1]
Walked(walk, table, bit) ==
  LET len == walk.len + 1
      code == 2 * walk.code + bit
      count == table.counts[len]
  IN  IF code - count < walk.first
      THEN [walk EXCEPT !.len = len, !.symbol = table.symbols[walk.index + code - walk.first + 1]]
      ELSE [code |-> code, first |-> 2 * (walk.first + count), index |-> walk.index + count,
            len |-> len, symbol |-> -1]
IsFound(walk) == walk.symbol >= 0
IsLost(walk) == walk.len = MaxBits /\ walk.symbol < 0
=============================================================================
