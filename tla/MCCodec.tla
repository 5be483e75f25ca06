------------------------------ MODULE MCCodec -------------------------------
(***************************************************************************)
(* An instance of Codec: bytes of two bits, four match lengths up to 9,    *)
(* three distances up to 8, codes of at most four bits.  The long contents *)
(* need every form of block, several blocks, a window that slides, and     *)
(* codes that come out too deep.                                           *)
(***************************************************************************)
EXTENDS Codec

MCLEN_BASE == <<3, 4, 6, 9>>
MCLEN_EXTRA == <<0, 1, 2, 0>>
MCDIST_BASE == <<1, 3, 5>>
MCDIST_EXTRA == <<1, 1, 2>>
MCCL_ORDER == <<5, 6, 7, 0, 3, 2, 4, 1>>
MCFixedLit == [s \in 0 .. 11 |-> IF s < 4 THEN 3 ELSE 4]
MCFixedDist == [s \in 0 .. 3 |-> 2]
MCRepeatBits == [last |-> 1, zeros |-> 1, many |-> 2]
MCConfig == <<[good |-> 4, lazy |-> 4, nice |-> 4, chain |-> 4],
              [good |-> 4, lazy |-> 9, nice |-> 9, chain |-> 8]>>
MCHash(a, b, c) == (a + 2 * b + c) % 4

Made(f(_), n) == [i \in 1 .. n |-> f(i)]
Skewed == Made(LAMBDA i : (i \div 9) % 3, 90)
Sparse == Made(LAMBDA i : IF i % 7 = 0 THEN (i \div 7) % 4 ELSE 1, 60)
Mixed == Made(LAMBDA i : (i * i * i + i \div 3) % 4, 18)
Squares == Made(LAMBDA i : (i * i) % 4, 33)
Runs(n) == Made(LAMBDA i : IF i % 5 = 0 THEN i % 3 ELSE 0, n)
Word == <<0, 0, 1, 0, 2, 0, 3, 1, 2>>
Cycle(n) == Made(LAMBDA i : Word[(i % n) + 1], 22)
MCCorpus ==
  UNION {[1 .. n -> {0, 1}] : n \in 0 .. 4}
    \cup {Skewed, Sparse, Mixed, Squares, Cycle(8), Cycle(9), Runs(90)}
MCFew == {<<>>, <<1, 1, 1, 1>>}
MCDamageable == {<<0, 1>>, <<1, 1, 1, 1>>, Squares}
=============================================================================
