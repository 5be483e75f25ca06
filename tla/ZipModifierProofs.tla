-------------------------- MODULE ZipModifierProofs --------------------------
(***************************************************************************)
(* The incremental modifier, for every archive, every set of names and     *)
(* every number of edits and generations.  HeadersAgree and                *)
(* OverlayCoherent are inductive together with the types; what both saves  *)
(* write, and that the session implements NamedArchive, follows from them. *)
(***************************************************************************)
EXTENDS ZipModifier, FiniteSetTheorems, FunctionTheorems, TLAPS

-----------------------------------------------------------------------------
(* Where appended entries land.                                            *)

(* There are finitely many names. *)
LEMMA NamesFinite == IsFiniteSet(Name)
<1> DEFINE f == [n \in Name |-> <<n.stem, n.slash>>]
<1>1. IsFiniteSet(BOOLEAN)
  <2>1. BOOLEAN = {TRUE} \cup {FALSE}
    OBVIOUS
  <2>2. QED
    <3>1. IsFiniteSet({TRUE})
      BY FS_Singleton, Zenon
    <3>2. IsFiniteSet({TRUE} \cup {FALSE})
      BY <3>1, FS_AddElement, Zenon
    <3>3. QED
      BY <2>1, <3>2
<1>2. IsFiniteSet(Stems \X BOOLEAN)
  BY <1>1, FS_Product, ModifierAssumption
<1>3. f \in [Name -> Stems \X BOOLEAN]
  BY DEF Name
<1>4. \A m, n \in Name : f[m] = f[n] => m = n
  BY DEF Name
<1>5. f \in Injection(Name, Stems \X BOOLEAN)
  BY <1>3, <1>4, Fun_IsInj
<1>6. QED
  BY <1>2, <1>5, FS_Injection

(* The byte order of names is total. *)
LEMMA KeyOrder ==
  /\ \A n \in Name : Key(n) \in Nat
  /\ \A m, n \in Name : Key(m) = Key(n) => m = n
<1>1. \A n \in Name : n.stem \in Nat /\ n.slash \in BOOLEAN
  BY ModifierAssumption DEF Name
<1>2. \A n \in Name : Key(n) \in Nat
  BY <1>1 DEF Key
<1>3. ASSUME NEW m \in Name, NEW n \in Name, Key(m) = Key(n)
      PROVE  m = n
  <2>1. m.stem = n.stem /\ m.slash = n.slash
    BY <1>1, <1>3 DEF Key
  <2>2. QED
    BY <2>1 DEF Name
<1>4. QED
  BY <1>2, <1>3

(* The entries of A occupy the positions from start, one each. *)
LEMMA Positions ==
  ASSUME NEW start \in Nat, NEW A \in SUBSET Name
  PROVE  /\ IsFiniteSet(A) /\ Cardinality(A) \in Nat
         /\ \A n \in A : Position(start, A, n) \in start .. start + Cardinality(A) - 1
         /\ \A m, n \in A : Position(start, A, m) = Position(start, A, n) => m = n
         /\ \A p \in start .. start + Cardinality(A) - 1 : \E n \in A : Position(start, A, n) = p
<1>1. IsFiniteSet(A) /\ Cardinality(A) \in Nat
  BY NamesFinite, FS_Subset, FS_CardinalityType
<1>2. \A n \in Name : IsFiniteSet(Before(A, n)) /\ Cardinality(Before(A, n)) \in Nat
  BY <1>1, FS_Subset, FS_CardinalityType DEF Before
<1>3. \A n \in A : Cardinality(Before(A, n)) < Cardinality(A)
  <2>1. SUFFICES ASSUME NEW n \in A PROVE Cardinality(Before(A, n)) < Cardinality(A)
    OBVIOUS
  <2>2. Before(A, n) \in SUBSET A /\ Before(A, n) # A
    BY KeyOrder DEF Before
  <2>3. Cardinality(Before(A, n)) <= Cardinality(A) /\ Cardinality(Before(A, n)) # Cardinality(A)
    BY <1>1, <2>2, FS_Subset
  <2>4. QED
    BY <1>1, <1>2, <2>3
<1>4. \A m, n \in A : Key(m) < Key(n) => Cardinality(Before(A, m)) < Cardinality(Before(A, n))
  <2>1. SUFFICES ASSUME NEW m \in A, NEW n \in A, Key(m) < Key(n)
                 PROVE  Cardinality(Before(A, m)) < Cardinality(Before(A, n))
    OBVIOUS
  <2>2. Before(A, m) \in SUBSET Before(A, n)
    BY <2>1, KeyOrder DEF Before
  <2>3. m \in Before(A, n) /\ m \notin Before(A, m)
    BY <2>1, KeyOrder DEF Before
  <2>4. Before(A, m) # Before(A, n)
    BY <2>3
  <2>5. /\ Cardinality(Before(A, m)) <= Cardinality(Before(A, n))
        /\ Cardinality(Before(A, n)) # Cardinality(Before(A, m))
    BY <1>2, <2>2, <2>4, FS_Subset
  <2>6. QED
    BY <1>2, <2>5
<1>5. \A n \in A : Position(start, A, n) \in start .. start + Cardinality(A) - 1
  BY <1>1, <1>2, <1>3 DEF Position
<1>6. \A m, n \in A : Position(start, A, m) = Position(start, A, n) => m = n
  <2>1. SUFFICES ASSUME NEW m \in A, NEW n \in A, m # n
                 PROVE  Cardinality(Before(A, m)) # Cardinality(Before(A, n))
    BY <1>2 DEF Position
  <2>2. Key(m) < Key(n) \/ Key(n) < Key(m)
    BY <2>1, KeyOrder
  <2>3. QED
    BY <1>2, <1>4, <2>2
<1>7. \A p \in start .. start + Cardinality(A) - 1 : \E n \in A : Position(start, A, n) = p
  <2> DEFINE I == start .. start + Cardinality(A) - 1
             f == [n \in A |-> Position(start, A, n)]
  <2>1. IsFiniteSet(I) /\ Cardinality(I) = Cardinality(A)
    <3>1. start + Cardinality(A) - 1 \in Int
      BY <1>1
    <3>2. /\ IsFiniteSet(I)
          /\ Cardinality(I) = IF start > start + Cardinality(A) - 1 THEN 0
                              ELSE (start + Cardinality(A) - 1) - start + 1
      BY <3>1, FS_Interval
    <3>3. QED
      BY <1>1, <3>2
  <2>2. f \in Injection(A, I)
    BY <1>5, <1>6, Fun_IsInj
  <2>3. f \in Surjection(A, I)
    BY <2>1, <2>2, FS_Injection
  <2>4. \A p \in I : \E n \in A : f[n] = p
    <3> HIDE DEF f, I
    <3>1. QED
      BY <2>3, Fun_SurjectionProperties
  <2>5. QED
    BY <2>4
<1>8. QED
  BY <1>1, <1>5, <1>6, <1>7

-----------------------------------------------------------------------------
(* What a written file holds.                                              *)

(* The entries of A are where the directory says, under their own names    *)
(* and with the given contents, behind an untouched prefix.                *)
LaidOut(f, old, start, A, holds, kept, base, comment) ==
  /\ f.size = start + Cardinality(A) + 1 /\ f.size \in Nat \ {0}
  /\ f.cdOffset \in Int /\ Base(f) = base /\ f.comment = comment
  /\ \A n \in A : /\ f.cd[n] \in Int /\ InSource(f, n)
                  /\ HeaderAt(f, n) \in start .. f.size - 2
                  /\ f.bytes[HeaderAt(f, n)] = [name |-> n, content |-> holds[n]]
  /\ \A n \in Name \ A : f.cd[n] = kept[n]
  /\ \A p \in 0 .. start - 1 : f.bytes[p] = old[p]
  /\ \A p \in start .. f.size - 2 : \E n \in A : HeaderAt(f, n) = p
  /\ f.bytes[f.size - 1] = Filler
  /\ DOMAIN f.bytes = 0 .. f.size - 1 /\ f.bytes = [p \in DOMAIN f.bytes |-> f.bytes[p]]
  /\ DOMAIN f.cd = Name /\ f.cd = [n \in Name |-> f.cd[n]]

(* This is what WriteFile does. *)
LEMMA Written ==
  ASSUME NEW old, NEW start \in Nat, NEW A \in SUBSET Name, NEW holds,
         NEW kept, NEW base \in Int, NEW comment, NEW f,
         f = WriteFile(old, start, A, holds, kept, base, comment)
  PROVE  LaidOut(f, old, start, A, holds, kept, base, comment)
<1> DEFINE c == Cardinality(A)
<1>1. /\ c \in Nat
      /\ \A n \in A : Position(start, A, n) \in start .. start + c - 1
      /\ \A m, n \in A : Position(start, A, m) = Position(start, A, n) => m = n
      /\ \A p \in start .. start + c - 1 : \E n \in A : Position(start, A, n) = p
  BY Positions
<1>2. /\ f.bytes = Emit(old, start, A, holds)
      /\ f.size = start + c + 1
      /\ f.cdOffset = start + c - base
      /\ f.cd = [n \in Name |-> IF n \in A THEN Position(start, A, n) - base ELSE kept[n]]
      /\ f.comment = comment
  BY DEF WriteFile
<1>3. f.size \in Nat \ {0} /\ f.cdOffset \in Int /\ Base(f) = base
  BY <1>1, <1>2 DEF Base
<1>4. \A n \in A : /\ f.cd[n] = Position(start, A, n) - base
                   /\ f.cd[n] \in Int
                   /\ HeaderAt(f, n) = Position(start, A, n)
  BY <1>1, <1>2, <1>3 DEF HeaderAt
<1>5. \A p \in 0 .. start + c :
        f.bytes[p] = IF p < start THEN old[p]
                     ELSE IF p = start + c THEN Filler
                     ELSE LET n == CHOOSE m \in A : Position(start, A, m) = p
                          IN [name |-> n, content |-> holds[n]]
  BY <1>2 DEF Emit
<1>6. \A n \in A : f.bytes[Position(start, A, n)] = [name |-> n, content |-> holds[n]]
  <2>1. SUFFICES ASSUME NEW n \in A
                 PROVE  f.bytes[Position(start, A, n)] = [name |-> n, content |-> holds[n]]
    OBVIOUS
  <2> DEFINE p == Position(start, A, n)
             m == CHOOSE x \in A : Position(start, A, x) = p
  <2>2. m = n
    BY <1>1
  <2>3. p \in 0 .. start + c /\ ~(p < start) /\ p # start + c
    BY <1>1
  <2>4. f.bytes[p] = [name |-> m, content |-> holds[m]]
    BY <1>5, <2>3
  <2>5. QED
    BY <2>2, <2>4
<1>7. \A n \in A : InSource(f, n)
  BY <1>4, ModifierAssumption DEF InSource
<1>8. DOMAIN f.bytes = 0 .. f.size - 1 /\ f.bytes = [p \in DOMAIN f.bytes |-> f.bytes[p]]
  BY <1>1, <1>2 DEF Emit
<1>9. DOMAIN f.cd = Name /\ f.cd = [n \in Name |-> f.cd[n]]
  BY <1>2
<1> HIDE DEF c
<1>10. \A p \in 0 .. start - 1 : f.bytes[p] = old[p]
  <2>1. SUFFICES ASSUME NEW p \in 0 .. start - 1 PROVE f.bytes[p] = old[p]
    OBVIOUS
  <2>2. p \in 0 .. start + c /\ p < start
    BY <1>1
  <2>3. QED
    BY <1>5, <2>2
<1>11. f.bytes[f.size - 1] = Filler
  <2>1. f.size - 1 = start + c
    BY <1>1, <1>2
  <2>2. start + c \in 0 .. start + c /\ ~(start + c < start)
    BY <1>1
  <2>3. f.bytes[start + c] = Filler
    BY <1>5, <2>2
  <2>4. QED
    BY <2>1, <2>3
<1>12. \A n \in Name \ A : f.cd[n] = kept[n]
  BY <1>2
<1>s. f.size - 2 = start + c - 1
  BY <1>1, <1>2
<1>13. \A p \in start .. f.size - 2 : \E n \in A : HeaderAt(f, n) = p
  <2>1. \A p \in start .. start + c - 1 : \E n \in A : HeaderAt(f, n) = p
    BY ONLY <1>1, <1>4
  <2>2. QED
    BY ONLY <1>s, <2>1
<1>14. \A n \in A : HeaderAt(f, n) \in start .. f.size - 2
  <2>1. \A n \in A : HeaderAt(f, n) \in start .. start + c - 1
    BY ONLY <1>1, <1>4
  <2>2. QED
    BY ONLY <1>s, <2>1
<1>15. \A n \in A : /\ f.cd[n] \in Int /\ InSource(f, n)
                    /\ HeaderAt(f, n) \in start .. f.size - 2
                    /\ f.bytes[HeaderAt(f, n)] = [name |-> n, content |-> holds[n]]
  BY ONLY <1>4, <1>6, <1>7, <1>14
<1>16. f.size = start + Cardinality(A) + 1
  BY <1>2 DEF c
<1>17. f.comment = comment
  BY <1>2
<1>18. QED
  BY ONLY <1>3, <1>8, <1>9, <1>10, <1>11, <1>12, <1>13, <1>15, <1>16, <1>17 DEF LaidOut

(* The type of a file, and a file whose every record resolves to a header  *)
(* of its own name.                                                        *)
FileTyped(f) ==
  /\ f.size \in Nat \ {0}
  /\ f.bytes \in [0 .. f.size - 1 -> Unit]
  /\ f.cdOffset \in Int
  /\ f.cd \in [Name -> Int \cup {Absent}]
  /\ f.comment \in Comments
RecordsAgree(f) ==
  \A n \in Name : InSource(f, n) =>
    /\ HeaderAt(f, n) \in 0 .. f.size - 2
    /\ f.bytes[HeaderAt(f, n)] # Filler
    /\ f.bytes[HeaderAt(f, n)].name = n

(* With typed pieces, the file is typed. *)
LEMMA WrittenTyped ==
  ASSUME NEW old, NEW start \in Nat, NEW A \in SUBSET Name, NEW holds,
         NEW kept, NEW base \in Int, NEW comment \in Comments, NEW f,
         f = WriteFile(old, start, A, holds, kept, base, comment),
         \A p \in 0 .. start - 1 : old[p] \in Unit,
         \A n \in A : holds[n] \in Content,
         \A n \in Name \ A : kept[n] \in Int \cup {Absent}
  PROVE  FileTyped(f)
<1>0. LaidOut(f, old, start, A, holds, kept, base, comment)
  BY Written
<1>1. /\ f.size \in Nat \ {0}
      /\ f.cdOffset \in Int /\ f.comment = comment
      /\ \A n \in A : /\ f.cd[n] \in Int
                      /\ HeaderAt(f, n) \in start .. f.size - 2
                      /\ f.bytes[HeaderAt(f, n)] = [name |-> n, content |-> holds[n]]
      /\ \A n \in Name \ A : f.cd[n] = kept[n]
      /\ \A p \in 0 .. start - 1 : f.bytes[p] = old[p]
      /\ \A p \in start .. f.size - 2 : \E n \in A : HeaderAt(f, n) = p
      /\ f.bytes[f.size - 1] = Filler
      /\ DOMAIN f.bytes = 0 .. f.size - 1 /\ f.bytes = [p \in DOMAIN f.bytes |-> f.bytes[p]]
      /\ DOMAIN f.cd = Name /\ f.cd = [n \in Name |-> f.cd[n]]
  BY ONLY <1>0 DEF LaidOut
<1>2. \A n \in A : [name |-> n, content |-> holds[n]] \in Unit
  BY DEF Unit
<1>3. \A p \in 0 .. f.size - 1 : f.bytes[p] \in Unit
  <2>1. SUFFICES ASSUME NEW p \in 0 .. f.size - 1 PROVE f.bytes[p] \in Unit
    OBVIOUS
  <2>2. CASE p \in 0 .. start - 1
    BY <1>1, <2>2
  <2>3. CASE p \in start .. f.size - 2
    <3>1. PICK n \in A : HeaderAt(f, n) = p
      BY <1>1, <2>3
    <3>2. f.bytes[p] = [name |-> n, content |-> holds[n]]
      BY <1>1, <3>1
    <3>3. QED
      BY <1>2, <3>2
  <2>4. CASE p = f.size - 1
    BY <1>1, <2>4 DEF Unit
  <2>5. p \in 0 .. start - 1 \/ p \in start .. f.size - 2 \/ p = f.size - 1
    BY ONLY <1>1, start \in Nat, p \in 0 .. f.size - 1
  <2>6. QED
    BY <2>2, <2>3, <2>4, <2>5
<1>4. f.bytes \in [0 .. f.size - 1 -> Unit]
  BY <1>1, <1>3
<1>5. \A n \in Name : f.cd[n] \in Int \cup {Absent}
  BY <1>1
<1>6. f.cd \in [Name -> Int \cup {Absent}]
  BY <1>1, <1>5
<1>7. QED
  BY ONLY <1>1, <1>4, <1>6, comment \in Comments DEF FileTyped

(* When the records kept from before resolve into the kept prefix, every   *)
(* record of the file resolves to a header of its own name.                *)
LEMMA WrittenAgrees ==
  ASSUME NEW old, NEW start \in Nat, NEW A \in SUBSET Name, NEW holds,
         NEW kept, NEW base \in Int, NEW comment, NEW f,
         f = WriteFile(old, start, A, holds, kept, base, comment),
         \A n \in A : holds[n] \in Content,
         \A n \in Name \ A : kept[n] # Absent =>
            /\ kept[n] + base \in 0 .. start - 1
            /\ old[kept[n] + base] # Filler
            /\ old[kept[n] + base].name = n
  PROVE  RecordsAgree(f)
<1>0. LaidOut(f, old, start, A, holds, kept, base, comment)
  BY Written
<1>1. /\ f.size = start + Cardinality(A) + 1 /\ f.size \in Nat \ {0}
      /\ Base(f) = base
      /\ \A n \in A : /\ HeaderAt(f, n) \in start .. f.size - 2
                      /\ f.bytes[HeaderAt(f, n)] = [name |-> n, content |-> holds[n]]
      /\ \A n \in Name \ A : f.cd[n] = kept[n]
      /\ \A p \in 0 .. start - 1 : f.bytes[p] = old[p]
  BY ONLY <1>0 DEF LaidOut
<1>2. Cardinality(A) \in Nat
  BY Positions
<1>3. SUFFICES ASSUME NEW n \in Name, InSource(f, n)
               PROVE  /\ HeaderAt(f, n) \in 0 .. f.size - 2
                      /\ f.bytes[HeaderAt(f, n)] # Filler
                      /\ f.bytes[HeaderAt(f, n)].name = n
  BY DEF RecordsAgree
<1>4. CASE n \in A
  <2>1. [name |-> n, content |-> holds[n]] # Filler
    BY <1>4, ModifierAssumption
  <2>2. HeaderAt(f, n) \in 0 .. f.size - 2
    <3>1. HeaderAt(f, n) \in start .. f.size - 2
      BY ONLY <1>1, <1>4
    <3>2. f.size - 2 \in Int
      BY ONLY <1>1
    <3>3. QED
      BY ONLY <3>1, <3>2, start \in Nat
  <2>3. f.bytes[HeaderAt(f, n)] = [name |-> n, content |-> holds[n]]
    BY ONLY <1>1, <1>4
  <2>4. [name |-> n, content |-> holds[n]].name = n
    OBVIOUS
  <2>5. QED
    BY ONLY <2>1, <2>2, <2>3, <2>4
<1>5. CASE n \notin A
  <2>1. f.cd[n] = kept[n] /\ kept[n] # Absent
    BY <1>1, <1>3, <1>5 DEF InSource
  <2>2. HeaderAt(f, n) = kept[n] + base
    BY <1>1, <2>1 DEF HeaderAt
  <2>3. HeaderAt(f, n) \in 0 .. start - 1
    BY <1>5, <2>1, <2>2
  <2>4. HeaderAt(f, n) \in 0 .. f.size - 2
    <3>1. start - 1 <= f.size - 2 /\ f.size - 2 \in Int
      BY ONLY <1>1, <1>2, start \in Nat
    <3>2. QED
      BY ONLY <2>3, <3>1, start \in Nat
  <2>5. f.bytes[HeaderAt(f, n)] = old[kept[n] + base]
    BY <1>1, <2>2, <2>3
  <2>6. QED
    BY <1>5, <2>1, <2>4, <2>5
<1>6. QED
  BY <1>4, <1>5

-----------------------------------------------------------------------------
(* What the session shows.                                                 *)

(* The types alone are not inductive: a raw copy has a content only when   *)
(* its source entry has a header.                                          *)
IInv == TypeOK /\ HeadersAgree /\ OverlayCoherent

(* An entry of the source holds a content. *)
LEMMA HeldTyped ==
  ASSUME TypeOK, HeadersAgree, NEW n \in Name, InSource(file, n)
  PROVE  /\ Held(file, n) \in Content
         /\ HeaderAt(file, n) \in 0 .. file.size - 2
         /\ file.bytes[HeaderAt(file, n)] \in [name : Name, content : Content]
<1>1. HeaderAt(file, n) \in 0 .. file.size - 2 /\ file.bytes[HeaderAt(file, n)] # Filler
  BY DEF HeadersAgree
<1>2. HeaderAt(file, n) \in 0 .. file.size - 1
  BY ONLY <1>1, TypeOK DEF TypeOK
<1>3. file.bytes[HeaderAt(file, n)] \in Unit
  BY ONLY <1>2, TypeOK DEF TypeOK
<1>4. QED
  BY <1>1, <1>3 DEF Held, Unit

(* The pending edits, one by one. *)
LEMMA EditKinds ==
  ASSUME TypeOK, NEW n \in Name
  PROVE  \/ edits[n] = Untouched /\ edits[n].kind = "none"
         \/ edits[n] = Removed /\ edits[n].kind = "remove"
         \/ edits[n].kind = "write" /\ edits[n].data \in Content /\ edits[n] = Write(edits[n].data)
         \/ /\ edits[n].kind = "rawCopy" /\ edits[n].source \in Name
            /\ edits[n] = RawCopy(edits[n].source)
<1>1. edits[n] \in Edit
  BY DEF TypeOK
<1>2. QED
  BY <1>1 DEF Edit, Untouched, Removed, Write, RawCopy

(* A name shows a content exactly when it exists, and the existing names   *)
(* are the live ones.                                                      *)
LEMMA Shown ==
  ASSUME IInv, NEW n \in Name
  PROVE  /\ existsNow(n) => ContentNow(n) \in Content
         /\ ~existsNow(n) => ContentNow(n) = Absent
         /\ existsNow(n) <=> n \in Live
         /\ ContentNow(n) # Absent <=> existsNow(n)
<1>1. CASE edits[n].kind = "none"
  <2>1. ContentNow(n) = IF InSource(file, n) THEN Held(file, n) ELSE Absent
    BY <1>1 DEF ContentNow
  <2>2. existsNow(n) <=> InSource(file, n)
    BY <1>1 DEF existsNow
  <2>3. n \in Live <=> InSource(file, n)
    BY <1>1 DEF Live, Appended, Surviving
  <2>4. QED
    BY <2>1, <2>2, <2>3, HeldTyped, ModifierAssumption DEF IInv
<1>2. CASE edits[n].kind = "remove"
  BY <1>2, ModifierAssumption DEF ContentNow, existsNow, Live, Appended, Surviving
<1>3. CASE edits[n].kind = "write" /\ edits[n].data \in Content
  BY <1>3, ModifierAssumption DEF ContentNow, existsNow, Live, Appended, Surviving
<1>4. CASE edits[n].kind = "rawCopy" /\ edits[n].source \in Name
  <2>1. InSource(file, edits[n].source)
    BY <1>4 DEF IInv, OverlayCoherent, Copied, Appended
  <2>2. Held(file, edits[n].source) \in Content
    BY <1>4, <2>1, HeldTyped DEF IInv
  <2>3. QED
    BY <1>4, <2>2, ModifierAssumption DEF ContentNow, existsNow, Live, Appended, Surviving
<1>5. QED
  BY <1>1, <1>2, <1>3, <1>4, EditKinds DEF IInv

-----------------------------------------------------------------------------
(* The first archive.                                                      *)

(* A first archive, written from scratch, satisfies the invariant. *)
LEMMA InitIInv == Init => IInv
<1>1. SUFFICES ASSUME Init PROVE IInv
  OBVIOUS
<1>2. PICK d \in Originals, b \in 0 .. MaxPrefix, t \in Comments :
        file = WriteFile([p \in 0 .. b - 1 |-> Filler], b, {n \in Name : d[n] # Absent},
                         d, Nothing, b, t)
  BY <1>1 DEF Init
<1> DEFINE A   == {n \in Name : d[n] # Absent}
           old == [p \in 0 .. b - 1 |-> Filler]
<1>3. b \in Nat /\ b \in Int
  BY ModifierAssumption
<1>4. \A p \in 0 .. b - 1 : old[p] \in Unit
  BY DEF Unit
<1>5. \A n \in A : d[n] \in Content
  BY ModifierAssumption
<1>6. \A n \in Name \ A : Nothing[n] = Absent
  BY DEF Nothing
<1>7. file = WriteFile(old, b, A, d, Nothing, b, t) /\ A \in SUBSET Name
  BY <1>2
<1>8. edits = NoEdits /\ pendingComment = Absent
  BY <1>1 DEF Init
<1> HIDE DEF A, old
<1>9. FileTyped(file)
  BY <1>3, <1>4, <1>5, <1>6, <1>7, WrittenTyped
<1>10. RecordsAgree(file)
  BY <1>3, <1>5, <1>6, <1>7, WrittenAgrees
<1>11. OverlayCoherent
  BY <1>8 DEF OverlayCoherent, NoEdits, Untouched, Copied, Appended
<1>12. edits \in [Name -> Edit]
  BY <1>8 DEF NoEdits, Edit
<1>13. QED
  BY <1>8, <1>9, <1>10, <1>11, <1>12 DEF IInv, TypeOK, HeadersAgree, FileTyped, RecordsAgree

-----------------------------------------------------------------------------
(* Edits.                                                                  *)

(* Of an edit that leaves the file alone, only the overlay is left to show.*)
LEMMA FileKept ==
  ASSUME IInv, file' = file, edits' \in [Name -> Edit],
         pendingComment' \in Comments \cup {Absent}, OverlayCoherent'
  PROVE  IInv'
BY DEF IInv, TypeOK, HeadersAgree, InSource, HeaderAt, Base

(* A pending write disturbs no raw copy. *)
LEMMA WriteKeeps ==
  ASSUME IInv, NEW n \in Name, NEW c \in Content,
         edits' = [edits EXCEPT ![n] = Write(c)],
         file' = file, pendingComment' = pendingComment
  PROVE  IInv'
<1>1. edits \in [Name -> Edit] /\ Write(c) \in Edit
  BY DEF IInv, TypeOK, Edit
<1>2. edits' \in [Name -> Edit]
  BY <1>1
<1>3. edits'[n] = Write(c) /\ \A m \in Name : m # n => edits'[m] = edits[m]
  BY <1>1
<1>4. edits'[n].kind = "write"
  BY <1>3 DEF Write
<1>5. OverlayCoherent'
  <2>1. Copied' \subseteq Copied /\ n \notin Copied'
    BY <1>3, <1>4 DEF Copied, Appended
  <2>2. \A m \in Name : edits'[m].kind = "remove" => InSource(file', m)
    BY <1>3, <1>4 DEF IInv, OverlayCoherent
  <2>3. \A m \in Copied' : /\ InSource(file', edits'[m].source)
                           /\ edits'[edits'[m].source].kind # "none"
    <3>1. SUFFICES ASSUME NEW m \in Copied'
                   PROVE  /\ InSource(file', edits'[m].source)
                          /\ edits'[edits'[m].source].kind # "none"
      OBVIOUS
    <3>2. m \in Copied /\ m \in Name /\ edits'[m] = edits[m] /\ edits[m].kind = "rawCopy"
      BY <1>3, <2>1 DEF Copied, Appended
    <3>3. InSource(file, edits[m].source) /\ edits[edits[m].source].kind # "none"
      BY <3>2 DEF IInv, OverlayCoherent
    <3>4. edits[m].source \in Name
      BY <3>2, EditKinds DEF IInv
    <3>5. QED
      BY <1>3, <1>4, <3>2, <3>3, <3>4
  <2>4. \A l, m \in Copied' : edits'[l].source = edits'[m].source => l = m
    BY <1>3, <2>1 DEF IInv, OverlayCoherent, Copied, Appended
  <2>5. QED
    BY <2>2, <2>3, <2>4 DEF OverlayCoherent
<1>6. QED
  BY <1>2, <1>5, FileKept DEF IInv, TypeOK

(* A removed name is never the source of a copy that would survive too. *)
LEMMA RemoveKeeps ==
  ASSUME IInv, NEW n \in Name, RemoveEntry(n)
  PROVE  IInv'
<1>1. edits \in [Name -> Edit] /\ Gone(n) \in Edit
  BY DEF IInv, TypeOK, Edit, Gone
<1>2. /\ edits' = [edits EXCEPT ![n] = Gone(n)]
      /\ file' = file /\ pendingComment' = pendingComment
  BY DEF RemoveEntry
<1>3. edits'[n] = Gone(n) /\ \A m \in Name : m # n => edits'[m] = edits[m]
  BY <1>1, <1>2
<1>4. /\ edits'[n].kind = "remove" => InSource(file, n)
      /\ InSource(file, n) => edits'[n].kind # "none"
      /\ edits'[n].kind # "rawCopy"
  BY <1>3 DEF Gone, Removed, Untouched
<1>5. OverlayCoherent'
  <2>1. Copied' \subseteq Copied /\ n \notin Copied'
    BY <1>3, <1>4 DEF Copied, Appended
  <2>2. \A m \in Name : edits'[m].kind = "remove" => InSource(file', m)
    BY <1>2, <1>3, <1>4 DEF IInv, OverlayCoherent
  <2>3. \A m \in Copied' : /\ InSource(file', edits'[m].source)
                           /\ edits'[edits'[m].source].kind # "none"
    <3>1. SUFFICES ASSUME NEW m \in Copied'
                   PROVE  /\ InSource(file', edits'[m].source)
                          /\ edits'[edits'[m].source].kind # "none"
      OBVIOUS
    <3>2. m \in Copied /\ m \in Name /\ edits'[m] = edits[m] /\ edits[m].kind = "rawCopy"
      BY <1>3, <2>1 DEF Copied, Appended
    <3>3. InSource(file, edits[m].source) /\ edits[edits[m].source].kind # "none"
      BY <3>2 DEF IInv, OverlayCoherent
    <3>4. edits[m].source \in Name
      BY <3>2, EditKinds DEF IInv
    <3>5. QED
      BY <1>2, <1>3, <1>4, <3>2, <3>3, <3>4
  <2>4. \A l, m \in Copied' : edits'[l].source = edits'[m].source => l = m
    BY <1>3, <2>1 DEF IInv, OverlayCoherent, Copied, Appended
  <2>5. QED
    BY <2>2, <2>3, <2>4 DEF OverlayCoherent
<1>6. edits' \in [Name -> Edit]
  BY <1>1, <1>2
<1>7. QED
  BY <1>2, <1>5, <1>6, FileKept DEF IInv, TypeOK

(* The target of a rename is a name, and another one. *)
LEMMA Target ==
  ASSUME NEW from \in Name, NEW to \in Name
  PROVE  finalTo(from, to) \in Name
BY DEF finalTo, Slashed, Name

(* A rename moves the one copy there is. *)
LEMMA RenameKeeps ==
  ASSUME IInv, NEW from \in Name, NEW to \in Name, RenameEntry(from, to)
  PROVE  IInv'
<1> DEFINE ft == finalTo(from, to)
<1>1. ft \in Name
  BY Target
<1>2. /\ existsNow(from) /\ ~existsNow(ft)
      /\ edits' = [edits EXCEPT ![ft] = Moved(from), ![from] = Gone(from)]
      /\ file' = file /\ pendingComment' = pendingComment
  BY DEF RenameEntry
<1> HIDE DEF ft
<1>3. ft # from
  BY <1>2
<1>4. edits \in [Name -> Edit] /\ Gone(from) \in Edit
  BY DEF IInv, TypeOK, Edit, Gone
<1>5. Moved(from) \in Edit
  BY <1>4 DEF Moved, Edit
<1>6. edits' \in [Name -> Edit]
  BY <1>1, <1>2, <1>4, <1>5
<1>7. /\ edits'[from] = Gone(from) /\ edits'[ft] = Moved(from)
      /\ \A m \in Name : m # from /\ m # ft => edits'[m] = edits[m]
  BY <1>1, <1>2, <1>3, <1>4
<1>8. /\ edits'[from].kind = "remove" => InSource(file, from)
      /\ InSource(file, from) => edits'[from].kind # "none"
      /\ edits'[from].kind # "rawCopy"
  BY <1>7 DEF Gone, Removed, Untouched
(* Before the rename nothing copies from. *)
<1>9. edits[from].kind = "none" => \A m \in Copied : edits[m].source # from
  BY DEF IInv, OverlayCoherent
<1>10. \/ /\ edits'[ft] = RawCopy(from) /\ edits'[ft].kind = "rawCopy" /\ edits'[ft].source = from
          /\ InSource(file, from) /\ edits[from].kind = "none"
       \/ edits'[ft] = edits[from] /\ edits[from].kind \in {"write", "rawCopy"}
  <2>1. CASE edits[from].kind = "none"
    BY <1>2, <1>7, <2>1 DEF Moved, RawCopy, existsNow
  <2>2. CASE edits[from].kind # "none"
    <3>1. edits[from].kind \in {"write", "rawCopy"}
      BY <1>2, <2>2, EditKinds DEF existsNow, IInv
    <3>2. QED
      BY <1>7, <2>2, <3>1 DEF Moved
  <2>3. QED
    BY <2>1, <2>2
<1>11. \A m \in Copied' : /\ m \in Name /\ m # from
                          /\ m # ft => m \in Copied /\ edits'[m] = edits[m]
                          /\ m = ft => \/ /\ edits[from].kind = "none" /\ edits'[m].source = from
                                          /\ InSource(file, from)
                                       \/ /\ from \in Copied /\ edits'[m].source = edits[from].source
  <2>1. SUFFICES ASSUME NEW m \in Copied'
                 PROVE  /\ m \in Name /\ m # from
                        /\ m # ft => m \in Copied /\ edits'[m] = edits[m]
                        /\ m = ft => \/ /\ edits[from].kind = "none" /\ edits'[m].source = from
                                        /\ InSource(file, from)
                                     \/ /\ from \in Copied /\ edits'[m].source = edits[from].source
    OBVIOUS
  <2>2. m \in Name /\ edits'[m].kind = "rawCopy"
    BY DEF Copied, Appended
  <2>3. m # from
    BY <1>8, <2>2
  <2>4. m # ft => m \in Copied /\ edits'[m] = edits[m]
    BY <1>7, <2>2, <2>3 DEF Copied, Appended
  <2>5. m = ft => \/ /\ edits[from].kind = "none" /\ edits'[m].source = from
                     /\ InSource(file, from)
                  \/ /\ from \in Copied /\ edits'[m].source = edits[from].source
    BY <1>10, <2>2 DEF Copied, Appended
  <2>6. QED
    BY <2>2, <2>3, <2>4, <2>5
<1>12. OverlayCoherent'
  <2>1. \A m \in Name : edits'[m].kind = "remove" => InSource(file', m)
    <3>1. SUFFICES ASSUME NEW m \in Name, edits'[m].kind = "remove" PROVE InSource(file, m)
      BY <1>2
    <3>2. m # ft
      BY <1>10, <3>1
    <3>3. QED
      BY <1>7, <1>8, <3>1, <3>2 DEF IInv, OverlayCoherent
  <2>2. \A m \in Copied' : /\ InSource(file', edits'[m].source)
                           /\ edits'[edits'[m].source].kind # "none"
    <3>1. SUFFICES ASSUME NEW m \in Copied'
                   PROVE  InSource(file, edits'[m].source) /\ edits'[edits'[m].source].kind # "none"
      BY <1>2
    <3>2. CASE edits[from].kind = "none" /\ edits'[m].source = from /\ InSource(file, from)
      BY <1>8, <3>2
    <3>3. CASE \E l \in Copied : edits'[m].source = edits[l].source
      <4>1. PICK l \in Copied : edits'[m].source = edits[l].source
        BY <3>3
      <4>2. InSource(file, edits[l].source) /\ edits[edits[l].source].kind # "none"
        BY DEF IInv, OverlayCoherent
      <4>3. edits[l].source \in Name
        BY EditKinds DEF IInv, Copied, Appended
      <4>4. edits'[edits[l].source].kind # "none"
        BY <1>7, <1>8, <1>10, <4>2, <4>3
      <4>5. QED
        BY <4>1, <4>2, <4>4
    <3>4. QED
      BY <1>11, <3>2, <3>3
  <2>3. \A l, m \in Copied' : edits'[l].source = edits'[m].source => l = m
    <3>1. SUFFICES ASSUME NEW l \in Copied', NEW m \in Copied',
                          edits'[l].source = edits'[m].source
                   PROVE  l = m
      OBVIOUS
    <3>2. \A j, k \in Copied : edits[j].source = edits[k].source => j = k
      BY DEF IInv, OverlayCoherent
    <3>3. CASE l # ft /\ m # ft
      BY <1>11, <3>1, <3>2, <3>3
    <3>4. CASE l = ft /\ m # ft
      BY <1>9, <1>11, <3>1, <3>2, <3>4
    <3>5. CASE l # ft /\ m = ft
      BY <1>9, <1>11, <3>1, <3>2, <3>5
    <3>6. QED
      BY <3>3, <3>4, <3>5
  <2>4. QED
    BY <2>1, <2>2, <2>3 DEF OverlayCoherent
<1>13. QED
  BY <1>2, <1>6, <1>12, FileKept DEF IInv, TypeOK

-----------------------------------------------------------------------------
(* Saves.                                                                  *)

(* The live names hold contents. *)
LEMMA LiveShown ==
  ASSUME IInv
  PROVE  /\ Appended \subseteq Live /\ Live \subseteq Name
         /\ \A n \in Live : ContentNow(n) \in Content
         /\ commentNow \in Comments
<1>1. Appended \subseteq Live /\ Live \subseteq Name
  BY DEF Live, Appended, Surviving
<1>2. \A n \in Live : ContentNow(n) \in Content
  BY <1>1, Shown
<1>3. commentNow \in Comments
  BY DEF commentNow, IInv, TypeOK
<1>4. QED
  BY <1>1, <1>2, <1>3

(* What save() writes is well formed and reads back as the session shows.  *)
LEMMA SavedReads ==
  ASSUME IInv, NEW f, f = saved
  PROVE  /\ FileTyped(f) /\ RecordsAgree(f)
         /\ \A n \in Name : Reads(f, n) = ContentNow(n)
         /\ \A p \in 0 .. file.size - 1 : f.bytes[p] = file.bytes[p]
         /\ Base(f) = Base(file) /\ f.comment = commentNow
<1> DEFINE old   == file.bytes
           start == file.size
           A     == Appended
           holds == [n \in Appended |-> ContentNow(n)]
           kept  == [n \in Name |-> IF n \in Surviving THEN file.cd[n] ELSE Absent]
           base  == Base(file)
<1>1. f = WriteFile(old, start, A, holds, kept, base, commentNow)
  BY DEF saved
<1>2. /\ start \in Nat /\ base \in Int /\ A \in SUBSET Name /\ commentNow \in Comments
      /\ \A n \in A : holds[n] = ContentNow(n) /\ holds[n] \in Content
  BY LiveShown DEF IInv, TypeOK, Base
<1>3. \A p \in 0 .. start - 1 : old[p] \in Unit
  BY DEF IInv, TypeOK
<1>4. \A n \in Name : /\ n \in Surviving => kept[n] = file.cd[n] /\ kept[n] # Absent
                      /\ n \notin Surviving => kept[n] = Absent
                      /\ kept[n] \in Int \cup {Absent}
  BY DEF IInv, TypeOK, Surviving, InSource
<1>5. \A n \in Surviving : /\ n \in Name /\ InSource(file, n) /\ n \notin A
                           /\ kept[n] + base = HeaderAt(file, n)
                           /\ HeaderAt(file, n) \in 0 .. start - 1
                           /\ old[HeaderAt(file, n)] # Filler
                           /\ old[HeaderAt(file, n)].name = n
  <2>1. SUFFICES ASSUME NEW n \in Surviving
                 PROVE  /\ n \in Name /\ InSource(file, n) /\ n \notin A
                        /\ kept[n] + base = HeaderAt(file, n)
                        /\ HeaderAt(file, n) \in 0 .. start - 1
                        /\ old[HeaderAt(file, n)] # Filler
                        /\ old[HeaderAt(file, n)].name = n
    OBVIOUS
  <2>2. n \in Name /\ InSource(file, n) /\ n \notin A
    BY DEF Surviving, Appended
  <2>3. kept[n] + base = HeaderAt(file, n)
    BY <1>4, <2>2 DEF HeaderAt
  <2>4. /\ HeaderAt(file, n) \in 0 .. start - 2
        /\ old[HeaderAt(file, n)] # Filler
        /\ old[HeaderAt(file, n)].name = n
    BY <2>2 DEF IInv, HeadersAgree
  <2>5. HeaderAt(file, n) \in 0 .. start - 1
    BY ONLY <1>2, <2>4
  <2>6. QED
    BY <2>2, <2>3, <2>4, <2>5
<1> HIDE DEF old, start, A, holds, kept, base
<1>6. FileTyped(f)
  BY <1>1, <1>2, <1>3, <1>4, WrittenTyped
<1>7. \A n \in Name \ A : kept[n] # Absent =>
        /\ kept[n] + base \in 0 .. start - 1
        /\ old[kept[n] + base] # Filler
        /\ old[kept[n] + base].name = n
  BY <1>4, <1>5
<1>8. RecordsAgree(f)
  BY <1>1, <1>2, <1>7, WrittenAgrees
<1>9. LaidOut(f, old, start, A, holds, kept, base, commentNow)
  BY <1>1, <1>2, Written
<1>10. /\ Base(f) = base /\ f.comment = commentNow
       /\ \A n \in A : /\ InSource(f, n)
                       /\ f.bytes[HeaderAt(f, n)] = [name |-> n, content |-> holds[n]]
       /\ \A n \in Name \ A : f.cd[n] = kept[n]
       /\ \A p \in 0 .. start - 1 : f.bytes[p] = old[p]
  BY ONLY <1>9 DEF LaidOut
<1>11. \A n \in A : Reads(f, n) = ContentNow(n)
  <2>1. SUFFICES ASSUME NEW n \in A PROVE Reads(f, n) = ContentNow(n)
    OBVIOUS
  <2>2. InSource(f, n) /\ f.bytes[HeaderAt(f, n)] = [name |-> n, content |-> holds[n]]
    BY <1>10
  <2>3. Reads(f, n) = [name |-> n, content |-> holds[n]].content
    BY ONLY <2>2 DEF Reads, Held
  <2>4. holds[n] = ContentNow(n)
    BY ONLY <1>2, n \in A
  <2>5. QED
    BY ONLY <2>3, <2>4
<1>12. \A n \in Surviving : Reads(f, n) = ContentNow(n)
  <2>1. SUFFICES ASSUME NEW n \in Surviving PROVE Reads(f, n) = ContentNow(n)
    OBVIOUS
  <2>2. f.cd[n] = kept[n] /\ kept[n] # Absent
    BY <1>4, <1>5, <1>10
  <2>3. InSource(f, n) /\ HeaderAt(f, n) = HeaderAt(file, n)
    BY <1>5, <1>10, <2>2 DEF InSource, HeaderAt
  <2>4. f.bytes[HeaderAt(f, n)] = file.bytes[HeaderAt(file, n)]
    BY <1>5, <1>10, <2>3 DEF old
  <2>5. ContentNow(n) = Held(file, n)
    BY <1>5 DEF ContentNow, Surviving
  <2>6. QED
    BY <2>3, <2>4, <2>5 DEF Reads, Held
<1>13. \A n \in Name : n \notin A /\ n \notin Surviving => Reads(f, n) = ContentNow(n)
  <2>1. SUFFICES ASSUME NEW n \in Name, n \notin A, n \notin Surviving
                 PROVE  Reads(f, n) = ContentNow(n)
    OBVIOUS
  <2>2. Reads(f, n) = Absent
    BY <1>4, <1>10, <2>1 DEF Reads, InSource
  <2>3. n \notin Live
    BY <2>1 DEF Live, A
  <2>4. QED
    BY <2>2, <2>3, Shown
<1>14. QED
  BY <1>6, <1>8, <1>10, <1>11, <1>12, <1>13 DEF old, start, base

(* What saveCompact() writes is well formed, reads back as the session     *)
(* shows, and has a unit for live entries only.                            *)
LEMMA CompactReads ==
  ASSUME IInv, NEW k \in BOOLEAN, NEW f, f = compacted(k)
  PROVE  /\ FileTyped(f) /\ RecordsAgree(f)
         /\ \A n \in Name : Reads(f, n) = ContentNow(n)
         /\ \A p \in 0 .. f.size - 2 : \E n \in Live : InSource(f, n) /\ HeaderAt(f, n) = p
<1> DEFINE A     == Live
           holds == [n \in Live |-> ContentNow(n)]
           t     == IF k \/ pendingComment # Absent THEN commentNow ELSE NoComment
           old   == <<>>
<1>1. f = WriteFile(old, 0, A, holds, Nothing, 0, t)
  BY DEF compacted
<1>2. /\ A \in SUBSET Name /\ t \in Comments
      /\ \A n \in A : holds[n] = ContentNow(n) /\ holds[n] \in Content
  BY LiveShown, ModifierAssumption
<1>3. \A n \in Name : Nothing[n] = Absent
  BY DEF Nothing
<1>4. 0 \in Nat /\ 0 \in Int /\ \A p \in 0 .. 0 - 1 : old[p] \in Unit
  OBVIOUS
<1> HIDE DEF A, holds, t, old
<1>5. FileTyped(f)
  <2>1. \A n \in Name \ A : Nothing[n] \in Int \cup {Absent}
    BY <1>3
  <2>2. \A n \in A : holds[n] \in Content
    BY <1>2
  <2>3. QED
    BY <1>1, <1>2, <1>4, <2>1, <2>2, WrittenTyped, Z3
<1>6. RecordsAgree(f)
  <2>1. \A n \in Name \ A : Nothing[n] # Absent =>
          /\ Nothing[n] + 0 \in 0 .. 0 - 1
          /\ old[Nothing[n] + 0] # Filler
          /\ old[Nothing[n] + 0].name = n
    BY <1>3
  <2>2. \A n \in A : holds[n] \in Content
    BY <1>2
  <2>3. QED
    BY <1>1, <1>2, <1>4, <2>1, <2>2, WrittenAgrees
<1>7. LaidOut(f, old, 0, A, holds, Nothing, 0, t)
  BY <1>1, <1>2, <1>4, Written
<1>8. /\ \A n \in A : /\ InSource(f, n)
                      /\ f.bytes[HeaderAt(f, n)] = [name |-> n, content |-> holds[n]]
      /\ \A n \in Name \ A : f.cd[n] = Nothing[n]
      /\ \A p \in 0 .. f.size - 2 : \E n \in A : HeaderAt(f, n) = p
  BY ONLY <1>7 DEF LaidOut
<1>9. \A n \in A : Reads(f, n) = ContentNow(n)
  <2>1. SUFFICES ASSUME NEW n \in A PROVE Reads(f, n) = ContentNow(n)
    OBVIOUS
  <2>2. InSource(f, n) /\ f.bytes[HeaderAt(f, n)] = [name |-> n, content |-> holds[n]]
    BY <1>8
  <2>3. Reads(f, n) = [name |-> n, content |-> holds[n]].content
    BY ONLY <2>2 DEF Reads, Held
  <2>4. holds[n] = ContentNow(n)
    BY ONLY <1>2, n \in A
  <2>5. QED
    BY ONLY <2>3, <2>4
<1>10. \A n \in Name : n \notin A => Reads(f, n) = ContentNow(n)
  BY <1>3, <1>8, Shown DEF Reads, InSource, A
<1>11. QED
  BY <1>5, <1>6, <1>8, <1>9, <1>10 DEF A

(* A session that starts over on a well formed file is in order. *)
LEMMA Reopened ==
  ASSUME NewSession, FileTyped(file'), RecordsAgree(file')
  PROVE  IInv'
<1>1. TypeOK'
  BY DEF NewSession, NoEdits, Edit, FileTyped, TypeOK
<1>2. HeadersAgree'
  BY DEF RecordsAgree, HeadersAgree
<1>3. OverlayCoherent'
  BY DEF NewSession, NoEdits, Untouched, OverlayCoherent, Copied, Appended
<1>4. QED
  BY <1>1, <1>2, <1>3 DEF IInv

-----------------------------------------------------------------------------
(* The invariant.                                                          *)

(* Every edit and every save keeps the invariant. *)
LEMMA NextIInv == IInv /\ [Next]_vars => IInv'
<1>1. SUFFICES ASSUME IInv, [Next]_vars PROVE IInv'
  OBVIOUS
<1>2. ASSUME NEW n \in Name, NEW c \in Content, AddEntry(n, c) PROVE IInv'
  BY <1>1, <1>2, WriteKeeps DEF AddEntry
<1>3. ASSUME NEW n \in Name, NEW c \in Content, ReplaceEntry(n, c) PROVE IInv'
  BY <1>1, <1>3, WriteKeeps DEF ReplaceEntry
<1>4. ASSUME NEW n \in Name, RemoveEntry(n) PROVE IInv'
  BY <1>1, <1>4, RemoveKeeps
<1>5. ASSUME NEW from \in Name, NEW to \in Name, RenameEntry(from, to) PROVE IInv'
  BY <1>1, <1>5, RenameKeeps
<1>6. ASSUME NEW t \in Comments, SetComment(t) PROVE IInv'
  BY <1>1, <1>6 DEF SetComment, IInv, TypeOK, HeadersAgree, InSource, HeaderAt, Base,
     OverlayCoherent, Copied, Appended
<1>7. CASE SaveUnchanged
  <2>1. FileTyped(file') /\ RecordsAgree(file')
    BY <1>1, <1>7 DEF SaveUnchanged, IInv, TypeOK, HeadersAgree, FileTyped, RecordsAgree
  <2>2. QED
    BY <1>7, <2>1, Reopened DEF SaveUnchanged
<1>8. CASE Save
  <2>1. file' = saved /\ NewSession
    BY <1>8 DEF Save
  <2>2. QED
    BY <1>1, <2>1, SavedReads, Reopened
<1>9. ASSUME NEW k \in BOOLEAN, SaveCompact(k) PROVE IInv'
  <2>1. file' = compacted(k) /\ NewSession
    BY <1>9 DEF SaveCompact
  <2>2. QED
    BY <1>1, <2>1, CompactReads, Reopened
<1>10. CASE UNCHANGED vars
  BY <1>1, <1>10 DEF vars, IInv, TypeOK, HeadersAgree, InSource, HeaderAt, Base,
     OverlayCoherent, Copied, Appended
<1>11. QED
  BY <1>1, <1>2, <1>3, <1>4, <1>5, <1>6, <1>7, <1>8, <1>9, <1>10 DEF Next

(* The inductive invariant holds throughout. *)
THEOREM SessionsInOrder == Spec => []IInv
<1>1. QED
  BY InitIInv, NextIInv, PTL DEF Spec

(* Every value stays in its type, whatever is edited, saved and reopened.  *)
THEOREM ModifierTypeOK == Spec => []TypeOK
<1>1. IInv => TypeOK
  BY DEF IInv
<1>2. QED
  BY <1>1, SessionsInOrder, PTL

(* After any number of generations every central directory record, those   *)
(* copied verbatim from earlier ones included, leads to its own header.    *)
THEOREM RecordsResolve == Spec => []HeadersAgree
<1>1. IInv => HeadersAgree
  BY DEF IInv
<1>2. QED
  BY <1>1, SessionsInOrder, PTL

(* No chain of renames, removals and additions makes the overlay keep an   *)
(* entry twice.                                                            *)
THEOREM OverlayStaysCoherent == Spec => []OverlayCoherent
<1>1. IInv => OverlayCoherent
  BY DEF IInv
<1>2. QED
  BY <1>1, SessionsInOrder, PTL

(* A file that reads as the session shows has the entries that are live. *)
LEMMA EntriesAreLive ==
  ASSUME IInv, NEW f, FileTyped(f), RecordsAgree(f),
         \A n \in Name : Reads(f, n) = ContentNow(n)
  PROVE  {n \in Name : InSource(f, n)} = Live
<1>1. ASSUME NEW n \in Name, InSource(f, n) PROVE n \in Live
  <2>1. Held(f, n) \in Content
    BY <1>1 DEF FileTyped, RecordsAgree, Held, Unit
  <2>2. ContentNow(n) # Absent
    BY <1>1, <2>1, ModifierAssumption DEF Reads
  <2>3. edits[n] \in Edit
    BY DEF IInv, TypeOK
  <2>4. QED
    BY <2>2, <2>3 DEF ContentNow, Live, Appended, Surviving, Edit, Untouched, Removed, Write, RawCopy
<1>2. ASSUME NEW n \in Live PROVE n \in Name /\ InSource(f, n)
  BY LiveShown, ModifierAssumption DEF Reads
<1>3. QED
  BY <1>1, <1>2

(* Both saves write what the session shows, and no more than can be opened. *)
THEOREM SavesWriteTheView == Spec => []SavesAgree
<1>1. IInv => SavesAgree
  <2>1. SUFFICES ASSUME IInv PROVE SavesAgree
    OBVIOUS
  <2>2. ASSUME CanSave PROVE OpensAsShown(saved)
    BY <2>1, <2>2, SavedReads, EntriesAreLive DEF OpensAsShown, CanSave
  <2>3. ASSUME CanCompact PROVE OpensAsShown(compacted(TRUE))
    BY <2>1, <2>3, CompactReads, EntriesAreLive DEF OpensAsShown, CanCompact
  <2>4. QED
    BY <2>2, <2>3 DEF SavesAgree
<1>2. QED
  BY <1>1, SessionsInOrder, PTL

(* save() only appends: the input, its prefix included, is untouched.      *)
THEOREM SavingAppends == Spec => SaveAppends
<1>1. IInv /\ [Next]_vars =>
        [file' # file /\ Save =>
           /\ \A p \in 0 .. file.size - 1 : file'.bytes[p] = file.bytes[p]
           /\ Base(file') = Base(file)]_vars
  BY SavedReads DEF Save
<1>2. QED
  BY <1>1, SessionsInOrder, PTL DEF Spec, SaveAppends

(* saveCompact() leaves no unit that is not a live entry. *)
THEOREM CompactingErases == Spec => CompactErases
<1>1. IInv /\ [Next]_vars =>
        [\A k \in BOOLEAN : file' # file /\ SaveCompact(k) =>
           \A p \in 0 .. file'.size - 2 :
             \E n \in Name : InSource(file', n) /\ HeaderAt(file', n) = p]_vars
  <2>1. SUFFICES ASSUME IInv, NEW k \in BOOLEAN, SaveCompact(k)
                 PROVE  \A p \in 0 .. file'.size - 2 :
                          \E n \in Name : InSource(file', n) /\ HeaderAt(file', n) = p
    OBVIOUS
  <2>2. \A p \in 0 .. file'.size - 2 : \E n \in Live : InSource(file', n) /\ HeaderAt(file', n) = p
    BY <2>1, CompactReads DEF SaveCompact
  <2>3. QED
    BY <2>1, <2>2, LiveShown
<1>2. QED
  BY <1>1, SessionsInOrder, PTL DEF Spec, CompactErases

-----------------------------------------------------------------------------
(* The session implements NamedArchive: every edit is the abstract edit,   *)
(* every save a stutter or, when it drops the comment, a change of it.     *)

(* What a name shows depends on its own edit and the file only. *)
LEMMA SameShown ==
  ASSUME file' = file, NEW n \in Name, edits'[n] = edits[n]
  PROVE  ContentNow(n)' = ContentNow(n)
BY DEF ContentNow, Held, HeaderAt, Base, InSource

(* So an edit of one name changes the view at that name only. *)
LEMMA OneShown ==
  ASSUME IInv, file' = file, NEW n \in Name, NEW e, edits' = [edits EXCEPT ![n] = e]
  PROVE  /\ edits'[n] = e
         /\ View' = [View EXCEPT ![n] = ContentNow(n)']
<1>1. edits'[n] = e /\ \A m \in Name : m # n => edits'[m] = edits[m]
  BY DEF IInv, TypeOK
<1>2. \A m \in Name : m # n => ContentNow(m)' = ContentNow(m)
  BY <1>1, SameShown
<1>3. View' = [View EXCEPT ![n] = ContentNow(n)']
  BY <1>2 DEF View
<1>4. QED
  BY <1>1, <1>3

(* A view of a session is a directory. *)
LEMMA ViewTyped ==
  ASSUME IInv
  PROVE  /\ View \in [Name -> Content \cup {Absent}]
         /\ \A n \in Name : View[n] = ContentNow(n) /\ (View[n] # Absent <=> existsNow(n))
         /\ commentNow \in Comments
BY Shown, LiveShown DEF View

(* A write under n puts what specForWrite makes of the data there. *)
LEMMA WriteShown ==
  ASSUME IInv, file' = file, NEW n \in Name, NEW c, edits' = [edits EXCEPT ![n] = Write(c)]
  PROVE  View' = [View EXCEPT ![n] = IF n.slash THEN Empty ELSE c]
<1>1. edits'[n] = Write(c) /\ View' = [View EXCEPT ![n] = ContentNow(n)']
  BY OneShown
<1>2. ContentNow(n)' = IF n.slash THEN Empty ELSE c
  BY <1>1 DEF ContentNow, Write
<1>3. QED
  BY <1>1, <1>2

(* The abstract steps of the edits. *)
LEMMA AddRefines ==
  ASSUME IInv, NEW n \in Name, NEW c \in Content, AddEntry(n, c)
  PROVE  Archive!Add(n, c)
<1>1. View' = [View EXCEPT ![n] = IF n.slash THEN Empty ELSE c]
  BY WriteShown DEF AddEntry
<1>2. (n.slash => c = Empty) /\ ~existsNow(n)
  BY DEF AddEntry
<1>3. View' = [View EXCEPT ![n] = c] /\ View[n] = Absent
  BY <1>1, <1>2, ViewTyped
<1>4. commentNow' = commentNow
  BY DEF AddEntry, commentNow
<1>5. QED
  BY <1>3, <1>4 DEF Archive!Add, Archive!Exists

(* replaceEntry() changes what is shown under its name, as Replace does. *)
LEMMA ReplaceRefines ==
  ASSUME IInv, NEW n \in Name, NEW c \in Content, ReplaceEntry(n, c)
  PROVE  \E d \in Content : Archive!Replace(n, d)
<1>1. View' = [View EXCEPT ![n] = IF n.slash THEN Empty ELSE c]
  BY WriteShown DEF ReplaceEntry
<1>2. View[n] # Absent
  BY ViewTyped DEF ReplaceEntry
<1>3. commentNow' = commentNow
  BY DEF ReplaceEntry, commentNow
<1>4. Archive!Replace(n, IF n.slash THEN Empty ELSE c)
  BY <1>1, <1>2, <1>3 DEF Archive!Replace, Archive!Exists
<1>5. QED
  BY <1>4, ModifierAssumption

(* removeEntry() hides one name and nothing else, as Remove does. *)
LEMMA RemoveRefines ==
  ASSUME IInv, NEW n \in Name, RemoveEntry(n)
  PROVE  Archive!Remove(n)
<1>1. edits'[n] = Gone(n) /\ View' = [View EXCEPT ![n] = ContentNow(n)']
  BY OneShown DEF RemoveEntry
<1>2. ContentNow(n)' = Absent
  BY <1>1 DEF RemoveEntry, Gone, Removed, Untouched, ContentNow, InSource
<1>3. View[n] # Absent
  BY ViewTyped DEF RemoveEntry
<1>4. commentNow' = commentNow
  BY DEF RemoveEntry, commentNow
<1>5. QED
  BY <1>1, <1>2, <1>3, <1>4 DEF Archive!Remove, Archive!Exists

(* renameEntry() moves what is shown, bytes included but for a write that   *)
(* ends up under the name of a directory, as Rename does.                  *)
LEMMA RenameRefines ==
  ASSUME IInv, NEW from \in Name, NEW to \in Name, RenameEntry(from, to)
  PROVE  Archive!Rename(from, finalTo(from, to))
<1>1. PICK ft \in Name : ft = finalTo(from, to)
  BY Target
<1>2. /\ existsNow(from) /\ ~existsNow(ft) /\ file' = file
      /\ edits' = [edits EXCEPT ![ft] = Moved(from), ![from] = Gone(from)]
  BY <1>1 DEF RenameEntry
<1>3. ft # from
  BY <1>2
<1>4. /\ edits'[ft] = Moved(from) /\ edits'[from] = Gone(from)
      /\ \A m \in Name : m # ft /\ m # from => edits'[m] = edits[m]
  BY <1>1, <1>2, <1>3 DEF IInv, TypeOK
<1>5. ContentNow(from)' = Absent
  BY <1>2, <1>4 DEF Gone, Removed, Untouched, ContentNow, InSource
<1>6. \A m \in Name : m # ft /\ m # from => ContentNow(m)' = ContentNow(m)
  BY <1>2, <1>4, SameShown
<1>7. ContentNow(ft)' \in IF ft.slash THEN {ContentNow(from), Empty} ELSE {ContentNow(from)}
  <2>1. CASE edits[from].kind = "none"
    <3>1. edits'[ft] = RawCopy(from)
      BY <1>4, <2>1 DEF Moved
    <3>2. ContentNow(ft)' = Held(file, from)
      BY <1>2, <3>1 DEF ContentNow, RawCopy, Held, HeaderAt, Base
    <3>3. ContentNow(from) = Held(file, from)
      BY <1>2, <2>1 DEF ContentNow, existsNow
    <3>4. QED
      BY <3>2, <3>3
  <2>2. CASE edits[from].kind = "rawCopy"
    <3>1. edits'[ft] = edits[from]
      BY <1>4, <2>2 DEF Moved
    <3>2. ContentNow(ft)' = ContentNow(from)
      BY <1>2, <2>2, <3>1 DEF ContentNow, Held, HeaderAt, Base
    <3>3. QED
      BY <3>2
  <2>3. CASE edits[from].kind = "write"
    <3>1. edits'[ft] = edits[from]
      BY <1>4, <2>3 DEF Moved
    <3>2. ContentNow(ft)' = IF ft.slash THEN Empty ELSE edits[from].data
      BY <2>3, <3>1 DEF ContentNow
    <3>3. ContentNow(from) = IF from.slash THEN Empty ELSE edits[from].data
      BY <2>3 DEF ContentNow
    <3>4. from.slash => ft.slash
      BY <1>1, <2>3 DEF finalTo, fromIsDirectory, Slashed, Name
    <3>5. QED
      BY <3>2, <3>3, <3>4
  <2>4. QED
    BY <1>2, <2>1, <2>2, <2>3, EditKinds DEF existsNow, IInv
<1>8. View' = [View EXCEPT ![from] = Absent, ![ft] = ContentNow(ft)']
  BY <1>1, <1>3, <1>5, <1>6 DEF View
<1>9. View[from] = ContentNow(from) /\ View[from] # Absent /\ View[ft] = Absent
  BY <1>1, <1>2, ViewTyped
<1>10. commentNow' = commentNow
  BY DEF RenameEntry, commentNow
<1>11. QED
  <2>1. \E c \in IF ft.slash THEN {View[from], Empty} ELSE {View[from]} :
           View' = [View EXCEPT ![from] = Absent, ![ft] = c]
    BY <1>7, <1>8, <1>9
  <2>2. QED
    BY <1>1, <1>9, <1>10, <2>1 DEF Archive!Rename, Archive!Exists

(* A save shows, to the session that opens its output, what was shown. *)
LEMMA SaveStutters ==
  ASSUME IInv, NewSession, \A n \in Name : Reads(file', n) = ContentNow(n)
  PROVE  View' = View /\ commentNow' = file'.comment
<1>1. \A n \in Name : ContentNow(n)' = Reads(file', n)
  BY DEF NewSession, NoEdits, Untouched, ContentNow, Reads
<1>2. View' = View
  BY <1>1 DEF View
<1>3. commentNow' = file'.comment
  BY DEF NewSession, commentNow
<1>4. QED
  BY <1>2, <1>3

(* Every step is an abstract step or a stutter. *)
LEMMA NextRefines == IInv /\ [Next]_vars => [Archive!Next]_(Archive!vars)
<1>1. SUFFICES ASSUME IInv, [Next]_vars PROVE [Archive!Next]_(Archive!vars)
  OBVIOUS
<1>2. ASSUME NEW n \in Name, NEW c \in Content, AddEntry(n, c) PROVE Archive!Next
  BY <1>1, <1>2, AddRefines DEF Archive!Next, Name, Archive!Name
<1>3. ASSUME NEW n \in Name, NEW c \in Content, ReplaceEntry(n, c) PROVE Archive!Next
  BY <1>1, <1>3, ReplaceRefines DEF Archive!Next, Name, Archive!Name
<1>4. ASSUME NEW n \in Name, RemoveEntry(n) PROVE Archive!Next
  BY <1>1, <1>4, RemoveRefines DEF Archive!Next, Name, Archive!Name
<1>5. ASSUME NEW from \in Name, NEW to \in Name, RenameEntry(from, to) PROVE Archive!Next
  BY <1>1, <1>5, RenameRefines, Target DEF Archive!Next, Name, Archive!Name
<1>6. ASSUME NEW t \in Comments, SetComment(t) PROVE Archive!Next
  <2>1. commentNow' = t
    BY <1>6, ModifierAssumption DEF SetComment, commentNow
  <2>2. View' = View
    BY <1>6, SameShown DEF SetComment, View
  <2>3. QED
    BY <2>1, <2>2 DEF Archive!Next, Archive!SetRemark
<1>7. CASE SaveUnchanged
  <2>1. View' = View
    BY <1>7, SameShown DEF SaveUnchanged, NothingToSave, NewSession, View
  <2>2. commentNow' = commentNow
    BY <1>7 DEF SaveUnchanged, NothingToSave, NewSession, commentNow
  <2>3. QED
    BY <2>1, <2>2 DEF Archive!vars
<1>8. CASE Save
  <2>1. file' = saved /\ NewSession
    BY <1>8 DEF Save
  <2>2. View' = View /\ commentNow' = commentNow
    BY <1>1, <2>1, SavedReads, SaveStutters
  <2>3. QED
    BY <2>2 DEF Archive!vars
<1>9. ASSUME NEW k \in BOOLEAN, SaveCompact(k) PROVE Archive!Next
  <2>1. file' = compacted(k) /\ NewSession
    BY <1>9 DEF SaveCompact
  <2>2. FileTyped(file') /\ \A n \in Name : Reads(file', n) = ContentNow(n)
    BY <1>1, <2>1, CompactReads
  <2>3. View' = View /\ commentNow' = file'.comment /\ file'.comment \in Comments
    BY <1>1, <2>1, <2>2, SaveStutters DEF FileTyped
  <2>4. QED
    BY <2>3 DEF Archive!Next, Archive!SetRemark
<1>10. CASE UNCHANGED vars
  <2>1. View' = View
    BY <1>10, SameShown DEF vars, View
  <2>2. commentNow' = commentNow
    BY <1>10 DEF vars, commentNow
  <2>3. QED
    BY <2>1, <2>2 DEF Archive!vars
<1>11. QED
  BY <1>1, <1>2, <1>3, <1>4, <1>5, <1>6, <1>7, <1>8, <1>9, <1>10 DEF Next

(* The modifier implements the abstract editing session: an edit changes   *)
(* the names it is given and no other, and no save, through any number of  *)
(* generations, loses, revives or mixes up an entry.                       *)
THEOREM ModifierImplementsArchive == Spec => ImplementsArchive
<1>1. Init => Archive!Init
  BY InitIInv, ViewTyped DEF Archive!Init, Name, Archive!Name
<1>2. QED
  BY <1>1, SessionsInOrder, NextRefines, PTL DEF Spec, ImplementsArchive, Archive!Spec
=============================================================================
