-------------------------- MODULE StreamWriterProofs --------------------------
(***************************************************************************)
(* Proofs about the streaming writer: its types, that it lets go of every  *)
(* source, that it counts what it writes, and that it hands out no chunk   *)
(* after an abort.                                                         *)
(***************************************************************************)
EXTENDS StreamWriter, RecordProofs

Refs == {ref \in SourceRefs : ref.id \in DOMAIN SourceContents}

Ways == {"segment", "ask", "describe", "entryEnd", "read"}
Writers ==
  [at : {"none", "fresh", "segment", "push", "chunk", "finish", "tail", "ask", "wait", "describe",
         "read", "join", "closing", "ended"},
   then : Ways, asked : BOOLEAN, stopping : BOOLEAN,
   outcome : {"none", "aborted", "refused", "returned", "range", "source", "done"},
   planned : Seq(Specs(Refs)), g : Generators(Refs), out : Seq(FileUnits), rest : Nat,
   filled : Nat, yielded : Nat, consumed : Nat, content : Contents, planIndex : Nat,
   bytesIn : Nat, bytesOut : Nat, entriesDone : Nat]
Streams ==
  [at : {"none", "open", "closing", "closed", "aborted", "source", "cancelled"},
   held : Contents, ready : Seq(DataUnits)]
Pumps ==
  [at : {"idle", "next", "write", "close", "done", "failed", "aborted"}, chunk : Contents]
Sources ==
  [left : Contents, next : BOOLEAN, return : BOOLEAN, state : {"unstarted", "open", "closed"}]

Collected ==
  /\ specs \in Seq(Specs(Refs)) /\ names \subseteq Names
  /\ \A i \in 1 .. Len(specs) : specs[i].name \in names
  /\ streaming \in BOOLEAN /\ comment \in Seq(FileUnits)

WellTyped(w) == w \in Writers /\ InRange(w.g)

Typed ==
  /\ Collected
  /\ WellTyped(writer)
  /\ pump \in Pumps /\ cs \in Streams
  /\ sources \in [DOMAIN SourceContents -> Sources]
  /\ aborted \in BOOLEAN

(* Where the writer is, seen from the entry: pushing bytes is on the way   *)
(* to what comes then.                                                     *)
Phase(w) == IF w.at \in {"push", "chunk"} THEN w.then ELSE w.at
Quiet(s) == s.state # "open" /\ ~s.next /\ ~s.return
Active(w) ==
  w.g.at = "entry" /\ Phase(w) \in {"ask", "wait", "describe", "read", "join", "closing"}

Positions(w) ==
  /\ w.at \in {"ask", "wait", "describe", "read", "join", "closing"} => w.g.at = "entry"
  /\ w.at \in {"none", "fresh", "finish", "tail"} => w.g.at # "entry"
  /\ w.at \in {"push", "chunk"} => (w.then = "segment" <=> w.g.at # "entry")
  /\ w.at \in {"segment", "push", "chunk"} => w.g.at # "done"
  /\ w.at = "read" => w.then = "read"
  /\ w.at \notin {"closing", "ended"} => w.outcome = "none"
  /\ w.at = "ended" => w.outcome # "none"
  /\ Phase(w) = "read" => Incremental(w)

(* No source but that of the entry being written is at work. *)
OthersQuiet ==
  \A s \in DOMAIN SourceContents :
    ~(Active(writer) /\ s = SourceOf(writer)) => Quiet(sources[s])
(* And that one is where the writer thinks it is. *)
SourceFits ==
  Active(writer) =>
    LET s == sources[SourceOf(writer)]
    IN  /\ Phase(writer) \in {"ask", "wait", "read"} => ~s.return
        /\ Phase(writer) \in {"describe", "join"} => Quiet(s)
        /\ Phase(writer) = "read" /\ pump.at \in {"close", "done"} => Quiet(s)
(* The pump reads the source of the entry being written, and of no other.  *)
PumpFits ==
  pump.at = "next" =>
    /\ Active(writer) /\ Phase(writer) \in {"read", "closing"}
    /\ sources[SourceOf(writer)].next
    /\ Phase(writer) = "closing" => writer.outcome # "none"
StreamFits ==
  /\ cs.at \in {"open", "closing"} => Active(writer) /\ Phase(writer) = "read"
  /\ cs.at = "closing" => pump.at = "close"
  /\ cs.at = "closed" => pump.at = "done"

Control == Positions(writer) /\ OthersQuiet /\ SourceFits /\ PumpFits /\ StreamFits

(* What is in the buffer, and what has been handed on of it. *)
Chunked(w) ==
  /\ w.filled \in 0 .. ChunkSize
  /\ w.filled < ChunkSize \/ w.at = "chunk" \/ w.outcome # "none"
  /\ w.rest = 0 \/ w.at \in {"push", "chunk"} \/ w.outcome # "none"
  /\ w.rest <= Length(w.out)
  /\ w.outcome = "none" =>
       Length(w.out) = w.bytesOut + w.rest + (IF w.at \in {"chunk", "tail"} THEN 0 ELSE w.filled)
  /\ w.outcome = "done" => Length(w.out) = w.bytesOut

(* The uncompressed bytes of the first k entries. *)
PlanSize(plan) == plan.uncompressedSize
DoneBytes(plans, k) == SumOf(PlanSize, SubSeq(plans, 1, k))

(* A plan names no segment before the last one of its entry is pushed, so  *)
(* that no other segment counts as the end of the entry.                   *)
EmittingSegment(w) == w.at \in {"push", "chunk"} /\ w.then = "segment"
Marking(w) ==
  LET g == w.g
  IN  /\ \A k \in 1 .. Len(g.plans) :
           k > w.planIndex /\ ~(EmittingSegment(w) /\ k = g.i) => g.plans[k].emitted = None
      /\ EmittingSegment(w) /\ g.at \in InEntries =>
           g.plans[g.i].emitted =
             IF g.at = "payload" \/ HeaderOnly(g) THEN Identity(g) ELSE None

Begun(w) == w.g.at = "entry" /\ w.at # "segment"
Got(w) == IF Begun(w) THEN ContentSize(w.content) ELSE 0
Complete(w) == w.g.at = "entry" /\ Phase(w) \in {"describe", "entryEnd", "closing"}

(* The entries counted are those in front of where the generator is, and   *)
(* the bytes counted are theirs and what the entry being written has got.  *)
Counting(w) ==
  LET g == w.g
  IN  /\ w.entriesDone = w.planIndex
      /\ w.at \in {"none", "fresh"} => g.plans = <<>>
      /\ g.at \in InEntries => w.planIndex = g.i - 1
      /\ g.at \notin InEntries =>
           w.planIndex = Len(g.plans) /\ w.bytesIn = DoneBytes(g.plans, Len(g.plans))
      /\ w.outcome = "none" =>
           /\ Marking(w)
           /\ g.at \in InEntries => w.bytesIn = DoneBytes(g.plans, w.planIndex) + Got(w)
           /\ Complete(w) => g.plans[g.i].uncompressedSize = ContentSize(w.content)

Accounts == Chunked(writer) /\ Counting(writer)

-----------------------------------------------------------------------------
(* What the writer's operators make of it.                                 *)

(* A plan that differs in its sizes and its CRC only. *)
Alike(p, q) ==
  /\ q.source = p.source /\ q.method = p.method /\ q.deterministic = p.deterministic
  /\ q.payload = p.payload /\ q.emitted = p.emitted
SameEntry(g, h) ==
  /\ h.at = g.at /\ h.i = g.i /\ Len(h.plans) = Len(g.plans)
  /\ \A k \in 1 .. Len(g.plans) :
       Alike(g.plans[k], h.plans[k]) /\ (k # g.i => h.plans[k] = g.plans[k])

(* Inside a stream entry there is a plan, with a source. *)
LEMMA EntryFacts ==
  ASSUME NEW w, WellTyped(w), w.g.at = "entry"
  PROVE  /\ w.g.i \in 1 .. Len(w.g.plans) /\ Current(w) \in Plans(Refs)
         /\ SourceOf(w) \in DOMAIN SourceContents
<1>1. w.g \in Generators(Refs) /\ InRange(w.g)
  BY DEF WellTyped, Writers
<1>2. w.g.i \in 1 .. Len(w.g.plans) /\ isStream(w.g.plans[w.g.i])
  BY <1>1 DEF InRange, InEntries
<1>3. w.g.plans[w.g.i] \in Plans(Refs)
  BY <1>1, <1>2 DEF Generators
<1>4. w.g.plans[w.g.i].source \in Refs
  BY <1>2, <1>3 DEF Plans, isStream
<1>5. QED
  BY <1>2, <1>3, <1>4 DEF Current, SourceOf, Refs

(* Writers in the same entry read the same source, in the same way. *)
LEMMA SameEntryFacts ==
  ASSUME NEW v, NEW w, WellTyped(w), w.g.at = "entry", SameEntry(w.g, v.g)
  PROVE  SourceOf(v) = SourceOf(w) /\ Incremental(v) = Incremental(w)
<1>1. w.g.i \in 1 .. Len(w.g.plans)
  BY EntryFacts
<1>2. Alike(w.g.plans[w.g.i], v.g.plans[v.g.i])
  BY <1>1 DEF SameEntry
<1>3. QED
  BY <1>2 DEF Alike, SourceOf, Incremental, Current

(* Replacing the current plan by one that is alike. *)
LEMMA PlanReplaced ==
  ASSUME NEW g \in Generators(Refs), InRange(g), g.at = "entry",
         NEW p \in Plans(Refs), Alike(g.plans[g.i], p)
  PROVE  LET h == [g EXCEPT !.plans = [g.plans EXCEPT ![g.i] = p]]
         IN  /\ h \in Generators(Refs) /\ InRange(h) /\ SameEntry(g, h)
             /\ h.plans[g.i] = p
<1> DEFINE h == [g EXCEPT !.plans = [g.plans EXCEPT ![g.i] = p]]
<1>1. g.i \in 1 .. Len(g.plans) /\ g.plans \in Seq(Plans(Refs)) /\ isStream(g.plans[g.i])
  BY DEF InRange, InEntries, Generators
<1>2. /\ [g.plans EXCEPT ![g.i] = p] \in Seq(Plans(Refs))
      /\ Len([g.plans EXCEPT ![g.i] = p]) = Len(g.plans)
  BY <1>1
<1>3. h \in Generators(Refs)
  BY <1>2, Zenon DEF Generators
<1>4. /\ h.at = g.at /\ h.i = g.i /\ h.offsets = g.offsets
      /\ h.plans = [g.plans EXCEPT ![g.i] = p]
  BY DEF Generators
<1>5. \A k \in 1 .. Len(g.plans) : h.plans[k] = IF k = g.i THEN p ELSE g.plans[k]
  BY <1>1, <1>4
<1> HIDE DEF h
<1>6. isStream(p)
  BY <1>1 DEF Alike, isStream
<1>7. InRange(h)
  BY <1>1, <1>2, <1>4, <1>5, <1>6 DEF InRange, InEntries
<1>8. SameEntry(g, h)
  <2>1. ASSUME NEW k \in 1 .. Len(g.plans)
        PROVE Alike(g.plans[k], h.plans[k]) /\ (k # g.i => h.plans[k] = g.plans[k])
    BY <1>5 DEF Alike
  <2>2. QED
    BY <1>2, <1>4, <2>1 DEF SameEntry
<1>9. QED
  BY <1>1, <1>3, <1>5, <1>7, <1>8 DEF h

(* The writer with another content and generator, and on its way to push.  *)
Reading(w, content, h) == [w EXCEPT !.content = content, !.g = h]
AtPush(w, then, h, out, rest, consumed) ==
  [w EXCEPT !.at = "push", !.then = then, !.g = h, !.out = out, !.rest = rest,
            !.consumed = consumed]

(* What the writer is otherwise stays. *)
LEMMA ReadingFields ==
  ASSUME NEW w \in Writers, NEW content, NEW h
  PROVE  LET v == Reading(w, content, h)
         IN  /\ v.content = content /\ v.g = h
             /\ v.at = w.at /\ v.then = w.then /\ v.asked = w.asked /\ v.stopping = w.stopping
             /\ v.outcome = w.outcome /\ v.planned = w.planned /\ v.out = w.out
             /\ v.rest = w.rest /\ v.filled = w.filled /\ v.yielded = w.yielded
             /\ v.consumed = w.consumed /\ v.planIndex = w.planIndex /\ v.bytesIn = w.bytesIn
             /\ v.bytesOut = w.bytesOut /\ v.entriesDone = w.entriesDone
BY DEF Reading, Writers

(* What the writer is otherwise stays. *)
LEMMA AtPushFields ==
  ASSUME NEW w \in Writers, NEW then, NEW h, NEW out, NEW rest, NEW consumed
  PROVE  LET v == AtPush(w, then, h, out, rest, consumed)
         IN  /\ v.at = "push" /\ v.then = then /\ v.g = h /\ v.out = out /\ v.rest = rest
             /\ v.consumed = consumed /\ v.asked = w.asked /\ v.stopping = w.stopping
             /\ v.outcome = w.outcome /\ v.planned = w.planned
             /\ v.filled = w.filled /\ v.yielded = w.yielded /\ v.content = w.content
             /\ v.planIndex = w.planIndex /\ v.bytesIn = w.bytesIn
             /\ v.bytesOut = w.bytesOut /\ v.entriesDone = w.entriesDone
BY DEF AtPush, Writers

(* Taking down the sizes so far changes the plan of this entry only. *)
LEMMA SizedIs ==
  ASSUME NEW w, WellTyped(w), w.g.at = "entry", NEW content \in Contents, NEW n \in Nat
  PROVE  LET v == Sized(w, content, n)
         IN  /\ WellTyped(v) /\ SameEntry(w.g, v.g)
             /\ v.g.plans[v.g.i].uncompressedSize = ContentSize(content)
             /\ v = Reading(w, content, v.g)
<1> DEFINE g == w.g
<1> DEFINE p == [g.plans[g.i] EXCEPT !.uncompressedSize = ContentSize(content),
                                     !.compressedSize = n]
<1> DEFINE h == [g EXCEPT !.plans = [g.plans EXCEPT ![g.i] = p]]
<1> DEFINE v == Sized(w, content, n)
<1>0. w \in Writers /\ g \in Generators(Refs) /\ InRange(g)
  BY DEF WellTyped, Writers
<1>1. g.i \in 1 .. Len(g.plans) /\ g.plans[g.i] \in Plans(Refs)
  BY EntryFacts DEF Current
<1>2. ContentSize(content) \in Nat
  BY ContentSizeNat
<1>3. p \in Plans(Refs) /\ Alike(g.plans[g.i], p) /\ p.uncompressedSize = ContentSize(content)
  <2>1. p \in Plans(Refs)
    BY <1>1, <1>2, Zenon DEF Plans
  <2>2. QED
    BY <1>1, <2>1 DEF Alike, Plans
<1>4. v = [w EXCEPT !.content = content, !.g = h]
  BY <1>0, <1>1 DEF Sized, Writers, Generators
<1> HIDE DEF p
<1>5. h \in Generators(Refs) /\ InRange(h) /\ SameEntry(g, h) /\ h.plans[g.i] = p
  BY <1>0, <1>3, PlanReplaced
<1> HIDE DEF h
<1>6. v \in Writers
  BY <1>0, <1>4, <1>5, Zenon DEF Writers
<1>7. v.g = h /\ v = Reading(w, content, h)
  BY <1>0, <1>4 DEF Writers, Reading
<1> HIDE DEF v
<1>8. v.g.i = g.i
  BY <1>5, <1>7 DEF SameEntry
<1>9. QED
  BY <1>3, <1>5, <1>6, <1>7, <1>8 DEF WellTyped, v

(* A writer on its way to push is one. *)
LEMMA AtPushTyped ==
  ASSUME NEW w \in Writers, NEW then \in Ways, NEW h \in Generators(Refs), InRange(h),
         NEW out \in Seq(FileUnits), NEW rest \in Nat, NEW consumed \in Nat
  PROVE  WellTyped(AtPush(w, then, h, out, rest, consumed))
<1>1. AtPush(w, then, h, out, rest, consumed) \in Writers
  BY Zenon DEF AtPush, Writers
<1>2. QED
  BY <1>1, AtPushFields DEF WellTyped

(* Units to push lengthen what is put out by what is left to push. *)
LEMMA PushingIs ==
  ASSUME NEW w, WellTyped(w), NEW units \in Seq(FileUnits), NEW then \in Ways
  PROVE  LET v == Pushing(w, units, then)
         IN  /\ WellTyped(v) /\ v.rest \in Nat
             /\ Length(v.out) = Length(w.out) + v.rest
             /\ v = AtPush(w, then, w.g, v.out, v.rest, w.consumed)
<1> DEFINE v == Pushing(w, units, then)
<1>0. /\ w \in Writers /\ w.out \in Seq(FileUnits) /\ w.consumed \in Nat
      /\ w.g \in Generators(Refs) /\ InRange(w.g)
  BY DEF WellTyped, Writers
<1>1. w.out \o units \in Seq(FileUnits) /\ Length(units) \in Nat
      /\ Length(w.out \o units) = Length(w.out) + Length(units)
  BY <1>0, LengthConcat, LengthNat
<1>2. v = AtPush(w, then, w.g, w.out \o units, Length(units), w.consumed)
  BY <1>0 DEF Pushing, AtPush, Writers
<1>3. WellTyped(v)
  BY <1>0, <1>1, <1>2, AtPushTyped
<1>4. v.out = w.out \o units /\ v.rest = Length(units)
  BY <1>0, <1>2 DEF Writers, AtPush
<1> HIDE DEF v
<1>5. QED
  BY <1>1, <1>2, <1>3, <1>4 DEF v

(* So does a piece of a stream entry, which counts as consumed. *)
LEMMA PieceIs ==
  ASSUME NEW w, WellTyped(w), NEW units \in Seq(FileUnits), NEW then \in Ways
  PROVE  LET v == Piece(w, units, then)
         IN  /\ WellTyped(v) /\ v.rest \in Nat
             /\ Length(v.out) = Length(w.out) + v.rest
             /\ v = AtPush(w, then, w.g, v.out, v.rest, v.consumed)
<1> DEFINE v == Piece(w, units, then)
<1>0. /\ w \in Writers /\ w.out \in Seq(FileUnits) /\ w.consumed \in Nat
      /\ w.g \in Generators(Refs) /\ InRange(w.g)
  BY DEF WellTyped, Writers
<1>1. w.out \o units \in Seq(FileUnits) /\ Length(units) \in Nat
      /\ Length(w.out \o units) = Length(w.out) + Length(units)
  BY <1>0, LengthConcat, LengthNat
<1>2. w.consumed + Length(units) \in Nat
  BY <1>0, <1>1
<1>3. v = AtPush(w, then, w.g, w.out \o units, Length(units), w.consumed + Length(units))
  BY <1>0 DEF Piece, Pushing, AtPush, Writers
<1>4. WellTyped(v)
  BY <1>0, <1>1, <1>2, <1>3, AtPushTyped
<1>5. v.out = w.out \o units /\ v.rest = Length(units) /\ v.consumed = w.consumed + Length(units)
  BY <1>0, <1>3 DEF Writers, AtPush
<1> HIDE DEF v
<1>6. QED
  BY <1>1, <1>3, <1>4, <1>5 DEF v

(* So does the descriptor, with the sizes in the plan. *)
LEMMA DescriptorIs ==
  ASSUME NEW w, WellTyped(w), w.g.at = "entry"
  PROVE  LET v == Descriptor(w)
         IN  /\ WellTyped(v) /\ SameEntry(w.g, v.g)
             /\ v.g.plans[v.g.i].uncompressedSize = Current(w).uncompressedSize
             /\ v.rest \in Nat /\ Length(v.out) = Length(w.out) + v.rest
             /\ v = AtPush(w, "entryEnd", v.g, v.out, v.rest, v.consumed)
<1> DEFINE g == w.g
<1> DEFINE plan == Current(w)
<1> DEFINE p == [g.plans[g.i] EXCEPT !.crc = w.content]
<1> DEFINE h == [g EXCEPT !.plans = [g.plans EXCEPT ![g.i] = p]]
<1> DEFINE u == [w EXCEPT !.g.plans[w.g.i].crc = w.content]
<1> DEFINE units == <<writeDataDescriptor(w.content, plan.compressedSize, plan.uncompressedSize,
                                          plan.zip64)>>
<1> DEFINE v == Piece(u, units, "entryEnd")
<1>0. w \in Writers /\ g \in Generators(Refs) /\ InRange(g) /\ w.content \in Contents
  BY DEF WellTyped, Writers
<1>1. g.i \in 1 .. Len(g.plans) /\ g.plans[g.i] \in Plans(Refs) /\ plan = g.plans[g.i]
  BY EntryFacts DEF Current
<1>2. p \in Plans(Refs) /\ Alike(g.plans[g.i], p) /\ p.uncompressedSize = plan.uncompressedSize
  <2>1. p \in Plans(Refs)
    BY <1>0, <1>1, Zenon DEF Plans
  <2>2. QED
    BY <1>1, <2>1 DEF Alike, Plans
<1>3. u = [w EXCEPT !.g = h]
  BY <1>0, <1>1 DEF Writers, Generators
<1>4. units \in Seq(FileUnits)
  <2>1. /\ plan.compressedSize \in Nat /\ plan.uncompressedSize \in Nat
        /\ plan.zip64 \in BOOLEAN
    BY <1>1 DEF Plans
  <2>2. U32(plan.compressedSize) \in Nat /\ U32(plan.uncompressedSize) \in Nat
    BY <2>1, FieldTypes
  <2>3. writeDataDescriptor(w.content, plan.compressedSize, plan.uncompressedSize, plan.zip64)
          \in Descriptors
    BY <1>0, <2>1, <2>2 DEF writeDataDescriptor, Descriptors
  <2>4. QED
    BY <2>3, Singleton DEF FileUnits
<1> HIDE DEF p, units
<1>5. h \in Generators(Refs) /\ InRange(h) /\ SameEntry(g, h) /\ h.plans[g.i] = p
  BY <1>0, <1>2, PlanReplaced
<1> HIDE DEF h
<1>6. u \in Writers /\ u.g = h /\ u.out = w.out
  <2>1. u \in Writers
    BY <1>0, <1>3, <1>5, Zenon DEF Writers
  <2>2. QED
    BY <1>0, <1>3, <2>1 DEF Writers
<1>7. Descriptor(w) = v
  BY DEF Descriptor, units
<1> HIDE DEF u
<1>8. WellTyped(u) /\ "entryEnd" \in Ways
  BY <1>5, <1>6 DEF WellTyped, Ways
<1>9. /\ WellTyped(v) /\ v.rest \in Nat /\ Length(v.out) = Length(u.out) + v.rest
      /\ v = AtPush(u, "entryEnd", u.g, v.out, v.rest, v.consumed)
  BY <1>4, <1>8, PieceIs
<1> HIDE DEF v
<1>10. v = AtPush(w, "entryEnd", h, v.out, v.rest, v.consumed)
  <2>1. ASSUME NEW out, NEW rest, NEW consumed
        PROVE AtPush(u, "entryEnd", u.g, out, rest, consumed)
              = AtPush(w, "entryEnd", h, out, rest, consumed)
    BY <1>0, <1>3, <1>6 DEF Writers, AtPush
  <2>2. QED
    BY <1>9, <2>1
<1>11. v.g = h /\ v.g.i = g.i
  BY <1>0, <1>5, <1>10, AtPushFields DEF SameEntry
<1>12. QED
  BY <1>2, <1>5, <1>6, <1>7, <1>9, <1>10, <1>11

(* The writer once its buffer has taken in what it was pushing. *)
Moved(w, at, h, filled, index, done, bytes) ==
  [w EXCEPT !.at = at, !.g = h, !.rest = 0, !.filled = filled, !.planIndex = index,
            !.entriesDone = done, !.bytesIn = bytes]
Places ==
  {"none", "fresh", "segment", "push", "chunk", "finish", "tail", "ask", "wait", "describe",
   "read", "join", "closing", "ended"}

(* What the writer is otherwise stays. *)
LEMMA MovedFields ==
  ASSUME NEW w \in Writers, NEW at, NEW h, NEW filled, NEW index, NEW done, NEW bytes
  PROVE  LET v == Moved(w, at, h, filled, index, done, bytes)
         IN  /\ v.at = at /\ v.g = h /\ v.rest = 0 /\ v.filled = filled
             /\ v.planIndex = index /\ v.entriesDone = done /\ v.bytesIn = bytes
             /\ v.then = w.then /\ v.asked = w.asked /\ v.stopping = w.stopping
             /\ v.outcome = w.outcome /\ v.planned = w.planned /\ v.out = w.out
             /\ v.yielded = w.yielded /\ v.consumed = w.consumed /\ v.content = w.content
             /\ v.bytesOut = w.bytesOut
BY DEF Moved, Writers

(* A writer that has moved on is one. *)
LEMMA MovedTyped ==
  ASSUME NEW w \in Writers, NEW at \in Places, NEW h \in Generators(Refs), InRange(h),
         NEW filled \in Nat, NEW index \in Nat, NEW done \in Nat, NEW bytes \in Nat
  PROVE  WellTyped(Moved(w, at, h, filled, index, done, bytes))
<1>1. 0 \in Nat
  OBVIOUS
<1>2. Moved(w, at, h, filled, index, done, bytes) \in Writers
  BY <1>1, Zenon DEF Moved, Writers, Places
<1>3. QED
  BY <1>2, MovedFields DEF WellTyped

(* The segment pushed is the one that the next plan names. *)
Matching(w) ==
  w.planIndex < Len(w.g.plans) /\ w.g.plans[w.planIndex + 1].emitted = Identity(w.g)
NextSize(w) == w.g.plans[w.planIndex + 1].uncompressedSize

(* After a segment the generator goes on; the last of an entry counts. *)
LEMMA PushedSegment ==
  ASSUME WellTyped(writer), writer.g.at # "done", writer.then = "segment", NEW filled \in Nat
  PROVE  LET v == Pushed(filled)
             h == Resumed(writer.g, 0)
         IN  /\ WellTyped(v)
             /\ v = Moved(writer, IF h.at = "done" THEN "finish" ELSE "segment", h, filled,
                          v.planIndex, v.entriesDone, v.bytesIn)
             /\ IF Matching(writer)
                THEN /\ v.planIndex = writer.planIndex + 1
                     /\ v.entriesDone = writer.entriesDone + 1
                     /\ v.bytesIn = writer.bytesIn + NextSize(writer)
                ELSE /\ v.planIndex = writer.planIndex /\ v.entriesDone = writer.entriesDone
                     /\ v.bytesIn = writer.bytesIn
<1> DEFINE v == Pushed(filled)
<1> DEFINE h == Resumed(writer.g, 0)
<1> DEFINE at == IF h.at = "done" THEN "finish" ELSE "segment"
<1> DEFINE w == [writer EXCEPT !.rest = 0, !.filled = filled]
<1>0. /\ writer \in Writers /\ writer.g \in Generators(Refs) /\ InRange(writer.g)
      /\ writer.planIndex \in Nat /\ writer.entriesDone \in Nat /\ writer.bytesIn \in Nat
  BY DEF WellTyped, Writers
<1>1. h \in Generators(Refs) /\ InRange(h) /\ at \in Places
  <2>1. 0 \in Nat /\ Well(writer.g, Refs)
    BY <1>0 DEF Well
  <2>2. Well(h, Refs)
    BY <2>1, ResumedWell
  <2>3. QED
    BY <2>2 DEF Well, Places
<1>2. /\ w \in Writers /\ w.g = writer.g /\ w.planIndex = writer.planIndex /\ w.then = "segment"
      /\ w.entriesDone = writer.entriesDone /\ w.bytesIn = writer.bytesIn
  <2>1. 0 \in Nat
    OBVIOUS
  <2>2. w \in Writers
    BY <1>0, <2>1, Zenon DEF Writers
  <2>3. QED
    BY <1>0, <2>2 DEF Writers
<1>3. v = Advanced(Matched(w), 0)
  BY <1>2 DEF Pushed
<1>4. CASE Matching(writer)
  <2> DEFINE index == writer.planIndex + 1
  <2> DEFINE done == writer.entriesDone + 1
  <2> DEFINE bytes == writer.bytesIn + NextSize(writer)
  <2>1. writer.planIndex + 1 \in 1 .. Len(writer.g.plans)
    BY <1>0, <1>4 DEF Matching
  <2>2. writer.g.plans[writer.planIndex + 1] \in Plans(Refs)
    BY <1>0, <2>1 DEF Generators
  <2>3. NextSize(writer) \in Nat
    BY <2>2 DEF Plans, NextSize
  <2>4. index \in Nat /\ done \in Nat /\ bytes \in Nat
    BY <1>0, <2>3
  <2>5. Matched(w) = [w EXCEPT !.bytesIn = bytes, !.entriesDone = done, !.planIndex = index]
    <3>1. Matched(w) = [w EXCEPT !.bytesIn = @ + NextSize(w), !.entriesDone = @ + 1,
                                 !.planIndex = @ + 1]
      BY <1>2, <1>4 DEF Matched, Matching, Count, NextSize
    <3>2. NextSize(w) = NextSize(writer)
      BY <1>2 DEF NextSize
    <3>3. QED
      BY <1>2, <3>1, <3>2
  <2> HIDE DEF index, done, bytes, h
  <2>6. v = Moved(writer, at, h, filled, index, done, bytes)
    <3>1. v = [Matched(w) EXCEPT !.g = h, !.at = at]
      BY <1>3 DEF Advanced, h
    <3>2. {"bytesIn", "entriesDone", "planIndex", "rest", "filled", "g", "at"} \subseteq DOMAIN writer
      BY <1>0 DEF Writers
    <3>3. QED
      BY <2>5, <3>1, <3>2 DEF Moved
  <2>7. WellTyped(v)
    BY <1>0, <1>1, <2>4, <2>6, MovedTyped
  <2>8. v.planIndex = index /\ v.entriesDone = done /\ v.bytesIn = bytes
    BY <1>0, <2>6, MovedFields
  <2> HIDE DEF v
  <2>9. QED
    BY <1>4, <2>6, <2>7, <2>8 DEF v, index, done, bytes, h
<1>5. CASE ~Matching(writer)
  <2>1. Matched(w) = w
    BY <1>2, <1>5 DEF Matched, Matching, Count
  <2> HIDE DEF h
  <2>2. v = Moved(writer, at, h, filled, writer.planIndex, writer.entriesDone, writer.bytesIn)
    <3>1. v = [Matched(w) EXCEPT !.g = h, !.at = at]
      BY <1>3 DEF Advanced, h
    <3>2. {"bytesIn", "entriesDone", "planIndex", "rest", "filled", "g", "at"} \subseteq DOMAIN writer
      BY <1>0 DEF Writers
    <3> DEFINE kept == Moved(writer, at, h, filled, writer.planIndex, writer.entriesDone, writer.bytesIn)
    <3>3. DOMAIN v = DOMAIN writer /\ DOMAIN kept = DOMAIN writer
      BY <2>1, <3>1 DEF Moved
    <3>4. ASSUME NEW x \in DOMAIN writer PROVE v[x] = kept[x]
      BY <2>1, <3>1, <3>2 DEF Moved
    <3>5. v = [x \in DOMAIN v |-> v[x]] /\ kept = [x \in DOMAIN kept |-> kept[x]]
      BY <3>1 DEF Moved
    <3> HIDE DEF v, kept
    <3>6. QED
      BY <3>3, <3>4, <3>5 DEF kept
  <2>3. WellTyped(v)
    BY <1>0, <1>1, <2>2, MovedTyped, Z3
  <2>4. /\ v.planIndex = writer.planIndex /\ v.entriesDone = writer.entriesDone
        /\ v.bytesIn = writer.bytesIn
    BY <1>0, <2>2, MovedFields
  <2> HIDE DEF v
  <2>5. QED
    BY <1>5, <2>2, <2>3, <2>4 DEF v, h
<1>6. QED
  BY <1>4, <1>5

(* After the last byte of a stream entry it counts, and the next begins. *)
LEMMA PushedEntry ==
  ASSUME WellTyped(writer), writer.g.at # "done", writer.then = "entryEnd", NEW filled \in Nat
  PROVE  LET h == Resumed(writer.g, writer.consumed)
             v == Pushed(filled)
         IN  /\ WellTyped(v)
             /\ v = Moved(writer, IF h.at = "done" THEN "finish" ELSE "segment", h, filled,
                          writer.planIndex + 1, writer.entriesDone + 1, writer.bytesIn)
<1> DEFINE v == Pushed(filled)
<1> DEFINE h == Resumed(writer.g, writer.consumed)
<1> DEFINE at == IF h.at = "done" THEN "finish" ELSE "segment"
<1> DEFINE w == [writer EXCEPT !.rest = 0, !.filled = filled]
<1>0. /\ writer \in Writers /\ writer.g \in Generators(Refs) /\ InRange(writer.g)
      /\ writer.planIndex \in Nat /\ writer.entriesDone \in Nat /\ writer.bytesIn \in Nat
      /\ writer.consumed \in Nat
  BY DEF WellTyped, Writers
<1>1. h \in Generators(Refs) /\ InRange(h) /\ at \in Places
  <2>1. Well(writer.g, Refs)
    BY <1>0 DEF Well
  <2>2. Well(h, Refs)
    BY <1>0, <2>1, ResumedWell
  <2>3. QED
    BY <2>2 DEF Well, Places
<1>2. /\ w.then = "entryEnd" /\ w.consumed = writer.consumed
      /\ w.planIndex = writer.planIndex /\ w.entriesDone = writer.entriesDone
  BY <1>0 DEF Writers
<1>3. v = Advanced([w EXCEPT !.entriesDone = @ + 1, !.planIndex = @ + 1], w.consumed)
  BY <1>2 DEF Pushed
<1> HIDE DEF h
<1>4. v = Moved(writer, at, h, filled, writer.planIndex + 1, writer.entriesDone + 1, writer.bytesIn)
  <2> DEFINE u == [w EXCEPT !.entriesDone = @ + 1, !.planIndex = @ + 1]
  <2>1. v = [u EXCEPT !.g = h, !.at = at]
    <3> HIDE DEF v, w
    <3>1. v = Advanced(u, writer.consumed)
      BY <1>2, <1>3
    <3> HIDE DEF u
    <3>2. QED
      BY <3>1, Zenon DEF Advanced, h
  <2>2. u = [writer EXCEPT !.rest = 0, !.filled = filled, !.planIndex = writer.planIndex + 1,
                           !.entriesDone = writer.entriesDone + 1]
    BY <1>0 DEF Writers
  <2> HIDE DEF u, v, w, at
  <2>3. QED
    BY <1>0, <2>1, <2>2 DEF Moved, Writers
<1>5. writer.planIndex + 1 \in Nat /\ writer.entriesDone + 1 \in Nat
  BY <1>0
<1>6. WellTyped(v)
  BY <1>0, <1>1, <1>4, <1>5, MovedTyped
<1> HIDE DEF v
<1>7. QED
  BY <1>4, <1>6 DEF v, h

(* After any other piece of a stream entry nothing else changes. *)
LEMMA PushedOther ==
  ASSUME WellTyped(writer), writer.then \notin {"segment", "entryEnd"}, NEW filled \in Nat
  PROVE  LET v == Pushed(filled)
         IN  /\ WellTyped(v)
             /\ v = Moved(writer, writer.then, writer.g, filled, writer.planIndex,
                          writer.entriesDone, writer.bytesIn)
<1> DEFINE v == Pushed(filled)
<1>0. /\ writer \in Writers /\ writer.g \in Generators(Refs) /\ InRange(writer.g)
      /\ writer.planIndex \in Nat /\ writer.entriesDone \in Nat /\ writer.bytesIn \in Nat
      /\ writer.then \in Places
  BY DEF WellTyped, Writers, Ways, Places
<1>1. v = Moved(writer, writer.then, writer.g, filled, writer.planIndex, writer.entriesDone,
                writer.bytesIn)
  BY <1>0 DEF Pushed, Moved, Writers
<1>2. WellTyped(v)
  BY <1>0, <1>1, MovedTyped
<1> HIDE DEF v
<1>3. QED
  BY <1>1, <1>2 DEF v

-----------------------------------------------------------------------------
(* The collector: what is added is of its type, and its name is taken.     *)

Callable(call) ==
  /\ finalName(call.name, call.directory) \in Names
  /\ call.raw \in Raws \cup {None} /\ call.source \in Refs \cup {None}
  /\ call.attributes \in STRING /\ call.pinned \in BOOLEAN /\ call.extra \in Seq(ExtraFields)
  /\ call.comment \in Nat /\ call.content \in Contents /\ call.method \in {"store", "deflate"}
  /\ call.deterministic \in BOOLEAN

(* Every call the caller may make is callable. *)
LEMMA CallsCallable == ASSUME NEW call \in Calls PROVE Callable(call)
<1>1. /\ call.raw \in Raws \cup {None} /\ call.source \in SourceRefs \cup {None}
      /\ call.attributes \in STRING /\ call.pinned \in BOOLEAN /\ call.extra \in Seq(ExtraFields)
      /\ call.comment \in Nat /\ call.content \in Contents /\ call.method \in {"store", "deflate"}
      /\ call.deterministic \in BOOLEAN
  BY CallsAssumption
<1>2. call.source \in Refs \cup {None}
  BY <1>1, WriterAssumption DEF Refs
<1>3. finalName(call.name, call.directory) \in Names
  BY CallsAssumption
<1>4. QED
  BY <1>1, <1>2, <1>3 DEF Callable

(* A call that is accepted makes an entry of the name it takes. *)
LEMMA SpecTyped ==
  ASSUME NEW call, Callable(call), NEW name \in Names, Admissible(call, name)
  PROVE  SpecOf(call, name) \in Specs(Refs) /\ SpecOf(call, name).name = name
<1>1. call.raw \in GoodRaws \cup {None}
  <2>1. CASE call.raw = None
    BY <2>1
  <2>2. CASE call.raw # None
    <3>1. call.raw \in Raws /\ call.raw.method \in Nat /\ call.raw.uncompressedSize \in Nat
      BY <2>2 DEF Callable, Admissible, RawAccepted
    <3>2. QED
      BY <3>1 DEF Raws, GoodRaws
  <2>3. QED
    BY <2>1, <2>2
<1>2. /\ call.source \in Refs \cup {None}
      /\ call.attributes \in STRING /\ call.pinned \in BOOLEAN /\ call.extra \in Seq(ExtraFields)
      /\ call.comment \in Nat /\ call.content \in Contents /\ call.method \in {"store", "deflate"}
      /\ call.deterministic \in BOOLEAN
  BY DEF Callable
<1>3. (IF call.directory THEN <<>> ELSE call.content) \in Contents
  BY <1>2, ContentSizeEmpty
<1>4. (IF call.directory THEN "store" ELSE call.method) \in {"store", "deflate"}
  BY <1>2
<1>5. QED
  BY <1>1, <1>2, <1>3, <1>4 DEF SpecOf, Specs

(* An adding call keeps the collector typed, accepted or refused. *)
LEMMA MakeSpecKeeps ==
  ASSUME Collected, NEW call, Callable(call), makeSpec(call),
         streaming' \in BOOLEAN, comment' \in Seq(FileUnits)
  PROVE  Collected'
<1> DEFINE name == finalName(call.name, call.directory)
<1>0. name \in Names
  BY DEF Callable
<1>1. /\ specs \in Seq(Specs(Refs)) /\ names \subseteq Names
      /\ \A i \in 1 .. Len(specs) : specs[i].name \in names
  BY DEF Collected
<1>2. /\ names' = IF Admissible(call, name) THEN names \union {name} ELSE names
      /\ specs' = IF Admissible(call, name) /\ call.level # "invalid"
                  THEN Append(specs, SpecOf(call, name)) ELSE specs
  BY DEF makeSpec
<1> HIDE DEF name
<1>3. names \subseteq names' /\ names' \subseteq Names
  BY <1>0, <1>1, <1>2
<1>4. CASE specs' = specs
  BY <1>1, <1>3, <1>4 DEF Collected
<1>5. CASE specs' # specs
  <2>1. /\ Admissible(call, name) /\ specs' = Append(specs, SpecOf(call, name))
        /\ name \in names'
    BY <1>2, <1>5
  <2>2. SpecOf(call, name) \in Specs(Refs) /\ SpecOf(call, name).name = name
    BY <1>0, <2>1, SpecTyped
  <2> DEFINE spec == SpecOf(call, name)
  <2> HIDE DEF spec
  <2>3. specs' \in Seq(Specs(Refs)) /\ Len(specs') = Len(specs) + 1
        /\ \A i \in 1 .. Len(specs) + 1 :
             specs'[i] = IF i = Len(specs) + 1 THEN spec ELSE specs[i]
    <3> DEFINE E == Specs(Refs)
    <3>1. spec \in E /\ specs \in Seq(E) /\ specs' = Append(specs, spec)
      BY <1>1, <2>1, <2>2 DEF spec
    <3> HIDE DEF E
    <3>2. specs' \in Seq(E) /\ Len(specs') = Len(specs) + 1
          /\ \A i \in 1 .. Len(specs) + 1 :
               specs'[i] = IF i = Len(specs) + 1 THEN spec ELSE specs[i]
      BY <3>1
    <3>3. QED
      BY <3>2 DEF E
  <2>4. ASSUME NEW i \in 1 .. Len(specs') PROVE specs'[i].name \in names'
    <3>1. CASE i = Len(specs) + 1
      BY <2>1, <2>2, <2>3, <3>1 DEF spec
    <3>2. CASE i # Len(specs) + 1
      <4>1. i \in 1 .. Len(specs)
        BY <1>1, <2>3, <3>2
      <4>2. QED
        BY <1>1, <1>3, <2>3, <3>2, <4>1
    <3>3. QED
      BY <3>1, <3>2
  <2>5. QED
    BY <1>3, <2>3, <2>4 DEF Collected
<1>6. QED
  BY <1>4, <1>5

(* What is taken from another archive can be added like any other entry. *)
LEMMA Transplanted ==
  ASSUME NEW call \in Calls, IsOk(openZip(Origin, FALSE, FALSE)),
         NEW entry \in ToSet(openZip(Origin, FALSE, FALSE).entries),
         IsOk(readEntryRaw(openZip(Origin, FALSE, FALSE), entry))
  PROVE  Callable(Transplant(call, openZip(Origin, FALSE, FALSE), entry))
<1> DEFINE reader == openZip(Origin, FALSE, FALSE)
<1>1. Origin \in Seq(FileUnits)
  BY CallsAssumption
<1>2. reader.file = Origin /\ reader.entries \in Seq(EntriesOf(Origin))
  BY <1>1, OpenedTyped
<1> HIDE DEF reader
<1>3. entry \in EntriesOf(Origin)
  <2> DEFINE E == EntriesOf(Origin)
  <2>1. reader.entries \in Seq(E) /\ entry \in ToSet(reader.entries)
    BY <1>2 DEF reader
  <2> HIDE DEF E
  <2>2. entry \in E
    BY <2>1 DEF ToSet
  <2>3. QED
    BY <2>2 DEF E
<1>4. entry \in ReaderEntries
  BY <1>3 DEF EntriesOf
<1>5. PICK unit \in ToSet(Origin) \cap DirectoryRecords : Filed(entry, unit)
  BY <1>3 DEF EntriesOf
<1>6. finalName(entry.name, entry.isDirectory) \in Names
  <2>1. unit.name \in Names /\ finalName(unit.name, unit.attributes = "directory") \in Names
    BY CallsAssumption DEF DirectoryRecords
  <2>2. CASE entry.isDirectory /\ ~Directory(unit.name)
    <3>1. unit.attributes = "directory" /\ entry.name = unit.name
      BY <1>5, <2>2 DEF Filed
    <3>2. finalName(entry.name, entry.isDirectory)
          = finalName(unit.name, unit.attributes = "directory")
      BY <2>2, <3>1, Zenon DEF finalName
    <3>3. QED
      BY <2>1, <3>2
  <2>3. CASE ~(entry.isDirectory /\ ~Directory(unit.name))
    <3>1. entry.name = unit.name
      BY <1>5 DEF Filed
    <3>2. finalName(entry.name, entry.isDirectory) = unit.name
      BY <2>3, <3>1 DEF finalName
    <3>3. QED
      BY <2>1, <3>2
  <2>4. QED
    BY <2>2, <2>3
<1> DEFINE payload == readEntryRaw(reader, entry).payload
<1>7. payload \in Seq(FileUnits)
  <2>1. IsOk(readEntryRaw(reader, entry))
    BY DEF reader
  <2>2. QED
    BY <1>1, <1>2, <1>4, <2>1, PayloadTyped
<1> DEFINE extra == Selected(entry.extra, LAMBDA f : f.id # "zip64")
<1>8. /\ entry.method \in Nat /\ entry.crc \in Contents /\ entry.uncompressedSize \in Nat
      /\ entry.encrypted \in BOOLEAN /\ entry.pinned \in BOOLEAN /\ entry.attributes \in STRING
      /\ entry.comment \in Nat /\ entry.extra \in Seq(ExtraFields)
  BY <1>4 DEF ReaderEntries
<1>9. extra \in Seq(ExtraFields)
  BY <1>8, KeptTyped
<1> DEFINE raw == [method |-> entry.method, payload |-> payload, crc |-> entry.crc,
                   uncompressedSize |-> entry.uncompressedSize, encrypted |-> entry.encrypted]
<1> DEFINE t == Transplant(call, reader, entry)
<1>10. t = [call EXCEPT !.name = entry.name, !.directory = entry.isDirectory, !.raw = raw,
                        !.pinned = entry.pinned, !.attributes = entry.attributes,
                        !.comment = entry.comment, !.extra = extra]
  BY DEF Transplant
<1> HIDE DEF payload, extra
<1>11. raw \in Raws
  BY <1>7, <1>8 DEF Raws
<1>12. call \in
         [op : {"add", "addDirectory", "addStream", "addRaw", "addFromReader"},
          name : [segments : Seq(STRING), odd : STRING], directory : BOOLEAN, content : Contents,
          raw : Raws \cup {None}, source : SourceRefs \cup {None}, method : {"store", "deflate"},
          level : STRING, deterministic : BOOLEAN, zip64 : {Undefined, 0, 1}, attributes : STRING,
          pinned : BOOLEAN, extra : Seq(ExtraFields), comment : Nat, verify : BOOLEAN]
  BY CallsAssumption
<1> HIDE DEF raw, t
<1>13. /\ t.name = entry.name /\ t.directory = entry.isDirectory /\ t.raw = raw
       /\ t.pinned = entry.pinned /\ t.attributes = entry.attributes
       /\ t.comment = entry.comment /\ t.extra = extra
       /\ t.content = call.content /\ t.method = call.method
       /\ t.source = call.source /\ t.deterministic = call.deterministic
  BY <1>10, <1>12
<1>14. /\ call.content \in Contents /\ call.method \in {"store", "deflate"}
       /\ call.source \in Refs \cup {None} /\ call.deterministic \in BOOLEAN
  BY CallsCallable DEF Callable
<1>15. Callable(t)
  BY <1>6, <1>8, <1>9, <1>11, <1>13, <1>14 DEF Callable
<1>16. QED
  BY <1>15 DEF t, reader

(* Every call of the builder keeps the collector typed. *)
LEMMA BuildingKeeps ==
  ASSUME Collected, Building
  PROVE  Collected'
<1>0. streaming \in BOOLEAN /\ comment \in Seq(FileUnits)
  BY DEF Collected
<1>1. ASSUME NEW call \in Calls, makeSpec(call), streaming' \in BOOLEAN, comment' = comment
      PROVE  Collected'
  BY <1>0, <1>1, CallsCallable, MakeSpecKeeps
<1>2. CASE Add
  BY <1>0, <1>1, <1>2 DEF Add, Calling
<1>3. CASE AddDirectory
  BY <1>0, <1>1, <1>3 DEF AddDirectory, Calling
<1>4. CASE AddStream
  BY <1>0, <1>1, <1>4 DEF AddStream, Calling
<1>5. CASE AddRaw
  BY <1>0, <1>1, <1>5 DEF AddRaw, Calling
<1>6. CASE AddFromReader
  <2> DEFINE reader == openZip(Origin, FALSE, FALSE)
  <2>1. PICK call \in Calls, entry \in resolveSource(reader) :
          IF entry # None /\ Transplantable(reader, entry, call.verify)
          THEN makeSpec(Transplant(call, reader, entry))
          ELSE UNCHANGED <<specs, names>>
    BY <1>6 DEF AddFromReader, Calling
  <2>2. streaming' = streaming /\ comment' = comment
    BY <1>6 DEF AddFromReader
  <2>3. CASE UNCHANGED <<specs, names>>
    BY <2>2, <2>3 DEF Collected
  <2>4. CASE /\ entry # None /\ Transplantable(reader, entry, call.verify)
             /\ makeSpec(Transplant(call, reader, entry))
    <3>1. entry \in ToSet(reader.entries) /\ IsOk(readEntryRaw(reader, entry)) /\ IsOk(reader)
      BY <1>6, <2>4 DEF resolveSource, Transplantable, AddFromReader
    <3>2. Callable(Transplant(call, reader, entry))
      BY <3>1, Transplanted
    <3> DEFINE given == Transplant(call, reader, entry)
    <3>3. Callable(given) /\ makeSpec(given)
      BY <2>4, <3>2
    <3> HIDE DEF given
    <3>4. QED
      BY <1>0, <2>2, <3>3, MakeSpecKeeps
  <2>5. QED
    BY <2>1, <2>3, <2>4
<1>7. CASE SetComment
  <2>1. PICK units \in Comments : comment' = units
    BY <1>7 DEF SetComment
  <2>2. comment' \in Seq(FileUnits)
    BY <2>1, CallsAssumption
  <2>3. QED
    BY <1>7, <2>2 DEF SetComment, Collected
<1>8. QED
  BY <1>2, <1>3, <1>4, <1>5, <1>6, <1>7 DEF Building

-----------------------------------------------------------------------------
(* The sources: what one call or one answer changes.                       *)

Changed(t, a) ==
  /\ t \in [DOMAIN SourceContents -> Sources]
  /\ \A s \in DOMAIN SourceContents \ {a} : t[s] = sources[s]

(* A call changes the source it is made to. *)
LEMMA SourceChanged ==
  ASSUME sources \in [DOMAIN SourceContents -> Sources], NEW a \in DOMAIN SourceContents,
         NEW r \in Sources
  PROVE  Changed([sources EXCEPT ![a] = r], a) /\ [sources EXCEPT ![a] = r][a] = r
BY Zenon DEF Changed

(* Asked: a next() is open. *)
LEMMA SourceAsked ==
  ASSUME sources \in [DOMAIN SourceContents -> Sources], NEW a \in DOMAIN SourceContents
  PROVE  /\ Changed(Asked(a), a)
         /\ Asked(a)[a].next /\ Asked(a)[a].return = sources[a].return
<1> DEFINE r == [sources[a] EXCEPT !.next = TRUE, !.state = IF @ = "unstarted" THEN "open" ELSE @]
<1>1. sources[a] \in Sources
  OBVIOUS
<1>2. r \in Sources /\ r.next = TRUE /\ r.return = sources[a].return
  BY <1>1 DEF Sources
<1>3. Asked(a) = [sources EXCEPT ![a] = r]
  BY <1>1 DEF Asked, Sources
<1> HIDE DEF r
<1>4. QED
  BY <1>2, <1>3, SourceChanged

(* Drained: closed, and no next() is open. *)
LEMMA SourceDrained ==
  ASSUME sources \in [DOMAIN SourceContents -> Sources], NEW a \in DOMAIN SourceContents
  PROVE  /\ Changed(Drained(a), a)
         /\ ~Drained(a)[a].next /\ Drained(a)[a].return = sources[a].return
         /\ Drained(a)[a].state = "closed"
<1> DEFINE r == [sources[a] EXCEPT !.next = FALSE, !.state = "closed"]
<1>1. sources[a] \in Sources
  OBVIOUS
<1>2. /\ r \in Sources /\ r.next = FALSE /\ r.return = sources[a].return
      /\ r.state = "closed"
  BY <1>1 DEF Sources
<1>3. Drained(a) = [sources EXCEPT ![a] = r]
  BY <1>1 DEF Drained, Sources
<1> HIDE DEF r
<1>4. QED
  BY <1>2, <1>3, SourceChanged

(* A chunk answers the open next(). *)
LEMMA SourceDelivers ==
  ASSUME sources \in [DOMAIN SourceContents -> Sources], NEW a \in DOMAIN SourceContents,
         sources[a].left # <<>>
  PROVE  LET t == [sources EXCEPT ![a].left = Tail(@), ![a].next = FALSE]
             u == [t EXCEPT ![a].return = TRUE]
         IN  /\ Changed(t, a) /\ ~t[a].next /\ t[a].return = sources[a].return
             /\ Changed(u, a) /\ Head(sources[a].left) \in Chunks
<1> DEFINE r == [sources[a] EXCEPT !.left = Tail(@), !.next = FALSE]
<1> DEFINE q == [r EXCEPT !.return = TRUE]
<1> DEFINE t == [sources EXCEPT ![a].left = Tail(@), ![a].next = FALSE]
<1>1. sources[a] \in Sources /\ sources[a].left \in Contents
  BY DEF Sources
<1>2. Tail(sources[a].left) \in Contents /\ Head(sources[a].left) \in Chunks
  BY <1>1 DEF Contents
<1>3. r \in Sources /\ r.next = FALSE /\ r.return = sources[a].return
  BY <1>1, <1>2 DEF Sources
<1>4. q \in Sources
  BY <1>3 DEF Sources
<1>5. t = [sources EXCEPT ![a] = r]
  BY <1>1 DEF Sources
<1>6. [t EXCEPT ![a].return = TRUE] = [sources EXCEPT ![a] = q]
  BY <1>1, <1>5 DEF Sources
<1> HIDE DEF r, t, q
<1>7. Changed(t, a) /\ t[a] = r
  BY <1>3, <1>5, SourceChanged
<1>8. Changed([t EXCEPT ![a].return = TRUE], a)
  BY <1>4, <1>6, SourceChanged
<1>9. QED
  BY <1>2, <1>3, <1>7, <1>8 DEF t

(* return() is open beside whatever is. *)
LEMMA SourceReturns ==
  ASSUME sources \in [DOMAIN SourceContents -> Sources], NEW a \in DOMAIN SourceContents
  PROVE  /\ Changed([sources EXCEPT ![a].return = TRUE], a)
         /\ [sources EXCEPT ![a].return = TRUE][a].next = sources[a].next
<1> DEFINE r == [sources[a] EXCEPT !.return = TRUE]
<1>1. sources[a] \in Sources
  OBVIOUS
<1>2. r \in Sources /\ r.next = sources[a].next
  BY <1>1 DEF Sources
<1>3. [sources EXCEPT ![a].return = TRUE] = [sources EXCEPT ![a] = r]
  BY <1>1 DEF Sources
<1> HIDE DEF r
<1>4. QED
  BY <1>2, <1>3, SourceChanged

(* An answered return() leaves the source closed and quiet. *)
LEMMA SourceSettles ==
  ASSUME sources \in [DOMAIN SourceContents -> Sources], NEW a \in DOMAIN SourceContents,
         ~sources[a].next
  PROVE  LET t == [sources EXCEPT ![a].return = FALSE, ![a].state = "closed"]
         IN  Changed(t, a) /\ Quiet(t[a])
<1> DEFINE r == [sources[a] EXCEPT !.return = FALSE, !.state = "closed"]
<1>1. sources[a] \in Sources
  OBVIOUS
<1>2. r \in Sources /\ Quiet(r)
  BY <1>1 DEF Sources, Quiet
<1>3. [sources EXCEPT ![a].return = FALSE, ![a].state = "closed"] = [sources EXCEPT ![a] = r]
  BY <1>1 DEF Sources
<1> HIDE DEF r
<1>4. QED
  BY <1>2, <1>3, SourceChanged

-----------------------------------------------------------------------------
(* The types and the control, step by step.                                *)

(* What a step may do to the writer when sources, pump and stream stay. *)
Stays(w, v) ==
  /\ Active(v) => \/ /\ Active(w) /\ Phase(v) = Phase(w) /\ SourceOf(v) = SourceOf(w)
                     /\ v.outcome = w.outcome
                  \/ ~Active(w) /\ Phase(v) = "ask" /\ SourceOf(v) \in DOMAIN SourceContents
  /\ Active(w) /\ ~Active(v) => Phase(w) = "describe"

(* Such a step keeps the control. *)
LEMMA StayingControl ==
  ASSUME Control, Positions(writer'), Stays(writer, writer'), UNCHANGED <<sources, pump, cs>>
  PROVE  Control'
<1>1. OthersQuiet'
  BY DEF Control, OthersQuiet, SourceFits, Stays
<1>2. SourceFits'
  BY DEF Control, OthersQuiet, SourceFits, Stays, Quiet
<1>3. PumpFits'
  BY DEF Control, PumpFits, Stays
<1>4. StreamFits'
  BY DEF Control, StreamFits, Stays
<1>5. QED
  BY <1>1, <1>2, <1>3, <1>4 DEF Control

(* Nothing the control looks at has changed. *)
LEMMA SamePlace ==
  ASSUME NEW w, NEW v, Positions(w), v.at = w.at, v.then = w.then, v.outcome = w.outcome,
         v.g = w.g
  PROVE  Positions(v) /\ Stays(w, v)
BY DEF Positions, Stays, Active, Phase, Incremental, Current, SourceOf

(* What the types say of the writer and its sources. *)
LEMMA TypedFacts ==
  ASSUME Typed
  PROVE  /\ writer \in Writers /\ writer.g \in Generators(Refs) /\ InRange(writer.g)
         /\ WellTyped(writer) /\ Well(writer.g, Refs)
         /\ sources \in [DOMAIN SourceContents -> Sources]
BY DEF Typed, WellTyped, Well, Writers

(* Building: keeps the types and the control. *)
LEMMA BuildingStep == ASSUME Typed, Control, Building PROVE Typed' /\ Control'
<1>1. UNCHANGED <<built, writer, pump, cs, sources, aborted>>
  BY DEF Building
<1>2. Collected'
  BY BuildingKeeps DEF Typed
<1>3. QED
  BY <1>1, <1>2 DEF Typed, Control, OthersQuiet, SourceFits, PumpFits, StreamFits

(* Call: keeps the types and the control. *)
LEMMA CallStep ==
  ASSUME Typed, Control, ToBytes \/ Stream \/ Abort \/ Pull \/ Return
  PROVE  Typed' /\ Control'
<1>0. /\ writer \in Writers /\ writer.g \in Generators(Refs) /\ InRange(writer.g)
      /\ Positions(writer)
  BY TypedFacts DEF Control
<1>1. CASE ToBytes
  <2>1. UNCHANGED <<specs, names, streaming, comment, writer, pump, cs, sources, aborted>>
    BY <1>1 DEF ToBytes
  <2>2. QED
    BY <2>1 DEF Typed, Collected, Control, OthersQuiet, SourceFits, PumpFits, StreamFits
<1>2. CASE Stream
  <2>1. UNCHANGED <<specs, names, streaming, comment, pump, cs, sources, aborted>>
    BY <1>2 DEF Stream, builder
  <2>2. writer.at = "none" /\ writer' = [writer EXCEPT !.at = "fresh"]
    BY <1>2 DEF Stream
  <2>3. writer' \in Writers
    BY <1>0, <2>2, Zenon DEF Writers
  <2>4. /\ writer'.at = "fresh" /\ writer'.g = writer.g /\ writer'.then = writer.then
        /\ writer'.outcome = writer.outcome
    BY <1>0, <2>2 DEF Writers
  <2>5. Typed'
    BY <1>0, <2>1, <2>3, <2>4 DEF Typed, Collected, WellTyped
  <2>6. Positions(writer') /\ Stays(writer, writer')
    BY <1>0, <2>2, <2>4 DEF Positions, Stays, Active, Phase
  <2>7. QED
    BY <2>1, <2>5, <2>6, StayingControl
<1>3. CASE Abort
  <2>1. UNCHANGED <<specs, names, streaming, comment, writer, pump, cs, sources>> /\ aborted' = TRUE
    BY <1>3 DEF Abort, builder
  <2>2. QED
    BY <2>1 DEF Typed, Collected, Control, OthersQuiet, SourceFits, PumpFits, StreamFits
<1>4. CASE Pull \/ Return
  <2>1. UNCHANGED <<specs, names, streaming, comment, pump, cs, sources, aborted>>
    BY <1>4 DEF Pull, Return, builder
  <2>2. writer' = [writer EXCEPT !.asked = TRUE] \/ writer' = [writer EXCEPT !.stopping = TRUE]
    BY <1>4 DEF Pull, Return
  <2>3. writer' \in Writers
    <3>1. [writer EXCEPT !.asked = TRUE] \in Writers
      BY <1>0, Zenon DEF Writers
    <3>2. [writer EXCEPT !.stopping = TRUE] \in Writers
      BY <1>0, Zenon DEF Writers
    <3>3. QED
      BY <2>2, <3>1, <3>2
  <2>4. /\ writer'.at = writer.at /\ writer'.g = writer.g /\ writer'.then = writer.then
        /\ writer'.outcome = writer.outcome
    BY <1>0, <2>2 DEF Writers
  <2>5. Typed'
    BY <1>0, <2>1, <2>3, <2>4 DEF Typed, Collected, WellTyped
  <2>6. Positions(writer') /\ Stays(writer, writer')
    BY <1>0, <2>4, SamePlace
  <2>7. QED
    BY <2>1, <2>5, <2>6, StayingControl
<1>5. QED
  BY <1>1, <1>2, <1>3, <1>4

(* The same point of the same entry: only the entry's sizes may differ.    *)
Beside(w, v) ==
  /\ v.at = w.at /\ v.then = w.then /\ v.outcome = w.outcome
  /\ v.g.at = w.g.at /\ (w.g.at = "entry" => SameEntry(w.g, v.g))
Outcomes == {"aborted", "refused", "returned", "range", "source", "done"}

(* A writer that has ended is one. *)
LEMMA EndedIs ==
  ASSUME NEW w, WellTyped(w), NEW outcome \in Outcomes
  PROVE  LET v == Ended(w, outcome)
         IN  WellTyped(v) /\ v.at = "ended" /\ v.outcome = outcome
<1> DEFINE v == Ended(w, outcome)
<1>1. w \in Writers /\ InRange(w.g) /\ FALSE \in BOOLEAN
  BY DEF WellTyped
<1>2. "ended" \in Places /\ outcome \in {"none", "aborted", "refused", "returned", "range", "source", "done"}
  BY DEF Places, Outcomes
<1>3. v \in Writers
  BY <1>1, <1>2, Zenon DEF Writers, Ended, Places
<1>4. v.g = w.g /\ v.at = "ended" /\ v.outcome = outcome
  BY <1>1 DEF Writers, Ended
<1>5. QED
  BY <1>1, <1>3, <1>4 DEF WellTyped

(* Leaving: keeps the types and the control. *)
LEMMA LeavingStep ==
  ASSUME Typed, Control, NEW w, WellTyped(w), Beside(writer, w), NEW outcome \in Outcomes,
         Leave(w, outcome), writer.at \in {"fresh", "push", "chunk", "tail", "read"},
         UNCHANGED <<specs, names, streaming, comment, pump, aborted>>
  PROVE  Typed' /\ Control' /\ writer'.outcome = outcome
<1>0. /\ writer \in Writers /\ WellTyped(writer) /\ Positions(writer)
      /\ w \in Writers /\ w.g \in Generators(Refs) /\ InRange(w.g)
      /\ sources \in [DOMAIN SourceContents -> Sources] /\ cs \in Streams
  BY TypedFacts DEF Control, Typed, WellTyped, Writers
<1>1. CASE ~Engaged(w)
  <2>1. writer' = Ended(w, outcome) /\ UNCHANGED <<cs, sources>>
    BY <1>1 DEF Leave
  <2>2. WellTyped(writer') /\ writer'.at = "ended" /\ writer'.outcome = outcome
    BY <2>1, EndedIs
  <2>3. Typed'
    BY <2>1, <2>2 DEF Typed, Collected, WellTyped
  <2>4. outcome # "none"
    BY DEF Outcomes
  <2>5. Positions(writer') /\ ~Active(writer')
    BY <2>2, <2>4 DEF Positions, Active, Phase
  <2>6. Active(writer) => Phase(writer) = "describe"
    <3>1. writer.g.at # "entry" \/ writer.then \notin {"ask", "read"}
      BY <1>0, <1>1 DEF Engaged, Beside
    <3>2. writer.at = "read" => writer.then = "read"
      BY <1>0 DEF Positions
    <3>3. writer.then \in Ways
      BY <1>0 DEF Writers
    <3>4. QED
      BY <3>1, <3>2, <3>3 DEF Active, Phase, Ways
  <2>7. Stays(writer, writer')
    BY <2>5, <2>6 DEF Stays
  <2>8. QED
    BY <2>1, <2>2, <2>3, <2>5, <2>7, StayingControl
<1>2. CASE Engaged(w)
  <2> DEFINE a == SourceOf(w)
  <2>0. w.g.at = "entry" /\ writer.g.at = "entry" /\ SameEntry(writer.g, w.g)
        /\ w.then \in {"ask", "read"}
    BY <1>2 DEF Engaged, Beside
  <2>1. a \in DOMAIN SourceContents /\ a = SourceOf(writer) /\ Incremental(w) = Incremental(writer)
    BY <1>0, <2>0, EntryFacts, SameEntryFacts
  <2>2. /\ writer' = [w EXCEPT !.at = "closing", !.outcome = outcome]
        /\ sources' = [sources EXCEPT ![a].return = TRUE]
        /\ cs' = IF Incremental(w) THEN [cs EXCEPT !.at = "cancelled", !.ready = <<>>] ELSE cs
    BY <1>2 DEF Leave
  <2>3. writer' \in Writers
    <3>1. "closing" \in Places
          /\ outcome \in {"none", "aborted", "refused", "returned", "range", "source", "done"}
      BY DEF Places, Outcomes
    <3>2. QED
      BY <1>0, <2>2, <3>1, Zenon DEF Writers, Places
  <2>4. /\ writer'.at = "closing" /\ writer'.outcome = outcome /\ writer'.g = w.g
        /\ writer'.then = w.then
    BY <1>0, <2>2 DEF Writers
  <2> HIDE DEF a
  <2>5. Changed(sources', a) /\ sources'[a].next = sources[a].next
    BY <1>0, <2>1, <2>2, SourceReturns
  <2>6. cs' \in Streams
    <3>1. <<>> \in Seq(DataUnits) /\ cs.at \in {"none", "open", "closing", "closed", "aborted", "source", "cancelled"}
      BY <1>0, EmptyTyped DEF Streams
    <3>2. [cs EXCEPT !.at = "cancelled", !.ready = <<>>] \in Streams
      BY <1>0, <3>1, Zenon DEF Streams
    <3>3. QED
      BY <1>0, <2>2, <3>2
  <2>7. Typed'
    BY <1>0, <2>3, <2>4, <2>5, <2>6 DEF Typed, Collected, WellTyped, Changed
  <2>8. /\ Active(writer) /\ Phase(writer) \in {"ask", "read"}
    BY <1>0, <2>0 DEF Active, Phase, Positions, Beside
  <2>9. /\ Active(writer') /\ Phase(writer') = "closing" /\ SourceOf(writer') = a
        /\ Positions(writer')
    <3>1. outcome # "none"
      BY DEF Outcomes
    <3>2. SourceOf(writer') = a
      BY <2>4 DEF SourceOf, Current, a
    <3>3. QED
      BY <2>0, <2>4, <3>1, <3>2 DEF Active, Phase, Positions
  <2>10. OthersQuiet'
    BY <2>1, <2>5, <2>8, <2>9 DEF Control, OthersQuiet, Changed
  <2>11. SourceFits'
    BY <2>9 DEF SourceFits
  <2>12. PumpFits'
    <3>1. outcome # "none"
      BY DEF Outcomes
    <3>2. QED
      BY <2>1, <2>4, <2>5, <2>9, <3>1 DEF Control, PumpFits
  <2>13. StreamFits'
    <3>1. CASE Incremental(w)
      <4>1. cs'.at = "cancelled"
        BY <1>0, <2>2, <3>1 DEF Streams
      <4>2. QED
        BY <4>1 DEF StreamFits
    <3>2. CASE ~Incremental(w)
      <4>1. Phase(writer) # "read"
        BY <1>0, <2>1, <3>2 DEF Positions
      <4>2. QED
        BY <2>2, <3>2, <4>1 DEF Control, StreamFits
    <3>3. QED
      BY <3>1, <3>2
  <2>14. QED
    BY <2>4, <2>7, <2>9, <2>10, <2>11, <2>12, <2>13 DEF Control
<1>3. QED
  BY <1>1, <1>2

(* Stop: keeps the types and the control. *)
LEMMA StopStep == ASSUME Typed, Control, Stop PROVE Typed' /\ Control'
<1>1. /\ writer.at \in {"fresh", "chunk", "tail"} /\ Leave(writer, "returned")
      /\ UNCHANGED <<specs, names, streaming, comment, pump, aborted>>
  BY DEF Stop, builder
<1>2. WellTyped(writer) /\ Beside(writer, writer) /\ "returned" \in Outcomes
  BY TypedFacts DEF Beside, SameEntry, Alike, Outcomes
<1>3. QED
  BY <1>1, <1>2, LeavingStep

(* In either order the entries are entries. *)
LEMMA OrderedTyped ==
  ASSUME Collected
  PROVE  orderedSpecs \in Seq(Specs(Refs))
<1>1. specs \in Seq(Specs(Refs))
  BY DEF Collected
<1>2. SortedByName(specs) \in Seq(Specs(Refs))
  BY <1>1, SortKeeps
<1>3. orderedSpecs = IF Order = "canonical" THEN SortedByName(specs) ELSE specs
  BY DEF orderedSpecs, SortedByName
<1>4. QED
  BY <1>1, <1>2, <1>3

(* A step that changes the writer only, to one of its type. *)
LEMMA WriterStays ==
  ASSUME Typed, Control, WellTyped(writer'), Positions(writer'), Stays(writer, writer'),
         UNCHANGED <<specs, names, streaming, comment, pump, cs, sources, aborted>>
  PROVE  Typed' /\ Control'
<1>1. Typed'
  BY DEF Typed, Collected, WellTyped
<1>2. QED
  BY <1>1, StayingControl

(* Start: keeps the types and the control. *)
LEMMA StartStep == ASSUME Typed, Control, Start PROVE Typed' /\ Control'
<1>0. /\ writer \in Writers /\ WellTyped(writer) /\ Positions(writer) /\ writer.at = "fresh"
      /\ writer.g.at # "entry" /\ ~Active(writer)
      /\ UNCHANGED <<specs, names, streaming, comment, pump, cs, sources, aborted>>
  BY TypedFacts DEF Control, Start, builder, Positions, Active
<1>1. ASSUME NEW outcome \in Outcomes, writer' = Ended(writer, outcome)
      PROVE  Typed' /\ Control'
  <2>1. WellTyped(writer') /\ writer'.at = "ended" /\ writer'.outcome = outcome
    BY <1>0, <1>1, EndedIs
  <2>2. outcome # "none"
    BY DEF Outcomes
  <2>3. Positions(writer') /\ Stays(writer, writer')
    BY <1>0, <2>1, <2>2 DEF Positions, Stays, Active, Phase
  <2>4. QED
    BY <1>0, <2>1, <2>3, WriterStays
<1>2. ASSUME writer' = [writer EXCEPT !.at = "segment", !.planned = orderedSpecs,
                                      !.g = archiveSegments(planArchive(orderedSpecs), comment)]
      PROVE  Typed' /\ Control'
  <2> DEFINE g == archiveSegments(planArchive(orderedSpecs), comment)
  <2>1. Collected /\ comment \in Seq(FileUnits)
    BY DEF Typed, Collected
  <2>2. orderedSpecs \in Seq(Specs(Refs))
    BY <2>1, OrderedTyped
  <2>3. planArchive(orderedSpecs) \in Seq(Plans(Refs))
    BY <2>2, PlanArchiveTyped
  <2>4. Well(g, Refs) /\ g.at # "done" /\ g.at # "entry"
    BY <2>1, <2>3, GeneratorStarts DEF InEntries
  <2>5. g \in Generators(Refs) /\ InRange(g) /\ "segment" \in Places
    BY <2>4 DEF Well, Places
  <2> HIDE DEF g
  <2>6. writer' \in Writers
    BY <1>0, <1>2, <2>2, <2>5, Zenon DEF Writers, Places, g
  <2>7. writer'.at = "segment" /\ writer'.g = g /\ writer'.outcome = writer.outcome
    BY <1>0, <1>2 DEF Writers, g
  <2>8. WellTyped(writer')
    BY <2>5, <2>6, <2>7 DEF WellTyped
  <2>9. Positions(writer') /\ Stays(writer, writer')
    BY <1>0, <2>4, <2>7 DEF Positions, Stays, Active, Phase
  <2>10. QED
    BY <1>0, <2>8, <2>9, WriterStays
<1>3. "aborted" \in Outcomes /\ "refused" \in Outcomes
  BY DEF Outcomes
<1>4. \/ writer' = Ended(writer, "aborted") \/ writer' = Ended(writer, "refused")
      \/ writer' = [writer EXCEPT !.at = "segment", !.planned = orderedSpecs,
                                  !.g = archiveSegments(planArchive(orderedSpecs), comment)]
  BY DEF Start
<1>5. QED
  BY <1>1, <1>2, <1>3, <1>4

(* EmitSegment: keeps the types and the control. *)
LEMMA EmitSegmentStep == ASSUME Typed, Control, EmitSegment PROVE Typed' /\ Control'
<1> DEFINE g == writer.g
<1> DEFINE w == [writer EXCEPT !.g = Marked(@)]
<1>0. /\ writer \in Writers /\ WellTyped(writer) /\ Positions(writer) /\ Well(g, Refs)
      /\ writer.at = "segment" /\ g.at # "entry" /\ g.at # "done" /\ ~Active(writer)
      /\ writer' = Pushing(w, Segment(g), "segment")
      /\ UNCHANGED <<specs, names, streaming, comment, pump, cs, sources, aborted>>
  BY TypedFacts DEF Control, EmitSegment, builder, Positions, Active
<1>1. Well(Marked(g), Refs) /\ Marked(g).at = g.at
  BY <1>0, MarkedWell
<1>2. Segment(g) \in Seq(FileUnits) /\ "segment" \in Ways
  BY <1>0, SegmentTyped DEF Ways
<1>3. w \in Writers /\ w.g = Marked(g) /\ w.outcome = writer.outcome
  <2>1. Marked(g) \in Generators(Refs)
    BY <1>1 DEF Well
  <2>2. w \in Writers
    BY <1>0, <2>1, Zenon DEF Writers
  <2>3. QED
    BY <1>0, <2>2 DEF Writers
<1>4. WellTyped(w)
  BY <1>1, <1>3 DEF WellTyped, Well
<1> HIDE DEF w
<1>5. /\ WellTyped(writer')
      /\ writer' = AtPush(w, "segment", w.g, writer'.out, writer'.rest, w.consumed)
  BY <1>0, <1>2, <1>4, PushingIs
<1>6. /\ writer'.at = "push" /\ writer'.then = "segment" /\ writer'.g = Marked(g)
      /\ writer'.outcome = writer.outcome
  BY <1>3, <1>5, AtPushFields
<1>7. Positions(writer') /\ Stays(writer, writer')
  BY <1>0, <1>1, <1>6 DEF Positions, Stays, Active, Phase
<1>8. QED
  BY <1>0, <1>5, <1>7, WriterStays

(* What comes when all has been pushed. *)
LEMMA PushedStays ==
  ASSUME Typed, Control, writer.at \in {"push", "chunk"}, NEW filled \in Nat
  PROVE  LET v == Pushed(filled) IN WellTyped(v) /\ Positions(v) /\ Stays(writer, v)
<1> DEFINE v == Pushed(filled)
<1>0. /\ writer \in Writers /\ WellTyped(writer) /\ Positions(writer) /\ Well(writer.g, Refs)
      /\ writer.g.at # "done" /\ writer.outcome = "none" /\ writer.consumed \in Nat /\ 0 \in Nat
  BY TypedFacts DEF Control, Positions, Writers
<1>1. CASE writer.then \in {"segment", "entryEnd"}
  <2>1. PICK consumed \in Nat :
          /\ WellTyped(v) /\ v.g = Resumed(writer.g, consumed) /\ v.outcome = "none"
          /\ v.at = IF v.g.at = "done" THEN "finish" ELSE "segment"
    <3>1. CASE writer.then = "segment"
      BY <1>0, <3>1, PushedSegment, MovedFields
    <3>2. CASE writer.then = "entryEnd"
      BY <1>0, <3>2, PushedEntry, MovedFields
    <3>3. QED
      BY <1>1, <3>1, <3>2
  <2> HIDE DEF v
  <2>2. Positions(v) /\ ~Active(v)
    BY <2>1 DEF Positions, Active, Phase
  <2>3. ~Active(writer)
    BY <1>0, <1>1 DEF Active, Phase, Positions
  <2>4. QED
    BY <2>1, <2>2, <2>3 DEF Stays, v
<1>2. CASE writer.then \notin {"segment", "entryEnd"}
  <2>1. /\ WellTyped(v) /\ v.g = writer.g /\ v.outcome = "none" /\ v.at = writer.then
        /\ v.then = writer.then
    BY <1>0, <1>2, PushedOther, MovedFields
  <2>2. writer.then \in {"ask", "describe", "read"} /\ writer.g.at = "entry"
    BY <1>0, <1>2 DEF Writers, Ways, Positions
  <2> HIDE DEF v
  <2>3. Phase(v) = Phase(writer) /\ SourceOf(v) = SourceOf(writer)
        /\ Incremental(v) = Incremental(writer)
    BY <2>1, <2>2 DEF Phase, SourceOf, Incremental, Current
  <2>4. Positions(v)
    BY <1>0, <2>1, <2>2, <2>3 DEF Positions, Phase
  <2>5. Active(v) /\ Active(writer)
    BY <2>1, <2>2, <2>3 DEF Active, Phase
  <2>6. QED
    BY <1>0, <2>1, <2>3, <2>4, <2>5 DEF Stays, v
<1>3. QED
  BY <1>1, <1>2

(* PushStep: keeps the types and the control. *)
LEMMA PushStepStep == ASSUME Typed, Control, PushStep PROVE Typed' /\ Control'
<1> DEFINE take == IF writer.rest < ChunkSize - writer.filled THEN writer.rest
                   ELSE ChunkSize - writer.filled
<1> DEFINE full == writer.filled + take = ChunkSize
<1>0. /\ writer \in Writers /\ WellTyped(writer) /\ Positions(writer)
      /\ writer.at = "push" /\ writer.outcome = "none"
      /\ UNCHANGED <<specs, names, streaming, comment, pump, aborted>>
  BY TypedFacts DEF Control, PushStep, builder, Positions
<1>1. CASE full /\ aborted
  <2>1. Leave(writer, "aborted")
    BY <1>1 DEF PushStep
  <2>2. Beside(writer, writer) /\ "aborted" \in Outcomes
    BY DEF Beside, SameEntry, Alike, Outcomes
  <2>3. QED
    BY <1>0, <2>1, <2>2, LeavingStep
<1>2. CASE full /\ ~aborted
  <2>1. /\ writer' = [writer EXCEPT !.at = "chunk", !.asked = FALSE, !.filled = ChunkSize,
                           !.rest = @ - take, !.bytesOut = @ + ChunkSize,
                           !.yielded = @ + ChunkSize]
        /\ UNCHANGED <<cs, sources>>
    BY <1>2 DEF PushStep
  <2>2. /\ ChunkSize \in Nat /\ writer.rest - take \in Nat /\ writer.bytesOut + ChunkSize \in Nat
        /\ writer.yielded + ChunkSize \in Nat /\ FALSE \in BOOLEAN /\ "chunk" \in Places
    <3>1. writer.rest \in Nat /\ writer.filled \in Nat /\ writer.bytesOut \in Nat
          /\ writer.yielded \in Nat /\ ChunkSize \in Nat
      BY <1>0, WriterAssumption DEF Writers
    <3>2. writer.rest - take \in Nat /\ writer.bytesOut + ChunkSize \in Nat
          /\ writer.yielded + ChunkSize \in Nat
      BY <3>1
    <3>3. QED
      BY <3>1, <3>2 DEF Places
  <2> HIDE DEF take, full
  <2>3. writer' \in Writers
    BY <1>0, <2>1, <2>2, Zenon DEF Writers, Places
  <2>4. /\ writer'.at = "chunk" /\ writer'.then = writer.then /\ writer'.g = writer.g
        /\ writer'.outcome = "none"
    BY <1>0, <2>1 DEF Writers
  <2>5. WellTyped(writer')
    BY <1>0, <2>3, <2>4 DEF WellTyped
  <2>6. /\ Phase(writer') = Phase(writer) /\ SourceOf(writer') = SourceOf(writer)
        /\ Incremental(writer') = Incremental(writer)
    BY <1>0, <2>4 DEF Phase, SourceOf, Incremental, Current
  <2>7. Positions(writer') /\ Stays(writer, writer')
    BY <1>0, <2>4, <2>6 DEF Positions, Stays, Active, Phase
  <2>8. QED
    BY <1>0, <2>1, <2>5, <2>7, WriterStays
<1>3. CASE ~full
  <2>1. writer' = Pushed(writer.filled + take) /\ UNCHANGED <<cs, sources>>
    BY <1>3 DEF PushStep
  <2>2. writer.filled + take \in Nat
    <3>1. writer.rest \in Nat /\ writer.filled \in Nat /\ ChunkSize \in Nat
      BY <1>0, WriterAssumption DEF Writers
    <3>2. QED
      BY <1>3, <3>1
  <2> HIDE DEF take, full
  <2>3. WellTyped(writer') /\ Positions(writer') /\ Stays(writer, writer')
    BY <1>0, <2>1, <2>2, PushedStays
  <2>4. QED
    BY <1>0, <2>1, <2>3, WriterStays
<1>4. QED
  BY <1>1, <1>2, <1>3

(* Resume: keeps the types and the control. *)
LEMMA ResumeStep == ASSUME Typed, Control, Resume PROVE Typed' /\ Control'
<1>0. /\ writer \in Writers /\ WellTyped(writer) /\ Positions(writer)
      /\ writer.at = "chunk" /\ writer.outcome = "none" /\ 0 \in Nat
      /\ UNCHANGED <<specs, names, streaming, comment, pump, cs, sources, aborted>>
  BY TypedFacts DEF Control, Resume, builder, Positions
<1>1. CASE writer' = Pushed(0)
  BY <1>0, <1>1, PushedStays, WriterStays
<1>2. CASE writer' = [writer EXCEPT !.at = "push", !.filled = 0]
  <2>1. "push" \in Places
    BY DEF Places
  <2>2. writer' \in Writers
    BY <1>0, <1>2, <2>1, Zenon DEF Writers, Places
  <2>3. /\ writer'.at = "push" /\ writer'.then = writer.then /\ writer'.g = writer.g
        /\ writer'.outcome = "none"
    BY <1>0, <1>2 DEF Writers
  <2>4. WellTyped(writer')
    BY <1>0, <2>2, <2>3 DEF WellTyped
  <2>5. /\ Phase(writer') = Phase(writer) /\ SourceOf(writer') = SourceOf(writer)
        /\ Incremental(writer') = Incremental(writer)
    BY <1>0, <2>3 DEF Phase, SourceOf, Incremental, Current
  <2>6. Positions(writer') /\ Stays(writer, writer')
    BY <1>0, <2>3, <2>5 DEF Positions, Stays, Active, Phase
  <2>7. QED
    BY <1>0, <2>4, <2>6, WriterStays
<1>3. QED
  BY <1>1, <1>2 DEF Resume

(* Finish: keeps the types and the control. *)
LEMMA FinishStep == ASSUME Typed, Control, Finish \/ AfterTail PROVE Typed' /\ Control'
<1>0. /\ writer \in Writers /\ WellTyped(writer) /\ Positions(writer)
      /\ writer.at \in {"finish", "tail"} /\ writer.g.at # "entry" /\ writer.outcome = "none"
      /\ ~Active(writer)
      /\ UNCHANGED <<specs, names, streaming, comment, pump, cs, sources, aborted>>
  BY TypedFacts DEF Control, Finish, AfterTail, builder, Positions, Active
<1>1. CASE writer' = Ended(writer, "done")
  <2>1. "done" \in Outcomes
    BY DEF Outcomes
  <2>2. WellTyped(writer') /\ writer'.at = "ended" /\ writer'.outcome = "done"
    BY <1>0, <1>1, <2>1, EndedIs
  <2>3. Positions(writer') /\ Stays(writer, writer')
    BY <1>0, <2>2 DEF Positions, Stays, Active, Phase
  <2>4. QED
    BY <1>0, <2>2, <2>3, WriterStays
<1>2. CASE writer' = [writer EXCEPT !.at = "tail", !.asked = FALSE,
                       !.bytesOut = @ + writer.filled, !.yielded = @ + writer.filled]
  <2>1. /\ writer.bytesOut + writer.filled \in Nat /\ writer.yielded + writer.filled \in Nat
        /\ FALSE \in BOOLEAN /\ "tail" \in Places
    <3>1. writer.bytesOut \in Nat /\ writer.filled \in Nat /\ writer.yielded \in Nat
      BY <1>0 DEF Writers
    <3>2. writer.bytesOut + writer.filled \in Nat /\ writer.yielded + writer.filled \in Nat
      BY <3>1
    <3>3. QED
      BY <3>2 DEF Places
  <2>2. writer' \in Writers
    BY <1>0, <1>2, <2>1, Zenon DEF Writers, Places
  <2>3. /\ writer'.at = "tail" /\ writer'.g = writer.g /\ writer'.outcome = "none"
    BY <1>0, <1>2 DEF Writers
  <2>4. WellTyped(writer')
    BY <1>0, <2>2, <2>3 DEF WellTyped
  <2>5. Positions(writer') /\ Stays(writer, writer')
    BY <1>0, <2>3 DEF Positions, Stays, Active, Phase
  <2>6. QED
    BY <1>0, <2>4, <2>5, WriterStays
<1>3. QED
  BY <1>1, <1>2 DEF Finish, AfterTail

(* Describe: keeps the types and the control. *)
LEMMA DescribeStep == ASSUME Typed, Control, Describe PROVE Typed' /\ Control'
<1>0. /\ writer \in Writers /\ WellTyped(writer) /\ Positions(writer)
      /\ writer.at = "describe" /\ writer.g.at = "entry" /\ writer.outcome = "none"
      /\ writer' = Descriptor(writer)
      /\ UNCHANGED <<specs, names, streaming, comment, pump, cs, sources, aborted>>
  BY TypedFacts DEF Control, Describe, builder, Positions
<1>1. /\ WellTyped(writer') /\ SameEntry(writer.g, writer'.g)
      /\ writer' = AtPush(writer, "entryEnd", writer'.g, writer'.out, writer'.rest, writer'.consumed)
  BY <1>0, DescriptorIs
<1>2. writer'.at = "push" /\ writer'.then = "entryEnd" /\ writer'.outcome = "none"
      /\ writer'.g.at = "entry"
  BY <1>0, <1>1, AtPushFields DEF SameEntry
<1>3. Positions(writer') /\ Stays(writer, writer')
  BY <1>0, <1>2 DEF Positions, Stays, Active, Phase
<1>4. QED
  BY <1>0, <1>1, <1>3, WriterStays

(* BeginEntry: keeps the types and the control. *)
LEMMA BeginEntryStep == ASSUME Typed, Control, BeginEntry PROVE Typed' /\ Control'
<1> DEFINE a == SourceOf(writer)
<1> DEFINE w == [writer EXCEPT !.consumed = 0, !.content = <<>>]
<1>0. /\ writer \in Writers /\ WellTyped(writer) /\ Positions(writer)
      /\ sources \in [DOMAIN SourceContents -> Sources]
      /\ writer.at = "segment" /\ writer.g.at = "entry" /\ writer.outcome = "none"
      /\ ~Active(writer) /\ a \in DOMAIN SourceContents
      /\ UNCHANGED <<specs, names, streaming, comment, aborted>>
  BY TypedFacts, EntryFacts DEF Control, BeginEntry, builder, Positions, Active, Phase
<1>1. ASSUME NEW place \in {"ask", "read"}, writer' = [w EXCEPT !.at = place, !.then = place]
      PROVE  /\ WellTyped(writer') /\ writer'.at = place /\ writer'.then = place
             /\ writer'.g = writer.g /\ writer'.outcome = "none"
             /\ SourceOf(writer') = a /\ Incremental(writer') = Incremental(writer)
             /\ Active(writer') /\ Phase(writer') = place
  <2>1. 0 \in Nat /\ <<>> \in Contents /\ place \in Places /\ place \in Ways
    BY ContentSizeEmpty DEF Places, Ways
  <2>2. w \in Writers
    BY <1>0, <2>1, Zenon DEF Writers
  <2>3. w.g = writer.g /\ w.outcome = "none"
    BY <1>0 DEF Writers
  <2> HIDE DEF w
  <2>4. writer' \in Writers
    BY <1>1, <2>1, <2>2, Zenon DEF Writers, Places
  <2>5. /\ writer'.at = place /\ writer'.then = place /\ writer'.g = writer.g
        /\ writer'.outcome = "none"
    BY <1>1, <2>2, <2>3 DEF Writers
  <2>6. WellTyped(writer')
    BY <1>0, <2>4, <2>5 DEF WellTyped
  <2>7. SourceOf(writer') = a /\ Incremental(writer') = Incremental(writer)
    BY <2>5 DEF SourceOf, Incremental, Current
  <2>8. Active(writer') /\ Phase(writer') = place
    BY <1>0, <2>5 DEF Active, Phase
  <2>9. QED
    BY <2>5, <2>6, <2>7, <2>8
<1>2. CASE Incremental(writer)
  <2>1. /\ writer' = [w EXCEPT !.at = "read", !.then = "read"]
        /\ cs' = [at |-> "open", held |-> <<>>, ready |-> <<>>]
        /\ pump' = [at |-> "next", chunk |-> <<>>]
        /\ sources' = Asked(a)
    BY <1>2 DEF BeginEntry
  <2>2. /\ WellTyped(writer') /\ writer'.at = "read" /\ writer'.then = "read"
        /\ writer'.g = writer.g /\ writer'.outcome = "none"
        /\ SourceOf(writer') = a /\ Incremental(writer')
        /\ Active(writer') /\ Phase(writer') = "read"
    BY <1>1, <1>2, <2>1
  <2> HIDE DEF a, w
  <2>3. Changed(sources', a) /\ sources'[a].next /\ sources'[a].return = sources[a].return
    BY <1>0, <2>1, SourceAsked
  <2>4. \A s \in DOMAIN SourceContents : Quiet(sources[s])
    BY <1>0 DEF Control, OthersQuiet
  <2>5. cs' \in Streams /\ cs'.at = "open" /\ pump' \in Pumps /\ pump'.at = "next"
    <3>1. <<>> \in Contents /\ <<>> \in Seq(DataUnits)
      BY ContentSizeEmpty, EmptyTyped
    <3>2. QED
      BY <2>1, <3>1 DEF Streams, Pumps
  <2>6. Typed'
    BY <1>0, <2>2, <2>3, <2>5 DEF Typed, Collected, WellTyped, Changed
  <2>7. Positions(writer')
    BY <1>0, <2>2 DEF Positions
  <2>8. OthersQuiet'
    BY <2>2, <2>3, <2>4 DEF OthersQuiet, Changed
  <2>9. SourceFits'
    BY <1>0, <2>2, <2>3, <2>4, <2>5 DEF SourceFits, Quiet
  <2>10. PumpFits' /\ StreamFits'
    BY <2>2, <2>3, <2>5 DEF PumpFits, StreamFits
  <2>11. QED
    BY <2>6, <2>7, <2>8, <2>9, <2>10 DEF Control
<1>3. CASE ~Incremental(writer)
  <2>1. writer' = [w EXCEPT !.at = "ask", !.then = "ask"] /\ UNCHANGED <<cs, pump, sources>>
    BY <1>3 DEF BeginEntry
  <2>2. /\ WellTyped(writer') /\ writer'.at = "ask" /\ writer'.then = "ask"
        /\ writer'.g = writer.g /\ writer'.outcome = "none"
        /\ SourceOf(writer') = a /\ Active(writer') /\ Phase(writer') = "ask"
    BY <1>1, <2>1
  <2>3. Positions(writer') /\ Stays(writer, writer')
    BY <1>0, <2>2 DEF Positions, Stays
  <2>4. QED
    BY <1>0, <2>1, <2>2, <2>3, WriterStays
<1>4. QED
  BY <1>2, <1>3

(* A step of the entry that changes its source and leaves the rest alone.  *)
LEMMA SourceMoves ==
  ASSUME Typed, Control, Active(writer), Phase(writer) \in {"ask", "wait", "read", "join", "closing"},
         WellTyped(writer'), Positions(writer'), Changed(sources', SourceOf(writer)),
         Active(writer') => SourceOf(writer') = SourceOf(writer),
         ~Active(writer') => Quiet(sources'[SourceOf(writer)]),
         Active(writer') /\ Phase(writer') \in {"ask", "wait"} => ~sources'[SourceOf(writer)].return,
         Phase(writer') \in {"describe", "join"} => Quiet(sources'[SourceOf(writer)]),
         Phase(writer') # "read", pump.at # "next", cs.at \notin {"open", "closing"},
         UNCHANGED <<specs, names, streaming, comment, pump, cs, aborted>>
  PROVE  Typed' /\ Control'
<1> DEFINE a == SourceOf(writer)
<1>0. a \in DOMAIN SourceContents
  BY EntryFacts, TypedFacts DEF Active
<1> HIDE DEF a
<1>1. Typed'
  BY DEF Typed, Collected, WellTyped, Changed
<1>2. OthersQuiet'
  <2>1. ASSUME NEW s \in DOMAIN SourceContents, ~(Active(writer') /\ s = SourceOf(writer'))
        PROVE Quiet(sources'[s])
    <3>1. CASE s = a
      BY <2>1, <3>1 DEF a
    <3>2. CASE s # a
      BY <3>2 DEF Control, OthersQuiet, Changed, a
    <3>3. QED
      BY <3>1, <3>2
  <2>2. QED
    BY <2>1 DEF OthersQuiet
<1>3. SourceFits'
  BY DEF SourceFits
<1>4. PumpFits' /\ StreamFits'
  BY DEF Control, PumpFits, StreamFits
<1>5. QED
  BY <1>1, <1>2, <1>3, <1>4 DEF Control

(* What holds of the entry and its source while the writer waits for it.   *)
LEMMA EntryWaits ==
  ASSUME Typed, Control, writer.at \in {"ask", "wait", "join", "closing"},
         writer.at = "closing" => ~sources[SourceOf(writer)].next
  PROVE  /\ writer \in Writers /\ WellTyped(writer) /\ Positions(writer)
         /\ sources \in [DOMAIN SourceContents -> Sources]
         /\ writer.g.at = "entry" /\ SourceOf(writer) \in DOMAIN SourceContents
         /\ Current(writer) \in Plans(Refs)
         /\ Active(writer) /\ Phase(writer) = writer.at
         /\ pump.at # "next" /\ cs.at \notin {"open", "closing"}
         /\ writer.at # "closing" => writer.outcome = "none"
<1>1. /\ writer \in Writers /\ WellTyped(writer) /\ Positions(writer) /\ writer.g.at = "entry"
      /\ sources \in [DOMAIN SourceContents -> Sources]
      /\ writer.at # "closing" => writer.outcome = "none"
  BY TypedFacts DEF Control, Positions
<1>2. Active(writer) /\ Phase(writer) = writer.at
  BY <1>1 DEF Active, Phase
<1>3. SourceOf(writer) \in DOMAIN SourceContents /\ Current(writer) \in Plans(Refs)
  BY <1>1, EntryFacts
<1>4. pump.at # "next" /\ cs.at \notin {"open", "closing"}
  BY <1>2 DEF Control, PumpFits, StreamFits
<1>5. QED
  BY <1>1, <1>2, <1>3, <1>4

(* AskSource: keeps the types and the control. *)
LEMMA AskSourceStep == ASSUME Typed, Control, AskSource PROVE Typed' /\ Control'
<1> DEFINE a == SourceOf(writer)
<1>0. /\ writer.at = "ask" /\ writer' = [writer EXCEPT !.at = "wait"] /\ sources' = Asked(a)
      /\ UNCHANGED <<specs, names, streaming, comment, pump, cs, aborted>>
  BY DEF AskSource, builder
<1>1. /\ writer \in Writers /\ WellTyped(writer) /\ Positions(writer)
      /\ sources \in [DOMAIN SourceContents -> Sources]
      /\ writer.g.at = "entry" /\ a \in DOMAIN SourceContents
      /\ Active(writer) /\ Phase(writer) = "ask" /\ writer.outcome = "none"
      /\ pump.at # "next" /\ cs.at \notin {"open", "closing"}
  BY <1>0, EntryWaits
<1>2. writer' \in Writers
  BY <1>0, <1>1, Zenon DEF Writers
<1>3. writer'.at = "wait" /\ writer'.g = writer.g /\ writer'.outcome = "none"
  BY <1>0, <1>1 DEF Writers
<1>4. WellTyped(writer')
  BY <1>1, <1>2, <1>3 DEF WellTyped
<1>5. Positions(writer') /\ SourceOf(writer') = a /\ Active(writer') /\ Phase(writer') = "wait"
  BY <1>1, <1>3 DEF Positions, SourceOf, Current, Active, Phase
<1> HIDE DEF a
<1>6. Changed(sources', a) /\ sources'[a].return = sources[a].return
  BY <1>0, <1>1, SourceAsked
<1>7. ~sources[a].return
  BY <1>1 DEF Control, SourceFits, a
<1>8. QED
  BY <1>0, <1>1, <1>4, <1>5, <1>6, <1>7, SourceMoves DEF a

(* SourceFails: keeps the types and the control. *)
LEMMA SourceFailsStep == ASSUME Typed, Control, SourceFails PROVE Typed' /\ Control'
<1> DEFINE a == SourceOf(writer)
<1>0. /\ writer.at = "wait" /\ writer' = Ended(writer, "source") /\ sources' = Drained(a)
      /\ UNCHANGED <<specs, names, streaming, comment, pump, cs, aborted>>
  BY DEF SourceFails, builder
<1>1. /\ WellTyped(writer)
      /\ sources \in [DOMAIN SourceContents -> Sources] /\ a \in DOMAIN SourceContents
      /\ Active(writer) /\ Phase(writer) = "wait"
      /\ pump.at # "next" /\ cs.at \notin {"open", "closing"}
  BY <1>0, EntryWaits
<1>2. "source" \in Outcomes
  BY DEF Outcomes
<1>3. WellTyped(writer') /\ writer'.at = "ended" /\ writer'.outcome = "source"
  BY <1>0, <1>1, <1>2, EndedIs
<1>4. Positions(writer') /\ ~Active(writer') /\ Phase(writer') = "ended"
  BY <1>3 DEF Positions, Active, Phase
<1> HIDE DEF a
<1>5. ~sources[a].return
  BY <1>1 DEF Control, SourceFits, a
<1>6. Changed(sources', a) /\ Quiet(sources'[a])
  BY <1>0, <1>1, <1>5, SourceDrained DEF Quiet
<1>7. QED
  BY <1>0, <1>1, <1>3, <1>4, <1>6, SourceMoves DEF a

(* SourceDone: keeps the types and the control. *)
LEMMA SourceDoneStep == ASSUME Typed, Control, SourceDone PROVE Typed' /\ Control'
<1> DEFINE a == SourceOf(writer)
<1> DEFINE whole == Deflated(writer.content)
<1> DEFINE w == Sized(writer, writer.content, whole.len)
<1> DEFINE u == Sized(writer, writer.content, ContentSize(writer.content))
<1>0. /\ writer.at = "wait" /\ sources' = Drained(a)
      /\ UNCHANGED <<specs, names, streaming, comment, pump, cs, aborted>>
      /\ writer' \in {Descriptor(u), Ended(w, "range"), Piece(w, <<whole>>, "describe")}
  BY DEF SourceDone, builder
<1>1. /\ writer \in Writers /\ WellTyped(writer) /\ writer.g.at = "entry" /\ writer.outcome = "none"
      /\ sources \in [DOMAIN SourceContents -> Sources] /\ a \in DOMAIN SourceContents
      /\ Active(writer) /\ Phase(writer) = "wait"
      /\ pump.at # "next" /\ cs.at \notin {"open", "closing"}
  BY <1>0, EntryWaits
<1>2. /\ writer.content \in Contents /\ ContentSize(writer.content) \in Nat
      /\ whole \in FileUnits /\ whole.len \in Nat /\ <<whole>> \in Seq(FileUnits)
  <2>1. writer.content \in Contents
    BY <1>1 DEF Writers
  <2>2. whole \in FileUnits
    BY <2>1, DeflatedTyped
  <2> HIDE DEF whole
  <2>3. QED
    BY <2>1, <2>2, ContentSizeNat, UnitLength, Singleton
<1>3. ASSUME NEW n \in Nat
      PROVE  LET v == Sized(writer, writer.content, n)
             IN  WellTyped(v) /\ v.g.at = "entry" /\ v.outcome = "none" /\ SourceOf(v) = a
  <2> DEFINE v == Sized(writer, writer.content, n)
  <2>1. WellTyped(v) /\ SameEntry(writer.g, v.g) /\ v = Reading(writer, writer.content, v.g)
    BY <1>1, <1>2, SizedIs
  <2> HIDE DEF v, a
  <2>2. v.outcome = "none" /\ v.g.at = "entry"
    BY <1>1, <2>1, ReadingFields DEF SameEntry
  <2>3. SourceOf(v) = a
    BY <1>1, <2>1, SameEntryFacts DEF a
  <2>4. QED
    BY <2>1, <2>2, <2>3 DEF v
<1> HIDE DEF whole
<1>4. /\ WellTyped(w) /\ w.g.at = "entry" /\ w.outcome = "none" /\ SourceOf(w) = a
      /\ WellTyped(u) /\ u.g.at = "entry" /\ u.outcome = "none"
      /\ w \in Writers /\ u \in Writers
  BY <1>2, <1>3 DEF WellTyped
<1> HIDE DEF w, u
<1>5. ~sources[a].return
  BY <1>1 DEF Control, SourceFits
<1>6. Changed(sources', a) /\ Quiet(sources'[a])
  BY <1>0, <1>1, <1>5, SourceDrained DEF Quiet
<1>7. /\ WellTyped(writer') /\ Positions(writer')
      /\ Phase(writer') \in {"entryEnd", "ended", "describe"}
      /\ Active(writer') => SourceOf(writer') = a
  <2>1. CASE writer' = Descriptor(u)
    <3>1. /\ WellTyped(writer') /\ SameEntry(u.g, writer'.g)
          /\ writer' = AtPush(u, "entryEnd", writer'.g, writer'.out, writer'.rest, writer'.consumed)
      BY <1>4, <2>1, DescriptorIs
    <3>2. /\ writer'.at = "push" /\ writer'.then = "entryEnd" /\ writer'.outcome = "none"
          /\ writer'.g.at = "entry"
      BY <1>4, <3>1, AtPushFields DEF SameEntry
    <3>3. QED
      BY <3>1, <3>2 DEF Positions, Phase, Active
  <2>2. CASE writer' = Ended(w, "range")
    <3>1. "range" \in Outcomes
      BY DEF Outcomes
    <3>2. WellTyped(writer') /\ writer'.at = "ended" /\ writer'.outcome = "range"
      BY <1>4, <2>2, <3>1, EndedIs
    <3>3. QED
      BY <3>2 DEF Positions, Phase, Active
  <2>3. CASE writer' = Piece(w, <<whole>>, "describe")
    <3>1. "describe" \in Ways
      BY DEF Ways
    <3>2. /\ WellTyped(writer')
          /\ writer' = AtPush(w, "describe", w.g, writer'.out, writer'.rest, writer'.consumed)
      BY <1>2, <1>4, <2>3, <3>1, PieceIs
    <3>3. /\ writer'.at = "push" /\ writer'.then = "describe" /\ writer'.outcome = "none"
          /\ writer'.g = w.g
      BY <1>4, <3>2, AtPushFields
    <3>4. SourceOf(writer') = a
      BY <1>4, <3>3 DEF SourceOf, Current
    <3>5. QED
      BY <1>4, <3>2, <3>3, <3>4 DEF Positions, Phase
  <2>4. QED
    BY <1>0, <2>1, <2>2, <2>3
<1> HIDE DEF a
<1>8. QED
  BY <1>0, <1>1, <1>6, <1>7, SourceMoves DEF a

(* Joins: keeps the types and the control. *)
LEMMA JoinsStep == ASSUME Typed, Control, Join PROVE Typed' /\ Control'
<1> DEFINE a == SourceOf(writer)
<1> DEFINE w == Sized(writer, writer.content, Current(writer).compressedSize)
<1>0. /\ writer.at = "join" /\ sources' = [sources EXCEPT ![a].return = TRUE]
      /\ UNCHANGED <<specs, names, streaming, comment, pump, cs, aborted>>
      /\ writer' = [w EXCEPT !.at = "closing"]
  BY DEF Join, builder
<1>1. /\ writer \in Writers /\ WellTyped(writer) /\ writer.g.at = "entry" /\ writer.outcome = "none"
      /\ sources \in [DOMAIN SourceContents -> Sources] /\ a \in DOMAIN SourceContents
      /\ Active(writer) /\ Phase(writer) = "join" /\ Current(writer) \in Plans(Refs)
      /\ pump.at # "next" /\ cs.at \notin {"open", "closing"}
  BY <1>0, EntryWaits
<1>2. Current(writer).compressedSize \in Nat /\ writer.content \in Contents
  BY <1>1 DEF Plans, Writers
<1>3. WellTyped(w) /\ SameEntry(writer.g, w.g) /\ w = Reading(writer, writer.content, w.g)
  BY <1>1, <1>2, SizedIs
<1> HIDE DEF w, a
<1>4. w.outcome = "none" /\ w.g.at = "entry" /\ w \in Writers /\ SourceOf(w) = a
  BY <1>1, <1>3, ReadingFields, SameEntryFacts DEF SameEntry, WellTyped, a
<1>5. writer' \in Writers
  BY <1>0, <1>4, Zenon DEF Writers
<1>6. writer'.at = "closing" /\ writer'.g = w.g /\ writer'.outcome = "none"
  BY <1>0, <1>4 DEF Writers
<1>7. WellTyped(writer')
  BY <1>3, <1>5, <1>6 DEF WellTyped
<1>8. Positions(writer') /\ Phase(writer') = "closing" /\ SourceOf(writer') = a /\ Active(writer')
  BY <1>4, <1>6 DEF Positions, Phase, SourceOf, Current, Active
<1>9. Changed(sources', a)
  BY <1>0, <1>1, SourceReturns
<1>10. QED
  BY <1>0, <1>1, <1>7, <1>8, <1>9, SourceMoves DEF a

(* SourceReturned: keeps the types and the control. *)
LEMMA SourceReturnedStep == ASSUME Typed, Control, SourceReturned PROVE Typed' /\ Control'
<1> DEFINE a == SourceOf(writer)
<1>0. /\ writer.at = "closing" /\ ~sources[a].next
      /\ sources' = [sources EXCEPT ![a].return = FALSE, ![a].state = "closed"]
      /\ UNCHANGED <<specs, names, streaming, comment, pump, cs, aborted>>
      /\ \/ writer.outcome # "none" /\ writer' = Ended(writer, writer.outcome)
         \/ writer' = Ended(writer, "range")
         \/ writer.outcome = "none" /\ writer' = Descriptor(writer)
  BY DEF SourceReturned, builder
<1>1. /\ writer \in Writers /\ WellTyped(writer) /\ writer.g.at = "entry"
      /\ sources \in [DOMAIN SourceContents -> Sources] /\ a \in DOMAIN SourceContents
      /\ Active(writer) /\ Phase(writer) = "closing"
      /\ pump.at # "next" /\ cs.at \notin {"open", "closing"}
  BY <1>0, EntryWaits
<1> HIDE DEF a
<1>2. Changed(sources', a) /\ Quiet(sources'[a])
  BY <1>0, <1>1, SourceSettles
<1>3. /\ WellTyped(writer') /\ Positions(writer') /\ ~Active(writer')
      /\ Phase(writer') \in {"ended", "entryEnd"}
  <2>1. CASE \E outcome \in Outcomes : writer' = Ended(writer, outcome)
    <3>1. PICK outcome \in Outcomes : writer' = Ended(writer, outcome)
      BY <2>1
    <3>2. WellTyped(writer') /\ writer'.at = "ended" /\ writer'.outcome = outcome
      BY <1>1, <3>1, EndedIs
    <3>3. outcome # "none"
      BY DEF Outcomes
    <3>4. QED
      BY <3>2, <3>3 DEF Positions, Phase, Active
  <2>2. CASE writer.outcome = "none" /\ writer' = Descriptor(writer)
    <3>1. /\ WellTyped(writer') /\ SameEntry(writer.g, writer'.g)
          /\ writer' = AtPush(writer, "entryEnd", writer'.g, writer'.out, writer'.rest,
                              writer'.consumed)
      BY <1>1, <2>2, DescriptorIs
    <3>2. /\ writer'.at = "push" /\ writer'.then = "entryEnd" /\ writer'.outcome = "none"
          /\ writer'.g.at = "entry"
      BY <1>1, <2>2, <3>1, AtPushFields DEF SameEntry
    <3>3. QED
      BY <3>1, <3>2 DEF Positions, Phase, Active
  <2>3. "range" \in Outcomes /\ (writer.outcome # "none" => writer.outcome \in Outcomes)
    BY <1>1 DEF Writers, Outcomes
  <2>4. QED
    BY <1>0, <2>1, <2>2, <2>3
<1>4. QED
  BY <1>0, <1>1, <1>2, <1>3, SourceMoves DEF a

(* A chunk is counted. *)
Counted(w, chunk) == [w EXCEPT !.bytesIn = @ + chunk.size]

(* It counts once, in what is read and in the plan. *)
LEMMA CountedIs ==
  ASSUME NEW w, WellTyped(w), NEW chunk \in Chunks
  PROVE  LET v == Counted(w, chunk)
         IN  /\ WellTyped(v) /\ v.bytesIn = w.bytesIn + chunk.size /\ v.g = w.g /\ v.at = w.at
             /\ v.then = w.then /\ v.outcome = w.outcome /\ v.content = w.content
             /\ v.out = w.out /\ v.rest = w.rest /\ v.filled = w.filled
             /\ v.yielded = w.yielded /\ v.bytesOut = w.bytesOut /\ v.planIndex = w.planIndex
             /\ v.entriesDone = w.entriesDone
<1> DEFINE v == Counted(w, chunk)
<1>1. w \in Writers /\ w.bytesIn \in Nat /\ chunk.size \in Nat
  BY DEF WellTyped, Writers, Chunks
<1>2. w.bytesIn + chunk.size \in Nat
  BY <1>1
<1>3. v \in Writers
  BY <1>1, <1>2, Zenon DEF Writers, Counted
<1>4. /\ v.bytesIn = w.bytesIn + chunk.size /\ v.g = w.g /\ v.at = w.at
      /\ v.then = w.then /\ v.outcome = w.outcome /\ v.content = w.content
      /\ v.out = w.out /\ v.rest = w.rest /\ v.filled = w.filled
      /\ v.yielded = w.yielded /\ v.bytesOut = w.bytesOut /\ v.planIndex = w.planIndex
      /\ v.entriesDone = w.entriesDone
  BY <1>1 DEF Counted, Writers
<1> HIDE DEF v
<1>5. QED
  BY <1>3, <1>4 DEF WellTyped, v

(* A content with a chunk more is one. *)
LEMMA AppendTyped ==
  ASSUME NEW content \in Contents, NEW chunk \in Chunks
  PROVE  Append(content, chunk) \in Contents
BY DEF Contents

(* The four ways a chunk can go. *)
ChunkWriter(chunk) ==
  Sized(Counted(writer, chunk), Append(writer.content, chunk), ContentSize(Append(writer.content, chunk)))
ChunkUnit(chunk) == DataUnit(METHOD_STORE, chunk.size, <<chunk>>, FALSE)
ChunkGoes(chunk) ==
  \/ writer' = [writer EXCEPT !.at = "closing", !.outcome = "aborted"]
  \/ writer' = [writer EXCEPT !.at = "ask", !.content = Append(writer.content, chunk),
                              !.bytesIn = writer.bytesIn + chunk.size]
  \/ writer' = [ChunkWriter(chunk) EXCEPT !.at = "closing", !.outcome = "range"]
  \/ writer' = Piece(ChunkWriter(chunk), <<ChunkUnit(chunk)>>, "ask")

(* Whichever it is, the content has the chunk and so has the count. *)
LEMMA ChunkWriterIs ==
  ASSUME WellTyped(writer), writer.g.at = "entry", NEW chunk \in Chunks
  PROVE  LET w == ChunkWriter(chunk)
             content == Append(writer.content, chunk)
         IN  /\ WellTyped(w) /\ SameEntry(writer.g, w.g) /\ w.content = content
             /\ w.bytesIn = writer.bytesIn + chunk.size
             /\ w.outcome = writer.outcome /\ w.out = writer.out /\ w.rest = writer.rest
             /\ w.filled = writer.filled /\ w.yielded = writer.yielded
             /\ w.bytesOut = writer.bytesOut /\ w.planIndex = writer.planIndex
             /\ w.entriesDone = writer.entriesDone
<1> DEFINE content == Append(writer.content, chunk)
<1> DEFINE u == Counted(writer, chunk)
<1> DEFINE w == ChunkWriter(chunk)
<1>1. writer.content \in Contents
  BY DEF WellTyped, Writers
<1>2. content \in Contents /\ ContentSize(content) \in Nat
  BY <1>1, AppendTyped, ContentSizeNat
<1>3. /\ WellTyped(u) /\ u.bytesIn = writer.bytesIn + chunk.size /\ u.g = writer.g
      /\ u.outcome = writer.outcome /\ u.out = writer.out /\ u.rest = writer.rest
      /\ u.filled = writer.filled /\ u.yielded = writer.yielded
      /\ u.bytesOut = writer.bytesOut /\ u.planIndex = writer.planIndex
      /\ u.entriesDone = writer.entriesDone /\ u \in Writers
  BY CountedIs DEF WellTyped
<1> HIDE DEF u, content
<1>4. WellTyped(w) /\ SameEntry(u.g, w.g) /\ w = Reading(u, content, w.g)
  BY <1>2, <1>3, SizedIs DEF ChunkWriter, u, content
<1> HIDE DEF w
<1>5. /\ w.content = content /\ w.bytesIn = u.bytesIn
      /\ w.outcome = u.outcome /\ w.out = u.out /\ w.rest = u.rest
      /\ w.filled = u.filled /\ w.yielded = u.yielded
      /\ w.bytesOut = u.bytesOut /\ w.planIndex = u.planIndex
      /\ w.entriesDone = u.entriesDone
  BY <1>3, <1>4, ReadingFields
<1>6. /\ w.bytesIn = writer.bytesIn + chunk.size
      /\ w.outcome = writer.outcome /\ w.out = writer.out /\ w.rest = writer.rest
      /\ w.filled = writer.filled /\ w.yielded = writer.yielded
      /\ w.bytesOut = writer.bytesOut /\ w.planIndex = writer.planIndex
      /\ w.entriesDone = writer.entriesDone
  BY <1>3, <1>5, Zenon
<1>7. SameEntry(writer.g, w.g)
  BY <1>3, <1>4, Zenon
<1>8. QED
  BY <1>4, <1>5, <1>6, <1>7 DEF w, content

(* An arriving chunk goes one of them. *)
LEMMA ChunkGoing ==
  ASSUME WellTyped(writer), ChunkArrives
  PROVE  /\ writer.at = "wait" /\ sources[SourceOf(writer)].left # <<>>
         /\ ChunkGoes(Head(sources[SourceOf(writer)].left))
         /\ LET a == SourceOf(writer)
                t == [sources EXCEPT ![a].left = Tail(@), ![a].next = FALSE]
            IN  \/ sources' = t
                \/ sources' = [t EXCEPT ![a].return = TRUE] /\ writer'.at = "closing"
         /\ UNCHANGED <<specs, names, streaming, comment, pump, cs, aborted>>
<1> DEFINE a == SourceOf(writer)
<1> DEFINE chunk == Head(sources[a].left)
<1> DEFINE content == Append(writer.content, chunk)
<1> DEFINE u == [writer EXCEPT !.bytesIn = @ + chunk.size]
<1> DEFINE w == Sized(u, content, ContentSize(content))
<1> DEFINE t == [sources EXCEPT ![a].left = Tail(@), ![a].next = FALSE]
<1>1. writer \in Writers
  BY Zenon DEF WellTyped
<1>2. w = ChunkWriter(chunk) /\ w.bytesIn = writer.bytesIn + chunk.size
  BY <1>1, Zenon DEF ChunkWriter, Counted, Sized, Writers
<1>3. \A v \in {writer, w} : DOMAIN v = DOMAIN writer /\ "at" \in DOMAIN v
  BY <1>1, Zenon DEF Writers, Sized
<1>4. \A v \in {writer, w} : \A code : [v EXCEPT !.at = "closing", !.outcome = code].at = "closing"
  BY <1>3
<1> DEFINE given(v, code) == /\ writer' = [v EXCEPT !.at = "closing", !.outcome = code]
                            /\ sources' = [t EXCEPT ![a].return = TRUE]
<1>5. /\ writer.at = "wait" /\ sources[a].left # <<>>
      /\ \/ given(writer, "aborted")
         \/ /\ writer' = [writer EXCEPT !.at = "ask", !.content = content, !.bytesIn = w.bytesIn]
            /\ sources' = t
         \/ given(w, "range")
         \/ writer' = Piece(w, <<ChunkUnit(chunk)>>, "ask") /\ sources' = t
      /\ UNCHANGED <<specs, names, streaming, comment, pump, cs, aborted>>
  BY Zenon DEF ChunkArrives, builder, ChunkUnit
<1> HIDE DEF w, u, t, content
<1>6. ChunkGoes(chunk)
  BY <1>2, <1>5, Zenon DEF ChunkGoes, content
<1>7. sources' = t \/ (sources' = [t EXCEPT ![a].return = TRUE] /\ writer'.at = "closing")
  <2>1. CASE given(writer, "aborted")
    <3>1. writer'.at = "closing"
      BY <1>4, <2>1, Zenon
    <3>2. QED
      BY <2>1, <3>1
  <2>2. CASE given(w, "range")
    <3>1. writer'.at = "closing"
      BY <1>4, <2>2, Zenon
    <3>2. QED
      BY <2>2, <3>1
  <2>3. QED
    BY <1>5, <2>1, <2>2, Zenon
<1>8. QED
  BY <1>5, <1>6, <1>7, Zenon DEF t

(* A chunk as a stretch of payload. *)
LEMMA ChunkTyped ==
  ASSUME NEW chunk \in Chunks PROVE ChunkUnit(chunk) \in FileUnits
<1>1. <<chunk>> \in Contents
  BY Singleton DEF Contents
<1>2. QED
  BY <1>1 DEF ChunkUnit, DataUnit, METHOD_STORE, FileUnits, DataUnits, Chunks

(* ChunkArrives: keeps the types and the control. *)
LEMMA ChunkArrivesStep == ASSUME Typed, Control, ChunkArrives PROVE Typed' /\ Control'
<1> DEFINE a == SourceOf(writer)
<1> DEFINE chunk == Head(sources[a].left)
<1> DEFINE w == ChunkWriter(chunk)
<1> DEFINE t == [sources EXCEPT ![a].left = Tail(@), ![a].next = FALSE]
<1>0. /\ writer.at = "wait" /\ sources[a].left # <<>> /\ ChunkGoes(chunk)
      /\ sources' = t \/ (sources' = [t EXCEPT ![a].return = TRUE] /\ writer'.at = "closing")
      /\ UNCHANGED <<specs, names, streaming, comment, pump, cs, aborted>>
  BY ChunkGoing DEF Typed
<1>1. /\ writer \in Writers /\ WellTyped(writer) /\ writer.g.at = "entry" /\ writer.outcome = "none"
      /\ sources \in [DOMAIN SourceContents -> Sources] /\ a \in DOMAIN SourceContents
      /\ Active(writer) /\ Phase(writer) = "wait"
      /\ pump.at # "next" /\ cs.at \notin {"open", "closing"}
  BY <1>0, EntryWaits, Zenon
<1>2. /\ Changed(t, a) /\ t[a].return = sources[a].return
      /\ Changed([t EXCEPT ![a].return = TRUE], a) /\ chunk \in Chunks
  BY <1>0, <1>1, SourceDelivers, Zenon
<1>3. WellTyped(w) /\ SameEntry(writer.g, w.g) /\ w.outcome = "none" /\ w \in Writers
  BY <1>1, <1>2, ChunkWriterIs DEF WellTyped
<1>4. ~sources[a].return
  BY <1>1 DEF Control, SourceFits
<1> HIDE DEF a, t, w, chunk
<1>5. SourceOf(w) = a /\ w.g.at = "entry"
  BY <1>1, <1>3, SameEntryFacts DEF a, SameEntry
<1>6. /\ WellTyped(writer') /\ writer'.g.at = "entry" /\ SourceOf(writer') = a
      /\ \/ writer'.at = "closing"
         \/ writer'.at = "ask" /\ writer'.outcome = "none"
         \/ writer'.at = "push" /\ writer'.then = "ask" /\ writer'.outcome = "none"
  <2>0. "closing" \in Places /\ "ask" \in Places /\ "ask" \in Ways
    BY DEF Places, Ways
  <2>1. CASE writer' = [writer EXCEPT !.at = "closing", !.outcome = "aborted"]
    <3>1. "aborted" \in {"none", "aborted", "refused", "returned", "range", "source", "done"}
      OBVIOUS
    <3>2. writer' \in Writers
      BY <1>1, <2>0, <2>1, <3>1, Zenon DEF Writers, Places
    <3>3. writer'.at = "closing" /\ writer'.g = writer.g
      BY <1>1, <2>1 DEF Writers
    <3>4. QED
      BY <1>1, <3>2, <3>3 DEF WellTyped, SourceOf, Current, a
  <2>2. CASE writer' = [writer EXCEPT !.at = "ask", !.content = Append(writer.content, chunk),
                              !.bytesIn = writer.bytesIn + chunk.size]
    <3>1. writer.bytesIn + chunk.size \in Nat /\ Append(writer.content, chunk) \in Contents
      <4>1. writer.bytesIn \in Nat /\ writer.content \in Contents /\ chunk.size \in Nat
        BY <1>1, <1>2 DEF Writers, Chunks
      <4>2. QED
        BY <1>2, <4>1, AppendTyped
    <3>2. writer' \in Writers
      BY <1>1, <2>0, <2>2, <3>1, Zenon DEF Writers, Places
    <3>3. writer'.at = "ask" /\ writer'.g = writer.g /\ writer'.outcome = "none"
      BY <1>1, <2>2 DEF Writers
    <3>4. QED
      BY <1>1, <3>2, <3>3 DEF WellTyped, SourceOf, Current, a
  <2>3. CASE writer' = [w EXCEPT !.at = "closing", !.outcome = "range"]
    <3>1. "range" \in {"none", "aborted", "refused", "returned", "range", "source", "done"}
      OBVIOUS
    <3>2. writer' \in Writers
      BY <1>3, <2>0, <2>3, <3>1, Zenon DEF Writers, Places
    <3>3. writer'.at = "closing" /\ writer'.g = w.g
      BY <1>3, <2>3 DEF Writers
    <3>4. QED
      BY <1>3, <1>5, <3>2, <3>3 DEF WellTyped, SourceOf, Current
  <2>4. CASE writer' = Piece(w, <<ChunkUnit(chunk)>>, "ask")
    <3>1. <<ChunkUnit(chunk)>> \in Seq(FileUnits)
      BY <1>2, ChunkTyped, Singleton
    <3>2. /\ WellTyped(writer')
          /\ writer' = AtPush(w, "ask", w.g, writer'.out, writer'.rest, writer'.consumed)
      BY <1>3, <2>0, <2>4, <3>1, PieceIs
    <3>3. writer'.at = "push" /\ writer'.then = "ask" /\ writer'.outcome = "none" /\ writer'.g = w.g
      BY <1>3, <3>2, AtPushFields
    <3>4. QED
      BY <1>5, <3>2, <3>3 DEF SourceOf, Current
  <2>5. QED
    BY <1>0, <2>1, <2>2, <2>3, <2>4 DEF ChunkGoes, w
<1>7. /\ Positions(writer') /\ Active(writer') /\ Phase(writer') \in {"closing", "ask"}
      /\ writer'.at = "closing" => Phase(writer') = "closing"
  BY <1>6 DEF Positions, Active, Phase
<1>8. Changed(sources', a) /\ (Phase(writer') = "ask" => ~sources'[a].return)
  BY <1>0, <1>2, <1>4, <1>7
<1>9. QED
  BY <1>0, <1>1, <1>6, <1>7, <1>8, SourceMoves DEF a

(* A step beside the entry that is read from the stream: the writer stays  *)
(* where it is, while the pump, the stream or the source moves.            *)
LEMMA PumpMoves ==
  ASSUME Typed, Control, Active(writer), Phase(writer) \in {"read", "closing"},
         WellTyped(writer'), Positions(writer'), Active(writer'), Phase(writer') = Phase(writer),
         SourceOf(writer') = SourceOf(writer), writer'.outcome = writer.outcome,
         pump' \in Pumps, cs' \in Streams, Changed(sources', SourceOf(writer)),
         Phase(writer) = "read" => ~sources'[SourceOf(writer)].return,
         Phase(writer) = "read" /\ pump'.at \in {"close", "done"} =>
           Quiet(sources'[SourceOf(writer)]),
         pump'.at = "next" => /\ sources'[SourceOf(writer)].next
                              /\ Phase(writer) = "closing" => writer.outcome # "none",
         cs'.at \in {"open", "closing"} => Phase(writer) = "read",
         cs'.at = "closing" => pump'.at = "close", cs'.at = "closed" => pump'.at = "done",
         UNCHANGED <<specs, names, streaming, comment, aborted>>
  PROVE  Typed' /\ Control'
<1> DEFINE a == SourceOf(writer)
<1>0. a \in DOMAIN SourceContents
  BY EntryFacts, TypedFacts DEF Active
<1> HIDE DEF a
<1>1. Typed'
  BY DEF Typed, Collected, WellTyped, Changed
<1>2. OthersQuiet'
  <2>1. ASSUME NEW s \in DOMAIN SourceContents, s # a
        PROVE Quiet(sources'[s])
    BY <2>1 DEF Control, OthersQuiet, Changed, a
  <2>2. QED
    BY <2>1 DEF OthersQuiet, a
<1>3. SourceFits'
  BY DEF SourceFits
<1>4. PumpFits'
  BY DEF PumpFits
<1>5. StreamFits'
  BY DEF StreamFits
<1>6. QED
  BY <1>1, <1>2, <1>3, <1>4, <1>5 DEF Control

(* What holds while the pump waits for its source. *)
LEMMA PumpReads ==
  ASSUME Typed, Control, pump.at = "next"
  PROVE  /\ writer \in Writers /\ WellTyped(writer) /\ Positions(writer)
         /\ sources \in [DOMAIN SourceContents -> Sources] /\ cs \in Streams /\ pump \in Pumps
         /\ writer.g.at = "entry" /\ SourceOf(writer) \in DOMAIN SourceContents
         /\ Active(writer) /\ Phase(writer) \in {"read", "closing"}
         /\ sources[SourceOf(writer)].next
         /\ Phase(writer) = "read" => ~sources[SourceOf(writer)].return
         /\ Phase(writer) = "closing" => writer.outcome # "none"
         /\ cs.at \notin {"closing", "closed"}
         /\ cs.at = "open" => Phase(writer) = "read"
<1>1. /\ writer \in Writers /\ WellTyped(writer) /\ Positions(writer)
      /\ sources \in [DOMAIN SourceContents -> Sources] /\ cs \in Streams /\ pump \in Pumps
  BY TypedFacts DEF Control, Typed
<1>2. /\ Active(writer) /\ Phase(writer) \in {"read", "closing"}
      /\ sources[SourceOf(writer)].next
      /\ Phase(writer) = "closing" => writer.outcome # "none"
  BY DEF Control, PumpFits
<1>3. writer.g.at = "entry" /\ SourceOf(writer) \in DOMAIN SourceContents
  BY <1>1, <1>2, EntryFacts DEF Active
<1>4. Phase(writer) = "read" => ~sources[SourceOf(writer)].return
  BY <1>2 DEF Control, SourceFits
<1>5. cs.at \notin {"closing", "closed"} /\ (cs.at = "open" => Phase(writer) = "read")
  BY DEF Control, StreamFits
<1>6. QED
  BY <1>1, <1>2, <1>3, <1>4, <1>5

(* A stream that is failed is a stream, and not open. *)
LEMMA StreamFailing ==
  ASSUME cs \in Streams, NEW why \in {"aborted", "source"}
  PROVE  LET d == IF cs.at = "open" THEN [cs EXCEPT !.at = why, !.ready = <<>>] ELSE cs
         IN  d \in Streams /\ d.at # "open" /\ (d.at # cs.at => d.at = why)
<1>1. <<>> \in Seq(DataUnits)
      /\ why \in {"none", "open", "closing", "closed", "aborted", "source", "cancelled"}
  BY EmptyTyped
<1>2. [cs EXCEPT !.at = why, !.ready = <<>>] \in Streams
  BY <1>1, Zenon DEF Streams
<1>3. [cs EXCEPT !.at = why, !.ready = <<>>].at = why
  BY DEF Streams
<1>4. QED
  BY <1>2, <1>3

(* PumpFails: keeps the types and the control. *)
LEMMA PumpFailsStep == ASSUME Typed, Control, PumpFails PROVE Typed' /\ Control'
<1> DEFINE a == SourceOf(writer)
<1>0. /\ pump.at = "next" /\ sources' = Drained(a) /\ pump' = [pump EXCEPT !.at = "failed"]
      /\ cs' = IF cs.at = "open" THEN [cs EXCEPT !.at = "source", !.ready = <<>>] ELSE cs
      /\ UNCHANGED <<specs, names, streaming, comment, writer, aborted>>
  BY DEF PumpFails, builder
<1>1. /\ WellTyped(writer) /\ Positions(writer)
      /\ sources \in [DOMAIN SourceContents -> Sources] /\ cs \in Streams /\ pump \in Pumps
      /\ a \in DOMAIN SourceContents
      /\ Active(writer) /\ Phase(writer) \in {"read", "closing"}
      /\ Phase(writer) = "read" => ~sources[a].return
      /\ cs.at \notin {"closing", "closed"}
  BY <1>0, PumpReads
<1> HIDE DEF a
<1>2. Changed(sources', a) /\ sources'[a].return = sources[a].return
  BY <1>0, <1>1, SourceDrained
<1>3. cs' \in Streams /\ cs'.at \notin {"open", "closing", "closed"}
  BY <1>0, <1>1, StreamFailing
<1>4. pump' \in Pumps /\ pump'.at = "failed"
  BY <1>0, <1>1 DEF Pumps
<1>5. QED
  BY <1>0, <1>1, <1>2, <1>3, <1>4, PumpMoves DEF a

(* PumpDone: keeps the types and the control. *)
LEMMA PumpDoneStep == ASSUME Typed, Control, PumpDone PROVE Typed' /\ Control'
<1> DEFINE a == SourceOf(writer)
<1>0. /\ pump.at = "next" /\ sources' = Drained(a)
      /\ pump' = [pump EXCEPT !.at = IF cs.at = "open" THEN "close" ELSE "failed"]
      /\ cs' = IF cs.at = "open" THEN [cs EXCEPT !.at = "closing"] ELSE cs
      /\ UNCHANGED <<specs, names, streaming, comment, writer, aborted>>
  BY DEF PumpDone, builder
<1>1. /\ WellTyped(writer) /\ Positions(writer)
      /\ sources \in [DOMAIN SourceContents -> Sources] /\ cs \in Streams /\ pump \in Pumps
      /\ a \in DOMAIN SourceContents
      /\ Active(writer) /\ Phase(writer) \in {"read", "closing"}
      /\ Phase(writer) = "read" => ~sources[a].return
      /\ cs.at \notin {"closing", "closed"} /\ (cs.at = "open" => Phase(writer) = "read")
  BY <1>0, PumpReads
<1> HIDE DEF a
<1>2. /\ Changed(sources', a) /\ sources'[a].return = sources[a].return
      /\ Phase(writer) = "read" => Quiet(sources'[a])
  BY <1>0, <1>1, SourceDrained DEF Quiet
<1>3. /\ cs' \in Streams /\ cs'.at # "closed" /\ (cs'.at = "open" => cs.at = "open")
      /\ cs'.at = "closing" => cs.at = "open"
      /\ cs'.at # "open"
  BY <1>0, <1>1 DEF Streams
<1>4. /\ pump' \in Pumps /\ pump'.at \in {"close", "failed"}
      /\ cs.at = "open" => pump'.at = "close"
      /\ pump'.at = "close" => cs.at = "open"
  BY <1>0, <1>1 DEF Pumps
<1>5. QED
  BY <1>0, <1>1, <1>2, <1>3, <1>4, PumpMoves DEF a

(* PumpWrite: keeps the types and the control. *)
LEMMA PumpWriteStep == ASSUME Typed, Control, PumpWrite PROVE Typed' /\ Control'
<1> DEFINE a == SourceOf(writer)
<1>0. /\ pump.at = "write" /\ UNCHANGED <<specs, names, streaming, comment, writer, aborted>>
      /\ \/ /\ cs.at = "open" /\ cs' = [cs EXCEPT !.held = pump.chunk]
            /\ pump' = [at |-> "next", chunk |-> <<>>] /\ sources' = Asked(a)
         \/ /\ cs.at # "open" /\ pump' = [at |-> "failed", chunk |-> <<>>]
            /\ UNCHANGED <<cs, sources>>
  BY DEF PumpWrite, builder
<1>1. /\ WellTyped(writer) /\ Positions(writer)
      /\ sources \in [DOMAIN SourceContents -> Sources] /\ cs \in Streams /\ pump \in Pumps
      /\ cs.at \notin {"closing", "closed"}
  BY <1>0, TypedFacts DEF Control, Typed, StreamFits
<1>2. <<>> \in Contents
  BY ContentSizeEmpty
<1>3. CASE cs.at = "open"
  <2>1. Active(writer) /\ Phase(writer) = "read" /\ a \in DOMAIN SourceContents
    BY <1>1, <1>3, EntryFacts DEF Control, StreamFits, Active
  <2>2. ~sources[a].return
    BY <2>1 DEF Control, SourceFits
  <2> HIDE DEF a
  <2>3. Changed(sources', a) /\ sources'[a].next /\ ~sources'[a].return
    BY <1>0, <1>1, <1>3, <2>1, <2>2, SourceAsked
  <2>4. pump' \in Pumps /\ pump'.at = "next"
    BY <1>0, <1>2, <1>3 DEF Pumps
  <2>5. cs' \in Streams /\ cs'.at = "open"
    <3>1. pump.chunk \in Contents
      BY <1>1 DEF Pumps
    <3>2. [cs EXCEPT !.held = pump.chunk] \in Streams
      BY <1>1, <3>1, Zenon DEF Streams
    <3>3. [cs EXCEPT !.held = pump.chunk].at = cs.at
      BY <1>1 DEF Streams
    <3>4. QED
      BY <1>0, <1>3, <3>2, <3>3
  <2>6. QED
    BY <1>0, <1>1, <2>1, <2>3, <2>4, <2>5, PumpMoves DEF a
<1>4. CASE cs.at # "open"
  <2>1. pump' \in Pumps /\ pump'.at = "failed" /\ UNCHANGED <<cs, sources>>
    BY <1>0, <1>2, <1>4 DEF Pumps
  <2>2. Typed'
    BY <1>0, <1>1, <2>1 DEF Typed, Collected
  <2>3. QED
    BY <1>0, <1>1, <1>4, <2>1, <2>2 DEF Control, OthersQuiet, SourceFits, PumpFits, StreamFits
<1>5. QED
  BY <1>3, <1>4

(* PumpClose: keeps the types and the control. *)
LEMMA PumpCloseStep == ASSUME Typed, Control, PumpClose PROVE Typed' /\ Control'
<1>0. /\ cs.at = "cancelled" /\ pump' = [pump EXCEPT !.at = "failed"]
      /\ UNCHANGED <<specs, names, streaming, comment, writer, cs, sources, aborted>>
  BY DEF PumpClose, builder
<1>1. pump' \in Pumps /\ pump'.at = "failed"
  BY <1>0 DEF Typed, Pumps
<1>2. Typed'
  BY <1>0, <1>1 DEF Typed, Collected
<1>3. QED
  BY <1>0, <1>1, <1>2 DEF Control, OthersQuiet, SourceFits, PumpFits, StreamFits

(* The stream hands on what it holds. *)
LEMMA PackedUnit ==
  ASSUME NEW content \in Contents, NEW n \in Nat, NEW last \in BOOLEAN
  PROVE  DataUnit(METHOD_DEFLATE, Packed(content) + n, content, last) \in DataUnits
<1>1. Packed(content) + n \in Nat
  BY PackedNat
<1>2. QED
  BY <1>1 DEF DataUnit, DataUnits, METHOD_DEFLATE

(* Compress: keeps the types and the control. *)
LEMMA CompressStep == ASSUME Typed, Control, Compress PROVE Typed' /\ Control'
<1> DEFINE unit == DataUnit(METHOD_DEFLATE, Packed(cs.held), cs.held, FALSE)
<1>0. /\ cs' = [cs EXCEPT !.held = <<>>, !.ready = <<unit>>]
      /\ UNCHANGED <<specs, names, streaming, comment, writer, pump, sources, aborted>>
  BY DEF Compress, builder
<1>1. cs \in Streams /\ cs.held \in Contents /\ <<>> \in Contents
  BY ContentSizeEmpty DEF Typed, Streams
<1>2. unit \in DataUnits
  <2>1. Packed(cs.held) = Packed(cs.held) + 0
    BY <1>1, PackedNat
  <2>2. QED
    BY <1>1, <2>1, PackedUnit
<1> HIDE DEF unit
<1>3. <<unit>> \in Seq(DataUnits)
  BY <1>2, Singleton
<1>4. cs' \in Streams
  BY <1>0, <1>1, <1>3, Zenon DEF Streams
<1>5. cs'.at = cs.at
  BY <1>0, <1>1 DEF Streams
<1>6. Typed'
  BY <1>0, <1>4 DEF Typed, Collected
<1>7. QED
  BY <1>0, <1>5, <1>6 DEF Control, OthersQuiet, SourceFits, PumpFits, StreamFits

(* Flush: keeps the types and the control. *)
LEMMA FlushStep == ASSUME Typed, Control, Flush PROVE Typed' /\ Control'
<1> DEFINE unit == DataUnit(METHOD_DEFLATE, Packed(cs.held) + 1, cs.held, TRUE)
<1>0. /\ cs.at = "closing" /\ pump' = [pump EXCEPT !.at = "done"]
      /\ cs' = [at |-> "closed", held |-> <<>>, ready |-> Append(cs.ready, unit)]
      /\ UNCHANGED <<specs, names, streaming, comment, writer, sources, aborted>>
  BY DEF Flush, builder
<1>1. /\ cs \in Streams /\ cs.held \in Contents /\ cs.ready \in Seq(DataUnits)
      /\ <<>> \in Contents /\ pump \in Pumps
  BY ContentSizeEmpty DEF Typed, Streams
<1>2. unit \in DataUnits
  BY <1>1, PackedUnit
<1> HIDE DEF unit
<1>3. Append(cs.ready, unit) \in Seq(DataUnits)
  <2> DEFINE D == DataUnits
  <2> HIDE DEF D
  <2>1. cs.ready \in Seq(D) /\ unit \in D
    BY <1>1, <1>2 DEF D
  <2>2. Append(cs.ready, unit) \in Seq(D)
    BY <2>1
  <2>3. QED
    BY <2>2 DEF D
<1>4. cs' \in Streams /\ cs'.at = "closed"
  BY <1>0, <1>1, <1>3 DEF Streams
<1>5. pump' \in Pumps /\ pump'.at = "done" /\ pump.at = "close"
  BY <1>0, <1>1 DEF Pumps, Control, StreamFits
<1>6. Typed'
  BY <1>0, <1>4, <1>5 DEF Typed, Collected
<1>7. QED
  BY <1>0, <1>4, <1>5, <1>6 DEF Control, OthersQuiet, SourceFits, PumpFits, StreamFits

(* PumpChunk: keeps the types and the control. *)
LEMMA PumpChunkStep == ASSUME Typed, Control, PumpChunk PROVE Typed' /\ Control'
<1> DEFINE a == SourceOf(writer)
<1> DEFINE chunk == Head(sources[a].left)
<1>0. /\ pump.at = "next" /\ sources[a].left # <<>>
      /\ sources' = [sources EXCEPT ![a].left = Tail(@), ![a].next = FALSE]
      /\ UNCHANGED <<specs, names, streaming, comment, aborted>>
      /\ \/ /\ pump' = [pump EXCEPT !.at = "aborted"] /\ UNCHANGED writer
            /\ cs' = IF cs.at = "open" THEN [cs EXCEPT !.at = "aborted", !.ready = <<>>] ELSE cs
         \/ /\ pump' = [at |-> "write", chunk |-> <<chunk>>] /\ UNCHANGED cs
            /\ writer' = [writer EXCEPT !.bytesIn = @ + chunk.size, !.content = Append(@, chunk)]
  BY Zenon DEF PumpChunk, builder
<1>1. /\ writer \in Writers /\ WellTyped(writer) /\ Positions(writer)
      /\ sources \in [DOMAIN SourceContents -> Sources] /\ cs \in Streams /\ pump \in Pumps
      /\ a \in DOMAIN SourceContents
      /\ Active(writer) /\ Phase(writer) \in {"read", "closing"}
      /\ Phase(writer) = "read" => ~sources[a].return
      /\ cs.at \notin {"closing", "closed"} /\ (cs.at = "open" => Phase(writer) = "read")
  BY <1>0, PumpReads, Zenon
<1>2. Changed(sources', a) /\ sources'[a].return = sources[a].return /\ chunk \in Chunks
  BY <1>0, <1>1, SourceDelivers, Zenon
<1> HIDE DEF a, chunk
<1>3. CASE /\ pump' = [pump EXCEPT !.at = "aborted"] /\ UNCHANGED writer
           /\ cs' = IF cs.at = "open" THEN [cs EXCEPT !.at = "aborted", !.ready = <<>>] ELSE cs
  <2>1. pump' \in Pumps /\ pump'.at = "aborted"
    BY <1>1, <1>3 DEF Pumps
  <2>2. cs' \in Streams /\ cs'.at \notin {"open", "closing", "closed"}
    BY <1>1, <1>3, StreamFailing
  <2>3. QED
    BY <1>0, <1>1, <1>2, <1>3, <2>1, <2>2, PumpMoves DEF a
<1>4. CASE /\ pump' = [at |-> "write", chunk |-> <<chunk>>] /\ UNCHANGED cs
           /\ writer' = [writer EXCEPT !.bytesIn = @ + chunk.size, !.content = Append(@, chunk)]
  <2>1. <<chunk>> \in Contents
    BY <1>2, Singleton DEF Contents
  <2>2. pump' \in Pumps /\ pump'.at = "write"
    BY <1>4, <2>1 DEF Pumps
  <2>3. writer.bytesIn + chunk.size \in Nat /\ Append(writer.content, chunk) \in Contents
    <3>1. writer.bytesIn \in Nat /\ writer.content \in Contents /\ chunk.size \in Nat
      BY <1>1, <1>2 DEF Writers, Chunks
    <3>2. QED
      BY <1>2, <3>1, AppendTyped
  <2>4. writer' \in Writers
    BY <1>1, <1>4, <2>3, Zenon DEF Writers
  <2>5. /\ writer'.at = writer.at /\ writer'.g = writer.g /\ writer'.then = writer.then
        /\ writer'.outcome = writer.outcome
    BY <1>1, <1>4 DEF Writers
  <2>6. WellTyped(writer')
    BY <1>1, <2>4, <2>5 DEF WellTyped
  <2>7. /\ Positions(writer') /\ SourceOf(writer') = a
        /\ Active(writer') /\ Phase(writer') = Phase(writer)
    BY <1>1, <2>5, SamePlace DEF Active, Phase, SourceOf, Current, a
  <2>8. QED
    BY <1>0, <1>1, <1>2, <1>4, <2>2, <2>5, <2>6, <2>7, PumpMoves DEF a
<1>5. QED
  BY <1>0, <1>3, <1>4

(* ReadPiece: keeps the types and the control. *)
LEMMA ReadPieceStep == ASSUME Typed, Control, ReadPiece PROVE Typed' /\ Control'
<1> DEFINE a == SourceOf(writer)
<1> DEFINE unit == Head(cs.ready)
<1> DEFINE w == Sized(writer, writer.content, Current(writer).compressedSize + unit.len)
<1>0. /\ writer.at = "read" /\ cs.ready # <<>>
      /\ UNCHANGED <<specs, names, streaming, comment, pump, aborted>>
      /\ \/ /\ writer' = Piece(w, <<unit>>, "read") /\ cs' = [cs EXCEPT !.ready = Tail(@)]
            /\ UNCHANGED sources
         \/ Leave(w, "range")
  BY DEF ReadPiece, builder
<1>1. /\ writer \in Writers /\ WellTyped(writer) /\ Positions(writer) /\ cs \in Streams
      /\ pump \in Pumps /\ sources \in [DOMAIN SourceContents -> Sources]
      /\ writer.g.at = "entry" /\ writer.outcome = "none" /\ writer.then = "read"
  BY <1>0, TypedFacts DEF Control, Typed, Positions
<1>2. /\ a \in DOMAIN SourceContents /\ Active(writer) /\ Phase(writer) = "read"
      /\ Current(writer) \in Plans(Refs) /\ Incremental(writer)
  BY <1>0, <1>1, EntryFacts DEF Active, Phase, Positions
<1>3. unit \in DataUnits /\ Tail(cs.ready) \in Seq(DataUnits)
  <2> DEFINE D == DataUnits
  <2>1. cs.ready \in Seq(D) /\ cs.ready # <<>>
    BY <1>0, <1>1 DEF Streams
  <2> HIDE DEF D
  <2>2. Head(cs.ready) \in D /\ Tail(cs.ready) \in Seq(D)
    BY <2>1
  <2>3. QED
    BY <2>2 DEF D
<1>4. unit \in FileUnits /\ Current(writer).compressedSize + unit.len \in Nat
  <2>1. unit.len \in Nat /\ Current(writer).compressedSize \in Nat
    BY <1>2, <1>3 DEF DataUnits, Plans
  <2>2. QED
    BY <1>3, <2>1 DEF FileUnits
<1>5. writer.content \in Contents
  BY <1>1 DEF Writers
<1>6. WellTyped(w) /\ SameEntry(writer.g, w.g) /\ w = Reading(writer, writer.content, w.g)
  BY <1>1, <1>4, <1>5, SizedIs
<1> HIDE DEF w, a, unit
<1>7. /\ w.at = "read" /\ w.then = "read" /\ w.outcome = "none" /\ w.g.at = "entry"
      /\ w \in Writers
  BY <1>0, <1>1, <1>6, ReadingFields DEF SameEntry, WellTyped
<1>8. SourceOf(w) = a /\ Incremental(w)
  BY <1>1, <1>2, <1>6, SameEntryFacts DEF a
<1>9. CASE /\ writer' = Piece(w, <<unit>>, "read") /\ cs' = [cs EXCEPT !.ready = Tail(@)]
           /\ UNCHANGED sources
  <2>1. <<unit>> \in Seq(FileUnits) /\ "read" \in Ways
    BY <1>4, Singleton DEF Ways
  <2>2. /\ WellTyped(writer')
        /\ writer' = AtPush(w, "read", w.g, writer'.out, writer'.rest, writer'.consumed)
    BY <1>6, <1>9, <2>1, PieceIs
  <2>3. writer'.at = "push" /\ writer'.then = "read" /\ writer'.outcome = "none" /\ writer'.g = w.g
    BY <1>7, <2>2, AtPushFields
  <2>4. SourceOf(writer') = a /\ Incremental(writer')
    BY <1>8, <2>3 DEF SourceOf, Incremental, Current
  <2>5. Positions(writer') /\ Active(writer') /\ Phase(writer') = "read"
    BY <1>7, <2>3, <2>4 DEF Positions, Active, Phase
  <2>6. cs' \in Streams /\ cs'.at = cs.at
    <3>1. [cs EXCEPT !.ready = Tail(@)] \in Streams
      BY <1>1, <1>3, Zenon DEF Streams
    <3>2. [cs EXCEPT !.ready = Tail(@)].at = cs.at
      BY <1>1 DEF Streams
    <3>3. QED
      BY <1>9, <3>1, <3>2
  <2>7. /\ ~sources[a].return /\ (pump.at \in {"close", "done"} => Quiet(sources[a]))
        /\ pump.at = "next" => sources[a].next
        /\ cs.at = "closing" => pump.at = "close"
        /\ cs.at = "closed" => pump.at = "done"
    BY <1>2 DEF Control, SourceFits, PumpFits, StreamFits, a
  <2>8. Changed(sources', a)
    BY <1>1, <1>9 DEF Changed
  <2>9. QED
    BY <1>0, <1>1, <1>2, <1>9, <2>2, <2>3, <2>4, <2>5, <2>6, <2>7, <2>8, PumpMoves DEF a
<1>10. CASE Leave(w, "range")
  <2>1. Beside(writer, w) /\ "range" \in Outcomes
    BY <1>0, <1>1, <1>6, <1>7 DEF Beside, Outcomes
  <2>2. QED
    BY <1>0, <1>6, <1>10, <2>1, LeavingStep
<1>11. QED
  BY <1>0, <1>9, <1>10

(* ReadEnd: keeps the types and the control. *)
LEMMA ReadEndStep == ASSUME Typed, Control, ReadEnd PROVE Typed' /\ Control'
<1> DEFINE a == SourceOf(writer)
<1>0. /\ writer.at = "read" /\ UNCHANGED <<specs, names, streaming, comment, pump, aborted>>
      /\ \/ /\ cs.at = "closed" /\ writer' = [writer EXCEPT !.at = "join"]
            /\ UNCHANGED <<cs, sources>>
         \/ cs.at \in {"aborted", "source"} /\ Leave(writer, cs.at)
  BY DEF ReadEnd, builder
<1>1. /\ writer \in Writers /\ WellTyped(writer) /\ Positions(writer)
      /\ sources \in [DOMAIN SourceContents -> Sources]
      /\ writer.g.at = "entry" /\ writer.outcome = "none"
  BY <1>0, TypedFacts DEF Control, Typed, Positions
<1>2. a \in DOMAIN SourceContents /\ Active(writer) /\ Phase(writer) = "read"
  BY <1>0, <1>1, EntryFacts DEF Active, Phase
<1>3. CASE cs.at = "closed" /\ writer' = [writer EXCEPT !.at = "join"] /\ UNCHANGED <<cs, sources>>
  <2>1. writer' \in Writers
    BY <1>1, <1>3, Zenon DEF Writers
  <2>2. writer'.at = "join" /\ writer'.g = writer.g /\ writer'.outcome = "none"
    BY <1>1, <1>3 DEF Writers
  <2>3. WellTyped(writer')
    BY <1>1, <2>1, <2>2 DEF WellTyped
  <2>4. Positions(writer') /\ Active(writer') /\ Phase(writer') = "join" /\ SourceOf(writer') = a
    BY <1>1, <2>2 DEF Positions, Active, Phase, SourceOf, Current
  <2>5. pump.at = "done" /\ Quiet(sources[a])
    BY <1>2, <1>3 DEF Control, StreamFits, SourceFits
  <2>6. Changed(sources', a)
    BY <1>1, <1>3 DEF Changed
  <2> HIDE DEF a
  <2>7. QED
    BY <1>0, <1>2, <1>3, <2>3, <2>4, <2>5, <2>6, SourceMoves DEF a
<1>4. CASE cs.at \in {"aborted", "source"} /\ Leave(writer, cs.at)
  <2>1. Beside(writer, writer) /\ cs.at \in Outcomes
    BY <1>4 DEF Beside, SameEntry, Alike, Outcomes
  <2>2. QED
    BY <1>0, <1>1, <1>4, <2>1, LeavingStep
<1>5. QED
  BY <1>0, <1>3, <1>4

(* A builder without a writer has one that is nowhere. *)
LEMMA NoWriterTyped ==
  /\ WellTyped(NoWriter) /\ NoWriter.at = "none" /\ NoWriter.outcome = "none"
  /\ NoWriter.g = NoGenerator /\ NoGenerator.at \notin InEntries \cup {"done"}
  /\ NoGenerator.plans = <<>>
<1>1. /\ <<>> \in Seq(Plans(Refs)) /\ <<>> \in Seq(FileUnits) /\ <<>> \in Seq(Specs(Refs))
      /\ <<>> \in Contents
  BY EmptyTyped, ContentSizeEmpty
<1>2. /\ Well(NoGenerator, Refs) /\ NoGenerator.plans = <<>>
      /\ NoGenerator.at \notin InEntries \cup {"done"}
  <2>1. ~(0 < Len(<<>>))
    OBVIOUS
  <2> DEFINE p == <<>>
  <2> HIDE DEF p
  <2>2. p \in Seq(Plans(Refs)) /\ p \in Seq(FileUnits) /\ ~(0 < Len(p))
    BY <1>1, <2>1 DEF p
  <2>3. /\ Well(archiveSegments(p, p), Refs) /\ archiveSegments(p, p).plans = p
        /\ archiveSegments(p, p).at \notin InEntries /\ archiveSegments(p, p).at # "done"
    BY <2>2, GeneratorStarts
  <2>4. NoGenerator = archiveSegments(p, p)
    BY DEF NoGenerator, p
  <2>5. QED
    BY <2>3, <2>4 DEF p
<1>3. NoGenerator \in Generators(Refs) /\ InRange(NoGenerator)
  BY <1>2 DEF Well
<1>4. NoWriter \in Writers
  BY <1>1, <1>3 DEF NoWriter, Writers, Ways
<1>5. NoWriter.at = "none" /\ NoWriter.outcome = "none" /\ NoWriter.g = NoGenerator
  BY DEF NoWriter
<1>6. QED
  BY <1>2, <1>3, <1>4, <1>5 DEF WellTyped

(* At first nothing is added and nothing is at work. *)
LEMMA Starting == Init => Typed /\ Control
<1> SUFFICES ASSUME Init PROVE Typed /\ Control
  OBVIOUS
<1>1. /\ specs = <<>> /\ names = {} /\ streaming = FALSE /\ comment = <<>> /\ writer = NoWriter
      /\ pump = [at |-> "idle", chunk |-> <<>>] /\ aborted = FALSE
      /\ cs = [at |-> "none", held |-> <<>>, ready |-> <<>>]
      /\ sources = [s \in DOMAIN SourceContents |-> Unread(SourceContents[s])]
  BY DEF Init, CollectorInit
<1>2. /\ <<>> \in Seq(FileUnits) /\ <<>> \in Seq(Specs(Refs)) /\ <<>> \in Contents
      /\ <<>> \in Seq(DataUnits)
  BY EmptyTyped, ContentSizeEmpty
<1>3. Collected
  <2>1. specs \in Seq(Specs(Refs)) /\ comment \in Seq(FileUnits) /\ streaming \in BOOLEAN
    BY <1>1, <1>2
  <2>2. names \subseteq Names /\ Len(specs) = 0
    BY <1>1
  <2>3. QED
    BY <2>1, <2>2 DEF Collected
<1>4. ASSUME NEW s \in DOMAIN SourceContents
      PROVE sources[s] \in Sources /\ Quiet(sources[s])
  <2>1. SourceContents[s] \in Contents
    BY WriterAssumption
  <2>2. sources[s] = [left |-> SourceContents[s], next |-> FALSE, return |-> FALSE,
                      state |-> "unstarted"]
    BY <1>1 DEF Unread
  <2>3. QED
    BY <2>1, <2>2 DEF Sources, Quiet
<1>5. sources \in [DOMAIN SourceContents -> Sources]
  BY <1>1, <1>4, Zenon
<1>6. pump \in Pumps /\ cs \in Streams /\ pump.at = "idle" /\ cs.at = "none"
  BY <1>1, <1>2 DEF Pumps, Streams
<1>7. Typed
  BY <1>1, <1>3, <1>5, <1>6, NoWriterTyped DEF Typed
<1>8. Positions(writer) /\ ~Active(writer)
  BY <1>1, NoWriterTyped DEF Positions, Active, Phase, InEntries
<1>9. Control
  BY <1>4, <1>6, <1>8 DEF Control, OthersQuiet, SourceFits, PumpFits, StreamFits
<1>10. QED
  BY <1>7, <1>9

(* No action disturbs the types or the control. *)
LEMMA Stepping == Typed /\ Control /\ [Next]_vars => (Typed /\ Control)'
<1> SUFFICES ASSUME Typed, Control, [Next]_vars PROVE Typed' /\ Control'
  OBVIOUS
<1>1. CASE Building
  BY <1>1, BuildingStep
<1>2. CASE ToBytes \/ Stream \/ Abort \/ Pull \/ Return
  BY <1>2, CallStep
<1>3. CASE SourceAnswers
  BY <1>3, ChunkArrivesStep, SourceDoneStep, SourceFailsStep, PumpChunkStep, PumpDoneStep,
     PumpFailsStep DEF SourceAnswers
<1>4. CASE WriterStep
  BY <1>4, StartStep, EmitSegmentStep, PushStepStep, ResumeStep, FinishStep, StopStep,
     BeginEntryStep, AskSourceStep, DescribeStep, ReadPieceStep, ReadEndStep, JoinsStep,
     SourceReturnedStep DEF WriterStep
<1>5. CASE PumpStep \/ StreamStep
  BY <1>5, PumpWriteStep, PumpCloseStep, CompressStep, FlushStep DEF PumpStep, StreamStep
<1>6. CASE UNCHANGED vars
  BY <1>6 DEF vars, Typed, Collected, Control, OthersQuiet, SourceFits, PumpFits, StreamFits
<1>7. QED
  BY <1>1, <1>2, <1>3, <1>4, <1>5, <1>6 DEF Next, Running

(* The writer, its pump, its stream and its sources are always of their    *)
(* types, and where each of them is fits where the others are.             *)
THEOREM Inductive == Spec => [](Typed /\ Control)
BY Starting, Stepping, PTL DEF Spec

(* A source that the writer has started is closed when the writer has      *)
(* ended, and no call to it is open: only the source of the entry being    *)
(* written is ever at work, and the writer ends outside of an entry, or    *)
(* after it has drained or closed that source.                             *)
THEOREM Releases == Spec => []SourcesReleased
<1>1. Typed /\ Control => SourcesReleased
  BY DEF Typed, Control, OthersQuiet, SourcesReleased, Active, Phase, Quiet
<1>2. QED
  BY <1>1, Inductive, PTL

-----------------------------------------------------------------------------
(* The accounts: what is in the buffer, and what has been counted.         *)

DoneSizes(plans, k) == [i \in 1 .. k |-> plans[i].uncompressedSize]
PlanSums(sum, s) ==
  sum = [n \in 0 .. Len(s) |-> IF n = 0 THEN 0 ELSE sum[n - 1] + PlanSize(s[n])]

(* They are the total of the sizes of those entries, *)
LEMMA DoneIsTotal ==
  ASSUME NEW plans \in Seq(Plans(Refs)), NEW k \in 0 .. Len(plans)
  PROVE  /\ DoneSizes(plans, k) \in Seq(Nat) /\ Len(DoneSizes(plans, k)) = k
         /\ DoneBytes(plans, k) = TotalOf(DoneSizes(plans, k))
<1> DEFINE s == SubSeq(plans, 1, k)
<1> DEFINE a == DoneSizes(plans, k)
<1> DEFINE c == CHOOSE sum : PlanSums(sum, s)
<1>1. \A i \in 1 .. k : plans[i].uncompressedSize \in Nat
  <2>1. ASSUME NEW i \in 1 .. k PROVE plans[i].uncompressedSize \in Nat
    <3>1. plans[i] \in Plans(Refs)
      OBVIOUS
    <3>2. QED
      BY <3>1 DEF Plans
  <2>2. QED
    BY <2>1
<1>2. a \in Seq(Nat) /\ Len(a) = k
  BY <1>1 DEF DoneSizes
<1>3. Len(s) = k /\ \A i \in 1 .. k : s[i] = plans[i]
  OBVIOUS
<1> HIDE DEF s
<1>4. \A n \in 1 .. k : PlanSize(s[n]) = a[n]
  BY <1>3 DEF PlanSize, DoneSizes
<1> HIDE DEF a
<1>5. \A sum : PlanSums(sum, s) <=> PrefixSums(sum, a)
  <2>1. ASSUME NEW sum PROVE PlanSums(sum, s) <=> PrefixSums(sum, a)
    <3>1. [n \in 0 .. Len(s) |-> IF n = 0 THEN 0 ELSE sum[n - 1] + PlanSize(s[n])]
          = [n \in 0 .. Len(a) |-> IF n = 0 THEN 0 ELSE sum[n - 1] + a[n]]
      BY <1>2, <1>3, <1>4
    <3>2. QED
      BY <3>1, Zenon DEF PlanSums, PrefixSums
  <2>2. QED
    BY <2>1
<1>6. \E sum : PlanSums(sum, s)
  BY <1>2, <1>5, SumsExist
<1>7. PrefixSums(c, a)
  BY <1>5, <1>6
<1>8. DoneBytes(plans, k) = c[Len(s)]
  BY DEF DoneBytes, SumOf, PlanSums, c, s
<1> HIDE DEF c
<1>9. DoneBytes(plans, k) = TotalOf(a)
  BY <1>2, <1>3, <1>7, <1>8, TotalIs
<1>10. QED
  BY <1>2, <1>9 DEF a

(* a number, *)
LEMMA DoneNat ==
  ASSUME NEW plans \in Seq(Plans(Refs)), NEW k \in 0 .. Len(plans)
  PROVE  DoneBytes(plans, k) \in Nat
BY DoneIsTotal, TotalNat

(* 0 before the first, *)
LEMMA DoneNone ==
  ASSUME NEW plans \in Seq(Plans(Refs))
  PROVE  DoneBytes(plans, 0) = 0
<1>1. 0 \in 0 .. Len(plans)
  OBVIOUS
<1>2. DoneSizes(plans, 0) = <<>>
  BY DEF DoneSizes
<1>3. QED
  BY <1>1, <1>2, DoneIsTotal, TotalEmpty

(* the same for plans of the same sizes, *)
LEMMA DoneAgree ==
  ASSUME NEW p \in Seq(Plans(Refs)), NEW q \in Seq(Plans(Refs)), NEW k \in 0 .. Len(p),
         k <= Len(q), \A i \in 1 .. k : p[i].uncompressedSize = q[i].uncompressedSize
  PROVE  DoneBytes(p, k) = DoneBytes(q, k)
<1>1. k \in 0 .. Len(q)
  OBVIOUS
<1>2. DoneSizes(p, k) = DoneSizes(q, k)
  BY DEF DoneSizes
<1>3. QED
  BY <1>1, <1>2, DoneIsTotal

(* one entry more adds its size, *)
LEMMA DoneStep ==
  ASSUME NEW plans \in Seq(Plans(Refs)), NEW k \in 1 .. Len(plans)
  PROVE  DoneBytes(plans, k) = DoneBytes(plans, k - 1) + plans[k].uncompressedSize
<1> DEFINE a == DoneSizes(plans, k)
<1> DEFINE b == DoneSizes(plans, k - 1)
<1>1. k - 1 \in 0 .. Len(plans) /\ k \in 0 .. Len(plans)
  OBVIOUS
<1>2. plans[k] \in Plans(Refs)
  OBVIOUS
<1>3. plans[k].uncompressedSize \in Nat
  BY <1>2 DEF Plans
<1>4. /\ a \in Seq(Nat) /\ Len(a) = k /\ b \in Seq(Nat) /\ Len(b) = k - 1
      /\ DoneBytes(plans, k) = TotalOf(a) /\ DoneBytes(plans, k - 1) = TotalOf(b)
  BY <1>1, DoneIsTotal
<1>5. <<plans[k].uncompressedSize>> \in Seq(Nat)
  BY <1>3, Singleton
<1>6. /\ \A i \in 1 .. Len(b) : a[i] = b[i]
      /\ a[Len(b) + 1] = plans[k].uncompressedSize
  BY <1>4 DEF DoneSizes
<1> HIDE DEF a, b
<1>7. a = b \o <<plans[k].uncompressedSize>>
  <2> DEFINE c == <<plans[k].uncompressedSize>>
  <2>1. Len(c) = 1 /\ \A i \in 1 .. Len(c) : c[i] = plans[k].uncompressedSize /\ i = 1
    OBVIOUS
  <2>2. c \in Seq(Nat)
    BY <1>5
  <2> HIDE DEF c
  <2>3. Len(a) = Len(b) + Len(c) /\ \A i \in 1 .. Len(c) : a[Len(b) + i] = c[i]
    BY <1>4, <1>6, <2>1
  <2>4. a = b \o c
    BY <1>4, <1>6, <2>2, <2>3, IsConcat
  <2>5. QED
    BY <2>4 DEF c
<1>8. QED
  BY <1>3, <1>4, <1>5, <1>7, TotalConcat, TotalSingle

(* and in the end the sum over the plans. *)
LEMMA DoneAll ==
  ASSUME NEW plans \in Seq(Plans(Refs))
  PROVE  DoneBytes(plans, Len(plans)) = SumOf(PlanSize, plans)
<1>1. SubSeq(plans, 1, Len(plans)) = plans
  OBVIOUS
<1>2. QED
  BY <1>1 DEF DoneBytes

(* How a step changes the buffer, if it does not hand anything on. *)
SameBuffer(w, v) ==
  /\ v.out = w.out /\ v.rest = w.rest /\ v.filled = w.filled
  /\ v.bytesOut = w.bytesOut /\ v.yielded = w.yielded
Handing == {"push", "chunk", "tail"}
Idles(w, v) ==
  /\ SameBuffer(w, v) /\ v.outcome = w.outcome
  /\ v.at = w.at \/ (w.at \notin Handing /\ v.at \notin Handing)
Fails(w, v) == SameBuffer(w, v) /\ v.outcome \in Outcomes \ {"done"}
Pushes(w, v) ==
  /\ w.at \notin Handing /\ w.outcome = "none" /\ v.outcome = "none" /\ v.at = "push"
  /\ v.filled = w.filled /\ v.bytesOut = w.bytesOut /\ v.yielded = w.yielded
  /\ v.rest \in Nat /\ Length(v.out) = Length(w.out) + v.rest

(* All that is counted in bytes is a number. *)
LEMMA LengthsNat ==
  ASSUME NEW w \in Writers
  PROVE  /\ Length(w.out) \in Nat /\ w.rest \in Nat /\ w.filled \in Nat /\ w.bytesOut \in Nat
         /\ w.yielded \in Nat
BY LengthNat DEF Writers

(* None of the three loses or adds a byte. *)
LEMMA Handling ==
  ASSUME NEW w \in Writers, NEW v \in Writers, Chunked(w),
         Idles(w, v) \/ Fails(w, v) \/ Pushes(w, v)
  PROVE  Chunked(v) /\ v.yielded = w.yielded
<1>0. /\ Length(w.out) \in Nat /\ w.rest \in Nat /\ w.filled \in Nat /\ w.bytesOut \in Nat
  BY LengthsNat
<1>1. CASE Idles(w, v)
  BY <1>1 DEF Idles, SameBuffer, Handing, Chunked
<1>2. CASE Fails(w, v)
  <2>1. v.outcome # "none" /\ v.outcome # "done"
    BY <1>2 DEF Fails, Outcomes
  <2>2. QED
    BY <1>2, <2>1 DEF Fails, SameBuffer, Chunked
<1>3. CASE Pushes(w, v)
  <2>1. w.rest = 0 /\ w.filled < ChunkSize /\ Length(w.out) = w.bytesOut + w.filled
    BY <1>0, <1>3 DEF Pushes, Handing, Chunked
  <2>2. /\ Length(v.out) = v.bytesOut + v.rest + v.filled /\ v.rest <= Length(v.out)
        /\ v.filled < ChunkSize /\ v.filled \in 0 .. ChunkSize
    BY <1>0, <1>3, <2>1 DEF Pushes, Chunked
  <2>3. QED
    BY <1>3, <2>2 DEF Pushes, Chunked
<1>4. QED
  BY <1>1, <1>2, <1>3

(* How a step changes what is counted, if it does not end an entry.        *)
SameCounts(w, v) == v.planIndex = w.planIndex /\ v.entriesDone = w.entriesDone
Rests(w, v) ==
  /\ SameCounts(w, v) /\ v.g = w.g /\ v.bytesIn = w.bytesIn /\ v.content = w.content
  /\ v.outcome = w.outcome
  /\ EmittingSegment(v) <=> EmittingSegment(w)
  /\ Begun(v) <=> Begun(w)
  /\ Complete(v) /\ v.outcome = "none" => Complete(w)
  /\ v.at \in {"none", "fresh"} => w.at \in {"none", "fresh"}
Abandons(w, v) ==
  /\ SameCounts(w, v) /\ v.outcome # "none" /\ v.at \notin {"none", "fresh"}
  /\ \/ v.g = w.g /\ v.bytesIn = w.bytesIn
     \/ w.g.at = "entry" /\ SameEntry(w.g, v.g)
Works(w, v) ==
  /\ SameCounts(w, v) /\ v.outcome = w.outcome /\ w.g.at = "entry" /\ SameEntry(w.g, v.g)
  /\ Begun(v) /\ v.at \notin {"none", "fresh"}
  /\ ~EmittingSegment(w) /\ ~EmittingSegment(v)
  /\ v.bytesIn + Got(w) = w.bytesIn + Got(v)
  /\ Complete(v) /\ v.outcome = "none" =>
       v.g.plans[v.g.i].uncompressedSize = ContentSize(v.content)

(* The numbers the count is about. *)
LEMMA WriterNumbers ==
  ASSUME NEW w, WellTyped(w)
  PROVE  /\ w \in Writers /\ w.g \in Generators(Refs) /\ w.g.plans \in Seq(Plans(Refs))
         /\ Len(w.g.plans) \in Nat /\ w.g.i \in Nat
         /\ w.planIndex \in Nat /\ w.bytesIn \in Nat /\ w.entriesDone \in Nat
         /\ ContentSize(w.content) \in Nat /\ Got(w) \in Nat
         /\ w.g.at \in InEntries => w.g.i \in 1 .. Len(w.g.plans)
<1>1. /\ w \in Writers /\ w.g \in Generators(Refs) /\ InRange(w.g)
      /\ w.planIndex \in Nat /\ w.bytesIn \in Nat /\ w.entriesDone \in Nat
      /\ w.content \in Contents
  BY DEF WellTyped, Writers
<1>2. ContentSize(w.content) \in Nat /\ Got(w) \in Nat
  BY <1>1, ContentSizeNat DEF Got
<1>3. w.g.plans \in Seq(Plans(Refs)) /\ Len(w.g.plans) \in Nat /\ w.g.i \in Nat
  BY <1>1 DEF Generators
<1>4. QED
  BY <1>1, <1>2, <1>3 DEF InRange

(* Where nothing is counted the count holds. *)
LEMMA RestsCounting ==
  ASSUME NEW w, NEW v, Counting(w), Rests(w, v)
  PROVE  Counting(v)
<1>1. Got(v) = Got(w) /\ (w.outcome = "none" => (Marking(v) <=> Marking(w)))
  BY DEF Rests, SameCounts, Got, Marking
<1>2. QED
  BY <1>1 DEF Counting, Rests, SameCounts

(* Where the entry is given up it is counted no further. *)
LEMMA AbandonsCounting ==
  ASSUME NEW w, NEW v, WellTyped(w), Counting(w), Abandons(w, v)
  PROVE  Counting(v)
<1>1. CASE v.g = w.g /\ v.bytesIn = w.bytesIn
  BY <1>1 DEF Counting, Abandons, SameCounts
<1>2. CASE w.g.at = "entry" /\ SameEntry(w.g, v.g)
  BY <1>2 DEF Counting, Abandons, SameCounts, SameEntry, InEntries
<1>3. QED
  BY <1>1, <1>2 DEF Abandons

(* Where the entry goes on it is counted on. *)
LEMMA WorksCounting ==
  ASSUME NEW w, NEW v, WellTyped(w), WellTyped(v), Counting(w), Works(w, v)
  PROVE  Counting(v)
<1> DEFINE g == w.g
<1> DEFINE h == v.g
<1>0. /\ h.at = "entry" /\ g.at = "entry" /\ h.i = g.i /\ Len(h.plans) = Len(g.plans)
      /\ \A k \in 1 .. Len(g.plans) :
           Alike(g.plans[k], h.plans[k]) /\ (k # g.i => h.plans[k] = g.plans[k])
      /\ v.planIndex = w.planIndex /\ v.entriesDone = w.entriesDone /\ v.outcome = w.outcome
  BY DEF Works, SameEntry, SameCounts
<1>1. /\ g.plans \in Seq(Plans(Refs)) /\ h.plans \in Seq(Plans(Refs))
      /\ Len(g.plans) \in Nat /\ g.i \in 1 .. Len(g.plans)
      /\ w.planIndex = g.i - 1 /\ v.entriesDone = v.planIndex
      /\ w.bytesIn \in Nat /\ v.bytesIn \in Nat
      /\ Got(w) \in Nat /\ Got(v) \in Nat
  BY <1>0, WriterNumbers DEF Counting, InEntries
<1> HIDE DEF g, h
<1>2. DoneBytes(h.plans, g.i - 1) = DoneBytes(g.plans, g.i - 1)
      /\ DoneBytes(g.plans, g.i - 1) \in Nat
  <2>1. g.i - 1 \in 0 .. Len(g.plans) /\ g.i - 1 <= Len(h.plans)
    BY <1>0, <1>1
  <2>2. ASSUME NEW i \in 1 .. g.i - 1
        PROVE  g.plans[i].uncompressedSize = h.plans[i].uncompressedSize
    <3>1. i \in 1 .. Len(g.plans) /\ i # g.i
      BY <1>1
    <3>2. h.plans[i] = g.plans[i]
      BY <1>0, <3>1 DEF g, h
    <3>3. QED
      BY <3>2
  <2>3. QED
    BY <1>1, <2>1, <2>2, DoneAgree, DoneNat
<1>3. ASSUME v.outcome = "none"
      PROVE  /\ Marking(v) /\ v.bytesIn = DoneBytes(h.plans, v.planIndex) + Got(v)
             /\ Complete(v) => h.plans[h.i].uncompressedSize = ContentSize(v.content)
  <2>1. /\ w.bytesIn = DoneBytes(g.plans, w.planIndex) + Got(w)
        /\ Marking(w)
    BY <1>0, <1>3 DEF Counting, Works, InEntries, g
  <2>2. v.bytesIn + Got(w) = w.bytesIn + Got(v)
    BY DEF Works
  <2>3. v.bytesIn = DoneBytes(h.plans, v.planIndex) + Got(v)
    <3> DEFINE a == Got(w)
    <3> DEFINE b == Got(v)
    <3> DEFINE d == DoneBytes(g.plans, g.i - 1)
    <3>1. /\ a \in Nat /\ b \in Nat /\ d \in Nat /\ w.bytesIn \in Nat /\ v.bytesIn \in Nat
          /\ w.bytesIn = d + a /\ v.bytesIn + a = w.bytesIn + b
      BY <1>1, <1>2, <2>1, <2>2
    <3>2. DoneBytes(h.plans, v.planIndex) = d
      BY <1>0, <1>1, <1>2
    <3> HIDE DEF a, b, d
    <3>3. v.bytesIn = d + b
      BY <3>1
    <3>4. QED
      BY <3>2, <3>3 DEF b
  <2>4. \A k \in 1 .. Len(g.plans) : k > w.planIndex => g.plans[k].emitted = None
    BY <2>1 DEF Marking, Works, g
  <2>5. \A k \in 1 .. Len(h.plans) : k > v.planIndex => h.plans[k].emitted = None
    BY <1>0, <2>4 DEF Alike
  <2>6. Marking(v)
    BY <2>5 DEF Marking, Works, h
  <2>7. QED
    BY <1>3, <2>3, <2>6 DEF Works, h
<1>4. QED
  BY <1>0, <1>1, <1>3 DEF Counting, Works, InEntries, h

(* Each of the three keeps the count. *)
LEMMA Reckoning ==
  ASSUME NEW w, NEW v, WellTyped(w), WellTyped(v), Counting(w),
         Rests(w, v) \/ Abandons(w, v) \/ Works(w, v)
  PROVE  Counting(v)
BY RestsCounting, AbandonsCounting, WorksCounting

(* A step of a kind that keeps the accounts. *)
Accounted(w, v) ==
  /\ Idles(w, v) \/ Fails(w, v) \/ Pushes(w, v)
  /\ Rests(w, v) \/ Abandons(w, v) \/ Works(w, v)

(* What is handed on once the signal is up. *)
NoFullChunk == aborted => writer'.yielded - writer.yielded < ChunkSize

(* And hands out no full chunk. *)
LEMMA AccountsKept ==
  ASSUME Typed, Typed', Accounts, Accounted(writer, writer')
  PROVE  Accounts' /\ NoFullChunk
<1>1. WellTyped(writer) /\ WellTyped(writer') /\ writer \in Writers /\ writer' \in Writers
  BY DEF Typed, WellTyped
<1>2. Chunked(writer') /\ writer'.yielded = writer.yielded
  BY <1>1, Handling DEF Accounts, Accounted
<1>3. Counting(writer')
  BY <1>1, Reckoning DEF Accounts, Accounted
<1>4. writer.yielded \in Nat /\ ChunkSize \in Nat \ {0}
  BY <1>1, LengthsNat, WriterAssumption
<1>5. NoFullChunk
  BY <1>2, <1>4 DEF NoFullChunk
<1>6. QED
  BY <1>2, <1>3, <1>5 DEF Accounts

(* Steps that only move the writer from one place to the next. *)
Untouched(w, v) ==
  /\ SameBuffer(w, v) /\ SameCounts(w, v) /\ v.outcome = w.outcome /\ v.then = w.then
  /\ v.g = w.g /\ v.bytesIn = w.bytesIn /\ v.content = w.content

(* They keep the accounts. *)
LEMMA OnlyPlace ==
  ASSUME NEW w, NEW v, Untouched(w, v),
         \/ v.at = w.at
         \/ w.at = "none" /\ v.at = "fresh"
         \/ w.at = "ask" /\ v.at = "wait"
         \/ w.at = "read" /\ v.at = "join"
  PROVE  Accounted(w, v)
<1>1. Idles(w, v)
  BY DEF Untouched, Idles, Handing
<1>2. Rests(w, v)
  BY DEF Untouched, Rests, EmittingSegment, Begun, Complete, Phase
<1>3. QED
  BY <1>1, <1>2 DEF Accounted

(* Steps that give the entry up. *)
Kin(w, v) ==
  /\ SameBuffer(w, v) /\ SameCounts(w, v)
  /\ (v.g = w.g /\ v.bytesIn = w.bytesIn) \/ (w.g.at = "entry" /\ SameEntry(w.g, v.g))

(* They keep the accounts, too. *)
LEMMA LeftAccounted ==
  ASSUME NEW w, NEW v \in Writers, Kin(w, v), NEW u, NEW outcome \in Outcomes \ {"done"},
         u = Ended(v, outcome) \/ u = [v EXCEPT !.at = "closing", !.outcome = outcome]
  PROVE  Accounted(w, u)
<1>1. /\ u.out = v.out /\ u.rest = v.rest /\ u.filled = v.filled /\ u.bytesOut = v.bytesOut
      /\ u.yielded = v.yielded /\ u.planIndex = v.planIndex /\ u.entriesDone = v.entriesDone
      /\ u.g = v.g /\ u.bytesIn = v.bytesIn /\ u.outcome = outcome /\ u.at \in {"ended", "closing"}
  <2>1. CASE u = Ended(v, outcome)
    BY <2>1 DEF Ended, Writers
  <2>2. CASE u = [v EXCEPT !.at = "closing", !.outcome = outcome]
    BY <2>2 DEF Writers
  <2>3. QED
    BY <2>1, <2>2
<1>2. outcome # "none"
  BY DEF Outcomes
<1>3. Fails(w, u)
  BY <1>1 DEF Kin, SameBuffer, Fails
<1>4. Abandons(w, u)
  BY <1>1, <1>2 DEF Kin, SameCounts, Abandons
<1>5. QED
  BY <1>3, <1>4 DEF Accounted

(* A writer is of its own kind. *)
LEMMA KinSame == ASSUME NEW w PROVE Kin(w, w)
BY DEF Kin, SameBuffer, SameCounts

(* Steps that push a piece of the entry. *)
Pushable(w, v) ==
  /\ SameBuffer(w, v) /\ SameCounts(w, v) /\ v.outcome = "none" /\ w.outcome = "none"
  /\ w.g.at = "entry" /\ w.at \notin Handing \cup {"segment"}
  /\ v.bytesIn + Got(w) = w.bytesIn + ContentSize(v.content)

(* They keep the accounts: what is put out is what is left to push. *)
LEMMA PushAccounted ==
  ASSUME NEW w, NEW v \in Writers, Pushable(w, v), NEW then \in Ways \ {"segment"}, NEW h,
         SameEntry(w.g, h), NEW u, u = AtPush(v, then, h, u.out, u.rest, u.consumed),
         u.rest \in Nat, Length(u.out) = Length(v.out) + u.rest,
         then \in {"describe", "entryEnd"} =>
           h.plans[h.i].uncompressedSize = ContentSize(v.content)
  PROVE  Accounted(w, u)
<1>1. /\ u.at = "push" /\ u.then = then /\ u.g = h /\ u.outcome = v.outcome
      /\ u.filled = v.filled /\ u.yielded = v.yielded /\ u.content = v.content
      /\ u.planIndex = v.planIndex /\ u.bytesIn = v.bytesIn /\ u.bytesOut = v.bytesOut
      /\ u.entriesDone = v.entriesDone
  BY AtPushFields
<1>2. Pushes(w, u)
  BY <1>1 DEF Pushable, SameBuffer, Pushes
<1>3. Begun(u) /\ ~EmittingSegment(u) /\ ~EmittingSegment(w) /\ u.g.at = "entry"
  BY <1>1 DEF Pushable, SameEntry, Begun, EmittingSegment, Handing
<1>4. Got(u) = ContentSize(v.content)
  BY <1>1, <1>3 DEF Got
<1>5. Complete(u) => u.g.plans[u.g.i].uncompressedSize = ContentSize(u.content)
  BY <1>1 DEF Complete, Phase, Ways
<1>6. Works(w, u)
  BY <1>1, <1>3, <1>4, <1>5 DEF Pushable, SameCounts, Works
<1>7. QED
  BY <1>2, <1>6 DEF Accounted

(* The steps that leave the writer alone, and those that only move it.     *)
LEMMA OtherAccounts ==
  ASSUME Typed, Typed', Accounts,
         \/ Building \/ ToBytes \/ Abort \/ PumpStep \/ StreamStep \/ PumpDone \/ PumpFails
         \/ UNCHANGED vars
  PROVE  Accounts' /\ NoFullChunk
<1>1. UNCHANGED writer
  BY DEF Building, ToBytes, Abort, PumpStep, PumpWrite, PumpClose, StreamStep, Compress, Flush,
     PumpDone, PumpFails, vars
<1>2. Untouched(writer, writer') /\ writer'.at = writer.at
  BY <1>1 DEF Untouched, SameBuffer, SameCounts
<1>3. Accounted(writer, writer')
  BY <1>2, OnlyPlace
<1>4. QED
  BY <1>3, AccountsKept

(* Moving: keeps the accounts. *)
LEMMA MovingAccounts ==
  ASSUME Typed, Typed', Accounts, Stream \/ Pull \/ Return \/ AskSource
  PROVE  Accounts' /\ NoFullChunk
<1>0. writer \in Writers
  BY TypedFacts
<1>1. CASE Stream \/ AskSource
  <2>1. PICK at \in {"fresh", "wait"} :
          /\ writer' = [writer EXCEPT !.at = at]
          /\ (writer.at = "none" /\ at = "fresh") \/ (writer.at = "ask" /\ at = "wait")
    BY <1>1 DEF Stream, AskSource
  <2>2. Untouched(writer, writer') /\ writer'.at = at
    BY <1>0, <2>1 DEF Untouched, SameBuffer, SameCounts, Writers
  <2>3. Accounted(writer, writer')
    BY <2>1, <2>2, OnlyPlace
  <2>4. QED
    BY <2>3, AccountsKept
<1>2. CASE Pull \/ Return
  <2>1. writer' = [writer EXCEPT !.asked = TRUE] \/ writer' = [writer EXCEPT !.stopping = TRUE]
    BY <1>2 DEF Pull, Return
  <2>2. Untouched(writer, writer') /\ writer'.at = writer.at
    BY <1>0, <2>1 DEF Untouched, SameBuffer, SameCounts, Writers
  <2>3. Accounted(writer, writer')
    BY <2>2, OnlyPlace
  <2>4. QED
    BY <2>3, AccountsKept
<1>3. QED
  BY <1>1, <1>2

(* Leave: keeps the accounts. *)
LEMMA LeaveAccounts ==
  ASSUME Typed, Typed', Accounts, NEW v \in Writers, Kin(writer, v),
         NEW outcome \in Outcomes \ {"done"},
         \/ Leave(v, outcome)
         \/ writer' = Ended(v, outcome)
         \/ writer' = [v EXCEPT !.at = "closing", !.outcome = outcome]
  PROVE  Accounts' /\ NoFullChunk
<1>1. writer' = Ended(v, outcome) \/ writer' = [v EXCEPT !.at = "closing", !.outcome = outcome]
  BY DEF Leave
<1>2. Accounted(writer, writer')
  BY <1>1, LeftAccounted
<1>3. QED
  BY <1>2, AccountsKept

(* Stop: keeps the accounts. *)
LEMMA StopAccounts ==
  ASSUME Typed, Typed', Accounts, Stop \/ SourceFails
  PROVE  Accounts' /\ NoFullChunk
<1>1. writer \in Writers /\ Kin(writer, writer) /\ {"returned", "source"} \subseteq Outcomes \ {"done"}
  BY TypedFacts, KinSame DEF Outcomes
<1>2. Leave(writer, "returned") \/ writer' = Ended(writer, "source")
  BY DEF Stop, SourceFails
<1>3. QED
  BY <1>1, <1>2, LeaveAccounts

(* ReadEnd: keeps the accounts. *)
LEMMA ReadEndAccounts ==
  ASSUME Typed, Typed', Control, Accounts, ReadEnd
  PROVE  Accounts' /\ NoFullChunk
<1>0. writer \in Writers /\ Kin(writer, writer) /\ writer.at = "read"
  BY TypedFacts, KinSame DEF ReadEnd
<1>1. CASE writer' = [writer EXCEPT !.at = "join"]
  <2>1. Untouched(writer, writer') /\ writer'.at = "join"
    BY <1>0, <1>1 DEF Untouched, SameBuffer, SameCounts, Writers
  <2>2. Accounted(writer, writer')
    BY <1>0, <2>1, OnlyPlace
  <2>3. QED
    BY <2>2, AccountsKept
<1>2. CASE cs.at \in {"aborted", "source"} /\ Leave(writer, cs.at)
  <2>1. cs.at \in Outcomes \ {"done"}
    BY <1>2 DEF Outcomes
  <2>2. QED
    BY <1>0, <1>2, <2>1, LeaveAccounts
<1>3. QED
  BY <1>1, <1>2 DEF ReadEnd

(* A stream entry begins with nothing read, and what is read is counted.   *)
LEMMA SameEntrySelf == ASSUME NEW g PROVE SameEntry(g, g)
BY DEF SameEntry, Alike

(* BeginEntry: keeps the accounts. *)
LEMMA BeginEntryAccounts ==
  ASSUME Typed, Typed', Control, Accounts, BeginEntry
  PROVE  Accounts' /\ NoFullChunk
<1> DEFINE w == [writer EXCEPT !.consumed = 0, !.content = <<>>]
<1>0. writer \in Writers /\ writer.at = "segment" /\ writer.g.at = "entry"
  BY TypedFacts DEF BeginEntry
<1>1. PICK place \in {"ask", "read"} : writer' = [w EXCEPT !.at = place, !.then = place]
  BY DEF BeginEntry
<1>2. /\ SameBuffer(writer, writer') /\ SameCounts(writer, writer')
      /\ writer'.outcome = writer.outcome /\ writer'.g = writer.g
      /\ writer'.bytesIn = writer.bytesIn /\ writer'.content = <<>>
      /\ writer'.at = place /\ writer'.then = place
  BY <1>0, <1>1 DEF Writers, SameBuffer, SameCounts
<1>3. Idles(writer, writer')
  BY <1>0, <1>2 DEF Idles, Handing
<1>4. Got(writer) = 0 /\ Got(writer') = 0
  BY <1>0, <1>2, ContentSizeEmpty DEF Got, Begun
<1>5. Works(writer, writer')
  <2>1. Begun(writer') /\ ~EmittingSegment(writer) /\ ~EmittingSegment(writer') /\ ~Complete(writer')
    BY <1>0, <1>2 DEF Begun, EmittingSegment, Complete, Phase
  <2>2. QED
    BY <1>0, <1>2, <1>4, <2>1, SameEntrySelf DEF Works
<1>6. Accounted(writer, writer')
  BY <1>3, <1>5 DEF Accounted
<1>7. QED
  BY <1>6, AccountsKept

(* ChunkArrives: keeps the accounts. *)
LEMMA ChunkArrivesAccounts ==
  ASSUME Typed, Typed', Control, Accounts, ChunkArrives
  PROVE  Accounts' /\ NoFullChunk
<1> DEFINE a == SourceOf(writer)
<1> DEFINE chunk == Head(sources[a].left)
<1> DEFINE content == Append(writer.content, chunk)
<1> DEFINE w == ChunkWriter(chunk)
<1>0. writer.at = "wait" /\ sources[a].left # <<>> /\ ChunkGoes(chunk)
  BY ChunkGoing, Zenon DEF Typed
<1>1. /\ writer \in Writers /\ WellTyped(writer) /\ writer.g.at = "entry" /\ writer.outcome = "none"
      /\ sources \in [DOMAIN SourceContents -> Sources] /\ a \in DOMAIN SourceContents
  BY <1>0, EntryWaits, Zenon
<1>2. chunk \in Chunks /\ writer.content \in Contents
  BY <1>0, <1>1, SourceDelivers, Zenon DEF Writers
<1> HIDE DEF a, chunk
<1>3. /\ content \in Contents /\ ContentSize(content) = ContentSize(writer.content) + chunk.size
  BY <1>2, ContentSizeAppend
<1>4. /\ WellTyped(w) /\ SameEntry(writer.g, w.g) /\ w.content = content
      /\ w.bytesIn = writer.bytesIn + chunk.size /\ w.outcome = "none" /\ w \in Writers
      /\ SameBuffer(writer, w) /\ SameCounts(writer, w)
  BY <1>1, <1>2, ChunkWriterIs DEF WellTyped, SameBuffer, SameCounts
<1> HIDE DEF w
<1>5. Got(writer) = ContentSize(writer.content)
  BY <1>0, <1>1 DEF Got, Begun
<1>6. writer.bytesIn + chunk.size + Got(writer) = writer.bytesIn + ContentSize(content)
  <2>1. writer.bytesIn \in Nat /\ Got(writer) \in Nat /\ chunk.size \in Nat
    BY <1>1, <1>2, WriterNumbers DEF Chunks
  <2>2. QED
    BY <1>3, <1>5, <2>1
<1>7. Kin(writer, writer) /\ Kin(writer, w) /\ {"aborted", "range"} \subseteq Outcomes \ {"done"}
  BY <1>1, <1>4, KinSame DEF Kin, Outcomes
<1>8. CASE \/ writer' = [writer EXCEPT !.at = "closing", !.outcome = "aborted"]
           \/ writer' = [w EXCEPT !.at = "closing", !.outcome = "range"]
  BY <1>1, <1>4, <1>7, <1>8, LeaveAccounts
<1>9. CASE writer' = [writer EXCEPT !.at = "ask", !.content = Append(writer.content, chunk),
                              !.bytesIn = writer.bytesIn + chunk.size]
  <2>1. /\ SameBuffer(writer, writer') /\ SameCounts(writer, writer')
        /\ writer'.outcome = writer.outcome /\ writer'.g = writer.g
        /\ writer'.bytesIn = writer.bytesIn + chunk.size /\ writer'.content = content
        /\ writer'.at = "ask"
    BY <1>1, <1>9 DEF Writers, SameBuffer, SameCounts
  <2> HIDE DEF content
  <2>2. Idles(writer, writer')
    BY <1>0, <2>1 DEF Idles, Handing
  <2>3. Got(writer') = ContentSize(content)
    BY <1>1, <2>1 DEF Got, Begun
  <2>4. /\ Begun(writer') /\ ~EmittingSegment(writer) /\ ~EmittingSegment(writer')
        /\ ~Complete(writer')
    BY <1>0, <1>1, <2>1 DEF Begun, EmittingSegment, Complete, Phase
  <2>5. Works(writer, writer')
    BY <1>1, <1>6, <2>1, <2>3, <2>4, SameEntrySelf DEF Works
  <2>6. Accounted(writer, writer')
    BY <2>2, <2>5 DEF Accounted
  <2>7. QED
    BY <2>6, AccountsKept
<1>10. CASE writer' = Piece(w, <<ChunkUnit(chunk)>>, "ask")
  <2>1. <<ChunkUnit(chunk)>> \in Seq(FileUnits) /\ "ask" \in Ways \ {"segment"}
          /\ "ask" \notin {"describe", "entryEnd"}
    BY <1>2, ChunkTyped, Singleton DEF Ways
  <2>2. /\ writer'.rest \in Nat /\ Length(writer'.out) = Length(w.out) + writer'.rest
        /\ writer' = AtPush(w, "ask", w.g, writer'.out, writer'.rest, writer'.consumed)
    BY <1>4, <1>10, <2>1, PieceIs
  <2> HIDE DEF content
  <2>3. Pushable(writer, w)
    BY <1>0, <1>1, <1>4, <1>6 DEF Pushable, Handing
  <2>4. Accounted(writer, writer')
    BY <1>4, <2>1, <2>2, <2>3, PushAccounted
  <2>5. QED
    BY <2>4, AccountsKept
<1>11. QED
  BY <1>0, <1>8, <1>9, <1>10 DEF ChunkGoes, w

(* PumpChunk: keeps the accounts. *)
LEMMA PumpChunkAccounts ==
  ASSUME Typed, Typed', Control, Accounts, PumpChunk
  PROVE  Accounts' /\ NoFullChunk
<1> DEFINE a == SourceOf(writer)
<1> DEFINE chunk == Head(sources[a].left)
<1> DEFINE content == Append(writer.content, chunk)
<1>0. /\ pump.at = "next" /\ sources[a].left # <<>>
      /\ \/ UNCHANGED writer
         \/ writer' = [writer EXCEPT !.bytesIn = @ + chunk.size, !.content = Append(@, chunk)]
  BY DEF PumpChunk
<1>1. /\ writer \in Writers /\ WellTyped(writer) /\ Positions(writer) /\ writer.g.at = "entry"
      /\ sources \in [DOMAIN SourceContents -> Sources] /\ a \in DOMAIN SourceContents
      /\ Phase(writer) \in {"read", "closing"}
      /\ Phase(writer) = "closing" => writer.outcome # "none"
  BY <1>0, PumpReads, Zenon DEF Active, Control, PumpFits
<1>2. chunk \in Chunks /\ writer.content \in Contents
  BY <1>0, <1>1, SourceDelivers, Zenon DEF Writers
<1> HIDE DEF a, chunk
<1>3. CASE UNCHANGED writer
  <2>1. Untouched(writer, writer') /\ writer'.at = writer.at
    BY <1>3 DEF Untouched, SameBuffer, SameCounts
  <2>2. QED
    BY <2>1, OnlyPlace, AccountsKept
<1>4. CASE writer' = [writer EXCEPT !.bytesIn = @ + chunk.size, !.content = Append(@, chunk)]
  <2>1. /\ SameBuffer(writer, writer') /\ SameCounts(writer, writer')
        /\ writer'.outcome = writer.outcome /\ writer'.g = writer.g
        /\ writer'.bytesIn = writer.bytesIn + chunk.size /\ writer'.content = content
        /\ writer'.at = writer.at /\ writer'.then = writer.then
    BY <1>1, <1>4 DEF Writers, SameBuffer, SameCounts
  <2>2. ContentSize(content) = ContentSize(writer.content) + chunk.size
    BY <1>2, ContentSizeAppend
  <2> HIDE DEF content
  <2>3. Idles(writer, writer')
    BY <2>1 DEF Idles
  <2>4. writer.at \notin {"segment", "none", "fresh"} /\ ~EmittingSegment(writer)
    BY <1>1 DEF Phase, EmittingSegment
  <2>5. /\ Begun(writer') /\ ~EmittingSegment(writer') /\ Got(writer) = ContentSize(writer.content)
        /\ Got(writer') = ContentSize(content)
    BY <1>1, <2>1, <2>4 DEF Begun, EmittingSegment, Got
  <2>6. writer'.bytesIn + Got(writer) = writer.bytesIn + Got(writer')
    <3>1. writer.bytesIn \in Nat /\ Got(writer) \in Nat /\ chunk.size \in Nat
      BY <1>1, <1>2, WriterNumbers DEF Chunks
    <3>2. QED
      BY <2>1, <2>2, <2>5, <3>1
  <2>7. ~(Complete(writer') /\ writer'.outcome = "none")
    BY <1>1, <2>1 DEF Complete, Phase
  <2>8. Works(writer, writer')
    BY <1>1, <2>1, <2>4, <2>5, <2>6, <2>7, SameEntrySelf DEF Works
  <2>9. Accounted(writer, writer')
    BY <2>3, <2>8 DEF Accounted
  <2>10. QED
    BY <2>9, AccountsKept
<1>5. QED
  BY <1>0, <1>3, <1>4

(* Being in the same entry carries over. *)
LEMMA SameEntryThrough ==
  ASSUME NEW g, NEW h, NEW k, SameEntry(g, h), SameEntry(h, k)
  PROVE  SameEntry(g, k)
BY DEF SameEntry, Alike

(* The writer in an entry, as it is and with the sizes so far in its plan. *)
LEMMA WriterPushable ==
  ASSUME WellTyped(writer), writer.g.at = "entry", writer.outcome = "none",
         writer.at \notin Handing \cup {"segment"}
  PROVE  Pushable(writer, writer)
BY DEF Pushable, SameBuffer, SameCounts, Got, Begun

(* With the sizes taken down it can push as before. *)
LEMMA SizedPushable ==
  ASSUME WellTyped(writer), writer.g.at = "entry", writer.outcome = "none",
         writer.at \notin Handing \cup {"segment"}, NEW n \in Nat
  PROVE  LET v == Sized(writer, writer.content, n)
         IN  /\ WellTyped(v) /\ v \in Writers /\ SameEntry(writer.g, v.g) /\ v.g.at = "entry"
             /\ v.g.plans[v.g.i].uncompressedSize = ContentSize(v.content)
             /\ v.content = writer.content
             /\ Pushable(writer, v) /\ Kin(writer, v)
<1> DEFINE v == Sized(writer, writer.content, n)
<1>1. writer \in Writers /\ writer.content \in Contents
  BY DEF WellTyped, Writers
<1>2. /\ WellTyped(v) /\ SameEntry(writer.g, v.g) /\ v = Reading(writer, writer.content, v.g)
      /\ v.g.plans[v.g.i].uncompressedSize = ContentSize(writer.content)
  BY <1>1, SizedIs
<1> HIDE DEF v
<1>3. /\ v.content = writer.content /\ v.outcome = "none" /\ v.bytesIn = writer.bytesIn
      /\ SameBuffer(writer, v) /\ SameCounts(writer, v)
  BY <1>1, <1>2, ReadingFields DEF SameBuffer, SameCounts
<1>4. Pushable(writer, v)
  BY <1>3 DEF Pushable, Got, Begun
<1>5. Kin(writer, v) /\ v \in Writers /\ v.g.at = "entry"
  BY <1>2, <1>3 DEF Kin, WellTyped, SameEntry
<1>6. QED
  BY <1>2, <1>3, <1>4, <1>5 DEF v

(* Descriptor: keeps the accounts. *)
LEMMA DescriptorAccounts ==
  ASSUME Typed, Typed', Accounts, NEW v, WellTyped(v), Pushable(writer, v),
         SameEntry(writer.g, v.g),
         v.g.plans[v.g.i].uncompressedSize = ContentSize(v.content),
         writer' = Descriptor(v)
  PROVE  Accounts' /\ NoFullChunk
<1>1. v \in Writers /\ v.g.at = "entry"
  BY DEF WellTyped, Pushable, SameEntry
<1>2. /\ SameEntry(v.g, writer'.g)
      /\ writer'.g.plans[writer'.g.i].uncompressedSize = Current(v).uncompressedSize
      /\ writer'.rest \in Nat /\ Length(writer'.out) = Length(v.out) + writer'.rest
      /\ writer' = AtPush(v, "entryEnd", writer'.g, writer'.out, writer'.rest, writer'.consumed)
  BY <1>1, DescriptorIs
<1>3. SameEntry(writer.g, writer'.g)
  BY <1>2, SameEntryThrough
<1>4. /\ writer'.g.plans[writer'.g.i].uncompressedSize = ContentSize(v.content)
      /\ "entryEnd" \in Ways \ {"segment"}
  BY <1>2 DEF Current, Ways
<1>5. Accounted(writer, writer')
  BY <1>1, <1>2, <1>3, <1>4, PushAccounted
<1>6. QED
  BY <1>5, AccountsKept

(* Piece: keeps the accounts. *)
LEMMA PieceAccounts ==
  ASSUME Typed, Typed', Accounts, NEW v, WellTyped(v), Pushable(writer, v),
         SameEntry(writer.g, v.g),
         v.g.plans[v.g.i].uncompressedSize = ContentSize(v.content),
         NEW unit \in FileUnits, NEW then \in Ways \ {"segment"},
         writer' = Piece(v, <<unit>>, then)
  PROVE  Accounts' /\ NoFullChunk
<1>1. v \in Writers /\ <<unit>> \in Seq(FileUnits) /\ then \in Ways
  BY Singleton DEF WellTyped
<1>2. /\ writer'.rest \in Nat /\ Length(writer'.out) = Length(v.out) + writer'.rest
      /\ writer' = AtPush(v, then, v.g, writer'.out, writer'.rest, writer'.consumed)
  BY <1>1, PieceIs
<1>3. Accounted(writer, writer')
  BY <1>1, <1>2, PushAccounted
<1>4. QED
  BY <1>3, AccountsKept

(* Describe: keeps the accounts. *)
LEMMA DescribeAccounts ==
  ASSUME Typed, Typed', Control, Accounts, Describe
  PROVE  Accounts' /\ NoFullChunk
<1>1. /\ WellTyped(writer) /\ writer.at = "describe" /\ writer.g.at = "entry"
      /\ writer.outcome = "none" /\ writer' = Descriptor(writer)
  BY TypedFacts DEF Control, Describe, Positions
<1>2. writer.g.plans[writer.g.i].uncompressedSize = ContentSize(writer.content)
  BY <1>1 DEF Accounts, Counting, Complete, Phase
<1>3. Pushable(writer, writer)
  BY <1>1, WriterPushable DEF Handing
<1>4. QED
  BY <1>1, <1>2, <1>3, SameEntrySelf, DescriptorAccounts

(* SourceDone: keeps the accounts. *)
LEMMA SourceDoneAccounts ==
  ASSUME Typed, Typed', Control, Accounts, SourceDone
  PROVE  Accounts' /\ NoFullChunk
<1> DEFINE whole == Deflated(writer.content)
<1> DEFINE w == Sized(writer, writer.content, whole.len)
<1> DEFINE u == Sized(writer, writer.content, ContentSize(writer.content))
<1>0. /\ writer.at = "wait"
      /\ writer' \in {Descriptor(u), Ended(w, "range"), Piece(w, <<whole>>, "describe")}
  BY DEF SourceDone
<1>1. /\ writer \in Writers /\ WellTyped(writer) /\ writer.g.at = "entry"
      /\ writer.outcome = "none" /\ writer.at \notin Handing \cup {"segment"}
  BY <1>0, EntryWaits DEF Handing
<1>2. writer.content \in Contents
  BY <1>1 DEF Writers
<1>3. ContentSize(writer.content) \in Nat /\ whole \in FileUnits /\ whole.len \in Nat
  BY <1>2, ContentSizeNat, DeflatedTyped, UnitLength
<1> HIDE DEF whole
<1>4. /\ WellTyped(w) /\ w \in Writers /\ SameEntry(writer.g, w.g)
      /\ w.g.plans[w.g.i].uncompressedSize = ContentSize(w.content)
      /\ Pushable(writer, w) /\ Kin(writer, w)
  BY <1>1, <1>3, SizedPushable
<1>5. /\ WellTyped(u) /\ u \in Writers /\ SameEntry(writer.g, u.g)
      /\ u.g.plans[u.g.i].uncompressedSize = ContentSize(u.content)
      /\ Pushable(writer, u) /\ Kin(writer, u)
  BY <1>1, <1>3, SizedPushable
<1> HIDE DEF w, u
<1>6. "range" \in Outcomes \ {"done"} /\ "describe" \in Ways \ {"segment"}
  BY DEF Outcomes, Ways
<1>7. CASE writer' = Descriptor(u)
  BY <1>5, <1>7, DescriptorAccounts
<1>8. CASE writer' = Ended(w, "range")
  BY <1>4, <1>6, <1>8, LeaveAccounts
<1>9. CASE writer' = Piece(w, <<whole>>, "describe")
  BY <1>3, <1>4, <1>6, <1>9, PieceAccounts
<1>10. QED
  BY <1>0, <1>7, <1>8, <1>9

(* ReadPiece: keeps the accounts. *)
LEMMA ReadPieceAccounts ==
  ASSUME Typed, Typed', Control, Accounts, ReadPiece
  PROVE  Accounts' /\ NoFullChunk
<1> DEFINE unit == Head(cs.ready)
<1> DEFINE n == Current(writer).compressedSize + unit.len
<1> DEFINE w == Sized(writer, writer.content, n)
<1>0. /\ writer.at = "read" /\ cs.ready # <<>>
      /\ writer' = Piece(w, <<unit>>, "read") \/ Leave(w, "range")
  BY DEF ReadPiece
<1>1. /\ writer \in Writers /\ WellTyped(writer) /\ cs \in Streams
      /\ writer.g.at = "entry" /\ writer.outcome = "none"
      /\ writer.at \notin Handing \cup {"segment"}
  BY <1>0, TypedFacts DEF Control, Typed, Positions, Handing
<1>2. Current(writer) \in Plans(Refs)
  BY <1>1, EntryFacts
<1>3. unit \in DataUnits
  <2> DEFINE D == DataUnits
  <2>1. cs.ready \in Seq(D) /\ cs.ready # <<>>
    BY <1>0, <1>1 DEF Streams
  <2> HIDE DEF D
  <2>2. Head(cs.ready) \in D
    BY <2>1
  <2>3. QED
    BY <2>2 DEF D
<1>4. unit \in FileUnits /\ n \in Nat
  <2>1. unit.len \in Nat /\ Current(writer).compressedSize \in Nat
    BY <1>2, <1>3 DEF DataUnits, Plans
  <2>2. QED
    BY <1>3, <2>1 DEF FileUnits
<1> HIDE DEF n, unit
<1>5. /\ WellTyped(w) /\ w \in Writers /\ SameEntry(writer.g, w.g)
      /\ w.g.plans[w.g.i].uncompressedSize = ContentSize(w.content)
      /\ Pushable(writer, w) /\ Kin(writer, w)
  BY <1>1, <1>4, SizedPushable
<1> HIDE DEF w
<1>6. "range" \in Outcomes \ {"done"} /\ "read" \in Ways \ {"segment"}
  BY DEF Outcomes, Ways
<1>7. CASE writer' = Piece(w, <<unit>>, "read")
  BY <1>4, <1>5, <1>6, <1>7, PieceAccounts
<1>8. CASE Leave(w, "range")
  BY <1>5, <1>6, <1>8, LeaveAccounts
<1>9. QED
  BY <1>0, <1>7, <1>8

(* Join: keeps the accounts. *)
LEMMA JoinAccounts ==
  ASSUME Typed, Typed', Control, Accounts, Join
  PROVE  Accounts' /\ NoFullChunk
<1> DEFINE w == Sized(writer, writer.content, Current(writer).compressedSize)
<1>0. writer.at = "join" /\ writer' = [w EXCEPT !.at = "closing"]
  BY DEF Join
<1>1. /\ writer \in Writers /\ WellTyped(writer) /\ writer.g.at = "entry"
      /\ writer.outcome = "none" /\ Current(writer) \in Plans(Refs)
      /\ writer.at \notin Handing \cup {"segment"}
  BY <1>0, EntryWaits DEF Handing
<1>2. Current(writer).compressedSize \in Nat
  BY <1>1 DEF Plans
<1>3. /\ w \in Writers /\ SameEntry(writer.g, w.g) /\ w.g.at = "entry"
      /\ w.g.plans[w.g.i].uncompressedSize = ContentSize(w.content)
      /\ w.content = writer.content /\ Pushable(writer, w)
  BY <1>1, <1>2, SizedPushable
<1> HIDE DEF w
<1>4. /\ SameBuffer(writer, writer') /\ SameCounts(writer, writer') /\ writer'.g = w.g
      /\ writer'.outcome = "none" /\ writer'.at = "closing" /\ writer'.content = w.content
      /\ writer'.bytesIn = w.bytesIn
  BY <1>0, <1>3 DEF Pushable, SameBuffer, SameCounts, Writers
<1>5. Idles(writer, writer')
  BY <1>1, <1>4 DEF Idles, Handing
<1>6. /\ Begun(writer') /\ ~EmittingSegment(writer) /\ ~EmittingSegment(writer')
      /\ Got(writer') = ContentSize(w.content)
  BY <1>0, <1>3, <1>4 DEF Begun, EmittingSegment, Got
<1>7. Works(writer, writer')
  BY <1>1, <1>3, <1>4, <1>6 DEF Pushable, Works
<1>8. Accounted(writer, writer')
  BY <1>5, <1>7 DEF Accounted
<1>9. QED
  BY <1>8, AccountsKept

(* SourceReturned: keeps the accounts. *)
LEMMA SourceReturnedAccounts ==
  ASSUME Typed, Typed', Control, Accounts, SourceReturned
  PROVE  Accounts' /\ NoFullChunk
<1>0. /\ writer.at = "closing" /\ ~sources[SourceOf(writer)].next
      /\ \/ writer.outcome # "none" /\ writer' = Ended(writer, writer.outcome)
         \/ writer.outcome = "none" /\ writer' = Ended(writer, "range")
         \/ writer.outcome = "none" /\ writer' = Descriptor(writer)
  BY DEF SourceReturned
<1>1. /\ writer \in Writers /\ WellTyped(writer) /\ writer.g.at = "entry"
      /\ writer.at \notin Handing \cup {"segment"}
  BY <1>0, EntryWaits DEF Handing
<1>2. CASE writer.outcome # "none" /\ writer' = Ended(writer, writer.outcome)
  <2>1. /\ SameBuffer(writer, writer') /\ SameCounts(writer, writer') /\ writer'.g = writer.g
        /\ writer'.outcome = writer.outcome /\ writer'.at = "ended"
        /\ writer'.bytesIn = writer.bytesIn
    BY <1>1, <1>2 DEF Ended, SameBuffer, SameCounts, Writers
  <2>2. Idles(writer, writer') /\ Abandons(writer, writer')
    BY <1>1, <1>2, <2>1 DEF Idles, Abandons, Handing
  <2>3. Accounted(writer, writer')
    BY <2>2 DEF Accounted
  <2>4. QED
    BY <2>3, AccountsKept
<1>3. CASE writer.outcome = "none" /\ writer' = Ended(writer, "range")
  <2>1. "range" \in Outcomes \ {"done"}
    BY DEF Outcomes
  <2>2. QED
    BY <1>1, <1>3, <2>1, KinSame, LeaveAccounts
<1>4. CASE writer.outcome = "none" /\ writer' = Descriptor(writer)
  <2>1. writer.g.plans[writer.g.i].uncompressedSize = ContentSize(writer.content)
    BY <1>0, <1>1, <1>4 DEF Accounts, Counting, Complete, Phase
  <2>2. Pushable(writer, writer)
    BY <1>1, <1>4, WriterPushable
  <2>3. QED
    BY <1>1, <1>4, <2>1, <2>2, SameEntrySelf, DescriptorAccounts
<1>5. QED
  BY <1>0, <1>2, <1>3, <1>4

-----------------------------------------------------------------------------
(* The segments: one counts as the end of an entry if it is the last one.  *)

(* A fresh plan names no segment. *)
LEMMA NothingMarked ==
  ASSUME NEW entries \in Seq(Specs(Refs)), NEW k \in 1 .. Len(planArchive(entries))
  PROVE  planArchive(entries)[k].emitted = None
<1>1. /\ buildStreamPlan(entries[k]).emitted = None
      /\ buildRawPlan(entries[k]).emitted = None
      /\ finishBufferedPlan(entries[k]).emitted = None
  BY DEF buildStreamPlan, buildRawPlan, finishBufferedPlan, Plan
<1>2. k \in DOMAIN entries
  BY PlanArchiveTyped
<1>3. QED
  BY <1>1, <1>2 DEF planArchive

(* Start: keeps the accounts. *)
LEMMA StartAccounts ==
  ASSUME Typed, Typed', Control, Accounts, Start
  PROVE  Accounts' /\ NoFullChunk
<1>0. /\ writer \in Writers /\ WellTyped(writer) /\ writer.at = "fresh" /\ writer.outcome = "none"
      /\ writer.g.at # "entry"
  BY TypedFacts DEF Control, Start, Positions
<1>1. CASE writer' = Ended(writer, "aborted") \/ writer' = Ended(writer, "refused")
  <2>1. Kin(writer, writer) /\ {"aborted", "refused"} \subseteq Outcomes \ {"done"}
    BY KinSame DEF Outcomes
  <2>2. QED
    BY <1>0, <1>1, <2>1, LeaveAccounts
<1>2. CASE writer' = [writer EXCEPT !.at = "segment", !.planned = orderedSpecs,
                                    !.g = archiveSegments(planArchive(orderedSpecs), comment)]
  <2> DEFINE plans == planArchive(orderedSpecs)
  <2> DEFINE g == archiveSegments(plans, comment)
  <2>1. Collected /\ comment \in Seq(FileUnits)
    BY DEF Typed, Collected
  <2>2. orderedSpecs \in Seq(Specs(Refs))
    BY <2>1, OrderedTyped
  <2>3. plans \in Seq(Plans(Refs)) /\ \A k \in 1 .. Len(plans) : plans[k].emitted = None
    BY <2>2, PlanArchiveTyped, NothingMarked
  <2>4. /\ g.plans = plans
        /\ IF 0 < Len(plans) THEN g.at = "header" /\ g.i = 1
           ELSE g.at \notin InEntries /\ g.at # "done"
    BY <2>1, <2>3, GeneratorStarts
  <2>5. writer.planIndex = 0 /\ writer.entriesDone = 0 /\ writer.bytesIn = 0
    <3>1. writer.g.plans = <<>> /\ writer.entriesDone = writer.planIndex
      BY <1>0 DEF Accounts, Counting
    <3>2. writer.g.at \notin InEntries /\ Len(writer.g.plans) = 0
      BY <1>0, <3>1, WriterNumbers
    <3>3. writer.planIndex = 0 /\ writer.bytesIn = DoneBytes(writer.g.plans, 0)
      BY <3>2 DEF Accounts, Counting
    <3>4. writer.g.plans \in Seq(Plans(Refs))
      BY <1>0, WriterNumbers
    <3>5. QED
      BY <3>1, <3>3, <3>4, DoneNone
  <2> HIDE DEF g
  <2>6. /\ writer'.at = "segment" /\ writer'.g = g /\ writer'.outcome = "none"
        /\ writer'.planIndex = 0 /\ writer'.entriesDone = 0 /\ writer'.bytesIn = 0
        /\ SameBuffer(writer, writer')
    BY <1>0, <1>2, <2>5 DEF Writers, SameBuffer, g
  <2> HIDE DEF plans
  <2>7. Chunked(writer') /\ writer'.yielded = writer.yielded
    <3>1. Idles(writer, writer')
      BY <1>0, <2>6 DEF Idles, Handing
    <3>2. writer' \in Writers
      BY DEF Typed, WellTyped
    <3>3. QED
      BY <1>0, <3>1, <3>2, Handling DEF Accounts
  <2>8. Marking(writer') /\ Got(writer') = 0 /\ ~Complete(writer')
    BY <2>3, <2>4, <2>6 DEF Marking, EmittingSegment, Got, Begun, Complete, Phase
  <2>9. DoneBytes(plans, 0) = 0 /\ Len(plans) \in Nat
    BY <2>3, DoneNone
  <2>10. Counting(writer')
    <3>1. CASE 0 < Len(plans)
      BY <2>4, <2>6, <2>8, <2>9, <3>1 DEF Counting, InEntries
    <3>2. CASE ~(0 < Len(plans))
      <4>1. Len(plans) = 0
        BY <2>9, <3>2
      <4>2. QED
        BY <2>4, <2>6, <2>8, <2>9, <4>1 DEF Counting
    <3>3. QED
      BY <3>1, <3>2
  <2>11. writer.yielded \in Nat /\ ChunkSize \in Nat \ {0}
    BY <1>0, LengthsNat, WriterAssumption
  <2>12. NoFullChunk
    BY <2>7, <2>11 DEF NoFullChunk
  <2>13. QED
    BY <2>7, <2>10, <2>12 DEF Accounts
<1>3. QED
  BY <1>1, <1>2 DEF Start

(* A marked plan keeps its sizes, and no other is touched. *)
LEMMA MarkedPlan ==
  ASSUME NEW g, Well(g, Refs), g.at \notin {"entry", "done"}
  PROVE  /\ Identity(Marked(g)) = Identity(g)
         /\ \A k \in 1 .. Len(g.plans) :
              /\ Marked(g).plans[k].uncompressedSize = g.plans[k].uncompressedSize
              /\ k # g.i => Marked(g).plans[k] = g.plans[k]
         /\ g.at \in InEntries =>
              /\ HeaderOnly(Marked(g)) = HeaderOnly(g)
              /\ Marked(g).plans[g.i].emitted =
                   IF g.at = "payload" \/ HeaderOnly(g) THEN Identity(g)
                   ELSE g.plans[g.i].emitted
         /\ g.at \notin InEntries => Marked(g) = g
<1>0. g \in Generators(Refs) /\ InRange(g)
  BY DEF Well
<1>1. CASE ~(g.at = "payload" \/ (g.at = "header" /\ HeaderOnly(g)))
  <2>1. Marked(g) = g
    BY <1>1 DEF Marked, HeaderOnly
  <2>2. QED
    BY <1>1, <2>1 DEF InEntries
<1>2. CASE g.at = "payload" \/ (g.at = "header" /\ HeaderOnly(g))
  <2>1. Marked(g) = [g EXCEPT !.plans[g.i].emitted = Identity(g)]
    BY <1>2 DEF Marked, HeaderOnly
  <2>2. /\ g.i \in 1 .. Len(g.plans) /\ g.plans \in Seq(Plans(Refs))
    BY <1>0, <1>2 DEF InRange, InEntries, Generators
  <2> DEFINE p == [g.plans[g.i] EXCEPT !.emitted = Identity(g)]
  <2>3. /\ Marked(g).at = g.at /\ Marked(g).i = g.i
        /\ Marked(g).plans = [g.plans EXCEPT ![g.i] = p]
    BY <1>0, <2>1 DEF Generators
  <2>4. g.plans[g.i] \in Plans(Refs)
    BY <2>2
  <2>5. /\ p.emitted = Identity(g) /\ p.uncompressedSize = g.plans[g.i].uncompressedSize
        /\ p.payload = g.plans[g.i].payload /\ p.source = g.plans[g.i].source
    BY <2>4 DEF Plans
  <2> HIDE DEF p
  <2>6. \A k \in 1 .. Len(g.plans) : Marked(g).plans[k] = IF k = g.i THEN p ELSE g.plans[k]
    BY <2>2, <2>3
  <2>7. Identity(Marked(g)) = Identity(g)
    BY <2>2, <2>3, <2>5, <2>6 DEF Identity
  <2>8. HeaderOnly(Marked(g)) = HeaderOnly(g)
    BY <2>2, <2>3, <2>5, <2>6 DEF HeaderOnly, isStream
  <2>9. QED
    BY <1>2, <2>2, <2>5, <2>6, <2>7, <2>8 DEF InEntries
<1>3. QED
  BY <1>1, <1>2

(* EmitSegment: keeps the accounts. *)
LEMMA EmitSegmentAccounts ==
  ASSUME Typed, Typed', Control, Accounts, EmitSegment
  PROVE  Accounts' /\ NoFullChunk
<1> DEFINE g == writer.g
<1> DEFINE h == Marked(g)
<1> DEFINE w == [writer EXCEPT !.g = Marked(@)]
<1>0. /\ writer \in Writers /\ WellTyped(writer) /\ Well(g, Refs) /\ writer.outcome = "none"
      /\ writer.at = "segment" /\ g.at # "entry" /\ g.at # "done"
      /\ writer' = Pushing(w, Segment(g), "segment")
  BY TypedFacts DEF Control, EmitSegment, Positions
<1>1. Well(h, Refs) /\ h.at = g.at /\ h.i = g.i /\ Len(h.plans) = Len(g.plans)
  BY <1>0, MarkedWell
<1>2. Segment(g) \in Seq(FileUnits) /\ "segment" \in Ways
  BY <1>0, SegmentTyped DEF Ways
<1>3. /\ Identity(h) = Identity(g)
      /\ \A k \in 1 .. Len(g.plans) :
           /\ h.plans[k].uncompressedSize = g.plans[k].uncompressedSize
           /\ k # g.i => h.plans[k] = g.plans[k]
      /\ g.at \in InEntries =>
           /\ HeaderOnly(h) = HeaderOnly(g)
           /\ h.plans[g.i].emitted =
                IF g.at = "payload" \/ HeaderOnly(g) THEN Identity(g) ELSE g.plans[g.i].emitted
      /\ g.at \notin InEntries => h = g
  BY <1>0, MarkedPlan
<1> HIDE DEF h
<1>4. /\ w \in Writers /\ w.g = h /\ w.outcome = "none" /\ w.out = writer.out
      /\ w.filled = writer.filled /\ w.yielded = writer.yielded /\ w.bytesOut = writer.bytesOut
      /\ w.planIndex = writer.planIndex /\ w.entriesDone = writer.entriesDone
      /\ w.bytesIn = writer.bytesIn /\ w.content = writer.content
  <2>1. h \in Generators(Refs)
    BY <1>1 DEF Well
  <2>2. w \in Writers
    BY <1>0, <2>1, Zenon DEF Writers, h
  <2>3. QED
    BY <1>0, <2>2 DEF Writers, h
<1>5. WellTyped(w)
  BY <1>1, <1>4 DEF WellTyped, Well
<1> HIDE DEF w
<1>6. /\ writer'.rest \in Nat /\ Length(writer'.out) = Length(w.out) + writer'.rest
      /\ writer' = AtPush(w, "segment", w.g, writer'.out, writer'.rest, w.consumed)
  BY <1>0, <1>2, <1>5, PushingIs
<1>7. /\ writer'.at = "push" /\ writer'.then = "segment" /\ writer'.g = h
      /\ writer'.outcome = "none" /\ writer'.filled = writer.filled
      /\ writer'.yielded = writer.yielded /\ writer'.bytesOut = writer.bytesOut
      /\ SameCounts(writer, writer') /\ writer'.bytesIn = writer.bytesIn
  BY <1>4, <1>6, AtPushFields DEF SameCounts
<1>8. Chunked(writer') /\ writer'.yielded = writer.yielded
  <2>1. Pushes(writer, writer')
    BY <1>0, <1>4, <1>6, <1>7 DEF Pushes, Handing
  <2>2. writer' \in Writers
    BY DEF Typed, WellTyped
  <2>3. QED
    BY <1>0, <2>1, <2>2, Handling DEF Accounts
<1>9. Counting(writer')
  <2>1. /\ g.plans \in Seq(Plans(Refs)) /\ Len(g.plans) \in Nat /\ writer.planIndex \in Nat
        /\ writer.bytesIn \in Nat
        /\ g.at \in InEntries => g.i \in 1 .. Len(g.plans)
    BY <1>0, WriterNumbers
  <2>2. h.plans \in Seq(Plans(Refs))
    BY <1>1 DEF Well, Generators
  <2>3. /\ writer.entriesDone = writer.planIndex
        /\ g.at \in InEntries => writer.planIndex = g.i - 1
                                 /\ writer.bytesIn = DoneBytes(g.plans, writer.planIndex)
        /\ g.at \notin InEntries => writer.planIndex = Len(g.plans)
                                    /\ writer.bytesIn = DoneBytes(g.plans, Len(g.plans))
        /\ \A k \in 1 .. Len(g.plans) : k > writer.planIndex => g.plans[k].emitted = None
    <3>1. ~EmittingSegment(writer) /\ Got(writer) = 0
      BY <1>0 DEF EmittingSegment, Got, Begun
    <3>2. g.at \in InEntries => DoneBytes(g.plans, writer.planIndex) \in Nat
      <4>1. g.at \in InEntries => writer.planIndex = g.i - 1
        BY DEF Accounts, Counting
      <4>2. g.at \in InEntries => writer.planIndex \in 0 .. Len(g.plans)
        BY <2>1, <4>1
      <4>3. QED
        BY <2>1, <4>2, DoneNat
    <3>3. g.at \in InEntries => writer.bytesIn = DoneBytes(g.plans, writer.planIndex)
      BY <1>0, <3>1, <3>2 DEF Accounts, Counting
    <3>4. \A k \in 1 .. Len(g.plans) : k > writer.planIndex => g.plans[k].emitted = None
      BY <1>0, <3>1 DEF Accounts, Counting, Marking
    <3>5. QED
      BY <3>3, <3>4 DEF Accounts, Counting
  <2>4. writer'.at \notin {"none", "fresh"} /\ Got(writer') = 0 /\ ~Complete(writer')
        /\ EmittingSegment(writer')
    BY <1>0, <1>1, <1>7 DEF Got, Begun, Complete, EmittingSegment
  <2> HIDE DEF g
  <2>5. CASE g.at \notin InEntries
    <3>1. h = g
      BY <1>3, <2>5
    <3>2. Marking(writer')
      BY <1>7, <2>1, <2>3, <2>5, <3>1 DEF Marking, SameCounts
    <3>3. QED
      BY <1>7, <2>3, <2>4, <2>5, <3>1, <3>2 DEF Counting, SameCounts
  <2>6. CASE g.at \in InEntries
    <3>1. writer.planIndex = g.i - 1 /\ g.i \in 1 .. Len(g.plans)
      BY <2>1, <2>3, <2>6
    <3>2. g.plans[g.i].emitted = None
      BY <2>1, <2>3, <3>1
    <3>3. \A k \in 1 .. Len(g.plans) : k > writer.planIndex /\ k # g.i => h.plans[k].emitted = None
      BY <1>3, <2>3
    <3>4. h.plans[g.i].emitted = IF h.at = "payload" \/ HeaderOnly(h) THEN Identity(h) ELSE None
      BY <1>1, <1>3, <2>6, <3>2
    <3>5. Marking(writer')
      BY <1>1, <1>7, <2>4, <3>3, <3>4 DEF Marking, SameCounts
    <3>6. DoneBytes(h.plans, writer.planIndex) = DoneBytes(g.plans, writer.planIndex)
      <4>1. writer.planIndex \in 0 .. Len(g.plans) /\ writer.planIndex <= Len(h.plans)
        BY <1>1, <2>1, <3>1
      <4>2. \A k \in 1 .. writer.planIndex :
              g.plans[k].uncompressedSize = h.plans[k].uncompressedSize
        BY <1>3, <2>1, <3>1
      <4>3. QED
        BY <2>1, <2>2, <4>1, <4>2, DoneAgree
    <3>7. writer'.bytesIn = DoneBytes(h.plans, writer'.planIndex) + Got(writer')
      BY <1>7, <2>1, <2>3, <2>4, <2>6, <3>6 DEF SameCounts
    <3>8. QED
      BY <1>1, <1>7, <2>3, <2>4, <2>6, <3>1, <3>5, <3>7 DEF Counting, SameCounts
  <2>7. QED
    BY <2>5, <2>6
<1>10. writer.yielded \in Nat /\ ChunkSize \in Nat \ {0}
  BY <1>0, LengthsNat, WriterAssumption
<1>11. NoFullChunk
  BY <1>8, <1>10 DEF NoFullChunk
<1>12. QED
  BY <1>8, <1>9, <1>11 DEF Accounts

(* The generator goes on: its plans keep their sizes and their marks.      *)
LEMMA ResumedPlans ==
  ASSUME NEW g, Well(g, Refs), g.at # "done", NEW consumed \in Nat,
         NEW k \in 1 .. Len(g.plans)
  PROVE  /\ Resumed(g, consumed).plans[k].uncompressedSize = g.plans[k].uncompressedSize
         /\ Resumed(g, consumed).plans[k].emitted = g.plans[k].emitted
<1>1. g.plans[k] \in Plans(Refs)
  BY DEF Well, Generators
<1>2. /\ [g.plans[k] EXCEPT !.payload = <<>>].uncompressedSize = g.plans[k].uncompressedSize
      /\ [g.plans[k] EXCEPT !.payload = <<>>].emitted = g.plans[k].emitted
  BY <1>1 DEF Plans
<1>3. \/ Resumed(g, consumed).plans[k] = [g.plans[k] EXCEPT !.payload = <<>>]
      \/ Resumed(g, consumed).plans[k] = g.plans[k]
  BY ResumedWell
<1>4. QED
  BY <1>2, <1>3

(* The entry is complete: it counts, and the next one begins. *)
LEMMA EntryEnds ==
  ASSUME NEW w, NEW v, WellTyped(w), WellTyped(v), Counting(w), w.outcome = "none",
         w.g.at \in InEntries,
         Len(v.g.plans) = Len(w.g.plans), Beyond(w.g, v.g),
         \A k \in 1 .. Len(w.g.plans) :
           /\ v.g.plans[k].uncompressedSize = w.g.plans[k].uncompressedSize
           /\ v.g.plans[k].emitted = w.g.plans[k].emitted,
         v.at \in {"segment", "finish"}, v.planIndex = w.planIndex + 1,
         v.entriesDone = w.entriesDone + 1,
         v.bytesIn = DoneBytes(w.g.plans, w.planIndex) + w.g.plans[w.g.i].uncompressedSize
  PROVE  Counting(v)
<1> DEFINE g == w.g
<1> DEFINE h == v.g
<1>0. /\ g.plans \in Seq(Plans(Refs)) /\ h.plans \in Seq(Plans(Refs)) /\ Len(g.plans) \in Nat
      /\ g.i \in 1 .. Len(g.plans) /\ w.planIndex = g.i - 1 /\ v.planIndex = g.i
      /\ v.entriesDone = v.planIndex
  BY WriterNumbers DEF Counting
<1>1. \A k \in 1 .. Len(g.plans) : k > g.i => h.plans[k].emitted = None
  <2>1. ASSUME NEW k \in 1 .. Len(g.plans), k > g.i PROVE h.plans[k].emitted = None
    <3>1. k > w.planIndex /\ k # g.i
      BY <1>0, <2>1
    <3>2. g.plans[k].emitted = None
      BY <3>1 DEF Counting, Marking
    <3>3. QED
      BY <3>2
  <2>2. QED
    BY <2>1
<1>2. v.bytesIn = DoneBytes(h.plans, g.i)
  <2>1. DoneBytes(g.plans, g.i) = DoneBytes(g.plans, g.i - 1) + g.plans[g.i].uncompressedSize
    BY <1>0, DoneStep
  <2>2. DoneBytes(g.plans, g.i) = DoneBytes(h.plans, g.i)
    <3>1. g.i \in 0 .. Len(g.plans) /\ g.i <= Len(h.plans)
      BY <1>0
    <3>2. \A k \in 1 .. g.i : g.plans[k].uncompressedSize = h.plans[k].uncompressedSize
      BY <1>0
    <3>3. QED
      BY <1>0, <3>1, <3>2, DoneAgree
  <2>3. v.bytesIn = DoneBytes(g.plans, g.i - 1) + g.plans[g.i].uncompressedSize
    BY <1>0
  <2>4. QED
    BY <2>1, <2>2, <2>3
<1>3. h.at # "entry"
  BY DEF Beyond, InEntries
<1>4. Got(v) = 0 /\ ~Complete(v) /\ ~EmittingSegment(v)
  BY <1>3 DEF Got, Begun, Complete, EmittingSegment
<1> HIDE DEF g, h
<1>5. Marking(v)
  BY <1>0, <1>1, <1>4 DEF Marking, h, g
<1>6. DoneBytes(h.plans, g.i) \in Nat
  <2>1. g.i \in 0 .. Len(h.plans)
    BY <1>0 DEF g, h
  <2>2. QED
    BY <1>0, <2>1, DoneNat
<1>7. CASE g.i < Len(g.plans)
  <2>1. h.at = "header" /\ h.i = g.i + 1
    BY <1>7 DEF Beyond, g, h
  <2>2. h.at \in InEntries /\ v.planIndex = h.i - 1
    BY <1>0, <2>1 DEF InEntries
  <2>3. v.bytesIn = DoneBytes(h.plans, v.planIndex) + Got(v)
    BY <1>0, <1>2, <1>4, <1>6
  <2>4. QED
    BY <1>0, <1>4, <1>5, <2>2, <2>3 DEF Counting, h
<1>8. CASE ~(g.i < Len(g.plans))
  <2>1. h.at \notin InEntries
    BY <1>8 DEF Beyond, g, h
  <2>2. g.i = Len(h.plans)
    BY <1>0, <1>8 DEF g, h
  <2>3. v.planIndex = Len(h.plans) /\ v.bytesIn = DoneBytes(h.plans, Len(h.plans))
    BY <1>0, <1>2, <2>2
  <2>4. QED
    BY <1>0, <1>4, <1>5, <2>1, <2>3 DEF Counting, h
<1>9. QED
  BY <1>7, <1>8

(* A segment that is not the last one of its entry has been pushed. *)
LEMMA SegmentPasses ==
  ASSUME NEW w, NEW v, WellTyped(w), WellTyped(v), Counting(w), w.outcome = "none",
         EmittingSegment(w), w.g.at # "entry",
         w.g.at \in InEntries => w.g.plans[w.g.i].emitted = None,
         Len(v.g.plans) = Len(w.g.plans),
         IF w.g.at \in InEntries THEN v.g.at \in {"payload", "entry"} /\ v.g.i = w.g.i
         ELSE v.g.at \notin InEntries,
         \A k \in 1 .. Len(w.g.plans) :
           /\ v.g.plans[k].uncompressedSize = w.g.plans[k].uncompressedSize
           /\ v.g.plans[k].emitted = w.g.plans[k].emitted,
         v.at = (IF v.g.at = "done" THEN "finish" ELSE "segment"), SameCounts(w, v),
         v.bytesIn = w.bytesIn
  PROVE  Counting(v)
<1> DEFINE g == w.g
<1> DEFINE h == v.g
<1>0. /\ g.plans \in Seq(Plans(Refs)) /\ h.plans \in Seq(Plans(Refs)) /\ Len(g.plans) \in Nat
      /\ w.planIndex \in Nat /\ w.bytesIn \in Nat
      /\ w.entriesDone = w.planIndex
      /\ g.at \in InEntries => g.i \in 1 .. Len(g.plans) /\ w.planIndex = g.i - 1
      /\ g.at \notin InEntries => w.planIndex = Len(g.plans)
  BY WriterNumbers DEF Counting
<1>1. \A k \in 1 .. Len(g.plans) : k > w.planIndex => g.plans[k].emitted = None
  <2>1. ASSUME NEW k \in 1 .. Len(g.plans), k > w.planIndex PROVE g.plans[k].emitted = None
    <3>1. CASE g.at \notin InEntries
      BY <1>0, <2>1, <3>1
    <3>2. CASE g.at \in InEntries /\ k = g.i
      BY <3>2
    <3>3. CASE k # g.i
      BY <2>1, <3>3 DEF Counting, Marking
    <3>4. QED
      BY <3>1, <3>2, <3>3
  <2>2. QED
    BY <2>1
<1>2. h.at = "entry" => v.at = "segment"
  OBVIOUS
<1>3. Got(v) = 0 /\ ~Complete(v) /\ ~EmittingSegment(v) /\ Got(w) = 0
  BY <1>2 DEF Got, Begun, Complete, EmittingSegment, Phase
<1>4. DoneBytes(g.plans, w.planIndex) = DoneBytes(h.plans, w.planIndex)
      /\ DoneBytes(g.plans, w.planIndex) \in Nat
  <2>1. w.planIndex \in 0 .. Len(g.plans) /\ w.planIndex <= Len(h.plans)
    BY <1>0
  <2>2. \A k \in 1 .. w.planIndex : g.plans[k].uncompressedSize = h.plans[k].uncompressedSize
    BY <2>1
  <2>3. QED
    BY <1>0, <2>1, <2>2, DoneAgree, DoneNat
<1>5. w.bytesIn = DoneBytes(g.plans, w.planIndex)
  <2>1. CASE g.at \in InEntries
    <3>1. w.bytesIn = DoneBytes(g.plans, w.planIndex) + Got(w)
      BY <2>1 DEF Counting
    <3>2. QED
      BY <1>3, <1>4, <3>1
  <2>2. CASE g.at \notin InEntries
    BY <2>2 DEF Counting
  <2>3. QED
    BY <2>1, <2>2
<1> HIDE DEF g, h
<1>6. Marking(v)
  BY <1>0, <1>1, <1>3 DEF Marking, SameCounts, g, h
<1>7. v.bytesIn = DoneBytes(h.plans, v.planIndex) + Got(v)
      /\ v.bytesIn = DoneBytes(h.plans, v.planIndex)
  <2>1. v.bytesIn = DoneBytes(h.plans, v.planIndex)
    BY <1>4, <1>5 DEF SameCounts
  <2>2. QED
    BY <1>0, <1>3, <2>1
<1>8. CASE g.at \in InEntries
  <2>1. h.at \in InEntries /\ v.planIndex = h.i - 1
    BY <1>0, <1>8 DEF SameCounts, InEntries, g, h
  <2>2. QED
    BY <1>0, <1>3, <1>6, <1>7, <2>1 DEF Counting, SameCounts, h
<1>9. CASE g.at \notin InEntries
  <2>1. h.at \notin InEntries /\ v.planIndex = Len(h.plans)
    BY <1>0, <1>9 DEF SameCounts, g, h
  <2>2. QED
    BY <1>0, <1>3, <1>6, <1>7, <2>1 DEF Counting, SameCounts, h
<1>10. QED
  BY <1>8, <1>9

(* What has been pushed leaves a count that holds. *)
LEMMA PushedCounting ==
  ASSUME Typed, Control, Accounts, writer.at \in {"push", "chunk"}, NEW filled \in Nat
  PROVE  LET v == Pushed(filled)
         IN  /\ Counting(v) /\ WellTyped(v) /\ v.out = writer.out /\ v.rest = 0
             /\ v.filled = filled /\ v.outcome = "none" /\ v.at \notin {"chunk", "tail"}
             /\ v.yielded = writer.yielded /\ v.bytesOut = writer.bytesOut
<1> DEFINE v == Pushed(filled)
<1> DEFINE g == writer.g
<1>0. /\ writer \in Writers /\ WellTyped(writer) /\ Positions(writer) /\ Well(g, Refs)
      /\ g.at # "done" /\ writer.outcome = "none" /\ writer.consumed \in Nat /\ 0 \in Nat
      /\ writer.then = "segment" <=> g.at # "entry"
      /\ Counting(writer)
  BY TypedFacts DEF Control, Positions, Writers, Accounts
<1>1. /\ g.plans \in Seq(Plans(Refs)) /\ Len(g.plans) \in Nat /\ writer.planIndex \in Nat
      /\ writer.bytesIn \in Nat
      /\ g.at \in InEntries => g.i \in 1 .. Len(g.plans) /\ writer.planIndex = g.i - 1
      /\ g.at \notin InEntries => writer.planIndex = Len(g.plans)
  BY <1>0, WriterNumbers DEF Counting
<1>2. /\ v.out = writer.out /\ v.rest = 0 /\ v.filled = filled /\ v.outcome = "none"
      /\ v.yielded = writer.yielded /\ v.bytesOut = writer.bytesOut /\ WellTyped(v)
      /\ v.at \notin {"chunk", "tail"}
  <2>1. PICK at, h, index, done, bytes :
          /\ v = Moved(writer, at, h, filled, index, done, bytes) /\ WellTyped(v)
          /\ at \in {"finish", "segment", "ask", "describe", "read"}
    <3>1. CASE writer.then = "segment"
      BY <1>0, <3>1, PushedSegment
    <3>2. CASE writer.then = "entryEnd"
      BY <1>0, <3>2, PushedEntry
    <3>3. CASE writer.then \in {"ask", "describe", "read"}
      BY <1>0, <3>3, PushedOther
    <3>4. QED
      BY <1>0, <3>1, <3>2, <3>3 DEF Writers, Ways
  <2> HIDE DEF v
  <2>2. QED
    BY <1>0, <2>1, MovedFields
<1>3. CASE writer.then = "segment"
  <2> DEFINE h == Resumed(g, 0)
  <2>1. /\ v = Moved(writer, IF h.at = "done" THEN "finish" ELSE "segment", h, filled,
                     v.planIndex, v.entriesDone, v.bytesIn)
        /\ IF Matching(writer)
           THEN /\ v.planIndex = writer.planIndex + 1
                /\ v.entriesDone = writer.entriesDone + 1
                /\ v.bytesIn = writer.bytesIn + NextSize(writer)
           ELSE /\ v.planIndex = writer.planIndex /\ v.entriesDone = writer.entriesDone
                /\ v.bytesIn = writer.bytesIn
    BY <1>0, <1>3, PushedSegment
  <2>2. /\ Len(h.plans) = Len(g.plans)
        /\ g.at \in {"payload", "entry"} => Beyond(g, h)
        /\ g.at = "header" => IF HeaderOnly(g) THEN Beyond(g, h)
                              ELSE h.at \in {"payload", "entry"} /\ h.i = g.i
        /\ g.at \notin InEntries => h.at \notin InEntries
    BY <1>0, ResumedWell
  <2>3. \A k \in 1 .. Len(g.plans) :
          /\ h.plans[k].uncompressedSize = g.plans[k].uncompressedSize
          /\ h.plans[k].emitted = g.plans[k].emitted
    BY <1>0, ResumedPlans
  <2> HIDE DEF h, v
  <2>4. v.g = h /\ v.at = IF h.at = "done" THEN "finish" ELSE "segment"
    BY <1>0, <2>1, MovedFields
  <2>5. g.at \in InEntries =>
          g.plans[g.i].emitted = IF g.at = "payload" \/ HeaderOnly(g) THEN Identity(g) ELSE None
    BY <1>0, <1>3 DEF Counting, Marking, EmittingSegment
  <2>6. Identity(g) # None
    BY DEF Identity, None
  <2>7. EmittingSegment(writer) /\ g.at # "entry" /\ Got(writer) = 0
    BY <1>0, <1>3 DEF EmittingSegment, Got, Begun
  <2>8. CASE g.at \in InEntries /\ (g.at = "payload" \/ HeaderOnly(g))
    <3>1. Matching(writer) /\ NextSize(writer) = g.plans[g.i].uncompressedSize
      <4>1. writer.planIndex < Len(g.plans) /\ writer.planIndex + 1 = g.i
        BY <1>1, <2>8
      <4>2. QED
        BY <2>5, <2>8, <4>1 DEF Matching, NextSize
    <3>2. Beyond(g, h)
      BY <2>2, <2>7, <2>8 DEF InEntries
    <3>3. v.bytesIn = DoneBytes(g.plans, writer.planIndex) + g.plans[g.i].uncompressedSize
      <4>1. writer.bytesIn = DoneBytes(g.plans, writer.planIndex) + Got(writer)
        BY <1>0, <2>8 DEF Counting
      <4>2. writer.planIndex \in 0 .. Len(g.plans)
        BY <1>1, <2>8
      <4>3. DoneBytes(g.plans, writer.planIndex) \in Nat
        BY <1>1, <4>2, DoneNat
      <4>4. writer.bytesIn = DoneBytes(g.plans, writer.planIndex)
        BY <2>7, <4>1, <4>3
      <4>5. v.bytesIn = writer.bytesIn + g.plans[g.i].uncompressedSize
        BY <2>1, <3>1
      <4>6. QED
        BY <4>4, <4>5
    <3>4. v.at \in {"segment", "finish"}
      BY <2>4
    <3>5. v.planIndex = writer.planIndex + 1 /\ v.entriesDone = writer.entriesDone + 1
      BY <2>1, <3>1
    <3>6. Counting(v)
      BY <1>0, <1>2, <2>2, <2>3, <2>4, <2>8, <3>2, <3>3, <3>4, <3>5, EntryEnds
    <3>7. QED
      BY <1>2, <3>6 DEF v
  <2>9. CASE ~(g.at \in InEntries /\ (g.at = "payload" \/ HeaderOnly(g)))
    <3>1. g.at \in InEntries => g.plans[g.i].emitted = None
      BY <2>5, <2>9
    <3>2. ~Matching(writer)
      <4>1. CASE g.at \in InEntries
        <5>1. writer.planIndex + 1 = g.i
          BY <1>1, <4>1
        <5>2. QED
          BY <2>6, <3>1, <4>1, <5>1 DEF Matching
      <4>2. CASE g.at \notin InEntries
        BY <1>1, <4>2 DEF Matching
      <4>3. QED
        BY <4>1, <4>2
    <3>3. SameCounts(writer, v) /\ v.bytesIn = writer.bytesIn
      BY <2>1, <3>2 DEF SameCounts
    <3>4. IF g.at \in InEntries THEN h.at \in {"payload", "entry"} /\ h.i = g.i
          ELSE h.at \notin InEntries
      BY <2>2, <2>7, <2>9 DEF InEntries
    <3>5. Counting(v)
      BY <1>0, <1>2, <2>2, <2>3, <2>4, <2>7, <3>1, <3>3, <3>4, SegmentPasses
    <3>6. QED
      BY <1>2, <3>5 DEF v
  <2>10. QED
    BY <2>8, <2>9
<1>4. CASE writer.then = "entryEnd"
  <2> DEFINE h == Resumed(g, writer.consumed)
  <2>0. g.at = "entry" /\ g.at \in InEntries
    BY <1>0, <1>4 DEF InEntries
  <2>1. v = Moved(writer, IF h.at = "done" THEN "finish" ELSE "segment", h, filled,
                  writer.planIndex + 1, writer.entriesDone + 1, writer.bytesIn)
    BY <1>0, <1>4, PushedEntry
  <2>2. Len(h.plans) = Len(g.plans) /\ Beyond(g, h)
    BY <1>0, <2>0, ResumedWell
  <2>3. \A k \in 1 .. Len(g.plans) :
          /\ h.plans[k].uncompressedSize = g.plans[k].uncompressedSize
          /\ h.plans[k].emitted = g.plans[k].emitted
    BY <1>0, ResumedPlans
  <2> HIDE DEF h, v
  <2>4. /\ v.g = h /\ v.at \in {"finish", "segment"} /\ v.planIndex = writer.planIndex + 1
        /\ v.entriesDone = writer.entriesDone + 1 /\ v.bytesIn = writer.bytesIn
    BY <1>0, <2>1, MovedFields
  <2>5. writer.bytesIn = DoneBytes(g.plans, writer.planIndex) + g.plans[g.i].uncompressedSize
    <3>1. Begun(writer) /\ Complete(writer)
      BY <1>4, <2>0 DEF Begun, Complete, Phase
    <3>2. /\ writer.bytesIn = DoneBytes(g.plans, writer.planIndex) + Got(writer)
          /\ g.plans[g.i].uncompressedSize = ContentSize(writer.content)
      BY <1>0, <2>0, <3>1 DEF Counting
    <3>3. QED
      BY <3>1, <3>2 DEF Got
  <2>6. Counting(v)
    BY <1>0, <1>2, <2>0, <2>2, <2>3, <2>4, <2>5, EntryEnds
  <2>7. QED
    BY <1>2, <2>6 DEF v
<1>5. CASE writer.then \notin {"segment", "entryEnd"}
  <2>1. v = Moved(writer, writer.then, g, filled, writer.planIndex, writer.entriesDone,
                  writer.bytesIn)
    BY <1>0, <1>5, PushedOther
  <2> HIDE DEF v
  <2>2. /\ SameCounts(writer, v) /\ v.g = g /\ v.bytesIn = writer.bytesIn
        /\ v.content = writer.content /\ v.outcome = writer.outcome /\ v.at = writer.then
        /\ v.then = writer.then
    BY <1>0, <2>1, MovedFields DEF SameCounts
  <2>3. writer.then \in {"ask", "describe", "read"} /\ g.at = "entry"
    BY <1>0, <1>5 DEF Writers, Ways
  <2>4. Rests(writer, v)
    BY <2>2, <2>3 DEF Rests, EmittingSegment, Begun, Complete, Phase
  <2>5. Counting(v)
    BY <1>0, <2>4, RestsCounting
  <2>6. QED
    BY <1>2, <2>5 DEF v
<1>6. QED
  BY <1>3, <1>4, <1>5

(* What types, control and accounts say of the buffer. *)
LEMMA ChunkedFacts ==
  ASSUME Typed, Control, Accounts
  PROVE  /\ writer \in Writers /\ WellTyped(writer) /\ Positions(writer)
         /\ Chunked(writer) /\ Counting(writer)
         /\ Length(writer.out) \in Nat /\ writer.rest \in Nat /\ writer.filled \in Nat
         /\ writer.bytesOut \in Nat /\ writer.yielded \in Nat /\ ChunkSize \in Nat \ {0}
BY TypedFacts, LengthsNat, WriterAssumption DEF Control, Accounts

(* PushStep: keeps the accounts. *)
LEMMA PushStepAccounts ==
  ASSUME Typed, Typed', Control, Accounts, PushStep
  PROVE  Accounts' /\ NoFullChunk
<1> DEFINE take == IF writer.rest < ChunkSize - writer.filled THEN writer.rest
                   ELSE ChunkSize - writer.filled
<1> DEFINE full == writer.filled + take = ChunkSize
<1>0. /\ writer \in Writers /\ WellTyped(writer) /\ Positions(writer)
      /\ Chunked(writer) /\ Counting(writer)
      /\ Length(writer.out) \in Nat /\ writer.rest \in Nat /\ writer.filled \in Nat
      /\ writer.bytesOut \in Nat /\ writer.yielded \in Nat /\ ChunkSize \in Nat \ {0}
  BY ChunkedFacts
<1>1. writer.at = "push" /\ writer.outcome = "none"
  BY <1>0 DEF PushStep, Positions
<1>2. /\ writer.filled < ChunkSize /\ writer.rest <= Length(writer.out)
      /\ Length(writer.out) = writer.bytesOut + writer.rest + writer.filled
  BY <1>0, <1>1 DEF Chunked
<1>3. take \in Nat /\ take <= writer.rest /\ writer.filled + take <= ChunkSize
      /\ (~full => take = writer.rest)
  BY <1>0, <1>2
<1>4. CASE full /\ aborted
  <2>1. Leave(writer, "aborted") /\ "aborted" \in Outcomes \ {"done"}
    BY <1>4 DEF PushStep, Outcomes
  <2>2. QED
    BY <1>0, <2>1, KinSame, LeaveAccounts
<1>5. CASE full /\ ~aborted
  <2>1. writer' = [writer EXCEPT !.at = "chunk", !.asked = FALSE, !.filled = ChunkSize,
                           !.rest = @ - take, !.bytesOut = @ + ChunkSize,
                           !.yielded = @ + ChunkSize]
    BY <1>5 DEF PushStep
  <2>2. take = ChunkSize - writer.filled
    BY <1>0, <1>3, <1>5
  <2> HIDE DEF take
  <2>3. /\ writer'.at = "chunk" /\ writer'.then = writer.then /\ writer'.g = writer.g
        /\ writer'.outcome = "none" /\ writer'.filled = ChunkSize
        /\ writer'.rest = writer.rest - take /\ writer'.bytesOut = writer.bytesOut + ChunkSize
        /\ writer'.out = writer.out /\ writer'.content = writer.content
        /\ writer'.bytesIn = writer.bytesIn /\ SameCounts(writer, writer')
    BY <1>0, <1>1, <2>1 DEF Writers, SameCounts
  <2>4. Chunked(writer')
    <3>1. /\ ChunkSize \in 0 .. ChunkSize /\ writer.rest - take <= Length(writer.out)
          /\ Length(writer.out) = writer.bytesOut + ChunkSize + (writer.rest - take) + 0
      BY <1>0, <1>2, <1>3, <2>2
    <3>2. QED
      BY <2>3, <3>1 DEF Chunked
  <2>5. Rests(writer, writer')
    BY <1>1, <2>3 DEF Rests, EmittingSegment, Begun, Complete, Phase
  <2>6. Counting(writer')
    BY <1>0, <2>5, RestsCounting
  <2>7. NoFullChunk
    BY <1>5 DEF NoFullChunk
  <2>8. QED
    BY <2>4, <2>6, <2>7 DEF Accounts
<1>6. CASE ~full
  <2> DEFINE filled == writer.filled + take
  <2>1. writer' = Pushed(filled)
    BY <1>6 DEF PushStep
  <2>2. /\ filled \in Nat /\ filled < ChunkSize
        /\ Length(writer.out) = writer.bytesOut + 0 + filled
    BY <1>0, <1>2, <1>3, <1>6
  <2> HIDE DEF filled
  <2>3. /\ Counting(writer') /\ writer'.out = writer.out /\ writer'.rest = 0
        /\ writer'.filled = filled /\ writer'.outcome = "none"
        /\ writer'.at \notin {"chunk", "tail"}
        /\ writer'.yielded = writer.yielded /\ writer'.bytesOut = writer.bytesOut
    BY <1>1, <2>1, <2>2, PushedCounting
  <2>4. Chunked(writer')
    <3>1. filled \in 0 .. ChunkSize /\ 0 <= Length(writer.out)
      BY <1>0, <2>2
    <3>2. QED
      BY <2>2, <2>3, <3>1 DEF Chunked
  <2>5. NoFullChunk
    BY <1>0, <2>3 DEF NoFullChunk
  <2>6. QED
    BY <2>3, <2>4, <2>5 DEF Accounts
<1>7. QED
  BY <1>4, <1>5, <1>6

(* Resume: keeps the accounts. *)
LEMMA ResumeAccounts ==
  ASSUME Typed, Typed', Control, Accounts, Resume
  PROVE  Accounts' /\ NoFullChunk
<1>0. /\ writer \in Writers /\ WellTyped(writer) /\ Positions(writer)
      /\ Chunked(writer) /\ Counting(writer)
      /\ Length(writer.out) \in Nat /\ writer.rest \in Nat /\ writer.filled \in Nat
      /\ writer.bytesOut \in Nat /\ writer.yielded \in Nat /\ ChunkSize \in Nat \ {0}
  BY ChunkedFacts
<1>1. writer.at = "chunk" /\ writer.outcome = "none"
  BY <1>0 DEF Resume, Positions
<1>2. /\ writer.rest <= Length(writer.out)
      /\ Length(writer.out) = writer.bytesOut + writer.rest
  <2>1. Length(writer.out) = writer.bytesOut + writer.rest + 0
    BY <1>0, <1>1 DEF Chunked
  <2>2. QED
    BY <1>0, <2>1 DEF Chunked
<1>3. CASE writer' = [writer EXCEPT !.at = "push", !.filled = 0]
  <2>1. /\ writer'.at = "push" /\ writer'.then = writer.then /\ writer'.g = writer.g
        /\ writer'.outcome = "none" /\ writer'.filled = 0
        /\ writer'.rest = writer.rest /\ writer'.bytesOut = writer.bytesOut
        /\ writer'.out = writer.out /\ writer'.content = writer.content
        /\ writer'.yielded = writer.yielded
        /\ writer'.bytesIn = writer.bytesIn /\ SameCounts(writer, writer')
    BY <1>0, <1>1, <1>3 DEF Writers, SameCounts
  <2>2. Chunked(writer')
    <3>1. /\ 0 \in 0 .. ChunkSize /\ 0 < ChunkSize
          /\ Length(writer.out) = writer.bytesOut + writer.rest + 0
      BY <1>0, <1>2
    <3>2. QED
      BY <1>2, <2>1, <3>1 DEF Chunked
  <2>3. Rests(writer, writer')
    BY <1>1, <2>1 DEF Rests, EmittingSegment, Begun, Complete, Phase
  <2>4. Counting(writer')
    BY <1>0, <2>3, RestsCounting
  <2>5. NoFullChunk
    BY <1>0, <2>1 DEF NoFullChunk
  <2>6. QED
    BY <2>2, <2>4, <2>5 DEF Accounts
<1>4. CASE writer.rest = 0 /\ writer' = Pushed(0)
  <2>0. 0 \in Nat
    OBVIOUS
  <2>1. /\ Counting(writer') /\ writer'.out = writer.out /\ writer'.rest = 0
        /\ writer'.filled = 0 /\ writer'.outcome = "none"
        /\ writer'.at \notin {"chunk", "tail"}
        /\ writer'.yielded = writer.yielded /\ writer'.bytesOut = writer.bytesOut
    BY <1>1, <1>4, <2>0, PushedCounting
  <2>2. Chunked(writer')
    <3>1. /\ 0 \in 0 .. ChunkSize /\ 0 < ChunkSize /\ 0 <= Length(writer.out)
          /\ Length(writer.out) = writer.bytesOut + 0 + 0
      BY <1>0, <1>2, <1>4
    <3>2. QED
      BY <2>1, <3>1 DEF Chunked
  <2>3. NoFullChunk
    BY <1>0, <2>1 DEF NoFullChunk
  <2>4. QED
    BY <2>1, <2>2, <2>3 DEF Accounts
<1>5. writer.rest > 0 \/ writer.rest = 0
  BY <1>0
<1>6. QED
  BY <1>3, <1>4, <1>5 DEF Resume

(* Finish: keeps the accounts. *)
LEMMA FinishAccounts ==
  ASSUME Typed, Typed', Control, Accounts, Finish \/ AfterTail
  PROVE  Accounts' /\ NoFullChunk
<1>0. /\ writer \in Writers /\ WellTyped(writer) /\ Positions(writer)
      /\ Chunked(writer) /\ Counting(writer)
      /\ Length(writer.out) \in Nat /\ writer.rest \in Nat /\ writer.filled \in Nat
      /\ writer.bytesOut \in Nat /\ writer.yielded \in Nat /\ ChunkSize \in Nat \ {0}
  BY ChunkedFacts
<1>1. /\ writer.at \in {"finish", "tail"} /\ writer.outcome = "none" /\ writer.g.at # "entry"
      /\ \/ writer' = Ended(writer, "done") /\ (writer.at = "tail" \/ writer.filled = 0)
         \/ /\ writer.at = "finish"
            /\ writer' = [writer EXCEPT !.at = "tail", !.asked = FALSE,
                            !.bytesOut = @ + writer.filled, !.yielded = @ + writer.filled]
  BY <1>0 DEF Finish, AfterTail, Positions
<1>2. /\ writer.filled < ChunkSize /\ writer.rest = 0
      /\ Length(writer.out) =
           writer.bytesOut + writer.rest + (IF writer.at = "tail" THEN 0 ELSE writer.filled)
  BY <1>0, <1>1 DEF Chunked
<1>3. CASE writer' = Ended(writer, "done") /\ (writer.at = "tail" \/ writer.filled = 0)
  <2>1. /\ SameBuffer(writer, writer') /\ SameCounts(writer, writer') /\ writer'.g = writer.g
        /\ writer'.outcome = "done" /\ writer'.at = "ended" /\ writer'.bytesIn = writer.bytesIn
    BY <1>0, <1>3 DEF Ended, SameBuffer, SameCounts, Writers
  <2>2. Length(writer.out) = writer.bytesOut
    BY <1>0, <1>2, <1>3
  <2>3. Chunked(writer')
    BY <1>0, <2>1, <2>2 DEF Chunked, SameBuffer
  <2>4. Abandons(writer, writer')
    BY <2>1 DEF Abandons
  <2>5. Counting(writer')
    BY <1>0, <2>4, AbandonsCounting
  <2>6. NoFullChunk
    BY <1>0, <2>1 DEF NoFullChunk, SameBuffer
  <2>7. QED
    BY <2>3, <2>5, <2>6 DEF Accounts
<1>4. CASE /\ writer.at = "finish"
           /\ writer' = [writer EXCEPT !.at = "tail", !.asked = FALSE,
                           !.bytesOut = @ + writer.filled, !.yielded = @ + writer.filled]
  <2>1. /\ SameCounts(writer, writer') /\ writer'.g = writer.g /\ writer'.out = writer.out
        /\ writer'.outcome = "none" /\ writer'.at = "tail" /\ writer'.bytesIn = writer.bytesIn
        /\ writer'.rest = writer.rest /\ writer'.filled = writer.filled
        /\ writer'.bytesOut = writer.bytesOut + writer.filled
        /\ writer'.yielded = writer.yielded + writer.filled
        /\ writer'.content = writer.content
    BY <1>0, <1>1, <1>4 DEF SameCounts, Writers
  <2>2. Length(writer.out) = writer.bytesOut + writer.filled + writer.rest + 0
    BY <1>0, <1>2, <1>4
  <2>3. Chunked(writer')
    BY <1>0, <1>2, <2>1, <2>2 DEF Chunked
  <2>4. Rests(writer, writer')
    BY <1>1, <1>4, <2>1 DEF Rests, EmittingSegment, Begun, Complete
  <2>5. Counting(writer')
    BY <1>0, <2>4, RestsCounting
  <2>6. NoFullChunk
    BY <1>0, <1>2, <2>1 DEF NoFullChunk
  <2>7. QED
    BY <2>3, <2>5, <2>6 DEF Accounts
<1>5. QED
  BY <1>1, <1>3, <1>4

(* At first nothing is counted. *)
LEMMA AccountsStart == Init => Accounts
<1> SUFFICES ASSUME Init PROVE Accounts
  OBVIOUS
<1>1. writer = NoWriter
  BY DEF Init
<1>2. /\ NoWriter.at = "none" /\ NoWriter.outcome = "none" /\ NoWriter.g = NoGenerator
      /\ NoGenerator.at \notin InEntries /\ NoGenerator.plans = <<>>
  BY NoWriterTyped
<1>3. /\ NoWriter.out = <<>> /\ NoWriter.rest = 0 /\ NoWriter.filled = 0
      /\ NoWriter.bytesOut = 0 /\ NoWriter.planIndex = 0 /\ NoWriter.entriesDone = 0
      /\ NoWriter.bytesIn = 0 /\ NoWriter.then = "segment"
  BY DEF NoWriter
<1>4. Chunked(NoWriter)
  <2>1. Length(<<>>) = 0 /\ ChunkSize \in Nat \ {0}
    BY LengthEmpty, WriterAssumption
  <2>2. 0 \in 0 .. ChunkSize /\ 0 < ChunkSize /\ 0 = 0 + 0 + 0
    BY <2>1
  <2>3. QED
    BY <1>2, <1>3, <2>1, <2>2 DEF Chunked
<1>5. Counting(NoWriter)
  <2> DEFINE p == <<>>
  <2>1. p \in Seq(Plans(Refs)) /\ Len(p) = 0
    BY EmptyTyped
  <2> HIDE DEF p
  <2>2. DoneBytes(p, Len(p)) = 0
    BY <2>1, DoneNone
  <2>3. NoGenerator.plans = p
    BY <1>2 DEF p
  <2>4. Marking(NoWriter) /\ ~Complete(NoWriter)
    <3>1. ~EmittingSegment(NoWriter) /\ ~Complete(NoWriter)
      BY <1>2 DEF EmittingSegment, Complete, Phase
    <3>2. \A k \in 1 .. Len(p) : FALSE
      BY <2>1
    <3>3. QED
      BY <1>2, <2>3, <3>1, <3>2 DEF Marking
  <2>5. QED
    BY <1>2, <1>3, <2>1, <2>2, <2>3, <2>4 DEF Counting
<1>6. QED
  BY <1>1, <1>4, <1>5 DEF Accounts

(* Accounts: keeps the types and the control. *)
LEMMA AccountsStep ==
  ASSUME Typed, Typed', Control, Accounts, [Next]_vars
  PROVE  Accounts' /\ NoFullChunk
<1>1. CASE Building \/ ToBytes \/ Abort \/ PumpStep \/ StreamStep \/ UNCHANGED vars
  BY <1>1, OtherAccounts
<1>2. CASE Stream \/ Pull \/ Return
  BY <1>2, MovingAccounts
<1>3. CASE SourceAnswers
  BY <1>3, ChunkArrivesAccounts, SourceDoneAccounts, StopAccounts, PumpChunkAccounts,
     OtherAccounts DEF SourceAnswers
<1>4. CASE WriterStep
  BY <1>4, StartAccounts, EmitSegmentAccounts, PushStepAccounts, ResumeAccounts, FinishAccounts,
     StopAccounts, BeginEntryAccounts, MovingAccounts, DescribeAccounts, ReadPieceAccounts,
     ReadEndAccounts, JoinAccounts, SourceReturnedAccounts DEF WriterStep
<1>5. QED
  BY <1>1, <1>2, <1>3, <1>4 DEF Next, Running

(* What has been pushed, handed on and counted always tallies: with what   *)
(* the buffer holds, and with the plans of the entries that are complete.  *)
THEOREM AccountsTally == Spec => []Accounts
<1>1. Typed /\ Control /\ Accounts /\ (Typed /\ Control)' /\ [Next]_vars => Accounts'
  BY AccountsStep
<1>2. QED
  BY <1>1, AccountsStart, Inductive, PTL DEF Spec

(* The types of the writer's fields, and that it is inside the archive it  *)
(* writes: its index never passes the plans, nor its buffer a chunk.       *)
THEOREM TypesHold == Spec => []TypeOK
<1>1. Typed /\ Control /\ Accounts => TypeOK
  <2> SUFFICES ASSUME Typed, Control, Accounts PROVE TypeOK
    OBVIOUS
  <2>1. /\ Collected /\ writer \in Writers /\ WellTyped(writer) /\ pump \in Pumps
        /\ aborted \in BOOLEAN /\ Chunked(writer) /\ Counting(writer)
        /\ Length(writer.out) \in Nat /\ writer.rest \in Nat
    BY ChunkedFacts DEF Typed
  <2>2. names \subseteq ToSet(NameOrder)
    BY <2>1 DEF Collected, Names
  <2>3. {spec.name : spec \in ToSet(specs)} \subseteq names
    <3>1. ASSUME NEW spec \in ToSet(specs) PROVE spec.name \in names
      <4>1. PICK i \in 1 .. Len(specs) : spec = specs[i]
        BY <2>1 DEF ToSet, Collected
      <4>2. QED
        BY <2>1, <4>1 DEF Collected
    <3>2. QED
      BY <3>1
  <2>4. {streaming, aborted, writer.asked, writer.stopping} \subseteq BOOLEAN
    BY <2>1 DEF Collected, Writers
  <2>5. writer.filled \in 0 .. ChunkSize /\ writer.rest \in 0 .. Length(writer.out)
    BY <2>1 DEF Chunked
  <2>6. writer.planIndex <= Count(writer.g)
    <3>1. /\ Len(writer.g.plans) \in Nat
          /\ writer.g.at \in InEntries => writer.g.i \in 1 .. Len(writer.g.plans)
      BY <2>1, WriterNumbers
    <3>2. \/ writer.g.at \in InEntries /\ writer.planIndex = writer.g.i - 1
          \/ writer.planIndex = Len(writer.g.plans)
      BY <2>1 DEF Counting
    <3>3. writer.planIndex <= Len(writer.g.plans)
      BY <3>1, <3>2
    <3>4. QED
      BY <3>3 DEF Count
  <2>7. pump.at \in {"idle", "next", "write", "close", "done", "failed", "aborted"}
    BY <2>1 DEF Pumps
  <2>8. QED
    BY <2>2, <2>3, <2>4, <2>5, <2>6, <2>7 DEF TypeOK
<1>2. QED
  BY <1>1, Inductive, AccountsTally, PTL

(* An entry counts as done when its last byte has been pushed, whether it  *)
(* has a payload, none, or a source; when the directory begins every byte  *)
(* has been counted, and at the end every byte has been handed out.        *)
THEOREM ProgressTold == Spec => []ProgressIsExact
<1>1. Typed /\ Control /\ Accounts => ProgressIsExact
  <2> SUFFICES ASSUME Typed, Control, Accounts PROVE ProgressIsExact
    OBVIOUS
  <2> DEFINE g == writer.g
  <2>1. Chunked(writer) /\ Counting(writer) /\ g.plans \in Seq(Plans(Refs)) /\ writer.entriesDone \in Nat
    BY ChunkedFacts, WriterNumbers
  <2>2. g.at \in {"header", "entry", "payload"} => writer.entriesDone = g.i - 1
    BY <2>1 DEF Counting, InEntries
  <2>3. g.at \in {"central", "zip64", "locator", "eocd", "done"} =>
          writer.entriesDone = Count(g) /\ writer.bytesIn = SumOf(PlanSize, g.plans)
    <3>1. SUFFICES ASSUME g.at \in {"central", "zip64", "locator", "eocd", "done"}
                   PROVE  writer.entriesDone = Count(g)
                          /\ writer.bytesIn = SumOf(PlanSize, g.plans)
      OBVIOUS
    <3>2. g.at \notin InEntries
      BY <3>1 DEF InEntries
    <3>3. /\ writer.entriesDone = Len(g.plans)
          /\ writer.bytesIn = DoneBytes(g.plans, Len(g.plans))
      BY <2>1, <3>2 DEF Counting
    <3>4. DoneBytes(g.plans, Len(g.plans)) = SumOf(PlanSize, g.plans)
      BY <2>1, DoneAll
    <3>5. QED
      BY <3>3, <3>4 DEF Count
  <2>4. writer.outcome = "done" => writer.bytesOut = Length(writer.out)
    BY <2>1 DEF Chunked
  <2>5. SumOf(LAMBDA plan : plan.uncompressedSize, g.plans) = SumOf(PlanSize, g.plans)
    BY DEF SumOf, PlanSize
  <2>6. QED
    BY <2>2, <2>3, <2>4, <2>5 DEF ProgressIsExact
<1>2. QED
  BY <1>1, Inductive, AccountsTally, PTL

(* Once the signal is up no full chunk is handed out: the signal is looked *)
(* at before each, and the tail is shorter than a chunk.                   *)
THEOREM AbortStopsChunks == Spec => NoChunkAfterAbort
<1>1. Typed /\ Control /\ Accounts /\ (Typed /\ Control)' /\ [Next]_vars => NoFullChunk
  BY AccountsStep
<1>2. Spec => [][NoFullChunk]_vars
  BY <1>1, Inductive, AccountsTally, PTL DEF Spec
<1>3. QED
  BY <1>2 DEF NoChunkAfterAbort, NoFullChunk

=============================================================================
