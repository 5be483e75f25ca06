---------------------------- MODULE ParallelPlan -----------------------------
(***************************************************************************)
(* toBytes() of the parallel writer (worker/index.ts) over the entry       *)
(* collector it shares with createZip: planParallel() and                  *)
(* planArchiveAsync(), from await to await, with the caller's add(),       *)
(* addStream() and abort() coming in between.  The pool is a JobService.   *)
(* Entries are added in the byte order of their names, so that both orders *)
(* emit the same sequence; what tells them apart is that canonical order   *)
(* copies the collector's array and insertion order hands out the array    *)
(* itself.                                                                 *)
(***************************************************************************)
EXTENDS Integers, Sequences, FiniteSets

CONSTANTS
  Orders,      \* the values of options.order under study
  MaxSpecs,    \* bound: entries added
  MaxEntries,  \* limits.maxEntries
  Poisoned     \* entries whose compression on the main thread throws

Jobs == 1 .. MaxSpecs

ASSUME PlanAssumption ==
  /\ Orders \subseteq {"canonical", "insertion"}
  /\ MaxSpecs \in Nat /\ MaxEntries \in Nat
  /\ Poisoned \subseteq Jobs

VARIABLES
  order,      \* options.order
  specs,      \* the collector's entries, by kind
  streaming,  \* hasStreamEntries
  aborted,    \* the caller's signal
  phase,      \* the await toBytes() is at
  held,       \* the entries when planParallel() asked for them
  listening,  \* onAbort is registered
  pool,       \* "none", "open", "closed"
  outcome,    \* entry -> what became of its job in the pool
  mapped,     \* entries that had come when the jobs were made
  ended,      \* entries whose deflate callback has run to its end
  broken,     \* some callback threw
  total,      \* the tracker's entriesTotal
  done,       \* the tracker's entriesDone
  plans,      \* the planned entries
  verdict     \* how toBytes() ends

collector == <<order, specs, streaming>>
service   == <<pool, outcome>>
progress  == <<total, done>>
vars == <<collector, aborted, phase, held, listening, service, mapped, ended, broken,
          progress, plans, verdict>>

(* What an entry asks of the planner: deflate of enough bytes for the      *)
(* pool, of few, or of none (stored, directory, raw); a source; or extra   *)
(* fields beyond the limit.                                                *)
Kinds == {"large", "small", "stored", "stream", "refused"}

Service == INSTANCE JobService WITH closed <- pool = "closed"

-----------------------------------------------------------------------------
(* The sequential planner.                                                 *)

checkSpec(kind) == kind # "refused"
Accepted(s) == Len(s) <= MaxEntries /\ \A i \in DOMAIN s : checkSpec(s[i])
needsDeflate(kind) == kind \in {"large", "small"}

(* Mutant: an entry without a result is not stored instead. *)
Planned_NoFallback(kind, compressed) ==
  [kind |-> kind, method |-> CASE kind = "stream" -> "streamed"
                               [] needsDeflate(kind) -> IF compressed THEN "deflate" ELSE "none"
                               [] OTHER -> "store"]

(* compressed: there is a result for the entry. *)
Planned(kind, compressed) ==
  [kind |-> kind, method |-> CASE kind = "stream" -> "streamed"
                               [] needsDeflate(kind) /\ compressed -> "deflate"
                               [] OTHER -> "store"]

planArchive(s) == [i \in DOMAIN s |-> Planned(s[i], TRUE)]

-----------------------------------------------------------------------------
Init ==
  /\ order \in Orders
  /\ specs = <<>> /\ streaming = FALSE /\ aborted = FALSE
  /\ phase = "idle" /\ held = <<>> /\ listening = FALSE
  /\ pool = "none" /\ outcome = [j \in Jobs |-> "new"]
  /\ mapped = 0 /\ ended = {} /\ broken = FALSE
  /\ total = 0 /\ done = 0
  /\ plans = <<>> /\ verdict = "none"

(* What the caller may do between any two steps of the writer.  An         *)
(* addStream() that throws has marked the archive already.                 *)
Add(kind) ==
  /\ phase # "returned" /\ Len(specs) < MaxSpecs
  /\ specs' = Append(specs, kind)
  /\ streaming' = (streaming \/ kind = "stream")
  /\ UNCHANGED <<order, aborted, phase, held, listening, service, mapped, ended, broken,
                 progress, plans, verdict>>

AddStreamFails ==
  /\ phase # "returned"
  /\ streaming' = TRUE
  /\ UNCHANGED <<order, specs, aborted, phase, held, listening, service, mapped, ended,
                 broken, progress, plans, verdict>>

(* Mutant: nobody listens to the signal. *)
onAbort_Unheard == UNCHANGED service

(* onAbort closes the pool, whose jobs settle at once.                     *)
onAbort == IF listening /\ pool = "open" THEN pool' = "closed" /\ Service!Close
                                         ELSE UNCHANGED service

Abort ==
  /\ ~aborted
  /\ aborted' = TRUE
  /\ onAbort
  /\ UNCHANGED <<collector, phase, held, listening, mapped, ended, broken, progress, plans,
                 verdict>>

-----------------------------------------------------------------------------
(* toBytes(), up to its first await.                                       *)
ToBytes ==
  /\ phase = "idle"
  /\ IF streaming THEN phase' = "returned" /\ verdict' = "misuse" /\ UNCHANGED total
                  ELSE phase' = "tier" /\ total' = Len(specs) /\ UNCHANGED verdict
  /\ UNCHANGED <<collector, aborted, held, listening, service, mapped, ended, broken, done,
                 plans>>

(* Mutant: canonical order, too, hands out the array itself. *)
orderedSpecs_Shared == specs

(* The entries as planParallel() refers to them from here on. *)
orderedSpecs == IF order = "canonical" THEN held ELSE specs
dispatchable(s) == {i \in DOMAIN s : s[i] = "large"}

(* initNodeDeflate() has resolved.  Nothing is to be undone yet.           *)
TakeSpecs ==
  /\ phase = "tier"
  /\ held' = specs
  /\ IF aborted THEN phase' = "unwound" /\ verdict' = "aborted"
                ELSE phase' = "cores" /\ UNCHANGED verdict
  /\ UNCHANGED <<collector, aborted, listening, service, mapped, ended, broken, progress,
                 plans>>

(* detectConcurrency() has resolved, and a pool is worth its while.        *)
Spawn ==
  /\ phase = "cores"
  /\ Cardinality(dispatchable(held)) >= 2
  /\ phase' = "spawning"
  /\ UNCHANGED <<collector, aborted, held, listening, service, mapped, ended, broken,
                 progress, plans, verdict>>

(* Mutant: the pool is left to the end of the process. *)
Release_KeepsPool(made) ==
  /\ listening' = FALSE
  /\ pool' = made
  /\ UNCHANGED outcome

(* The finally of planParallel(): no listener, no pool.                    *)
Release(made) ==
  /\ listening' = FALSE
  /\ IF made = "open"
     THEN pool' = "closed" /\ Service!Close
     ELSE pool' = made /\ UNCHANGED outcome

(* The deflate callbacks of the entries start in one go.  Without a pool,  *)
(* or below its threshold, they run to their end right here.               *)
StartJobs(made) ==
  LET mine    == {i \in DOMAIN orderedSpecs : needsDeflate(orderedSpecs[i])}
      pooled  == IF made = "open" THEN dispatchable(orderedSpecs) ELSE {}
      inline  == mine \ pooled
  IN /\ phase' = "jobs" /\ listening' = TRUE
     /\ pool' = made
     /\ Service!Submit(pooled)
     /\ mapped' = Len(orderedSpecs)
     /\ ended' = DOMAIN orderedSpecs \ pooled
     /\ broken' = (inline \cap Poisoned # {})
     /\ done' = done + Cardinality(inline \ Poisoned)
     /\ UNCHANGED verdict

(* Mutant: the signal is checked before the try. *)
Begin_OutsideTry(made) ==
  /\ \/ /\ aborted \/ ~Accepted(orderedSpecs)
        /\ pool' = made
        /\ phase' = "unwound" /\ verdict' = IF aborted THEN "aborted" ELSE "refused"
        /\ UNCHANGED <<listening, outcome, mapped, ended, broken, done>>
     \/ /\ ~aborted /\ Accepted(orderedSpecs)
        /\ StartJobs(made)
  /\ UNCHANGED <<collector, aborted, held, total, plans>>

(* What runs from here on is undone by Release().                          *)
Begin(made) ==
  /\ \/ /\ aborted \/ ~Accepted(orderedSpecs)
        /\ Release(made)
        /\ phase' = "unwound" /\ verdict' = IF aborted THEN "aborted" ELSE "refused"
        /\ UNCHANGED <<mapped, ended, broken, done>>
     \/ /\ ~aborted /\ Accepted(orderedSpecs)
        /\ StartJobs(made)
  /\ UNCHANGED <<collector, aborted, held, total, plans>>

BeginAlone == phase = "cores" /\ Begin("none")

(* createDeflatePool() has resolved, with or without workers.              *)
Spawned(made) == phase = "spawning" /\ Begin(made)

-----------------------------------------------------------------------------
(* The jobs.                                                               *)

PoolSettles ==
  /\ pool = "open"
  /\ UNCHANGED <<collector, aborted, phase, held, listening, pool, mapped, ended, broken,
                 progress, plans, verdict>>
  /\ Service!Settle

(* A callback resumes behind its pool.deflate().                           *)
Resumable == {j \in Jobs : outcome[j] \in Service!Settled} \ ended
Resume(j) ==
  /\ j \in Resumable
  /\ ended' = ended \cup {j}
  /\ IF outcome[j] = "rejected" THEN broken' = TRUE /\ UNCHANGED done
                                ELSE done' = done + 1 /\ UNCHANGED broken
  /\ UNCHANGED <<collector, aborted, phase, held, listening, service, mapped, total, plans,
                 verdict>>

(* Promise.all() rejects with the first callback that threw.               *)
JobsFail ==
  /\ phase = "jobs" /\ broken
  /\ Release(pool)
  /\ phase' = "unwound" /\ verdict' = "rejected"
  /\ UNCHANGED <<collector, aborted, held, mapped, ended, broken, progress, plans>>

(* Promise.all() resolves: every entry the array has by now is planned.    *)
Finish ==
  /\ phase = "jobs" /\ ~broken /\ 1 .. mapped \subseteq ended
  /\ Release(pool)
  /\ phase' = "unwound"
  /\ \/ aborted /\ verdict' = "aborted" /\ UNCHANGED <<done, plans>>
     \/ /\ ~aborted
        /\ verdict' = "ok"
        /\ plans' = [i \in DOMAIN orderedSpecs |-> Planned(orderedSpecs[i], i <= mapped)]
        /\ done' = IF done < Len(orderedSpecs) THEN Len(orderedSpecs) ELSE done
  /\ UNCHANGED <<collector, aborted, held, mapped, ended, broken, total>>

(* toBytes() settles for its caller.  Promise reactions run in the order   *)
(* they were queued: callbacks that closing the pool resumes come first.   *)
Return ==
  /\ phase = "unwound" /\ Resumable = {}
  /\ phase' = "returned"
  /\ verdict' = IF verdict = "ok" /\ \E i \in DOMAIN plans : plans[i].method = "streamed"
                THEN "internal" ELSE verdict
  /\ UNCHANGED <<collector, aborted, held, listening, service, mapped, ended, broken,
                 progress, plans>>

-----------------------------------------------------------------------------
(* What the event loop runs sooner or later; a worker handshake has a      *)
(* timeout of its own.                                                     *)
Advance ==
  \/ TakeSpecs \/ Spawn \/ BeginAlone
  \/ \E made \in {"none", "open"} : Spawned(made)
  \/ \E j \in Jobs : Resume(j)
  \/ JobsFail \/ Finish \/ Return

Next ==
  \/ \E kind \in Kinds : Add(kind)
  \/ AddStreamFails \/ Abort \/ ToBytes \/ PoolSettles
  \/ Advance

Spec == Init /\ [][Next]_vars /\ WF_vars(Advance)

-----------------------------------------------------------------------------
Verdicts == {"none", "ok", "aborted", "refused", "rejected", "misuse", "internal"}
TypeOK ==
  /\ order \in Orders
  /\ specs \in Seq(Kinds) /\ held \in Seq(Kinds)
  /\ streaming \in BOOLEAN /\ aborted \in BOOLEAN /\ listening \in BOOLEAN
  /\ broken \in BOOLEAN
  /\ phase \in {"idle", "tier", "cores", "spawning", "jobs", "unwound", "returned"}
  /\ pool \in {"none", "open", "closed"}
  /\ outcome \in [Jobs -> {"new", "pending"} \cup Service!Settled]
  /\ mapped \in Nat /\ ended \subseteq Jobs
  /\ total \in Nat /\ done \in Nat
  /\ plans \in Seq([kind : Kinds, method : {"deflate", "store", "streamed"}])
  /\ verdict \in Verdicts

(* No worker outlives toBytes(), whichever way it ended and whenever the   *)
(* abort came: not with a job, not idle, and no listener stays behind.     *)
NothingLeft ==
  phase \in {"unwound", "returned"} =>
    pool # "open" /\ ~listening /\ \A j \in Jobs : outcome[j] # "pending"

(* In canonical order what is planned is what was checked: the entries     *)
(* sequential planning accepts, with the methods it gives them.            *)
PlannedAsSequential ==
  verdict \in {"ok", "internal"} => Accepted(held) /\ plans = planArchive(held)
CanonicalIsSequential == order = "canonical" => PlannedAsSequential

(* "Parallelism changes scheduling, never bytes": what is planned, in      *)
(* either order, is a plan that createZip's planner would make.            *)
NeverBytes ==
  verdict = "ok" => \E s \in {SubSeq(specs, 1, n) : n \in 0 .. Len(specs)} :
                      Accepted(s) /\ plans = planArchive(s)

(* Once toBytes() has settled the caller hears no more of its progress.    *)
SilentAfterwards == [][phase = "returned" => UNCHANGED progress]_vars

(* toBytes() settles if the pool settles its jobs, or if the caller        *)
(* aborts: then it need not wait for a worker that may never answer.       *)
JobsMove == aborted \/ phase # "jobs" \/ \A j \in Jobs : outcome[j] # "pending"
ToBytesReturns == []<>JobsMove => (phase = "tier" ~> phase = "returned")
=============================================================================
