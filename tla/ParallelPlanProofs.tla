------------------------- MODULE ParallelPlanProofs -------------------------
(***************************************************************************)
(* The safety of the parallel plan, for any number of entries, any limit   *)
(* and either order.  Beside the invariants the model checker knows the    *)
(* induction needs how long the pool lives, that nothing has happened      *)
(* before the jobs start, what was checked when they did, and that no      *)
(* callback is left once toBytes() has settled.                            *)
(***************************************************************************)
EXTENDS ParallelPlan, FiniteSetTheorems, TLAPS

Outcome == {"new", "pending"} \cup Service!Settled
Fresh == [j \in Jobs |-> "new"]
NonePending(o) == \A j \in Jobs : o[j] # "pending"

Typed == TypeOK /\ Len(specs) <= MaxSpecs /\ Len(held) <= MaxSpecs

(* Before the jobs start there is no pool, no job and no verdict.          *)
Beginning == phase \in {"idle", "tier", "cores", "spawning"}
NothingYet == Beginning => pool = "none" /\ outcome = Fresh

(* A pool is open, and the signal heard, only while the jobs run.          *)
PoolLife ==
  /\ pool = "open" => phase = "jobs"
  /\ listening => phase = "jobs"
  /\ pool # "open" => NonePending(outcome)

(* In canonical order the jobs are those of the entries that were checked. *)
Checked == phase = "jobs" /\ order = "canonical" => Accepted(held) /\ mapped = Len(held)

(* A verdict is given at the end. *)
Judged == verdict \in {"ok", "internal"} => phase \in {"unwound", "returned"}

(* No callback is left to resume. *)
Quiet == phase = "returned" => Resumable = {}

IInv ==
  Typed /\ NothingYet /\ PoolLife /\ Checked /\ Judged /\ CanonicalIsSequential /\ Quiet

-----------------------------------------------------------------------------
(* The entries, and what is done to the jobs.                              *)

(* The entries referred to are numbered like jobs, without a gap. *)
LEMMA OrderedSpecs ==
  ASSUME Typed
  PROVE  /\ orderedSpecs \in Seq(Kinds)
         /\ Len(orderedSpecs) \in Nat
         /\ DOMAIN orderedSpecs = 1 .. Len(orderedSpecs)
         /\ DOMAIN orderedSpecs \subseteq Jobs
         /\ IsFiniteSet(DOMAIN orderedSpecs)
<1>1. orderedSpecs \in Seq(Kinds) /\ Len(orderedSpecs) <= MaxSpecs
  BY DEF Typed, TypeOK, orderedSpecs
<1>2. Len(orderedSpecs) \in Nat /\ DOMAIN orderedSpecs = 1 .. Len(orderedSpecs)
  BY <1>1
<1>3. DOMAIN orderedSpecs \subseteq Jobs
  BY <1>1, <1>2, PlanAssumption DEF Jobs
<1>4. IsFiniteSet(1 .. Len(orderedSpecs))
  BY <1>2, FS_Interval
<1>5. QED
  BY <1>1, <1>2, <1>3, <1>4

(* The finally of planParallel() leaves no pool open, no job pending and   *)
(* no listener, and changes no job but the pending ones.                   *)
LEMMA Released ==
  ASSUME NEW made \in {"none", "open", "closed"}, Release(made),
         outcome \in [Jobs -> Outcome], made # "open" => NonePending(outcome)
  PROVE  /\ listening' = FALSE /\ pool' \in {"none", "closed"}
         /\ outcome' \in [Jobs -> Outcome] /\ NonePending(outcome')
<1>1. CASE made = "open"
  <2>1. /\ listening' = FALSE /\ pool' = "closed"
        /\ outcome' = [j \in Jobs |-> IF j \in Service!Pending THEN Service!OnMainThread(j)
                                      ELSE outcome[j]]
    BY <1>1 DEF Release, Service!Close
  <2>2. ASSUME NEW j \in Jobs PROVE outcome'[j] \in Outcome \ {"pending"}
    BY <2>1 DEF Service!Pending, Service!OnMainThread, Outcome, Service!Settled
  <2>3. QED
    BY <2>1, <2>2 DEF NonePending
<1>2. CASE made # "open"
  BY <1>2 DEF Release
<1>3. QED
  BY <1>1, <1>2

(* Jobs handed to the service are new, pending or settled. *)
LEMMA Submitted ==
  ASSUME NEW S \in SUBSET Jobs, Service!Submit(S), outcome \in [Jobs -> Outcome]
  PROVE  /\ outcome' \in [Jobs -> Outcome]
         /\ S = {} /\ NonePending(outcome) => NonePending(outcome')
<1>1. PICK now \in SUBSET S :
         outcome' = [j \in Jobs |-> IF j \in now THEN Service!OnMainThread(j)
                                    ELSE IF j \in S THEN "pending" ELSE outcome[j]]
  BY DEF Service!Submit
<1>2. ASSUME NEW j \in Jobs PROVE outcome'[j] \in Outcome
  BY <1>1 DEF Service!OnMainThread, Outcome, Service!Settled
<1>3. ASSUME S = {}, NonePending(outcome) PROVE NonePending(outcome')
  BY <1>1, <1>3 DEF NonePending
<1>4. QED
  BY <1>1, <1>2, <1>3

-----------------------------------------------------------------------------
(* The steps.                                                              *)

(* Nothing has happened at first. *)
LEMMA InitIInv == Init => IInv
<1> SUFFICES ASSUME Init PROVE IInv
  OBVIOUS
<1>1. Typed
  <2>1. /\ specs = <<>> /\ held = <<>> /\ plans = <<>>
        /\ mapped = 0 /\ total = 0 /\ done = 0 /\ ended = {}
        /\ pool = "none" /\ phase = "idle" /\ verdict = "none"
        /\ order \in Orders
    BY DEF Init
  <2>2. streaming = FALSE /\ aborted = FALSE /\ listening = FALSE /\ broken = FALSE
    BY DEF Init
  <2>3. outcome \in [Jobs -> {"new", "pending"} \cup Service!Settled]
    BY DEF Init
  <2>4. Len(specs) <= MaxSpecs /\ Len(held) <= MaxSpecs
    BY <2>1, PlanAssumption
  <2>5. \A S : <<>> \in Seq(S)
    OBVIOUS
  <2>6. /\ specs \in Seq(Kinds) /\ held \in Seq(Kinds)
        /\ plans \in Seq([kind : Kinds, method : {"deflate", "store", "streamed"}])
    BY <2>1, <2>5
  <2>7. /\ streaming \in BOOLEAN /\ aborted \in BOOLEAN /\ listening \in BOOLEAN
        /\ broken \in BOOLEAN
    BY <2>2
  <2>8. QED
    BY <2>1, <2>3, <2>4, <2>6, <2>7 DEF Typed, TypeOK, Verdicts
<1>2. NothingYet /\ PoolLife
  BY DEF Init, NothingYet, PoolLife, NonePending, Fresh
<1>3. Checked /\ Judged /\ CanonicalIsSequential /\ Quiet
  BY DEF Init, Checked, Judged, CanonicalIsSequential, PlannedAsSequential, Quiet
<1>4. QED
  BY <1>1, <1>2, <1>3 DEF IInv

(* An entry that is added changes the collector only. *)
LEMMA AddKeeps ==
  ASSUME IInv, NEW kind \in Kinds, Add(kind)
  PROVE  IInv'
<1>1. Typed'
  <2>1. specs' \in Seq(Kinds) /\ Len(specs') <= MaxSpecs
    BY PlanAssumption DEF IInv, Typed, TypeOK, Add
  <2>2. QED
    BY <2>1 DEF IInv, Typed, TypeOK, Add, service, progress
<1>2. QED
  BY <1>1 DEF IInv, Add, service, progress, NothingYet, Beginning, PoolLife, Checked, Judged,
              CanonicalIsSequential, PlannedAsSequential, Quiet, Resumable

(* Nor does an addStream() that throws touch anything else. *)
LEMMA AddStreamFailsKeeps ==
  ASSUME IInv, AddStreamFails
  PROVE  IInv'
<1>1. Typed'
  BY DEF IInv, Typed, TypeOK, AddStreamFails, service, progress
<1>2. QED
  BY <1>1 DEF IInv, AddStreamFails, service, progress, NothingYet, Beginning, PoolLife, Checked,
              Judged, CanonicalIsSequential, PlannedAsSequential, Quiet, Resumable

(* An abort closes the pool of the jobs that run, and is no more than      *)
(* remembered otherwise.                                                   *)
LEMMA AbortKeeps ==
  ASSUME IInv, Abort
  PROVE  IInv'
<1>1. CASE listening /\ pool = "open"
  <2>1. /\ pool' = "closed" /\ phase = "jobs" /\ phase' = phase
        /\ outcome' = [j \in Jobs |-> IF j \in Service!Pending THEN Service!OnMainThread(j)
                                      ELSE outcome[j]]
    BY <1>1 DEF IInv, PoolLife, Abort, onAbort, Service!Close
  <2>2. ASSUME NEW j \in Jobs PROVE outcome'[j] \in Outcome \ {"pending"}
    BY <2>1 DEF IInv, Typed, TypeOK, Service!Pending, Service!OnMainThread, Outcome, Service!Settled
  <2>3. outcome' \in [Jobs -> Outcome] /\ NonePending(outcome')
    BY <2>1, <2>2 DEF NonePending
  <2>4. Typed'
    BY <2>1, <2>3 DEF IInv, Typed, TypeOK, Abort, collector, progress, Outcome
  <2>5. QED
    BY <2>1, <2>3, <2>4 DEF IInv, Abort, collector, progress, NothingYet, Beginning, PoolLife,
       Checked, Judged, CanonicalIsSequential, PlannedAsSequential, Quiet
<1>2. CASE ~(listening /\ pool = "open")
  <2>1. UNCHANGED <<collector, phase, held, listening, service, mapped, ended, broken, progress,
                    plans, verdict>>
    BY <1>2 DEF Abort, onAbort
  <2>2. Typed'
    BY <2>1 DEF IInv, Typed, TypeOK, Abort, collector, service, progress
  <2>3. QED
    BY <2>1, <2>2 DEF IInv, collector, service, progress, NothingYet, Beginning, PoolLife, Checked,
       Judged, CanonicalIsSequential, PlannedAsSequential, Quiet, Resumable
<1>3. QED
  BY <1>1, <1>2

(* toBytes() starts, or refuses at once. *)
LEMMA ToBytesKeeps ==
  ASSUME IInv, ToBytes
  PROVE  IInv'
<1>1. Typed'
  BY DEF IInv, Typed, TypeOK, ToBytes, collector, service, Verdicts
<1>2. NothingYet' /\ PoolLife' /\ Checked' /\ Judged' /\ CanonicalIsSequential'
  BY DEF IInv, ToBytes, collector, service, NothingYet, Beginning, PoolLife, Checked, Judged,
         CanonicalIsSequential, PlannedAsSequential
<1>3. Quiet'
  BY DEF IInv, ToBytes, service, NothingYet, Beginning, Fresh, Quiet, Resumable, Service!Settled
<1>4. QED
  BY <1>1, <1>2, <1>3 DEF IInv

(* The entries are taken while there is nothing to undo. *)
LEMMA TakeSpecsKeeps ==
  ASSUME IInv, TakeSpecs
  PROVE  IInv'
<1>1. Typed'
  BY DEF IInv, Typed, TypeOK, TakeSpecs, collector, service, progress, Verdicts
<1>2. verdict \notin {"ok", "internal"} /\ verdict' \notin {"ok", "internal"}
  BY DEF IInv, Judged, TakeSpecs
<1>3. QED
  BY <1>1, <1>2 DEF IInv, TakeSpecs, collector, service, progress, NothingYet, Beginning, PoolLife,
     Checked, Judged, CanonicalIsSequential, PlannedAsSequential, Quiet

(* A pool is asked for. *)
LEMMA SpawnKeeps ==
  ASSUME IInv, Spawn
  PROVE  IInv'
<1>1. Typed'
  BY DEF IInv, Typed, TypeOK, Spawn, collector, service, progress
<1>2. QED
  BY <1>1 DEF IInv, Spawn, collector, service, progress, NothingYet, Beginning, PoolLife, Checked,
     Judged, CanonicalIsSequential, PlannedAsSequential, Quiet

(* What the jobs are begun with has just been checked. *)
LEMMA StartJobsKeeps ==
  ASSUME IInv, Beginning, NEW made \in {"none", "open"}, Accepted(orderedSpecs), StartJobs(made),
         UNCHANGED <<collector, aborted, held, total, plans>>
  PROVE  IInv'
<1> DEFINE mine == {i \in DOMAIN orderedSpecs : needsDeflate(orderedSpecs[i])}
           pooled == IF made = "open" THEN dispatchable(orderedSpecs) ELSE {}
           inline == mine \ pooled
<1>1. Typed /\ pool = "none" /\ outcome = Fresh /\ outcome \in [Jobs -> Outcome]
  BY DEF IInv, NothingYet, Typed, TypeOK, Outcome
<1>2. /\ phase' = "jobs" /\ listening' = TRUE /\ pool' = made /\ verdict' = verdict
      /\ Service!Submit(pooled) /\ mapped' = Len(orderedSpecs)
      /\ ended' = DOMAIN orderedSpecs \ pooled /\ broken' = (inline \cap Poisoned # {})
      /\ done' = done + Cardinality(inline \ Poisoned)
  BY DEF StartJobs
<1>3. /\ Len(orderedSpecs) \in Nat /\ DOMAIN orderedSpecs \subseteq Jobs
      /\ IsFiniteSet(DOMAIN orderedSpecs)
  BY <1>1, OrderedSpecs
<1>4. pooled \subseteq Jobs
  BY <1>3 DEF dispatchable
<1>5. outcome' \in [Jobs -> Outcome] /\ (pool' # "open" => NonePending(outcome'))
  <2>1. NonePending(outcome)
    BY <1>1 DEF NonePending, Fresh
  <2>2. pool' # "open" => pooled = {}
    BY <1>2
  <2>3. QED
    BY <1>1, <1>2, <1>4, <2>1, <2>2, Submitted
<1>6. done' \in Nat
  <2>1. IsFiniteSet(inline \ Poisoned)
    BY <1>3, FS_Subset
  <2>2. Cardinality(inline \ Poisoned) \in Nat
    BY <2>1, FS_CardinalityType
  <2>3. QED
    BY <1>1, <1>2, <2>2 DEF Typed, TypeOK
<1>7. Typed'
  BY <1>1, <1>2, <1>3, <1>5, <1>6 DEF Typed, TypeOK, collector, Outcome
<1>8. Checked'
  BY <1>2 DEF Checked, orderedSpecs, Accepted, collector
<1>9. Judged' /\ CanonicalIsSequential'
  BY <1>2 DEF IInv, Judged, Beginning, CanonicalIsSequential, PlannedAsSequential
<1>10. QED
  BY <1>2, <1>5, <1>7, <1>8, <1>9 DEF IInv, NothingYet, Beginning, PoolLife, Quiet

(* The try of planParallel(): what does not start is released.             *)
LEMMA BeginKeeps ==
  ASSUME IInv, Beginning, NEW made \in {"none", "open"}, Begin(made)
  PROVE  IInv'
<1>1. CASE /\ Release(made)
           /\ phase' = "unwound" /\ verdict' = IF aborted THEN "aborted" ELSE "refused"
           /\ UNCHANGED <<mapped, ended, broken, done>>
  <2>1. outcome \in [Jobs -> Outcome] /\ NonePending(outcome)
    BY DEF IInv, Typed, TypeOK, NothingYet, NonePending, Fresh, Outcome
  <2>2. /\ listening' = FALSE /\ pool' \in {"none", "closed"}
        /\ outcome' \in [Jobs -> Outcome] /\ NonePending(outcome')
    BY <1>1, <2>1, Released
  <2>3. verdict' \in {"aborted", "refused"} /\ UNCHANGED <<collector, aborted, held, total, plans>>
    BY <1>1 DEF Begin
  <2>4. Typed'
    BY <1>1, <2>2, <2>3 DEF IInv, Typed, TypeOK, collector, Outcome, Verdicts
  <2>5. QED
    BY <1>1, <2>2, <2>3, <2>4 DEF IInv, NothingYet, Beginning, PoolLife, Checked, Judged,
       CanonicalIsSequential, PlannedAsSequential, Quiet
<1>2. CASE ~aborted /\ Accepted(orderedSpecs) /\ StartJobs(made)
  BY <1>2, StartJobsKeeps DEF Begin
<1>3. QED
  BY <1>1, <1>2 DEF Begin

(* Only pending jobs settle, and there are none without a pool. *)
LEMMA PoolSettlesKeeps ==
  ASSUME IInv, PoolSettles
  PROVE  IInv'
<1>1. pool = "open" /\ pool' = pool /\ phase = "jobs" /\ phase' = phase
  BY DEF IInv, PoolLife, PoolSettles
<1>2. PICK S \in SUBSET Service!Pending, answered \in SUBSET Service!Pending :
         outcome' = [j \in Jobs |-> IF j \in answered THEN "worker"
                                    ELSE IF j \in S THEN Service!OnMainThread(j) ELSE outcome[j]]
  BY DEF PoolSettles, Service!Settle
<1>3. ASSUME NEW j \in Jobs PROVE outcome'[j] \in Outcome
  BY <1>2 DEF IInv, Typed, TypeOK, Outcome, Service!OnMainThread, Service!Settled
<1>4. outcome' \in [Jobs -> Outcome]
  BY <1>2, <1>3
<1>5. Typed'
  BY <1>4 DEF IInv, Typed, TypeOK, PoolSettles, collector, progress, Outcome
<1>6. QED
  BY <1>1, <1>5 DEF IInv, PoolSettles, collector, progress, NothingYet, Beginning, PoolLife, Checked,
     Judged, CanonicalIsSequential, PlannedAsSequential, Quiet

(* A callback ends. *)
LEMMA ResumeKeeps ==
  ASSUME IInv, NEW j \in Jobs, Resume(j)
  PROVE  IInv'
<1>1. Typed'
  <2>1. ended' = ended \cup {j}
    BY DEF Resume
  <2>2. broken' \in BOOLEAN
    BY Zenon DEF IInv, Typed, TypeOK, Resume
  <2>3. done' \in Nat
    BY DEF IInv, Typed, TypeOK, Resume
  <2>4. UNCHANGED <<collector, aborted, phase, held, listening, service, mapped, total, plans,
                    verdict>>
    BY DEF Resume
  <2>5. QED
    BY <2>1, <2>2, <2>3, <2>4 DEF IInv, Typed, TypeOK, collector, service
<1>2. Resumable' \subseteq Resumable
  BY DEF Resume, Resumable, service
<1>3. QED
  BY <1>1, <1>2 DEF IInv, Resume, collector, service, NothingYet, Beginning, PoolLife, Checked,
     Judged, CanonicalIsSequential, PlannedAsSequential, Quiet

(* A failed job ends the plan. *)
LEMMA JobsFailKeeps ==
  ASSUME IInv, JobsFail
  PROVE  IInv'
<1>1. /\ pool \in {"none", "open", "closed"} /\ outcome \in [Jobs -> Outcome]
      /\ pool # "open" => NonePending(outcome)
  BY DEF IInv, Typed, TypeOK, PoolLife, Outcome
<1>2. /\ listening' = FALSE /\ pool' \in {"none", "closed"}
      /\ outcome' \in [Jobs -> Outcome] /\ NonePending(outcome')
  BY <1>1, Released DEF JobsFail
<1>3. /\ phase' = "unwound" /\ verdict' = "rejected"
      /\ UNCHANGED <<collector, aborted, held, mapped, ended, broken, progress, plans>>
  BY DEF JobsFail
<1>4. Typed'
  BY <1>2, <1>3 DEF IInv, Typed, TypeOK, collector, progress, Outcome, Verdicts
<1>5. QED
  BY <1>2, <1>3, <1>4 DEF IInv, NothingYet, Beginning, PoolLife, Checked, Judged,
     CanonicalIsSequential, PlannedAsSequential, Quiet

(* What is planned is typed, whichever entries there are by now. *)
LEMMA PlansTyped ==
  ASSUME Typed, NEW n \in Nat
  PROVE  [i \in DOMAIN orderedSpecs |-> Planned(orderedSpecs[i], i <= n)]
           \in Seq([kind : Kinds, method : {"deflate", "store", "streamed"}])
<1>1. /\ orderedSpecs \in Seq(Kinds) /\ Len(orderedSpecs) \in Nat
      /\ DOMAIN orderedSpecs = 1 .. Len(orderedSpecs)
  BY OrderedSpecs
<1>2. ASSUME NEW i \in DOMAIN orderedSpecs
      PROVE  Planned(orderedSpecs[i], i <= n)
               \in [kind : Kinds, method : {"deflate", "store", "streamed"}]
  BY <1>1 DEF Planned
<1>3. QED
  BY <1>1, <1>2

(* All jobs are done: in canonical order the array is the one that was     *)
(* checked, and every entry of it has its result.                          *)
LEMMA FinishKeeps ==
  ASSUME IInv, Finish
  PROVE  IInv'
<1>1. /\ pool \in {"none", "open", "closed"} /\ outcome \in [Jobs -> Outcome]
      /\ pool # "open" => NonePending(outcome)
  BY DEF IInv, Typed, TypeOK, PoolLife, Outcome
<1>2. /\ listening' = FALSE /\ pool' \in {"none", "closed"}
      /\ outcome' \in [Jobs -> Outcome] /\ NonePending(outcome')
  BY <1>1, Released DEF Finish
<1>3. phase = "jobs" /\ phase' = "unwound"
      /\ UNCHANGED <<collector, aborted, held, mapped, ended, broken, total>>
  BY DEF Finish
<1>4. CASE verdict' = "aborted" /\ UNCHANGED <<done, plans>>
  <2>1. Typed'
    BY <1>2, <1>3, <1>4 DEF IInv, Typed, TypeOK, collector, Outcome, Verdicts
  <2>2. QED
    BY <1>2, <1>3, <1>4, <2>1 DEF IInv, NothingYet, Beginning, PoolLife, Checked, Judged,
       CanonicalIsSequential, PlannedAsSequential, Quiet
<1>5. CASE /\ verdict' = "ok"
           /\ plans' = [i \in DOMAIN orderedSpecs |-> Planned(orderedSpecs[i], i <= mapped)]
           /\ done' = IF done < Len(orderedSpecs) THEN Len(orderedSpecs) ELSE done
  <2>1. plans' \in Seq([kind : Kinds, method : {"deflate", "store", "streamed"}])
    <3>1. Typed /\ mapped \in Nat
      BY DEF IInv, Typed, TypeOK
    <3>2. QED
      BY <1>5, <3>1, PlansTyped
  <2>2. done' \in Nat
    <3>1. Len(orderedSpecs) \in Nat /\ done \in Nat
      BY OrderedSpecs DEF IInv, Typed, TypeOK
    <3>2. QED
      BY <1>5, <3>1
  <2>3. Typed'
    BY <1>2, <1>3, <1>5, <2>1, <2>2 DEF IInv, Typed, TypeOK, collector, Outcome, Verdicts
  <2>4. CanonicalIsSequential'
    <3>1. SUFFICES ASSUME order = "canonical"
                   PROVE  Accepted(held) /\ plans' = planArchive(held)
      BY <1>3 DEF CanonicalIsSequential, PlannedAsSequential, collector, Accepted, planArchive
    <3>2. Accepted(held) /\ mapped = Len(held) /\ orderedSpecs = held
      BY <1>3, <3>1 DEF IInv, Checked, orderedSpecs
    <3>3. \A i \in DOMAIN held : i <= mapped
      BY <3>2 DEF IInv, Typed, TypeOK
    <3>4. plans' = [i \in DOMAIN held |-> Planned(held[i], i <= mapped)]
      BY <1>5, <3>2
    <3>5. \A i \in DOMAIN held : Planned(held[i], i <= mapped) = Planned(held[i], TRUE)
      BY <3>3 DEF Planned
    <3>6. QED
      BY <3>2, <3>4, <3>5 DEF planArchive
  <2>5. QED
    BY <1>2, <1>3, <1>5, <2>3, <2>4 DEF IInv, NothingYet, Beginning, PoolLife, Checked, Judged, Quiet
<1>6. QED
  BY <1>4, <1>5 DEF Finish

(* toBytes() settles behind the last callback. *)
LEMMA ReturnKeeps ==
  ASSUME IInv, Return
  PROVE  IInv'
<1>1. verdict' \in Verdicts /\ (verdict' \in {"ok", "internal"} => verdict \in {"ok", "internal"})
  BY DEF IInv, Typed, TypeOK, Return, Verdicts
<1>2. Typed'
  BY <1>1 DEF IInv, Typed, TypeOK, Return, collector, service, progress
<1>3. Quiet'
  BY DEF Quiet, Return, Resumable, service
<1>4. CanonicalIsSequential'
  BY <1>1 DEF IInv, Return, collector, CanonicalIsSequential, PlannedAsSequential, Accepted, planArchive
<1>5. QED
  BY <1>1, <1>2, <1>3, <1>4 DEF IInv, Return, service, NothingYet, Beginning, PoolLife, Checked,
     Judged

(* Every step keeps the invariant. *)
LEMMA NextIInv == IInv /\ [Next]_vars => IInv'
<1> SUFFICES ASSUME IInv, [Next]_vars PROVE IInv'
  OBVIOUS
<1>1. CASE \E kind \in Kinds : Add(kind)
  BY <1>1, AddKeeps
<1>2. CASE AddStreamFails
  BY <1>2, AddStreamFailsKeeps
<1>3. CASE Abort
  BY <1>3, AbortKeeps
<1>4. CASE ToBytes
  BY <1>4, ToBytesKeeps
<1>5. CASE PoolSettles
  BY <1>5, PoolSettlesKeeps
<1>6. CASE TakeSpecs
  BY <1>6, TakeSpecsKeeps
<1>7. CASE Spawn
  BY <1>7, SpawnKeeps
<1>8. CASE BeginAlone
  BY <1>8, BeginKeeps DEF BeginAlone, Beginning
<1>9. CASE \E made \in {"none", "open"} : Spawned(made)
  BY <1>9, BeginKeeps DEF Spawned, Beginning
<1>10. CASE \E j \in Jobs : Resume(j)
  BY <1>10, ResumeKeeps
<1>11. CASE JobsFail
  BY <1>11, JobsFailKeeps
<1>12. CASE Finish
  BY <1>12, FinishKeeps
<1>13. CASE Return
  BY <1>13, ReturnKeeps
<1>14. CASE UNCHANGED vars
  <2>1. Typed'
    BY <1>14 DEF IInv, Typed, TypeOK, vars, collector, service, progress
  <2>2. QED
    BY <1>14, <2>1 DEF IInv, vars, collector, service, progress, NothingYet, Beginning, PoolLife,
       Checked, Judged, CanonicalIsSequential, PlannedAsSequential, Quiet, Resumable, Accepted,
       planArchive
<1>15. QED
  BY <1>1, <1>2, <1>3, <1>4, <1>5, <1>6, <1>7, <1>8, <1>9, <1>10, <1>11, <1>12, <1>13, <1>14
     DEF Next, Advance

(* The invariant holds in every state of toBytes(). *)
THEOREM PlanInvariant == Spec => []IInv
<1>1. QED
  BY InitIInv, NextIInv, PTL DEF Spec

-----------------------------------------------------------------------------
(* The theorems.                                                           *)

(* The state of a plan is typed (worker/index.ts). *)
THEOREM PlanTyped == Spec => []TypeOK
<1>1. IInv => TypeOK
  BY DEF IInv, Typed
<1>2. QED
  BY <1>1, PlanInvariant, PTL

(* No pool, no job and no listener outlives toBytes(), however it ended    *)
(* and whenever the abort came (worker/index.ts 138-171).                  *)
THEOREM PlanLeavesNothing == Spec => []NothingLeft
<1>1. IInv => NothingLeft
  BY DEF IInv, PoolLife, NonePending, NothingLeft
<1>2. QED
  BY <1>1, PlanInvariant, PTL

(* In canonical order parallel planning is sequential planning: entries    *)
(* that were checked, with the same methods, whatever is added meanwhile.  *)
THEOREM PlanIsSequential == Spec => []CanonicalIsSequential
<1>1. IInv => CanonicalIsSequential
  BY DEF IInv
<1>2. QED
  BY <1>1, PlanInvariant, PTL

(* A caller whose toBytes() has settled hears no more of its progress. *)
THEOREM PlanIsSilent == Spec => SilentAfterwards
<1>1. IInv /\ [Next]_vars => [phase = "returned" => UNCHANGED progress]_vars
  <2> SUFFICES ASSUME IInv, Next, phase = "returned" PROVE UNCHANGED progress
    OBVIOUS
  <2>1. ASSUME NEW j \in Jobs, Resume(j) PROVE FALSE
    BY <2>1 DEF IInv, Quiet, Resume
  <2>2. QED
    BY <2>1 DEF Next, Advance, Add, AddStreamFails, Abort, ToBytes, PoolSettles, TakeSpecs, Spawn,
       BeginAlone, Spawned, JobsFail, Finish, Return
<1>2. QED
  BY <1>1, PlanInvariant, PTL DEF Spec, SilentAfterwards
=============================================================================
