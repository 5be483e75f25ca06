----------------------------- MODULE DeflatePool -----------------------------
(***************************************************************************)
(* The pool of deflate workers (worker/worker-pool.ts) over the workers    *)
(* that worker-adapter.ts spawns.  Every callback of the main thread runs  *)
(* to completion and is one action; what lies between two callbacks is in  *)
(* requests, mail, reports and timers.  A worker owes the pool nothing: it *)
(* may never answer, die and be reported, or die unreported (exit code 0,  *)
(* or before the pool installed its handlers).  Whatever it does, each job *)
(* must settle once, on the main thread if need be.                        *)
(***************************************************************************)
EXTENDS Integers, Sequences, FiniteSets

CONSTANTS
  Workers,   \* the workers asked for, numbered in the order of the slots
  JobCount,  \* bound: deflate() calls, numbered by job id
  Poisoned,  \* jobs whose compression on the main thread throws
  None       \* no job

Jobs == 1 .. JobCount

ASSUME PoolAssumption ==
  /\ Workers \subseteq Nat /\ IsFiniteSet(Workers)
  /\ JobCount \in Nat
  /\ Poisoned \subseteq Jobs
  /\ None \notin Jobs

VARIABLES
  phase,      \* createDeflatePool() pending, the pool open, or closed
  handshake,  \* what spawnWorker() found
  live,       \* slots that are not dead
  current,    \* slot -> the job in flight, or None
  queue,      \* jobs waiting for a slot
  timers,     \* job timeouts armed, each for the slot of its dispatch
  requests,   \* jobs posted that their worker has not answered
  mail,       \* answers on their way to the main thread
  failed,     \* workers that died
  reports,    \* deaths whose event is on its way to the main thread
  outcome     \* what became of each job

slots == <<live, current, queue, timers, outcome>>
workers == <<requests, mail, failed, reports>>
vars == <<phase, handshake, slots, workers>>

Timer   == [slot : Workers, job : Jobs]
Request == [to : Workers, job : Jobs]
Answer  == [from : Workers, id : Jobs, kind : {"result", "job-error"}]
Settled == {"worker", "main", "rejected"}

Waiting(q) == {q[i] : i \in DOMAIN q}
Freed(w)   == {current[w]} \ {None}
First(S)   == CHOOSE w \in S : \A v \in S : w <= v

Init ==
  /\ phase = "spawning"
  /\ handshake = [w \in Workers |-> "pending"]
  /\ live = {}
  /\ current = [w \in Workers |-> None]
  /\ queue = <<>>
  /\ timers = {} /\ requests = {} /\ mail = {}
  /\ failed = {} /\ reports = {}
  /\ outcome = [j \in Jobs |-> "new"]

-----------------------------------------------------------------------------
(* Spawning.  A worker that does not get ready in time is terminated and   *)
(* has no slot.                                                            *)

Handshake(w, result) ==
  /\ handshake[w] = "pending"
  /\ handshake' = [handshake EXCEPT ![w] = result]
  /\ UNCHANGED <<phase, slots, workers>>

Open ==
  /\ phase = "spawning"
  /\ \A w \in Workers : handshake[w] # "pending"
  /\ phase' = "open"
  /\ live' = {w \in Workers : handshake[w] = "ready"}
  /\ UNCHANGED <<handshake, current, queue, timers, outcome, workers>>

-----------------------------------------------------------------------------
(* What the callbacks are built from.  Each takes what the callback has    *)
(* already done: the queue, the outcomes and the armed timers so far.      *)

(* Mutant: a compression that throws passes for one that succeeded. *)
mainThreadJob_Swallows(j) == "main"

mainThreadJob(j) == IF j \in Poisoned THEN "rejected" ELSE "main"
settleOnMainThread(S, done) ==
  [j \in Jobs |-> IF j \in S THEN mainThreadJob(j) ELSE done[j]]

(* Mutant: the job in flight dies with its slot. *)
retire_DropsInFlight(w, S, q, done, armed) ==
  LET moved == IF live = {w} THEN Waiting(q) ELSE {}
  IN /\ live' = live \ {w}
     /\ current' = [current EXCEPT ![w] = None]
     /\ queue' = IF live = {w} THEN <<>> ELSE q
     /\ outcome' = settleOnMainThread(moved, done)
     /\ timers' = {t \in armed : t.job \notin moved \cup S}

(* Mutant: the last slot to die leaves the queue behind. *)
retire_KeepsQueue(w, S, q, done, armed) ==
  /\ live' = live \ {w}
  /\ current' = [current EXCEPT ![w] = None]
  /\ queue' = q
  /\ outcome' = settleOnMainThread(S, done)
  /\ timers' = {t \in armed : t.job \notin S}

(* Mutant: a job settled on the main thread keeps its timer. *)
retire_KeepsTimers(w, S, q, done, armed) ==
  LET moved == S \cup (IF live = {w} THEN Waiting(q) ELSE {})
  IN /\ live' = live \ {w}
     /\ current' = [current EXCEPT ![w] = None]
     /\ queue' = IF live = {w} THEN <<>> ELSE q
     /\ outcome' = settleOnMainThread(moved, done)
     /\ timers' = armed

(* The slot dies with the jobs S in flight; the last slot to die takes the *)
(* queue with it.                                                          *)
retire(w, S, q, done, armed) ==
  LET moved == S \cup (IF live = {w} THEN Waiting(q) ELSE {})
  IN /\ live' = live \ {w}
     /\ current' = [current EXCEPT ![w] = None]
     /\ queue' = IF live = {w} THEN <<>> ELSE q
     /\ outcome' = settleOnMainThread(moved, done)
     /\ timers' = {t \in armed : t.job \notin moved}

(* Mutant: the timer is set before the slot knows its job. *)
dispatch_EarlyTimer(w, j, q, done, armed) ==
  \/ /\ current' = [current EXCEPT ![w] = j]
     /\ timers' = armed \cup {[slot |-> w, job |-> current[w]]}
     /\ requests' = requests \cup {[to |-> w, job |-> j]}
     /\ queue' = q
     /\ outcome' = done
     /\ UNCHANGED live
  \/ /\ retire(w, {j}, q, done, armed)
     /\ UNCHANGED requests

(* Mutant: no timer is set. *)
dispatch_Untimed(w, j, q, done, armed) ==
  \/ /\ current' = [current EXCEPT ![w] = j]
     /\ timers' = armed
     /\ requests' = requests \cup {[to |-> w, job |-> j]}
     /\ queue' = q
     /\ outcome' = done
     /\ UNCHANGED live
  \/ /\ retire(w, {j}, q, done, armed)
     /\ UNCHANGED requests

dispatch(w, j, q, done, armed) ==
  \/ /\ current' = [current EXCEPT ![w] = j]
     /\ timers' = armed \cup {[slot |-> w, job |-> j]}
     /\ requests' = requests \cup {[to |-> w, job |-> j]}
     /\ queue' = q
     /\ outcome' = done
     /\ UNCHANGED live
  \/ (* post() throws *)
     /\ retire(w, {j}, q, done, armed)
     /\ UNCHANGED requests

-----------------------------------------------------------------------------
(* deflate().                                                              *)

(* Mutant: any live slot is taken for an idle one. *)
Idle_AnyLive == live

Idle == {w \in live : current[w] = None}

(* Mutant: the newest job goes to the head of the queue. *)
pushed_Front(j) == <<j>> \o queue

(* A job that finds every live slot busy waits behind the others.          *)
pushed(j) == Append(queue, j)

Submit(j) ==
  /\ phase # "spawning"
  /\ outcome[j] = "new" /\ \A i \in 1 .. j - 1 : outcome[i] # "new"
  /\ \/ /\ phase = "closed" \/ live = {}
        /\ outcome' = settleOnMainThread({j}, outcome)
        /\ UNCHANGED <<live, current, queue, timers, requests>>
     \/ /\ phase = "open" /\ Idle # {}
        /\ dispatch(First(Idle), j, queue, [outcome EXCEPT ![j] = "pending"], timers)
     \/ /\ phase = "open" /\ live # {} /\ Idle = {}
        /\ queue' = pushed(j)
        /\ outcome' = [outcome EXCEPT ![j] = "pending"]
        /\ UNCHANGED <<live, current, timers, requests>>
  /\ UNCHANGED <<phase, handshake, mail, failed, reports>>

-----------------------------------------------------------------------------
(* Workers.                                                                *)

WorkerAnswers(r, kind) ==
  /\ r \in requests /\ r.to \notin failed
  /\ requests' = requests \ {r}
  /\ mail' = mail \cup {[from |-> r.to, id |-> r.job, kind |-> kind]}
  /\ UNCHANGED <<phase, handshake, slots, failed, reports>>

WorkerDies(w, reported) ==
  /\ w \notin failed /\ handshake[w] = "ready"
  /\ reported => phase # "spawning"
  /\ failed' = failed \cup {w}
  /\ reports' = IF reported THEN reports \cup {w} ELSE reports
  /\ UNCHANGED <<phase, handshake, slots, requests, mail>>

-----------------------------------------------------------------------------
(* The callbacks of a slot.                                                *)

(* Mutant: the answer is taken for the job in flight. *)
expected_Any(m) == TRUE

expected(m) == current[m.from] = m.id

(* onMessage: an answer that is not for the job in flight is dropped; else *)
(* the job settles and the slot takes the next one from the queue.         *)
Message(m) ==
  /\ m \in mail
  /\ mail' = mail \ {m}
  /\ LET w == m.from
         done == IF m.kind = "result" THEN [outcome EXCEPT ![m.id] = "worker"]
                                      ELSE settleOnMainThread({m.id}, outcome)
         armed == {t \in timers : t.job # m.id}
     IN \/ /\ ~expected(m)
           /\ UNCHANGED <<slots, requests>>
        \/ /\ expected(m)
           /\ w \notin live \/ queue = <<>>
           /\ current' = [current EXCEPT ![w] = None]
           /\ outcome' = done
           /\ timers' = armed
           /\ UNCHANGED <<live, queue, requests>>
        \/ /\ expected(m)
           /\ w \in live /\ queue # <<>>
           /\ dispatch(w, Head(queue), Tail(queue), done, armed)
  /\ UNCHANGED <<phase, handshake, failed, reports>>

(* retire() of a slot that is dead already does nothing.                   *)
Retires(w, armed) ==
  \/ w \in live /\ retire(w, Freed(w), queue, outcome, armed)
  \/ w \notin live /\ timers' = armed /\ UNCHANGED <<live, current, queue, outcome>>

DeathReported(w) ==
  /\ w \in reports
  /\ reports' = reports \ {w}
  /\ Retires(w, timers)
  /\ UNCHANGED <<phase, handshake, requests, mail, failed>>

TimeOut(t) ==
  /\ t \in timers
  /\ Retires(t.slot, timers \ {t})
  /\ UNCHANGED <<phase, handshake, workers>>

(* Mutant: closing terminates the workers and drains the queue only. *)
Close_Abandons ==
  /\ phase = "open"
  /\ phase' = "closed"
  /\ outcome' = settleOnMainThread(Waiting(queue), outcome)
  /\ live' = {}
  /\ current' = [w \in Workers |-> None]
  /\ queue' = <<>>
  /\ timers' = {}
  /\ UNCHANGED <<handshake, workers>>

(* close() retires every slot and drains the queue.                        *)
Close ==
  /\ phase = "open"
  /\ phase' = "closed"
  /\ LET moved == (UNION {Freed(w) : w \in live}) \cup Waiting(queue)
     IN /\ outcome' = settleOnMainThread(moved, outcome)
        /\ timers' = {t \in timers : t.job \notin moved}
  /\ live' = {}
  /\ current' = [w \in Workers |-> IF w \in live THEN None ELSE current[w]]
  /\ queue' = <<>>
  /\ UNCHANGED <<handshake, workers>>

-----------------------------------------------------------------------------
Next ==
  \/ \E w \in Workers, result \in {"ready", "absent"} : Handshake(w, result)
  \/ Open
  \/ \E j \in Jobs : Submit(j)
  \/ \E r \in requests, kind \in {"result", "job-error"} : WorkerAnswers(r, kind)
  \/ \E w \in Workers, reported \in BOOLEAN : WorkerDies(w, reported)
  \/ \E m \in mail : Message(m)
  \/ \E w \in Workers : DeathReported(w)
  \/ \E t \in timers : TimeOut(t)
  \/ Close

(* jobTimeout is finite and the event loop serves expired timers.  Nothing *)
(* is assumed of the workers or of the caller.                             *)
Fairness == \A w \in Workers : WF_vars(\E t \in timers : t.slot = w /\ TimeOut(t))

Spec == Init /\ [][Next]_vars /\ Fairness

-----------------------------------------------------------------------------
InFlight == {w \in Workers : current[w] # None}

TypeOK ==
  /\ phase \in {"spawning", "open", "closed"}
  /\ handshake \in [Workers -> {"pending", "ready", "absent"}]
  /\ live \subseteq Workers
  /\ current \in [Workers -> Jobs \cup {None}]
  /\ queue \in Seq(Jobs)
  /\ timers \subseteq Timer
  /\ requests \subseteq Request
  /\ mail \subseteq Answer
  /\ failed \subseteq Workers /\ reports \subseteq Workers
  /\ outcome \in [Jobs -> {"new", "pending"} \cup Settled]

(* No job is lost and none is done twice: a job is pending as long as it   *)
(* is in flight in one slot, or queued in one place, and no longer.        *)
Accounted ==
  /\ \A j \in Jobs :
       outcome[j] = "pending" <=> j \in {current[w] : w \in InFlight} \cup Waiting(queue)
  /\ \A w \in InFlight : current[w] \notin Waiting(queue)
  /\ \A v, w \in InFlight : current[v] = current[w] => v = w
  /\ \A i, k \in DOMAIN queue : queue[i] = queue[k] => i = k

(* Nothing waits for nobody: while a job is queued some slot lives, and    *)
(* every live slot is busy; only a busy slot's callbacks serve the queue.  *)
QueueIsServed == queue # <<>> => live # {} /\ live \subseteq InFlight

(* Exactly the jobs in flight are timed: a timer that outlived its job     *)
(* would retire a healthy worker, a job without one could hang forever.    *)
InFlightIsTimed ==
  /\ InFlight \subseteq live
  /\ timers = {[slot |-> w, job |-> current[w]] : w \in InFlight}

(* A live worker has at most the job in flight before it, or one answer to *)
(* that very job under way: only a retired worker's answer comes late.     *)
AnswersMatch ==
  \A w \in live :
    /\ \A r \in requests : r.to = w => r.job = current[w]
    /\ \A m \in mail : m.from = w => m.id = current[w]
    /\ \A r \in requests, m \in mail : r.to = w => m.from # w

(* Jobs leave the queue in the order they were submitted: whatever is      *)
(* submitted after a queued job is queued behind it.                       *)
QueueIsTail ==
  /\ \A i, k \in DOMAIN queue : i < k => queue[i] < queue[k]
  /\ \A i \in Waiting(queue), j \in Jobs :
       j > i /\ outcome[j] # "new" => j \in Waiting(queue)

(* close() leaves no promise pending behind a terminated worker.           *)
ClosedIsSettled == phase = "closed" => \A j \in Jobs : outcome[j] # "pending"

(* A job settles once: a late answer of a retired worker changes nothing.  *)
SettledForGood ==
  [][\A j \in Jobs : outcome[j] \in Settled => outcome'[j] = outcome[j]]_vars

(* toBytes() never hangs: every job settles, whatever the workers do.      *)
JobsSettle == \A j \in Jobs : outcome[j] = "pending" ~> outcome[j] \in Settled

(* Seen from planParallel() the pool is a service that settles jobs.       *)
Service == INSTANCE JobService WITH closed <- phase = "closed"
ImplementsService == Service!Spec
=============================================================================
