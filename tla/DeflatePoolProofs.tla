-------------------------- MODULE DeflatePoolProofs --------------------------
(***************************************************************************)
(* The safety of the deflate pool, for any number of workers and of jobs.  *)
(* The inductive invariant is the conjunction of the invariants the model  *)
(* checker knows and of three facts about the life of the pool.  What the  *)
(* callbacks do to slots, queue, timers and outcomes is split into small   *)
(* effects; Coherent is what each of them preserves, and a callback is a   *)
(* composition of effects.                                                 *)
(***************************************************************************)
EXTENDS DeflatePool, WellFoundedInduction, TLAPS

Outcome == {"new", "pending"} \cup Settled

(* The bookkeeping of the main thread is sound: in flight means in a live  *)
(* slot and timed, pending means in flight or queued, and jobs keep their  *)
(* order.                                                                  *)
Coherent(L, cur, q, T, done) ==
  /\ L \subseteq Workers
  /\ cur \in [Workers -> Jobs \cup {None}]
  /\ q \in Seq(Jobs)
  /\ done \in [Jobs -> Outcome]
  /\ \A w \in Workers : cur[w] # None => w \in L
  /\ T = {[slot |-> w, job |-> cur[w]] : w \in {v \in Workers : cur[v] # None}}
  /\ \A j \in Jobs :
       done[j] = "pending" <=> (\E w \in Workers : cur[w] = j) \/ j \in Waiting(q)
  /\ \A w \in Workers : cur[w] \notin Waiting(q)
  /\ \A v, w \in Workers : cur[v] = cur[w] /\ cur[v] # None => v = w
  /\ \A i, k \in DOMAIN q : i < k => q[i] < q[k]
  /\ \A i \in Waiting(q), j \in Jobs : j > i /\ done[j] # "new" => j \in Waiting(q)
  /\ \A i, j \in Jobs : i < j /\ done[i] = "new" => done[j] = "new"

-----------------------------------------------------------------------------
(* The queue as a set.                                                     *)

(* The jobs waiting are jobs. *)
LEMMA WaitingType ==
  ASSUME NEW q \in Seq(Jobs)
  PROVE  /\ Waiting(q) \subseteq Jobs
         /\ None \notin Waiting(q)
         /\ q = <<>> <=> Waiting(q) = {}
<1>1. DOMAIN q = 1 .. Len(q) /\ Len(q) \in Nat
  OBVIOUS
<1>2. Waiting(q) \subseteq Jobs
  BY <1>1 DEF Waiting
<1>3. ASSUME q # <<>> PROVE Waiting(q) # {}
  <2>1. 1 \in DOMAIN q
    BY <1>1, <1>3
  <2>2. QED
    BY <2>1 DEF Waiting
<1>4. ASSUME q = <<>> PROVE Waiting(q) = {}
  BY <1>1, <1>4 DEF Waiting
<1>5. QED
  BY <1>2, <1>3, <1>4, PoolAssumption

(* push() adds the new job to the jobs that wait, behind all of them. *)
LEMMA WaitingPush ==
  ASSUME NEW q \in Seq(Jobs), NEW j \in Jobs
  PROVE  /\ Append(q, j) \in Seq(Jobs)
         /\ Waiting(Append(q, j)) = Waiting(q) \cup {j}
         /\ \A i \in DOMAIN Append(q, j) :
              \/ i \in DOMAIN q /\ Append(q, j)[i] = q[i]
              \/ i = Len(q) + 1 /\ Append(q, j)[i] = j
<1>1. DOMAIN q = 1 .. Len(q) /\ Len(q) \in Nat
  OBVIOUS
<1>2. DOMAIN Append(q, j) = 1 .. Len(q) + 1
  OBVIOUS
<1>3. \A i \in 1 .. Len(q) : Append(q, j)[i] = q[i]
  OBVIOUS
<1>4. Append(q, j)[Len(q) + 1] = j
  OBVIOUS
<1>5. Waiting(Append(q, j)) = Waiting(q) \cup {j}
  <2>1. Waiting(Append(q, j)) \subseteq Waiting(q) \cup {j}
    BY <1>1, <1>2, <1>3, <1>4 DEF Waiting
  <2>2. Waiting(q) \cup {j} \subseteq Waiting(Append(q, j))
    BY <1>1, <1>2, <1>3, <1>4 DEF Waiting
  <2>3. QED
    BY <2>1, <2>2
<1>6. QED
  BY <1>1, <1>2, <1>3, <1>4, <1>5

(* shift() takes the oldest job and leaves the others, in their order. *)
LEMMA WaitingShift ==
  ASSUME NEW q \in Seq(Jobs), q # <<>>,
         \A i, k \in DOMAIN q : i < k => q[i] < q[k]
  PROVE  /\ Head(q) \in Jobs /\ Tail(q) \in Seq(Jobs)
         /\ Head(q) \in Waiting(q)
         /\ Waiting(Tail(q)) = Waiting(q) \ {Head(q)}
         /\ \A i \in Waiting(Tail(q)) : Head(q) < i
         /\ \A i, k \in DOMAIN Tail(q) : i < k => Tail(q)[i] < Tail(q)[k]
<1>1. DOMAIN q = 1 .. Len(q) /\ Len(q) \in Nat /\ Len(q) >= 1
  OBVIOUS
<1>2. Head(q) = q[1] /\ Head(q) \in Jobs /\ Tail(q) \in Seq(Jobs)
  BY <1>1
<1>3. DOMAIN Tail(q) = 1 .. Len(q) - 1
  BY <1>1
<1>4. \A i \in 1 .. Len(q) - 1 : Tail(q)[i] = q[i + 1]
  BY <1>1
<1>5. \A i \in 1 .. Len(q) : q[i] \in Jobs /\ q[i] \in Int
  BY <1>1, PoolAssumption DEF Jobs
<1>6. \A i \in 2 .. Len(q) : q[1] < q[i]
  BY <1>1
<1>7. Waiting(Tail(q)) \subseteq Waiting(q) \ {Head(q)}
  BY <1>1, <1>2, <1>3, <1>4, <1>5, <1>6 DEF Waiting
<1>8. Waiting(q) \ {Head(q)} \subseteq Waiting(Tail(q))
  <2>1. SUFFICES ASSUME NEW i \in 1 .. Len(q), q[i] # q[1]
                 PROVE  \E k \in DOMAIN Tail(q) : q[i] = Tail(q)[k]
    BY <1>1, <1>2 DEF Waiting
  <2>2. i - 1 \in 1 .. Len(q) - 1 /\ (i - 1) + 1 = i
    BY <2>1, <1>1
  <2>3. QED
    BY <2>2, <1>3, <1>4
<1>9. \A i \in Waiting(Tail(q)) : Head(q) < i
  BY <1>2, <1>3, <1>4, <1>6, <1>1 DEF Waiting
<1>10. \A i, k \in DOMAIN Tail(q) : i < k => Tail(q)[i] < Tail(q)[k]
  BY <1>1, <1>3, <1>4
<1>11. QED
  BY <1>1, <1>2, <1>7, <1>8, <1>9, <1>10, SMTT(30) DEF Waiting

-----------------------------------------------------------------------------
(* The effects.                                                            *)

(* Settling the job in flight in slot w leaves the slot idle. *)
LEMMA SettleInFlight ==
  ASSUME NEW L, NEW cur, NEW q, NEW T, NEW done, NEW done2,
         Coherent(L, cur, q, T, done),
         NEW w \in Workers, cur[w] # None,
         done2 \in [Jobs -> Outcome],
         done2[cur[w]] \in Settled,
         \A j \in Jobs \ {cur[w]} : done2[j] = done[j]
  PROVE  Coherent(L, [cur EXCEPT ![w] = None], q, {t \in T : t.job # cur[w]}, done2)
<1> DEFINE cur2 == [cur EXCEPT ![w] = None]
           T2 == {t \in T : t.job # cur[w]}
<1>1. cur2 \in [Workers -> Jobs \cup {None}]
  BY DEF Coherent
<1>2. \A v \in Workers : cur2[v] = IF v = w THEN None ELSE cur[v]
  BY DEF Coherent
<1>3. cur[w] \in Jobs /\ None \notin Jobs
  BY PoolAssumption DEF Coherent
<1>4. \A v \in Workers : cur2[v] # None => v \in L
  BY <1>2 DEF Coherent
<1>5. T2 = {[slot |-> v, job |-> cur2[v]] : v \in {u \in Workers : cur2[u] # None}}
  BY <1>2 DEF Coherent
<1>6. \A j \in Jobs :
        done2[j] = "pending" <=> (\E v \in Workers : cur2[v] = j) \/ j \in Waiting(q)
  BY <1>2, <1>3 DEF Coherent, Settled
<1>7. \A v \in Workers : cur2[v] \notin Waiting(q)
  BY <1>2, WaitingType DEF Coherent
<1>8. \A u, v \in Workers : cur2[u] = cur2[v] /\ cur2[u] # None => u = v
  BY <1>2 DEF Coherent
<1>9. \A j \in Jobs : done2[j] = "new" <=> done[j] = "new"
  BY <1>3 DEF Coherent, Settled
<1>10. QED
  BY <1>1, <1>4, <1>5, <1>6, <1>7, <1>8, <1>9 DEF Coherent

(* Settling the oldest queued job takes it off the queue. *)
LEMMA SettleOldest ==
  ASSUME NEW L, NEW cur, NEW q, NEW T, NEW done, NEW done2,
         Coherent(L, cur, q, T, done),
         q # <<>>,
         done2 \in [Jobs -> Outcome],
         done2[Head(q)] \in Settled,
         \A j \in Jobs \ {Head(q)} : done2[j] = done[j]
  PROVE  Coherent(L, cur, Tail(q), T, done2)
<1>1. /\ Head(q) \in Jobs /\ Tail(q) \in Seq(Jobs)
      /\ Head(q) \in Waiting(q)
      /\ Waiting(Tail(q)) = Waiting(q) \ {Head(q)}
      /\ \A i \in Waiting(Tail(q)) : Head(q) < i
      /\ \A i, k \in DOMAIN Tail(q) : i < k => Tail(q)[i] < Tail(q)[k]
  BY WaitingShift DEF Coherent
<1>2. done[Head(q)] = "pending"
  BY <1>1 DEF Coherent
<1>3. \A j \in Jobs : done2[j] = "new" <=> done[j] = "new"
  BY <1>1, <1>2 DEF Settled
<1>4. \A j \in Jobs :
        done2[j] = "pending" <=> (\E v \in Workers : cur[v] = j) \/ j \in Waiting(Tail(q))
  BY <1>1 DEF Coherent, Settled
<1>5. \A i \in Waiting(Tail(q)), j \in Jobs :
        j > i /\ done2[j] # "new" => j \in Waiting(Tail(q))
  <2>1. SUFFICES ASSUME NEW i \in Waiting(Tail(q)), NEW j \in Jobs, j > i, done2[j] # "new"
                 PROVE  j \in Waiting(q) /\ j # Head(q)
    BY <1>1
  <2>2. i \in Waiting(q) /\ i \in Jobs /\ Head(q) < i
    BY <1>1, <2>1, WaitingType
  <2>3. QED
    BY <1>1, <1>3, <2>1, <2>2, PoolAssumption DEF Coherent, Jobs
<1>6. QED
  BY <1>1, <1>3, <1>4, <1>5 DEF Coherent

(* With the queue empty, the next job may settle at once. *)
LEMMA SettleNext ==
  ASSUME NEW L, NEW cur, NEW T, NEW done, NEW done2,
         Coherent(L, cur, <<>>, T, done),
         NEW j \in Jobs, done[j] = "new", \A i \in 1 .. j - 1 : done[i] # "new",
         done2 \in [Jobs -> Outcome],
         done2[j] \in Settled,
         \A k \in Jobs \ {j} : done2[k] = done[k]
  PROVE  Coherent(L, cur, <<>>, T, done2)
<1>1. \A i, k \in Jobs : i < k /\ done2[i] = "new" => done2[k] = "new"
  <2>1. SUFFICES ASSUME NEW i \in Jobs, NEW k \in Jobs, i < k, done2[i] = "new"
                 PROVE  done2[k] = "new"
    OBVIOUS
  <2>2. i # j /\ done[i] = "new"
    BY <2>1 DEF Settled
  <2>3. i \notin 1 .. j - 1
    BY <2>2
  <2>4. k # j
    BY <2>1, <2>2, <2>3, PoolAssumption DEF Jobs
  <2>5. done[k] = "new"
    BY <2>1, <2>2 DEF Coherent
  <2>6. QED
    BY <2>4, <2>5
<1>2. Waiting(<<>>) = {}
  BY DEF Waiting
<1>3. \A k \in Jobs :
        done2[k] = "pending" <=> (\E v \in Workers : cur[v] = k) \/ k \in Waiting(<<>>)
  BY DEF Coherent, Settled
<1>4. QED
  BY <1>1, <1>2, <1>3 DEF Coherent

(* Settling all that waits empties the queue. *)
LEMMA SettleQueue ==
  ASSUME NEW L, NEW cur, NEW q, NEW T, NEW done, NEW done2,
         Coherent(L, cur, q, T, done),
         done2 \in [Jobs -> Outcome],
         \A j \in Waiting(q) : done2[j] \in Settled,
         \A j \in Jobs \ Waiting(q) : done2[j] = done[j]
  PROVE  Coherent(L, cur, <<>>, T, done2)
<1>1. Waiting(<<>>) = {} /\ <<>> \in Seq(Jobs) /\ DOMAIN <<>> = {}
  BY DEF Waiting
<1>2. Waiting(q) \subseteq Jobs
  BY WaitingType DEF Coherent
<1>3. \A j \in Jobs : done2[j] = "new" <=> done[j] = "new"
  BY <1>2 DEF Coherent, Settled
<1>4. \A j \in Jobs :
        done2[j] = "pending" <=> (\E v \in Workers : cur[v] = j) \/ j \in Waiting(<<>>)
  BY <1>1, <1>2 DEF Coherent, Settled
<1>5. QED
  BY <1>1, <1>3, <1>4 DEF Coherent

(* An idle slot may die. *)
LEMMA IdleDies ==
  ASSUME NEW L, NEW cur, NEW q, NEW T, NEW done,
         Coherent(L, cur, q, T, done),
         NEW w \in Workers, cur[w] = None
  PROVE  Coherent(L \ {w}, cur, q, T, done)
  BY DEF Coherent

(* An idle live slot takes the next job when nothing waits. *)
LEMMA DispatchNext ==
  ASSUME NEW L, NEW cur, NEW T, NEW done,
         Coherent(L, cur, <<>>, T, done),
         NEW j \in Jobs, done[j] = "new", \A i \in 1 .. j - 1 : done[i] # "new",
         NEW w \in L, cur[w] = None
  PROVE  Coherent(L, [cur EXCEPT ![w] = j], <<>>, T \cup {[slot |-> w, job |-> j]},
                  [done EXCEPT ![j] = "pending"])
<1> DEFINE cur2 == [cur EXCEPT ![w] = j]
           T2 == T \cup {[slot |-> w, job |-> j]}
           done2 == [done EXCEPT ![j] = "pending"]
<1>1. w \in Workers /\ j # None
  BY PoolAssumption DEF Coherent
<1>2. /\ cur2 \in [Workers -> Jobs \cup {None}]
      /\ \A v \in Workers : cur2[v] = IF v = w THEN j ELSE cur[v]
  BY <1>1 DEF Coherent
<1>3. /\ done2 \in [Jobs -> Outcome]
      /\ \A k \in Jobs : done2[k] = IF k = j THEN "pending" ELSE done[k]
  BY DEF Coherent, Outcome
<1>4. Waiting(<<>>) = {}
  BY DEF Waiting
<1>5. \A v \in Workers : cur[v] # j
  BY <1>4 DEF Coherent
<1>6. \A v \in Workers : cur2[v] # None => v \in L
  BY <1>2 DEF Coherent
<1>7. T2 = {[slot |-> v, job |-> cur2[v]] : v \in {u \in Workers : cur2[u] # None}}
  BY <1>1, <1>2 DEF Coherent
<1>8. \A k \in Jobs :
        done2[k] = "pending" <=> (\E v \in Workers : cur2[v] = k) \/ k \in Waiting(<<>>)
  <2>1. \A k \in Jobs : (\E v \in Workers : cur[v] = k) => \E v \in Workers : cur2[v] = k
    <3>1. SUFFICES ASSUME NEW k \in Jobs, NEW v \in Workers, cur[v] = k
                   PROVE  cur2[v] = k
      OBVIOUS
    <3>2. v # w
      BY <3>1, PoolAssumption
    <3>3. QED
      BY <3>1, <3>2, <1>2
  <2>2. \E v \in Workers : cur2[v] = j
    BY <1>1, <1>2
  <2>3. \A k \in Jobs : (\E v \in Workers : cur2[v] = k) => k = j \/ \E v \in Workers : cur[v] = k
    BY <1>2
  <2>4. QED
    BY <2>1, <2>2, <2>3, <1>3, <1>4 DEF Coherent
<1>9. \A u, v \in Workers : cur2[u] = cur2[v] /\ cur2[u] # None => u = v
  BY <1>2, <1>5 DEF Coherent
<1>10. \A i, k \in Jobs : i < k /\ done2[i] = "new" => done2[k] = "new"
  <2>1. SUFFICES ASSUME NEW i \in Jobs, NEW k \in Jobs, i < k, done2[i] = "new"
                 PROVE  done2[k] = "new"
    OBVIOUS
  <2>2. i # j /\ done[i] = "new"
    BY <1>3, <2>1
  <2>3. k # j
    BY <2>1, <2>2, PoolAssumption DEF Jobs
  <2>4. done[k] = "new"
    BY <2>1, <2>2 DEF Coherent
  <2>5. QED
    BY <1>3, <2>3, <2>4
<1>11. QED
  BY <1>2, <1>3, <1>4, <1>6, <1>7, <1>8, <1>9, <1>10 DEF Coherent

(* An idle live slot takes the oldest job that waits. *)
LEMMA DispatchOldest ==
  ASSUME NEW L, NEW cur, NEW q, NEW T, NEW done,
         Coherent(L, cur, q, T, done),
         q # <<>>,
         NEW w \in L, cur[w] = None
  PROVE  Coherent(L, [cur EXCEPT ![w] = Head(q)], Tail(q),
                  T \cup {[slot |-> w, job |-> Head(q)]}, done)
<1> DEFINE j == Head(q)
           cur2 == [cur EXCEPT ![w] = j]
           T2 == T \cup {[slot |-> w, job |-> j]}
<1>1. /\ j \in Jobs /\ Tail(q) \in Seq(Jobs)
      /\ j \in Waiting(q)
      /\ Waiting(Tail(q)) = Waiting(q) \ {j}
      /\ \A i \in Waiting(Tail(q)) : j < i
      /\ \A i, k \in DOMAIN Tail(q) : i < k => Tail(q)[i] < Tail(q)[k]
  BY WaitingShift DEF Coherent
<1>2. w \in Workers /\ j # None
  BY <1>1, PoolAssumption DEF Coherent
<1>3. /\ cur2 \in [Workers -> Jobs \cup {None}]
      /\ \A v \in Workers : cur2[v] = IF v = w THEN j ELSE cur[v]
  BY <1>1, <1>2 DEF Coherent
<1>4. \A v \in Workers : cur[v] # j
  BY <1>1 DEF Coherent
<1>5. \A v \in Workers : cur2[v] # None => v \in L
  BY <1>3 DEF Coherent
<1>6. T2 = {[slot |-> v, job |-> cur2[v]] : v \in {u \in Workers : cur2[u] # None}}
  BY <1>2, <1>3 DEF Coherent
<1>7. \A k \in Jobs :
        done[k] = "pending" <=> (\E v \in Workers : cur2[v] = k) \/ k \in Waiting(Tail(q))
  <2>1. \A k \in Jobs : (\E v \in Workers : cur[v] = k) => \E v \in Workers : cur2[v] = k
    <3>1. SUFFICES ASSUME NEW k \in Jobs, NEW v \in Workers, cur[v] = k
                   PROVE  cur2[v] = k
      OBVIOUS
    <3>2. v # w
      BY <3>1, PoolAssumption
    <3>3. QED
      BY <3>1, <3>2, <1>3
  <2>2. \E v \in Workers : cur2[v] = j
    BY <1>2, <1>3
  <2>3. \A k \in Jobs : (\E v \in Workers : cur2[v] = k) => k = j \/ \E v \in Workers : cur[v] = k
    BY <1>3
  <2>4. QED
    BY <2>1, <2>2, <2>3, <1>1 DEF Coherent
<1>8. \A u, v \in Workers : cur2[u] = cur2[v] /\ cur2[u] # None => u = v
  BY <1>3, <1>4 DEF Coherent
<1>9. \A v \in Workers : cur2[v] \notin Waiting(Tail(q))
  BY <1>1, <1>3 DEF Coherent
<1>10. \A i \in Waiting(Tail(q)), k \in Jobs :
        k > i /\ done[k] # "new" => k \in Waiting(Tail(q))
  <2>1. SUFFICES ASSUME NEW i \in Waiting(Tail(q)), NEW k \in Jobs, k > i, done[k] # "new"
                 PROVE  k \in Waiting(q) /\ k # j
    BY <1>1
  <2>2. i \in Waiting(q) /\ i \in Jobs /\ j < i
    BY <1>1, <2>1, WaitingType
  <2>3. QED
    BY <1>1, <2>1, <2>2, PoolAssumption DEF Coherent, Jobs
<1>11. QED
  BY <1>1, <1>3, <1>5, <1>6, <1>7, <1>8, <1>9, <1>10 DEF Coherent

(* The next job may wait behind the others. *)
LEMMA Enqueue ==
  ASSUME NEW L, NEW cur, NEW q, NEW T, NEW done,
         Coherent(L, cur, q, T, done),
         NEW j \in Jobs, done[j] = "new", \A i \in 1 .. j - 1 : done[i] # "new"
  PROVE  Coherent(L, cur, Append(q, j), T, [done EXCEPT ![j] = "pending"])
<1> DEFINE q2 == Append(q, j)
           done2 == [done EXCEPT ![j] = "pending"]
<1>1. q \in Seq(Jobs) /\ DOMAIN q = 1 .. Len(q) /\ Len(q) \in Nat
  BY DEF Coherent
<1>2. /\ q2 \in Seq(Jobs)
      /\ Waiting(q2) = Waiting(q) \cup {j}
      /\ \A i \in DOMAIN q2 : \/ i \in DOMAIN q /\ q2[i] = q[i]
                              \/ i = Len(q) + 1 /\ q2[i] = j
  BY <1>1, WaitingPush
<1>3. /\ done2 \in [Jobs -> Outcome]
      /\ \A k \in Jobs : done2[k] = IF k = j THEN "pending" ELSE done[k]
  BY DEF Coherent, Outcome
<1>4. j # None /\ \A v \in Workers : cur[v] # j
  BY PoolAssumption DEF Coherent
<1>5. \A i, k \in Jobs : i < k /\ done2[i] = "new" => done2[k] = "new"
  <2>1. SUFFICES ASSUME NEW i \in Jobs, NEW k \in Jobs, i < k, done2[i] = "new"
                 PROVE  done2[k] = "new"
    OBVIOUS
  <2>2. i # j /\ done[i] = "new"
    BY <1>3, <2>1
  <2>3. k # j
    BY <2>1, <2>2, PoolAssumption DEF Jobs
  <2>4. done[k] = "new"
    BY <2>1, <2>2 DEF Coherent
  <2>5. QED
    BY <1>3, <2>3, <2>4
<1>6. \A i \in Waiting(q) : i \in Jobs /\ i < j
  <2>1. SUFFICES ASSUME NEW i \in Waiting(q) PROVE i \in Jobs /\ i < j
    OBVIOUS
  <2>2. i \in Jobs /\ done[i] = "pending"
    BY <1>1, WaitingType DEF Coherent
  <2>3. i # j /\ ~(j < i)
    BY <2>2 DEF Coherent
  <2>4. QED
    BY <2>2, <2>3, PoolAssumption DEF Jobs
<1>7. \A i, k \in DOMAIN q2 : i < k => q2[i] < q2[k]
  <2>1. \A i \in DOMAIN q : q[i] \in Waiting(q)
    BY DEF Waiting
  <2>2. QED
    BY <1>1, <1>2, <1>6, <2>1 DEF Coherent
<1>8. \A i \in Waiting(q2), k \in Jobs : k > i /\ done2[k] # "new" => k \in Waiting(q2)
  <2>1. SUFFICES ASSUME NEW i \in Waiting(q2), NEW k \in Jobs, k > i, done2[k] # "new", k # j
                 PROVE  k \in Waiting(q)
    BY <1>2
  <2>2. done[k] # "new"
    BY <1>3, <2>1
  <2>3. ~(j < k)
    BY <2>2 DEF Coherent
  <2>4. i \in Waiting(q)
    BY <1>2, <2>1, <2>3
  <2>5. QED
    BY <2>1, <2>2, <2>4 DEF Coherent
<1>9. \A k \in Jobs :
        done2[k] = "pending" <=> (\E v \in Workers : cur[v] = k) \/ k \in Waiting(q2)
  BY <1>2, <1>3 DEF Coherent
<1>10. \A v \in Workers : cur[v] \notin Waiting(q2)
  BY <1>2, <1>4 DEF Coherent
<1>11. QED
  BY <1>2, <1>3, <1>5, <1>7, <1>8, <1>9, <1>10 DEF Coherent

-----------------------------------------------------------------------------
(* A non-empty set of naturals has a least element: find() returns a slot. *)
LEMMA LeastNat ==
  ASSUME NEW S \in SUBSET Nat, S # {}
  PROVE  \E x \in S : \A v \in S : x <= v
<1> DEFINE R == OpToRel(<, Nat)
<1>1. PICK x \in S : \A y \in S : <<y, x>> \notin R
  <2> HIDE DEF R
  <2>1. IsWellFoundedOn(R, Nat)
    BY NatLessThanWellFounded DEF R
  <2>2. QED
    BY <2>1, WFMin
<1>2. \A y \in S : ~(y < x)
  BY <1>1 DEF OpToRel
<1>3. \A y \in S : x <= y
  BY <1>2
<1>4. QED
  BY <1>3

-----------------------------------------------------------------------------
(* What retire() and dispatch() do, from any state of the callback.        *)

(* Settling on the main thread settles the jobs given, and no other. *)
LEMMA MainThreadSettles ==
  ASSUME NEW S, NEW done \in [Jobs -> Outcome]
  PROVE  /\ settleOnMainThread(S, done) \in [Jobs -> Outcome]
         /\ \A j \in Jobs : IF j \in S THEN settleOnMainThread(S, done)[j] \in Settled
                                       ELSE settleOnMainThread(S, done)[j] = done[j]
  BY DEF settleOnMainThread, mainThreadJob, Outcome, Settled

(* Only jobs in flight are timed. *)
LEMMA TimedIsInFlight ==
  ASSUME NEW L, NEW cur, NEW q, NEW T, NEW done,
         Coherent(L, cur, q, T, done)
  PROVE  /\ T \subseteq Timer
         /\ \A t \in T : cur[t.slot] = t.job /\ t.job \notin Waiting(q) /\ done[t.job] = "pending"
<1>1. SUFFICES ASSUME NEW w \in Workers, cur[w] # None
               PROVE  /\ [slot |-> w, job |-> cur[w]] \in Timer
                      /\ cur[w] \notin Waiting(q) /\ done[cur[w]] = "pending"
  BY DEF Coherent
<1>2. cur[w] \in Jobs
  BY <1>1 DEF Coherent
<1>3. QED
  BY <1>1, <1>2 DEF Coherent, Timer

(* retire() takes a coherent state, in which the slot has let go of its    *)
(* jobs, to a coherent one, and the queue is still served.                 *)
LEMMA RetireStep ==
  ASSUME NEW w \in Workers, w \in live, NEW S, NEW q, NEW done \in [Jobs -> Outcome], NEW armed,
         Coherent(live, [current EXCEPT ![w] = None], q, {t \in armed : t.job \notin S},
                  settleOnMainThread(S, done)),
         q # <<>> => live \subseteq InFlight \cup {w},
         current \in [Workers -> Jobs \cup {None}],
         retire(w, S, q, done, armed)
  PROVE  /\ Coherent(live', current', queue', timers', outcome')
         /\ QueueIsServed'
         /\ live' = live \ {w}
         /\ current' = [current EXCEPT ![w] = None]
<1> DEFINE cur == [current EXCEPT ![w] = None]
           T == {t \in armed : t.job \notin S}
           done1 == settleOnMainThread(S, done)
<1>1. live' = live \ {w} /\ current' = cur
  BY DEF retire
<1>2. CASE live = {w}
  <2>1. /\ queue' = <<>>
        /\ outcome' = settleOnMainThread(S \cup Waiting(q), done)
        /\ timers' = {t \in armed : t.job \notin S \cup Waiting(q)}
    BY <1>2 DEF retire
  <2>2. timers' = T
    BY <2>1, TimedIsInFlight
  <2>3. /\ outcome' \in [Jobs -> Outcome]
        /\ \A j \in Waiting(q) : outcome'[j] \in Settled
        /\ \A j \in Jobs \ Waiting(q) : outcome'[j] = done1[j]
    <3>1. Waiting(q) \subseteq Jobs
      BY WaitingType DEF Coherent
    <3>2. QED
      BY <2>1, <3>1, MainThreadSettles DEF settleOnMainThread
  <2>4. Coherent(live, cur, <<>>, T, outcome')
    BY <2>3, SettleQueue
  <2>5. cur[w] = None
    OBVIOUS
  <2>6. Coherent(live \ {w}, cur, <<>>, T, outcome')
    BY <2>4, <2>5, IdleDies
  <2>7. QED
    BY <1>1, <2>1, <2>2, <2>6 DEF QueueIsServed
<1>3. CASE live # {w}
  <2>1. queue' = q /\ outcome' = done1 /\ timers' = T
    BY <1>3 DEF retire
  <2>2. Coherent(live \ {w}, cur, q, T, done1)
    BY IdleDies
  <2>3. QueueIsServed'
    BY <1>1, <1>3, <2>1 DEF QueueIsServed, InFlight
  <2>4. QED
    BY <1>1, <2>1, <2>2, <2>3
<1>4. QED
  BY <1>2, <1>3

-----------------------------------------------------------------------------
(* The inductive invariant.                                                *)

(* A live worker has posted one answer at most. *)
OneAnswer == \A m, n \in mail : m.from = n.from /\ m.from \in live => m = n

(* Before the pool opens nothing was posted; after it closed nothing lives. *)
PhaseOK ==
  /\ phase = "spawning" => live = {} /\ requests = {} /\ mail = {}
  /\ phase = "closed" => live = {}

Typed ==
  /\ phase \in {"spawning", "open", "closed"}
  /\ handshake \in [Workers -> {"pending", "ready", "absent"}]
  /\ requests \subseteq Request
  /\ mail \subseteq Answer
  /\ failed \subseteq Workers /\ reports \subseteq Workers

Bookkeeping == Coherent(live, current, queue, timers, outcome)

IInv == Typed /\ Bookkeeping /\ QueueIsServed /\ AnswersMatch /\ OneAnswer /\ PhaseOK

(* The pool starts in it. *)
LEMMA InitIInv == Init => IInv
<1> SUFFICES ASSUME Init PROVE IInv
  OBVIOUS
<1>1. Bookkeeping
  <2>1. Waiting(<<>>) = {} /\ <<>> \in Seq(Jobs) /\ DOMAIN <<>> = {}
    BY DEF Waiting
  <2>2. {v \in Workers : current[v] # None} = {}
    BY DEF Init
  <2>3. \A w \in Workers : current[w] \notin Jobs
    BY PoolAssumption DEF Init
  <2>4. QED
    BY <2>1, <2>2, <2>3 DEF Init, Bookkeeping, Coherent, Outcome
<1>2. QED
  BY <1>1 DEF Init, IInv, Typed, QueueIsServed, AnswersMatch, OneAnswer, PhaseOK

(* It entails the invariants of the model. *)
LEMMA IInvSuffices ==
  IInv => /\ TypeOK /\ Accounted /\ QueueIsServed /\ InFlightIsTimed
          /\ AnswersMatch /\ QueueIsTail /\ ClosedIsSettled
<1> SUFFICES ASSUME IInv
             PROVE  /\ TypeOK /\ Accounted /\ QueueIsServed /\ InFlightIsTimed
                    /\ AnswersMatch /\ QueueIsTail /\ ClosedIsSettled
  OBVIOUS
<1> USE DEF IInv, Bookkeeping
<1>1. DOMAIN queue = 1 .. Len(queue) /\ Len(queue) \in Nat
  BY DEF Coherent
<1>2. TypeOK
  <2>1. timers \subseteq Timer
    BY TimedIsInFlight
  <2>2. QED
    BY <2>1 DEF TypeOK, Typed, Coherent, Outcome
<1>3. Accounted
  <2>1. \A j \in Jobs :
          outcome[j] = "pending" <=> j \in {current[w] : w \in InFlight} \cup Waiting(queue)
    BY PoolAssumption DEF Coherent, InFlight
  <2>2. \A i, k \in DOMAIN queue : queue[i] \in Jobs /\ (queue[i] = queue[k] => i = k)
    <3>1. \A i \in DOMAIN queue : queue[i] \in Jobs
      BY <1>1 DEF Coherent
    <3>2. \A i, k \in DOMAIN queue : i < k => queue[i] < queue[k]
      BY DEF Coherent
    <3>3. Jobs \subseteq Int
      BY PoolAssumption DEF Jobs
    <3>4. \A i, k \in DOMAIN queue : i # k => queue[i] # queue[k]
      <4>1. SUFFICES ASSUME NEW i \in DOMAIN queue, NEW k \in DOMAIN queue, i # k
                     PROVE  queue[i] # queue[k]
        OBVIOUS
      <4>2. queue[i] \in Int /\ queue[k] \in Int
        BY <3>1, <3>3
      <4>3. i < k \/ k < i
        BY <1>1, <4>1
      <4>4. QED
        BY <3>2, <4>2, <4>3
    <3>5. QED
      BY <3>1, <3>4
  <2>3. QED
    BY <2>1, <2>2 DEF Accounted, Coherent, InFlight
<1>4. InFlightIsTimed
  BY DEF InFlightIsTimed, InFlight, Coherent
<1>5. QueueIsTail
  BY DEF QueueIsTail, Coherent
<1>6. ClosedIsSettled
  <2>1. SUFFICES ASSUME phase = "closed" PROVE \A j \in Jobs : outcome[j] # "pending"
    BY DEF ClosedIsSettled
  <2>2. live = {} /\ queue = <<>>
    BY <2>1 DEF PhaseOK, QueueIsServed
  <2>3. Waiting(queue) = {} /\ \A w \in Workers : current[w] \notin Jobs
    BY <2>2, PoolAssumption DEF Waiting, Coherent
  <2>4. QED
    BY <2>3 DEF Coherent
<1>7. QED
  BY <1>2, <1>3, <1>4, <1>5, <1>6

-----------------------------------------------------------------------------
(* The steps.  Each takes the invariant to the invariant, and what has     *)
(* settled stays as it is.                                                 *)

StaysSettled == \A j \in Jobs : outcome[j] \in Settled => outcome'[j] = outcome[j]

(* Retiring slot w from a callback that only let go of what w was doing. *)
LEMMA RetiresStep ==
  ASSUME IInv, NEW w \in Workers, NEW armed,
         {t \in timers : t.slot # w} \subseteq armed, armed \subseteq timers,
         w \notin live => armed = timers,
         Retires(w, armed)
  PROVE  /\ Bookkeeping' /\ QueueIsServed' /\ StaysSettled
         /\ live' \subseteq live
         /\ \A v \in live' : current'[v] = current[v]
<1> USE DEF IInv, Bookkeeping
<1>1. CASE w \notin live
  BY <1>1 DEF Retires, StaysSettled, QueueIsServed, InFlight
<1>2. CASE w \in live
  <2> DEFINE S == Freed(w)
  <2>1. retire(w, S, queue, outcome, armed)
    BY <1>2 DEF Retires
  <2>2. /\ outcome \in [Jobs -> Outcome]
        /\ current \in [Workers -> Jobs \cup {None}]
    BY DEF Coherent
  <2>3. \A t \in timers : t \in Timer /\ t.job = current[t.slot] /\ outcome[t.job] = "pending"
    BY TimedIsInFlight
  <2>4. Coherent(live, [current EXCEPT ![w] = None], queue, {t \in armed : t.job \notin S},
                 settleOnMainThread(S, outcome))
    <3>1. CASE current[w] = None
      <4>1. S = {}
        BY <3>1 DEF Freed
      <4>2. [current EXCEPT ![w] = None] = current
        BY <2>2, <3>1
      <4>3. settleOnMainThread(S, outcome) = outcome
        BY <2>2, <4>1 DEF settleOnMainThread
      <4>4. armed = timers
        <5>1. \A t \in timers : t.slot # w
          BY <2>3, <3>1, PoolAssumption DEF Timer
        <5>2. QED
          BY <5>1
      <4>5. QED
        BY <4>1, <4>2, <4>3, <4>4
    <3>2. CASE current[w] # None
      <4>1. S = {current[w]} /\ current[w] \in Jobs
        BY <2>2, <3>2 DEF Freed
      <4>2. {t \in armed : t.job \notin S} = {t \in timers : t.job # current[w]}
        BY <2>3, <4>1
      <4>3. Coherent(live, [current EXCEPT ![w] = None], queue,
                     {t \in timers : t.job # current[w]}, settleOnMainThread(S, outcome))
        <5> DEFINE done2 == settleOnMainThread(S, outcome)
        <5>1. /\ done2 \in [Jobs -> Outcome]
              /\ done2[current[w]] \in Settled
              /\ \A j \in Jobs \ {current[w]} : done2[j] = outcome[j]
          BY <2>2, <4>1, MainThreadSettles
        <5>2. Coherent(live, current, queue, timers, outcome)
          OBVIOUS
        <5>3. QED
          BY ONLY <3>2, <5>1, <5>2, w \in Workers, SettleInFlight
      <4>4. QED
        BY <4>2, <4>3
    <3>3. QED
      BY <3>1, <3>2
  <2>5. queue # <<>> => live \subseteq InFlight \cup {w}
    BY DEF QueueIsServed
  <2>6. Bookkeeping' /\ QueueIsServed' /\ live' = live \ {w}
        /\ current' = [current EXCEPT ![w] = None]
    BY <1>2, <2>1, <2>2, <2>4, <2>5, RetireStep
  <2>7. StaysSettled
    <3>1. \A j \in S \cup Waiting(queue) : outcome[j] = "pending"
      BY WaitingType DEF Coherent, Freed
    <3>2. \E moved \in SUBSET (S \cup Waiting(queue)) : outcome' = settleOnMainThread(moved, outcome)
      BY <2>1 DEF retire
    <3>3. QED
      BY <2>2, <3>1, <3>2 DEF StaysSettled, settleOnMainThread, Settled
  <2>8. QED
    BY <2>2, <2>6, <2>7
<1>3. QED
  BY <1>1, <1>2

(* The answers in the mail keep matching when slots die and no slot that   *)
(* lives on changes its job.                                               *)
LEMMA AnswersKept ==
  ASSUME IInv, requests' \subseteq requests, mail' \subseteq mail,
         live' \subseteq live, \A v \in live' : current'[v] = current[v]
  PROVE  AnswersMatch' /\ OneAnswer'
  BY DEF IInv, AnswersMatch, OneAnswer

(* A reported death retires the slot. *)
LEMMA DeathReportedStep ==
  ASSUME IInv, NEW w \in Workers, DeathReported(w)
  PROVE  IInv' /\ StaysSettled
<1>1. /\ Bookkeeping' /\ QueueIsServed' /\ StaysSettled
      /\ live' \subseteq live /\ \A v \in live' : current'[v] = current[v]
  BY RetiresStep DEF DeathReported
<1>2. AnswersMatch' /\ OneAnswer'
  BY <1>1, AnswersKept DEF DeathReported
<1>3. Typed' /\ PhaseOK'
  BY <1>1 DEF IInv, Typed, PhaseOK, DeathReported
<1>4. QED
  BY <1>1, <1>2, <1>3 DEF IInv

(* A timeout retires the slot. *)
LEMMA TimeOutStep ==
  ASSUME IInv, NEW t \in timers, TimeOut(t)
  PROVE  IInv' /\ StaysSettled
<1>1. t \in Timer /\ current[t.slot] = t.job
  BY TimedIsInFlight DEF IInv, Bookkeeping
<1>2. t.slot \in Workers /\ t.slot \in live
  BY <1>1, PoolAssumption DEF IInv, Bookkeeping, Coherent, Timer
<1>3. /\ Bookkeeping' /\ QueueIsServed' /\ StaysSettled
      /\ live' \subseteq live /\ \A v \in live' : current'[v] = current[v]
  BY <1>2, RetiresStep DEF TimeOut
<1>4. AnswersMatch' /\ OneAnswer'
  BY <1>3, AnswersKept DEF TimeOut, workers
<1>5. Typed' /\ PhaseOK'
  BY <1>3 DEF IInv, Typed, PhaseOK, TimeOut, workers
<1>6. QED
  BY <1>3, <1>4, <1>5 DEF IInv

(* A worker's handshake touches neither slots nor jobs. *)
LEMMA HandshakeStep ==
  ASSUME IInv, NEW w \in Workers, NEW result \in {"ready", "absent"}, Handshake(w, result)
  PROVE  IInv' /\ StaysSettled
<1>1. Bookkeeping' /\ QueueIsServed' /\ StaysSettled
  BY DEF IInv, Bookkeeping, QueueIsServed, InFlight, StaysSettled, Handshake, slots
<1>2. AnswersMatch' /\ OneAnswer' /\ PhaseOK' /\ Typed'
  BY DEF IInv, AnswersMatch, OneAnswer, PhaseOK, Typed, Handshake, slots, workers
<1>3. QED
  BY <1>1, <1>2 DEF IInv

(* The pool opens with idle slots and an empty queue. *)
LEMMA OpenStep ==
  ASSUME IInv, Open
  PROVE  IInv' /\ StaysSettled
<1> USE DEF IInv, Open, workers
<1>1. live = {} /\ requests = {} /\ mail = {} /\ queue = <<>>
  BY DEF PhaseOK, QueueIsServed
<1>2. Bookkeeping'
  <2>1. \A w \in Workers : current[w] = None
    BY <1>1 DEF Bookkeeping, Coherent
  <2>2. live' \subseteq Workers
    OBVIOUS
  <2>3. QED
    BY <2>1, <2>2 DEF Bookkeeping, Coherent
<1>3. QueueIsServed' /\ StaysSettled
  BY <1>1 DEF QueueIsServed, StaysSettled
<1>4. AnswersMatch' /\ OneAnswer' /\ PhaseOK' /\ Typed'
  BY <1>1 DEF AnswersMatch, OneAnswer, PhaseOK, Typed
<1>5. QED
  BY <1>2, <1>3, <1>4

(* An answer takes the place of the request it answers. *)
LEMMA WorkerAnswersStep ==
  ASSUME IInv, NEW r \in requests, NEW kind \in {"result", "job-error"}, WorkerAnswers(r, kind)
  PROVE  IInv' /\ StaysSettled
<1> DEFINE m == [from |-> r.to, id |-> r.job, kind |-> kind]
<1>1. Bookkeeping' /\ QueueIsServed' /\ StaysSettled
  BY DEF IInv, Bookkeeping, QueueIsServed, InFlight, StaysSettled, WorkerAnswers, slots
<1>2. r \in Request /\ m \in Answer
  BY DEF IInv, Typed, Request, Answer
<1>3. AnswersMatch'
  <2>1. ASSUME NEW w \in live, NEW s \in requests, s.to = w, s # r
        PROVE  s.to # r.to
    <3>1. SUFFICES ASSUME s.to = r.to PROVE FALSE
      OBVIOUS
    <3>2. s.job = current[w] /\ r.job = current[w] /\ s \in Request /\ r \in Request
      BY <2>1, <3>1 DEF IInv, AnswersMatch, Typed
    <3>3. QED
      BY <2>1, <3>1, <3>2 DEF Request
  <2>2. live' = live /\ current' = current
    BY DEF WorkerAnswers, slots
  <2>3. mail' = mail \cup {m} /\ requests' = requests \ {r}
    BY DEF WorkerAnswers
  <2>4. SUFFICES ASSUME NEW w \in live
                 PROVE  /\ \A s \in requests \ {r} : s.to = w => s.job = current[w]
                        /\ \A n \in mail \cup {m} : n.from = w => n.id = current[w]
                        /\ \A s \in requests \ {r}, n \in mail \cup {m} : s.to = w => n.from # w
    BY <2>2, <2>3 DEF AnswersMatch
  <2>5. QED
    BY <2>1, <2>4 DEF IInv, AnswersMatch
<1>4. OneAnswer'
  BY DEF IInv, AnswersMatch, OneAnswer, WorkerAnswers, slots
<1>5. PhaseOK' /\ Typed'
  BY <1>2 DEF IInv, PhaseOK, Typed, WorkerAnswers, slots
<1>6. QED
  BY <1>1, <1>3, <1>4, <1>5 DEF IInv

(* A worker's death is nothing until it is reported. *)
LEMMA WorkerDiesStep ==
  ASSUME IInv, NEW w \in Workers, NEW reported \in BOOLEAN, WorkerDies(w, reported)
  PROVE  IInv' /\ StaysSettled
<1>1. Bookkeeping' /\ QueueIsServed' /\ StaysSettled
  BY DEF IInv, Bookkeeping, QueueIsServed, InFlight, StaysSettled, WorkerDies, slots
<1>2. AnswersMatch' /\ OneAnswer' /\ PhaseOK' /\ Typed'
  BY DEF IInv, AnswersMatch, OneAnswer, PhaseOK, Typed, WorkerDies, slots
<1>3. QED
  BY <1>1, <1>2 DEF IInv

(* Closing settles every pending job and kills every slot. *)
LEMMA CloseStep ==
  ASSUME IInv, Close
  PROVE  IInv' /\ StaysSettled
<1> USE DEF IInv, Bookkeeping
<1> DEFINE moved == (UNION {Freed(w) : w \in live}) \cup Waiting(queue)
<1>1. /\ outcome' = settleOnMainThread(moved, outcome)
      /\ timers' = {t \in timers : t.job \notin moved}
      /\ live' = {} /\ queue' = <<>>
      /\ current' = [w \in Workers |-> IF w \in live THEN None ELSE current[w]]
  BY DEF Close
<1>2. \A j \in Jobs : outcome[j] = "pending" <=> j \in moved
  <2>1. \A j \in Jobs : j \in moved <=> (\E w \in live : current[w] = j) \/ j \in Waiting(queue)
    <3>1. \A w \in live, j \in Jobs : j \in Freed(w) <=> current[w] = j
      BY PoolAssumption DEF Freed
    <3>2. \A j : j \in (UNION {Freed(w) : w \in live}) <=> \E w \in live : j \in Freed(w)
      BY Zenon
    <3>3. \A j : j \in moved <=> j \in (UNION {Freed(w) : w \in live}) \/ j \in Waiting(queue)
      BY Zenon
    <3>4. QED
      BY ONLY <3>1, <3>2, <3>3
  <2>2. \A j \in Jobs : (\E w \in live : current[w] = j) <=> (\E w \in Workers : current[w] = j)
    BY PoolAssumption DEF Coherent
  <2>3. QED
    BY <2>1, <2>2 DEF Coherent
<1>3. /\ outcome \in [Jobs -> Outcome] /\ outcome' \in [Jobs -> Outcome]
      /\ \A j \in Jobs : IF outcome[j] = "pending" THEN outcome'[j] \in Settled
                                                   ELSE outcome'[j] = outcome[j]
  BY <1>1, <1>2, MainThreadSettles DEF Coherent
<1>4. timers' = {} /\ \A w \in Workers : current'[w] = None
  <2>1. \A t \in timers : t \in Timer /\ outcome[t.job] = "pending"
    BY TimedIsInFlight
  <2>2. QED
    BY <1>1, <1>2, <2>1 DEF Coherent, Timer
<1>5. Bookkeeping'
  <2>1. Waiting(<<>>) = {} /\ <<>> \in Seq(Jobs) /\ DOMAIN <<>> = {}
    BY DEF Waiting
  <2>2. current' \in [Workers -> Jobs \cup {None}]
    BY <1>1 DEF Coherent
  <2>3. \A j \in Jobs : outcome'[j] # "pending" /\ (outcome'[j] = "new" <=> outcome[j] = "new")
    BY <1>3 DEF Settled
  <2>4. \A w \in Workers : current'[w] \notin Jobs
    BY <1>4, PoolAssumption
  <2>5. {[slot |-> w, job |-> current'[w]] : w \in {v \in Workers : current'[v] # None}} = {}
    BY <1>4
  <2>6. \A i, j \in Jobs : i < j /\ outcome'[i] = "new" => outcome'[j] = "new"
    BY <2>3 DEF Coherent
  <2>7. Coherent(live', current', <<>>, timers', outcome')
    <3>1. live' \subseteq Workers /\ \A w \in Workers : current'[w] # None => w \in live'
      BY <1>1, <1>4
    <3>2. \A j \in Jobs :
            outcome'[j] = "pending" <=> (\E w \in Workers : current'[w] = j) \/ j \in Waiting(<<>>)
      BY <2>1, <2>3, <2>4
    <3>3. QED
      BY ONLY <1>3, <1>4, <2>1, <2>2, <2>5, <2>6, <3>1, <3>2 DEF Coherent
  <2>8. QED
    BY <1>1, <2>7
<1>6. StaysSettled
  BY <1>3 DEF StaysSettled, Settled
<1>7. QueueIsServed' /\ AnswersMatch' /\ OneAnswer' /\ PhaseOK' /\ Typed'
  BY <1>1 DEF QueueIsServed, AnswersMatch, OneAnswer, PhaseOK, Typed, Close, workers
<1>8. QED
  BY <1>5, <1>6, <1>7

(* Once slot w is posted a job, the answers in the mail still match if     *)
(* nothing was under way between the pool and w.                           *)
LEMMA AnswersPosted ==
  ASSUME IInv, NEW w \in live, NEW j \in Jobs, NEW M, M \subseteq mail,
         \A r \in requests : r.to # w, \A m \in M : m.from # w,
         requests' = requests \cup {[to |-> w, job |-> j]}, mail' = M,
         live' = live, current' = [current EXCEPT ![w] = j]
  PROVE  AnswersMatch' /\ OneAnswer'
<1>1. \A v \in Workers : current'[v] = IF v = w THEN j ELSE current[v]
  BY DEF IInv, Bookkeeping, Coherent
<1>2. live \subseteq Workers
  BY DEF IInv, Bookkeeping, Coherent
<1>3. AnswersMatch'
  BY <1>1, <1>2 DEF IInv, AnswersMatch
<1>4. OneAnswer'
  BY DEF IInv, OneAnswer
<1>5. QED
  BY <1>3, <1>4

(* A new job settles at once, is dispatched, or queues behind the others. *)
LEMMA SubmitStep ==
  ASSUME IInv, NEW j \in Jobs, Submit(j)
  PROVE  IInv' /\ StaysSettled
<1> USE DEF IInv, Bookkeeping
<1> DEFINE done == [outcome EXCEPT ![j] = "pending"]
<1>1. /\ outcome[j] = "new" /\ \A i \in 1 .. j - 1 : outcome[i] # "new"
      /\ phase' = phase /\ handshake' = handshake /\ mail' = mail
      /\ failed' = failed /\ reports' = reports
      /\ phase # "spawning"
  BY DEF Submit
<1>2. /\ outcome \in [Jobs -> Outcome] /\ done \in [Jobs -> Outcome]
      /\ current \in [Workers -> Jobs \cup {None}]
      /\ live \subseteq Workers
  BY DEF Coherent, Outcome
<1>3. CASE /\ phase = "closed" \/ live = {}
           /\ outcome' = settleOnMainThread({j}, outcome)
           /\ UNCHANGED <<live, current, queue, timers, requests>>
  <2>1. live = {} /\ queue = <<>>
    BY <1>3 DEF PhaseOK, QueueIsServed
  <2>2. /\ outcome' \in [Jobs -> Outcome] /\ outcome'[j] \in Settled
        /\ \A k \in Jobs \ {j} : outcome'[k] = outcome[k]
    BY <1>2, <1>3, MainThreadSettles
  <2>3. Coherent(live, current, <<>>, timers, outcome')
    BY <1>1, <2>1, <2>2, SettleNext
  <2>4. StaysSettled
    BY <1>1, <2>2 DEF StaysSettled, Settled
  <2>5. QED
    BY <1>1, <1>3, <2>1, <2>3, <2>4
       DEF QueueIsServed, AnswersMatch, OneAnswer, PhaseOK, Typed
<1>4. CASE /\ phase = "open" /\ Idle # {}
           /\ dispatch(First(Idle), j, queue, done, timers)
  <2> DEFINE w == First(Idle)
  <2>1. w \in live /\ current[w] = None
    <3>1. Idle \subseteq Nat /\ Idle # {}
      BY <1>2, <1>4, PoolAssumption DEF Idle
    <3>2. \E x \in Idle : \A v \in Idle : x <= v
      <4>1. PICK x \in Idle : TRUE
        BY <3>1
      <4> QED
        BY <3>1, LeastNat
    <3>3. w \in Idle
      BY <3>2 DEF First
    <3>4. QED
      BY <3>3 DEF Idle
  <2> HIDE DEF w
  <2>2. queue = <<>>
    BY <1>2, <2>1 DEF QueueIsServed, InFlight
  <2>3. \A r \in requests : r.to # w
    BY <2>1, PoolAssumption DEF AnswersMatch, Typed, Request
  <2>4. \A m \in mail : m.from # w
    BY <2>1, PoolAssumption DEF AnswersMatch, Typed, Answer
  <2>5. CASE /\ current' = [current EXCEPT ![w] = j]
             /\ timers' = timers \cup {[slot |-> w, job |-> j]}
             /\ requests' = requests \cup {[to |-> w, job |-> j]}
             /\ queue' = queue /\ outcome' = done /\ UNCHANGED live
    <3>1. Bookkeeping'
      BY <1>1, <2>1, <2>2, <2>5, DispatchNext
    <3>2. AnswersMatch' /\ OneAnswer'
      BY <1>1, <2>1, <2>3, <2>4, <2>5, AnswersPosted
    <3>3. requests' \subseteq Request
      BY <1>2, <2>1, <2>5 DEF Typed, Request
    <3>4. QueueIsServed' /\ PhaseOK' /\ Typed'
      BY <1>1, <2>2, <2>5, <3>3 DEF QueueIsServed, PhaseOK, Typed
    <3>5. StaysSettled
      BY <1>1, <1>2, <2>5 DEF StaysSettled, Settled
    <3>6. QED
      BY <3>1, <3>2, <3>4, <3>5
  <2>6. CASE retire(w, {j}, queue, done, timers) /\ UNCHANGED requests
    <3>1. /\ settleOnMainThread({j}, done) \in [Jobs -> Outcome]
          /\ settleOnMainThread({j}, done)[j] \in Settled
          /\ \A k \in Jobs \ {j} : settleOnMainThread({j}, done)[k] = outcome[k]
      <4>1. \A k \in Jobs : k # j => done[k] = outcome[k]
        BY <1>2
      <4>2. done \in [Jobs -> Outcome]
        BY <1>2
      <4> HIDE DEF done
      <4>3. QED
        BY <4>1, <4>2, MainThreadSettles
    <3>2. Coherent(live, current, <<>>, timers, settleOnMainThread({j}, done))
      BY <1>1, <2>2, <3>1, SettleNext
    <3>3. [current EXCEPT ![w] = None] = current
      BY <1>2, <2>1
    <3>4. {t \in timers : t.job \notin {j}} = timers
      BY <1>1, TimedIsInFlight
    <3>5. /\ Bookkeeping' /\ QueueIsServed'
          /\ live' = live \ {w} /\ current' = [current EXCEPT ![w] = None]
      <4>1. Coherent(live, [current EXCEPT ![w] = None], queue,
                     {t \in timers : t.job \notin {j}}, settleOnMainThread({j}, done))
        BY <2>2, <3>2, <3>3, <3>4
      <4>2. w \in Workers /\ w \in live /\ retire(w, {j}, queue, done, timers)
        BY <1>2, <2>1, <2>6
      <4>3. queue # <<>> => live \subseteq InFlight \cup {w}
        BY <2>2
      <4>4. QED
        BY <1>2, <4>1, <4>2, <4>3, RetireStep
    <3>6. AnswersMatch' /\ OneAnswer'
      BY <1>1, <2>6, <3>3, <3>5, AnswersKept
    <3>7. PhaseOK' /\ Typed'
      BY <1>1, <2>6, <3>5 DEF PhaseOK, Typed
    <3>8. StaysSettled
      <4>1. Waiting(queue) = {}
        BY <2>2 DEF Waiting
      <4>2. outcome' = settleOnMainThread({j}, done)
        BY <2>6, <4>1 DEF retire
      <4>3. QED
        BY <1>1, <3>1, <4>2 DEF StaysSettled, Settled
    <3>9. QED
      BY <3>5, <3>6, <3>7, <3>8
  <2>7. QED
    BY <1>4, <2>5, <2>6 DEF dispatch, w
<1>5. CASE /\ phase = "open" /\ live # {} /\ Idle = {}
           /\ queue' = pushed(j) /\ outcome' = done
           /\ UNCHANGED <<live, current, timers, requests>>
  <2>1. Bookkeeping'
    BY <1>1, <1>5, Enqueue DEF pushed
  <2>2. QueueIsServed'
    BY <1>2, <1>5 DEF QueueIsServed, Idle, InFlight
  <2>3. AnswersMatch' /\ OneAnswer' /\ PhaseOK' /\ Typed'
    BY <1>1, <1>5 DEF AnswersMatch, OneAnswer, PhaseOK, Typed
  <2>4. StaysSettled
    BY <1>1, <1>2, <1>5 DEF StaysSettled, Settled
  <2>5. QED
    BY <2>1, <2>2, <2>3, <2>4
<1>6. QED
  BY <1>3, <1>4, <1>5 DEF Submit

(* An answer settles the job in flight and pumps the queue, or is dropped. *)
LEMMA MessageStep ==
  ASSUME IInv, NEW m \in mail, Message(m)
  PROVE  IInv' /\ StaysSettled
<1> USE DEF IInv, Bookkeeping
<1> DEFINE w == m.from
           cur == [current EXCEPT ![w] = None]
           done == IF m.kind = "result" THEN [outcome EXCEPT ![m.id] = "worker"]
                                        ELSE settleOnMainThread({m.id}, outcome)
           armed == {t \in timers : t.job # m.id}
<1>1. /\ m \in Answer /\ w \in Workers /\ m.id \in Jobs /\ m.id # None
      /\ mail' = mail \ {m}
      /\ phase' = phase /\ handshake' = handshake /\ failed' = failed /\ reports' = reports
  BY PoolAssumption DEF Typed, Answer, Message
<1>2. /\ outcome \in [Jobs -> Outcome]
      /\ current \in [Workers -> Jobs \cup {None}]
      /\ live \subseteq Workers
  BY DEF Coherent
<1>3. CASE ~expected(m) /\ UNCHANGED <<slots, requests>>
  <2>1. Bookkeeping' /\ QueueIsServed' /\ StaysSettled
    BY <1>3 DEF QueueIsServed, InFlight, StaysSettled, slots
  <2>2. AnswersMatch' /\ OneAnswer'
    BY <1>1, <1>3, AnswersKept DEF slots
  <2>3. PhaseOK' /\ Typed'
    BY <1>1, <1>3 DEF PhaseOK, Typed, slots
  <2>4. QED
    BY <2>1, <2>2, <2>3
<1>4. ASSUME expected(m)
      PROVE  /\ Coherent(live, cur, queue, armed, done)
             /\ current[w] = m.id /\ w \in live
             /\ outcome[m.id] = "pending"
             /\ done \in [Jobs -> Outcome]
             /\ \A j \in Jobs : j # m.id => done[j] = outcome[j]
  <2>1. current[w] = m.id
    BY <1>4 DEF expected
  <2>2. w \in live /\ outcome[m.id] = "pending"
    BY <1>1, <2>1 DEF Coherent
  <2>3. /\ done \in [Jobs -> Outcome] /\ done[m.id] \in Settled
        /\ \A j \in Jobs : j # m.id => done[j] = outcome[j]
    <3>1. CASE m.kind = "result"
      BY <1>1, <1>2, <3>1 DEF Outcome, Settled
    <3>2. CASE m.kind # "result"
      <4>1. done = settleOnMainThread({m.id}, outcome)
        BY <3>2
      <4>2. QED
        BY <1>1, <1>2, <4>1, MainThreadSettles
    <3>3. QED
      BY <3>1, <3>2
  <2> HIDE DEF done
  <2>4. Coherent(live, cur, queue, armed, done)
    BY <1>1, <2>1, <2>3, SettleInFlight, Z3
  <2>5. QED
    BY <2>1, <2>2, <2>3, <2>4
<1> HIDE DEF done
<1>5. CASE /\ expected(m)
           /\ w \notin live \/ queue = <<>>
           /\ current' = cur /\ outcome' = done /\ timers' = armed
           /\ UNCHANGED <<live, queue, requests>>
  <2>1. Bookkeeping'
    BY <1>4, <1>5
  <2>2. queue = <<>>
    BY <1>4, <1>5
  <2>3. AnswersMatch'
    <3>1. \A n \in mail \ {m} : n.from # w
      BY <1>4, <1>5 DEF OneAnswer
    <3>2. \A r \in requests : r.to # w
      BY <1>4, <1>5 DEF AnswersMatch
    <3>3. \A v \in live : v # w => current'[v] = current[v]
      BY <1>2, <1>5
    <3>4. QED
      BY <1>1, <1>5, <3>1, <3>2, <3>3 DEF AnswersMatch
  <2>4. QueueIsServed' /\ OneAnswer' /\ PhaseOK' /\ Typed'
    BY <1>1, <1>5, <2>2 DEF QueueIsServed, OneAnswer, PhaseOK, Typed
  <2>5. StaysSettled
    BY <1>4, <1>5 DEF StaysSettled, Settled
  <2>6. QED
    BY <2>1, <2>3, <2>4, <2>5
<1>6. CASE /\ expected(m)
           /\ w \in live /\ queue # <<>>
           /\ dispatch(w, Head(queue), Tail(queue), done, armed)
  <2> DEFINE j == Head(queue)
  <2>1. /\ Coherent(live, cur, queue, armed, done)
        /\ current[w] = m.id /\ outcome[m.id] = "pending"
        /\ done \in [Jobs -> Outcome]
        /\ \A k \in Jobs : k # m.id => done[k] = outcome[k]
    BY <1>4, <1>6
  <2>2. /\ j \in Jobs /\ j \in Waiting(queue) /\ Tail(queue) \in Seq(Jobs)
        /\ Waiting(Tail(queue)) \subseteq Waiting(queue)
    BY <1>6, WaitingShift DEF Coherent
  <2>3. live \subseteq InFlight
    BY <1>6 DEF QueueIsServed
  <2>4. cur[w] = None
    BY <1>1, <1>2
  <2>5. \A k \in Jobs : outcome[k] \in Settled => k # m.id /\ k \notin Waiting(queue)
    BY <2>1 DEF Coherent, Settled
  <2>6. CASE /\ current' = [current EXCEPT ![w] = j]
             /\ timers' = armed \cup {[slot |-> w, job |-> j]}
             /\ requests' = requests \cup {[to |-> w, job |-> j]}
             /\ queue' = Tail(queue) /\ outcome' = done /\ UNCHANGED live
    <3>1. current' = [cur EXCEPT ![w] = j]
      BY <1>2, <2>6
    <3>2. Coherent(live, [cur EXCEPT ![w] = j], Tail(queue),
                   armed \cup {[slot |-> w, job |-> j]}, done)
      BY <1>6, <2>1, <2>4, DispatchOldest
    <3>3. Bookkeeping'
      BY <2>6, <3>1, <3>2
    <3>4. QueueIsServed'
      <4>1. \A v \in live : current'[v] # None
        BY <1>2, <2>2, <2>3, <2>6, PoolAssumption DEF InFlight
      <4>2. QED
        BY <1>2, <1>6, <2>6, <4>1 DEF QueueIsServed, InFlight
    <3>5. AnswersMatch' /\ OneAnswer'
      <4>1. \A n \in mail \ {m} : n.from # w
        BY <1>6 DEF OneAnswer
      <4>2. \A r \in requests : r.to # w
        BY <1>6 DEF AnswersMatch
      <4>3. QED
        BY <1>1, <1>6, <2>2, <2>6, <4>1, <4>2, AnswersPosted
    <3>6. requests' \subseteq Request
      BY <1>1, <2>2, <2>6 DEF Typed, Request
    <3>7. PhaseOK' /\ Typed'
      BY <1>1, <1>6, <2>6, <3>6 DEF PhaseOK, Typed
    <3>8. StaysSettled
      BY <2>1, <2>5, <2>6 DEF StaysSettled
    <3>9. QED
      BY <3>3, <3>4, <3>5, <3>7, <3>8
  <2>7. CASE retire(w, {j}, Tail(queue), done, armed) /\ UNCHANGED requests
    <3> DEFINE done2 == settleOnMainThread({j}, done)
    <3>1. /\ done2 \in [Jobs -> Outcome] /\ done2[j] \in Settled
          /\ \A k \in Jobs \ {j} : done2[k] = done[k]
      BY <2>1, <2>2, MainThreadSettles
    <3>2. Coherent(live, cur, Tail(queue), armed, done2)
      <4> HIDE DEF done2
      <4>1. QED
        BY <1>6, <2>1, <3>1, SettleOldest
    <3>3. {t \in armed : t.job \notin {j}} = armed
      BY <2>1, <2>2, TimedIsInFlight
    <3>4. /\ Bookkeeping' /\ QueueIsServed'
          /\ live' = live \ {w} /\ current' = [current EXCEPT ![w] = None]
      <4>1. Coherent(live, [current EXCEPT ![w] = None], Tail(queue),
                     {t \in armed : t.job \notin {j}}, settleOnMainThread({j}, done))
        BY <3>2, <3>3
      <4>2. Tail(queue) # <<>> => live \subseteq InFlight \cup {w}
        BY <2>3
      <4>3. QED
        BY <1>1, <1>2, <1>6, <2>1, <2>7, <4>1, <4>2, RetireStep
    <3>5. AnswersMatch' /\ OneAnswer'
      <4>1. \A v \in live' : current'[v] = current[v]
        BY <1>2, <3>4
      <4>2. QED
        BY <1>1, <2>7, <3>4, <4>1, AnswersKept
    <3>6. PhaseOK' /\ Typed'
      BY <1>1, <2>7, <3>4 DEF PhaseOK, Typed
    <3>7. StaysSettled
      <4>1. \E moved \in SUBSET Waiting(queue) : outcome' = settleOnMainThread(moved, done)
        <5>1. {j} \cup Waiting(Tail(queue)) \in SUBSET Waiting(queue) /\ {j} \in SUBSET Waiting(queue)
          BY <2>2
        <5>2. \/ outcome' = settleOnMainThread({j} \cup Waiting(Tail(queue)), done)
              \/ outcome' = settleOnMainThread({j} \cup {}, done)
          BY <2>7 DEF retire
        <5>3. {j} \cup {} = {j}
          OBVIOUS
        <5>4. QED
          BY <5>1, <5>2, <5>3
      <4>2. QED
        BY <2>1, <2>5, <4>1, MainThreadSettles DEF StaysSettled
    <3>8. QED
      BY <3>4, <3>5, <3>6, <3>7
  <2>8. QED
    BY <1>6, <2>6, <2>7 DEF dispatch
<1>7. QED
  BY <1>3, <1>5, <1>6 DEF Message, done

-----------------------------------------------------------------------------
(* Every step. *)
LEMMA NextIInv == IInv /\ [Next]_vars => IInv' /\ (StaysSettled \/ UNCHANGED vars)
<1> SUFFICES ASSUME IInv, [Next]_vars
             PROVE  IInv' /\ (StaysSettled \/ UNCHANGED vars)
  OBVIOUS
<1>1. ASSUME NEW w \in Workers, NEW result \in {"ready", "absent"}, Handshake(w, result)
      PROVE  IInv' /\ StaysSettled
  BY <1>1, HandshakeStep
<1>2. CASE Open
  BY <1>2, OpenStep
<1>3. ASSUME NEW j \in Jobs, Submit(j) PROVE IInv' /\ StaysSettled
  BY <1>3, SubmitStep
<1>4. ASSUME NEW r \in requests, NEW kind \in {"result", "job-error"}, WorkerAnswers(r, kind)
      PROVE  IInv' /\ StaysSettled
  BY <1>4, WorkerAnswersStep
<1>5. ASSUME NEW w \in Workers, NEW reported \in BOOLEAN, WorkerDies(w, reported)
      PROVE  IInv' /\ StaysSettled
  BY <1>5, WorkerDiesStep
<1>6. ASSUME NEW m \in mail, Message(m) PROVE IInv' /\ StaysSettled
  BY <1>6, MessageStep
<1>7. ASSUME NEW w \in Workers, DeathReported(w) PROVE IInv' /\ StaysSettled
  BY <1>7, DeathReportedStep
<1>8. ASSUME NEW t \in timers, TimeOut(t) PROVE IInv' /\ StaysSettled
  BY <1>8, TimeOutStep
<1>9. CASE Close
  BY <1>9, CloseStep
<1>10. CASE UNCHANGED vars
  BY <1>10 DEF vars, slots, workers, IInv, Typed, Bookkeeping, QueueIsServed, InFlight,
               AnswersMatch, OneAnswer, PhaseOK
<1>11. QED
  BY <1>1, <1>2, <1>3, <1>4, <1>5, <1>6, <1>7, <1>8, <1>9, <1>10 DEF Next

(* However many workers and jobs, and whatever the workers do: the         *)
(* bookkeeping of worker-pool.ts has its types, ...                        *)
THEOREM PoolTypeOK == Spec => []TypeOK
<1>1. IInv => TypeOK
  BY IInvSuffices
<1>2. QED
  BY <1>1, InitIInv, NextIInv, PTL DEF Spec

(* ... no job is lost or done twice: pending means in flight in one slot   *)
(* or queued once, ...                                                     *)
THEOREM JobsAccounted == Spec => []Accounted
<1>1. IInv => Accounted
  BY IInvSuffices
<1>2. QED
  BY <1>1, InitIInv, NextIInv, PTL DEF Spec

(* ... a queued job never waits for a dead or an idle slot, ...            *)
THEOREM QueueServed == Spec => []QueueIsServed
<1>1. IInv => QueueIsServed
  BY IInvSuffices
<1>2. QED
  BY <1>1, InitIInv, NextIInv, PTL DEF Spec

(* ... a timer runs for exactly the jobs in flight, ...                    *)
THEOREM JobsTimed == Spec => []InFlightIsTimed
<1>1. IInv => InFlightIsTimed
  BY IInvSuffices
<1>2. QED
  BY <1>1, InitIInv, NextIInv, PTL DEF Spec

(* ... only a retired worker's answer can be late, ...                     *)
THEOREM NoStrayAnswer == Spec => []AnswersMatch
<1>1. IInv => AnswersMatch
  BY IInvSuffices
<1>2. QED
  BY <1>1, InitIInv, NextIInv, PTL DEF Spec

(* ... jobs are dispatched in the order of their submission, ...           *)
THEOREM DispatchedInOrder == Spec => []QueueIsTail
<1>1. IInv => QueueIsTail
  BY IInvSuffices
<1>2. QED
  BY <1>1, InitIInv, NextIInv, PTL DEF Spec

(* ... close() leaves nothing pending, ...                                 *)
THEOREM CloseSettles == Spec => []ClosedIsSettled
<1>1. IInv => ClosedIsSettled
  BY IInvSuffices
<1>2. QED
  BY <1>1, InitIInv, NextIInv, PTL DEF Spec

(* ... and what has settled stays settled as it is.                        *)
THEOREM SettledStays == Spec => SettledForGood
<1>1. IInv /\ [Next]_vars =>
        [\A j \in Jobs : outcome[j] \in Settled => outcome'[j] = outcome[j]]_vars
  BY NextIInv DEF StaysSettled
<1>2. QED
  BY <1>1, InitIInv, NextIInv, PTL DEF Spec, SettledForGood

-----------------------------------------------------------------------------
(* The pool implements the service planParallel() relies on: every         *)
(* callback is a submission, a settling or a closing, or shows nothing.    *)

(* Settling pending jobs, the answered ones A among them by a worker.      *)
SettledBy(S, A) ==
  [j \in Jobs |-> IF j \in A THEN "worker" ELSE IF j \in S THEN mainThreadJob(j) ELSE outcome[j]]

(* A callback that settles nothing but pending jobs settles for the        *)
(* service.                                                                *)
LEMMA SettlingRefines ==
  ASSUME IInv, NEW S \in SUBSET Jobs, NEW A \in SUBSET S,
         \A j \in S : outcome[j] = "pending",
         outcome' = SettledBy(S, A), phase' = phase
  PROVE  [Service!Next]_(Service!vars)
<1>1. outcome \in [Jobs -> Outcome]
  BY DEF IInv, Bookkeeping, Coherent
<1>2. CASE S = {}
  <2>1. outcome' = outcome
    BY <1>1, <1>2 DEF SettledBy
  <2>2. QED
    BY <2>1 DEF Service!vars
<1>3. CASE S # {}
  <2>1. S \in (SUBSET Service!Pending) \ {{}} /\ A \in SUBSET Service!Pending /\ A \subseteq S
    BY <1>3 DEF Service!Pending
  <2>2. outcome' = [j \in Jobs |-> IF j \in A THEN "worker"
                                   ELSE IF j \in S THEN Service!OnMainThread(j) ELSE outcome[j]]
    BY DEF SettledBy, mainThreadJob, Service!OnMainThread
  <2>3. Service!Settle
    BY <2>1, <2>2 DEF Service!Settle
  <2>4. QED
    BY <2>3 DEF Service!Next
<1>4. QED
  BY <1>2, <1>3

(* A slot that retires settles its job and perhaps the queue. *)
LEMMA RetiringRefines ==
  ASSUME IInv, NEW w \in Workers, NEW armed, Retires(w, armed), phase' = phase
  PROVE  [Service!Next]_(Service!vars)
<1>1. CASE w \notin live
  BY <1>1 DEF Retires, Service!vars
<1>2. CASE w \in live
  <2>1. \A j \in Freed(w) \cup Waiting(queue) : j \in Jobs /\ outcome[j] = "pending"
    BY WaitingType DEF IInv, Bookkeeping, Coherent, Freed
  <2>2. PICK S \in SUBSET (Freed(w) \cup Waiting(queue)) : outcome' = settleOnMainThread(S, outcome)
    BY <1>2 DEF Retires, retire
  <2>3. outcome' = SettledBy(S, {})
    BY <2>2 DEF settleOnMainThread, SettledBy
  <2>4. QED
    BY <2>1, <2>3, SettlingRefines
<1>3. QED
  BY <1>1, <1>2

(* deflate() is the submission of a job. *)
LEMMA SubmitRefines ==
  ASSUME IInv, NEW j \in Jobs, Submit(j)
  PROVE  Service!Submit({j})
<1> DEFINE done == [outcome EXCEPT ![j] = "pending"]
<1>1. outcome[j] = "new" /\ phase' = phase /\ outcome \in [Jobs -> Outcome]
  BY DEF IInv, Bookkeeping, Coherent, Submit
<1>2. ASSUME outcome' = [k \in Jobs |-> IF k = j THEN mainThreadJob(j) ELSE outcome[k]]
      PROVE  Service!Submit({j})
  <2>1. outcome' = [k \in Jobs |-> IF k \in {j} THEN Service!OnMainThread(k)
                                   ELSE IF k \in {j} THEN "pending" ELSE outcome[k]]
    BY <1>2 DEF mainThreadJob, Service!OnMainThread
  <2>2. QED
    BY <1>1, <2>1 DEF Service!Submit
<1>3. ASSUME outcome' = done, phase # "closed"
      PROVE  Service!Submit({j})
  <2>1. outcome' = [k \in Jobs |-> IF k \in {} THEN Service!OnMainThread(k)
                                   ELSE IF k \in {j} THEN "pending" ELSE outcome[k]]
    BY <1>1, <1>3
  <2>2. {} \in SUBSET {j}
    OBVIOUS
  <2>3. QED
    BY <1>1, <1>3, <2>1, <2>2 DEF Service!Submit
<1>4. CASE outcome' = settleOnMainThread({j}, outcome)
  BY <1>2, <1>4 DEF settleOnMainThread
<1>5. CASE /\ phase = "open" /\ Idle # {}
           /\ dispatch(First(Idle), j, queue, done, timers)
  <2>1. queue = <<>>
    BY <1>5 DEF IInv, QueueIsServed, Idle, InFlight
  <2>2. Waiting(queue) = {}
    BY <2>1 DEF Waiting
  <2>3. \/ outcome' = done
        \/ outcome' = settleOnMainThread({j}, done)
        \/ outcome' = settleOnMainThread({j} \cup {}, done)
    BY <1>5, <2>2 DEF dispatch, retire
  <2>4. {j} \cup {} = {j}
    OBVIOUS
  <2>5. CASE outcome' = done
    BY <1>3, <1>5, <2>5
  <2>6. CASE outcome' = settleOnMainThread({j}, done)
    BY <1>1, <1>2, <2>6 DEF settleOnMainThread
  <2>7. QED
    BY <2>3, <2>4, <2>5, <2>6
<1>6. CASE phase = "open" /\ outcome' = done
  BY <1>3, <1>6
<1>7. QED
  BY <1>4, <1>5, <1>6 DEF Submit

(* An answer settles its job and, if the next one cannot be posted and the *)
(* last slot dies of it, that one and the queue.                           *)
LEMMA MessageRefines ==
  ASSUME IInv, NEW m \in mail, Message(m)
  PROVE  [Service!Next]_(Service!vars)
<1> DEFINE w == m.from
           done == IF m.kind = "result" THEN [outcome EXCEPT ![m.id] = "worker"]
                                        ELSE settleOnMainThread({m.id}, outcome)
           armed == {t \in timers : t.job # m.id}
           A == IF m.kind = "result" THEN {m.id} ELSE {}
<1>1. /\ w \in Workers /\ m.id \in Jobs /\ phase' = phase
      /\ outcome \in [Jobs -> Outcome] /\ queue \in Seq(Jobs)
  BY DEF IInv, Typed, Answer, Message, Bookkeeping, Coherent
<1>2. CASE ~expected(m) /\ UNCHANGED <<slots, requests>>
  BY <1>1, <1>2 DEF slots, Service!vars
<1>3. ASSUME expected(m), NEW S \in SUBSET Waiting(queue),
             outcome' = settleOnMainThread(S, done)
      PROVE  [Service!Next]_(Service!vars)
  <2>1. /\ outcome[m.id] = "pending" /\ m.id \notin Waiting(queue)
        /\ \A j \in S : j \in Jobs /\ outcome[j] = "pending"
    BY <1>1, <1>3, WaitingType DEF IInv, Bookkeeping, Coherent, expected
  <2>2. outcome' = SettledBy({m.id} \cup S, A)
    <3>1. \A j \in Jobs : done[j] = IF j \in A THEN "worker"
                                     ELSE IF j = m.id THEN mainThreadJob(j) ELSE outcome[j]
      BY <1>1 DEF settleOnMainThread
    <3>2. m.id \notin S /\ A \subseteq {m.id}
      BY <2>1
    <3> HIDE DEF done, A
    <3>3. QED
      BY <1>3, <3>1, <3>2 DEF settleOnMainThread, SettledBy
  <2>3. {m.id} \cup S \in SUBSET Jobs /\ A \in SUBSET ({m.id} \cup S)
    BY <1>1, <2>1
  <2>4. \A j \in {m.id} \cup S : outcome[j] = "pending"
    BY <2>1
  <2>5. QED
    BY <1>1, <2>2, <2>3, <2>4, SettlingRefines
<1>4. \/ ~expected(m) /\ UNCHANGED <<slots, requests>>
      \/ expected(m) /\ outcome' = done
      \/ /\ expected(m) /\ queue # <<>>
         /\ \/ outcome' = done
            \/ retire(w, {Head(queue)}, Tail(queue), done, armed)
  BY DEF Message, dispatch
<1>5. done = settleOnMainThread({}, done)
  BY <1>1 DEF settleOnMainThread
<1>6. CASE expected(m) /\ outcome' = done
  <2> HIDE DEF done
  <2>1. {} \in SUBSET Waiting(queue)
    OBVIOUS
  <2>2. QED
    BY <1>3, <1>5, <1>6, <2>1
<1>7. CASE /\ expected(m) /\ queue # <<>>
           /\ retire(w, {Head(queue)}, Tail(queue), done, armed)
  <2>1. Head(queue) \in Waiting(queue) /\ Waiting(Tail(queue)) \subseteq Waiting(queue)
    BY <1>7, WaitingShift DEF IInv, Bookkeeping, Coherent
  <2> HIDE DEF done
  <2>2. PICK S \in SUBSET Waiting(queue) : outcome' = settleOnMainThread(S, done)
    <3>1. /\ {Head(queue)} \cup Waiting(Tail(queue)) \in SUBSET Waiting(queue)
          /\ {Head(queue)} \cup {} \in SUBSET Waiting(queue)
      BY <2>1
    <3>2. \/ outcome' = settleOnMainThread({Head(queue)} \cup Waiting(Tail(queue)), done)
          \/ outcome' = settleOnMainThread({Head(queue)} \cup {}, done)
      BY <1>7 DEF retire
    <3>3. QED
      BY <3>1, <3>2
  <2>3. QED
    BY <1>3, <1>7, <2>2
<1>8. QED
  BY <1>2, <1>4, <1>6, <1>7

(* close() settles exactly the jobs that are pending. *)
LEMMA CloseRefines ==
  ASSUME IInv, Close
  PROVE  Service!Close
<1> DEFINE moved == (UNION {Freed(w) : w \in live}) \cup Waiting(queue)
<1>1. \A j \in Jobs : j \in moved <=> outcome[j] = "pending"
  <2>1. \A w \in live, j \in Jobs : j \in Freed(w) <=> current[w] = j
    BY PoolAssumption DEF Freed
  <2>2. \A j : j \in moved <=> (\E w \in live : j \in Freed(w)) \/ j \in Waiting(queue)
    BY Zenon
  <2>3. \A j \in Jobs : (\E w \in live : current[w] = j) <=> (\E w \in Workers : current[w] = j)
    BY PoolAssumption DEF IInv, Bookkeeping, Coherent
  <2> HIDE DEF moved
  <2>4. QED
    BY <2>1, <2>2, <2>3 DEF IInv, Bookkeeping, Coherent
<1>2. outcome' = settleOnMainThread(moved, outcome) /\ phase = "open" /\ phase' = "closed"
  BY DEF Close
<1> HIDE DEF moved
<1>3. outcome' = [j \in Jobs |-> IF j \in Service!Pending THEN Service!OnMainThread(j)
                                 ELSE outcome[j]]
  BY <1>1, <1>2 DEF settleOnMainThread, mainThreadJob, Service!Pending, Service!OnMainThread
<1>4. QED
  BY <1>2, <1>3 DEF Service!Close

(* Every step of the pool is a step of the service, or none. *)
LEMMA NextRefines == IInv /\ [Next]_vars => [Service!Next]_(Service!vars)
<1>1. SUFFICES ASSUME IInv, [Next]_vars PROVE [Service!Next]_(Service!vars)
  OBVIOUS
<1>2. ASSUME NEW w \in Workers, NEW result \in {"ready", "absent"}, Handshake(w, result)
      PROVE  UNCHANGED Service!vars
  BY <1>2 DEF Handshake, slots, Service!vars
<1>3. CASE Open
  BY <1>3 DEF Open, Service!vars
<1>4. ASSUME NEW j \in Jobs, Submit(j) PROVE Service!Next
  BY <1>1, <1>4, SubmitRefines DEF Service!Next
<1>5. ASSUME NEW r \in requests, NEW kind \in {"result", "job-error"}, WorkerAnswers(r, kind)
      PROVE  UNCHANGED Service!vars
  BY <1>5 DEF WorkerAnswers, slots, Service!vars
<1>6. ASSUME NEW w \in Workers, NEW reported \in BOOLEAN, WorkerDies(w, reported)
      PROVE  UNCHANGED Service!vars
  BY <1>6 DEF WorkerDies, slots, Service!vars
<1>7. ASSUME NEW m \in mail, Message(m) PROVE [Service!Next]_(Service!vars)
  BY <1>1, <1>7, MessageRefines
<1>8. ASSUME NEW w \in Workers, DeathReported(w) PROVE [Service!Next]_(Service!vars)
  BY <1>1, <1>8, RetiringRefines DEF DeathReported
<1>9. ASSUME NEW t \in timers, TimeOut(t) PROVE [Service!Next]_(Service!vars)
  <2>1. t.slot \in Workers
    BY <1>1, TimedIsInFlight DEF IInv, Bookkeeping, Timer
  <2>2. QED
    BY <1>1, <1>9, <2>1, RetiringRefines DEF TimeOut
<1>10. CASE Close
  BY <1>1, <1>10, CloseRefines DEF Service!Next
<1>11. CASE UNCHANGED vars
  BY <1>11 DEF vars, slots, Service!vars
<1>12. QED
  BY <1>1, <1>2, <1>3, <1>4, <1>5, <1>6, <1>7, <1>8, <1>9, <1>10, <1>11 DEF Next

(* However many workers and jobs, the pool is a JobService: whatever the   *)
(* workers do, its promises settle as the service's jobs do.               *)
THEOREM PoolImplementsService == Spec => ImplementsService
<1>1. Init => Service!Init
  BY DEF Init, Service!Init
<1>2. QED
  BY <1>1, InitIInv, NextIInv, NextRefines, PTL DEF Spec, ImplementsService, Service!Spec
=============================================================================
