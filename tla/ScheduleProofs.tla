--------------------------- MODULE ScheduleProofs ---------------------------
(***************************************************************************)
(* Proofs about the scheduler, for every set of schedules and ticks, every *)
(* set of cron expressions, every length of the day and of the walk:       *)
(* cron_next_after returns the first match, and calls that do not overlap  *)
(* act once for a due time.                                                *)
(*                                                                         *)
(* As long as no call has committed during a tick, what a tick has in its  *)
(* list and its transaction is still what the rows say (Visits): that is   *)
(* why its commit moves every row it acted for past the due time.          *)
(***************************************************************************)
EXTENDS Schedule, FiniteSetTheorems, WellFoundedInduction, TLAPS

Rows == [cron : Crons, enabled : BOOLEAN, next : Nat]

Dues == [s : Schedules, due : Nat, cron : Crons]

TypeOK ==
  /\ now \in Nat /\ inUse \subseteq Crons /\ raced \in BOOLEAN
  /\ row \in [Schedules -> Rows]
  /\ done \in [Schedules -> SUBSET Nat]
  /\ twice \in [Schedules -> SUBSET Nat]
  /\ DOMAIN runs = Schedules
  /\ pc \in [Ticks -> {"idle", "run", "advance"}]
  /\ start \in [Ticks -> Nat]
  /\ list \in [Ticks -> Seq(Dues)]
  /\ acted \in [Ticks -> SUBSET (Schedules \X Nat \X {"succeeded"})]
  /\ armed \in [Ticks -> [Schedules -> Nat]]

(* Where a tick is.                                                        *)
Place(k) ==
  /\ pc[k] = "idle" => list[k] = <<>> /\ acted[k] = {} /\ armed[k] = NothingArmed
  /\ pc[k] = "advance" => list[k] # <<>>

(* What a tick has still to visit, has done and has armed, if no call has  *)
(* committed since it began.                                               *)
Visits(k) ==
  /\ start[k] <= now
  /\ \A i \in 1 .. Len(list[k]) :
       /\ list[k][i].due = row[list[k][i].s].next
       /\ list[k][i].cron = row[list[k][i].s].cron
       /\ list[k][i].due # 0 /\ list[k][i].due <= start[k]
  /\ \A a \in acted[k] :
       /\ a[2] = row[a[1]].next /\ a[2] # 0 /\ a[2] <= start[k]
       /\ armed[k][a[1]] = 0 => pc[k] = "advance" /\ Head(list[k]).s = a[1]
  /\ \A s \in Schedules : armed[k][s] # 0 =>
       /\ start[k] < armed[k][s]
       /\ row[s].next # 0 /\ row[s].next <= start[k]
       /\ Matches(row[s].cron, armed[k][s])

Alone(s) ==
  /\ twice[s] = {}
  /\ \A d \in done[s] : d <= now /\ (row[s].next = 0 \/ row[s].next > d)
  /\ row[s].next # 0 => Matches(row[s].cron, row[s].next)

ScheduleInv ==
  /\ TypeOK
  /\ \A k \in Ticks : Place(k)
  /\ raced = FALSE => (\A k \in Ticks : Visits(k)) /\ (\A s \in Schedules : Alone(s))

-----------------------------------------------------------------------------
(* cron_next_after.                                                        *)

(* Every non-empty set of natural numbers has a least element: the form in *)
(* which induction is used here.                                           *)
LEMMA LeastElement ==
  ASSUME NEW S, S \subseteq Nat, S # {}
  PROVE  \E m \in S : \A k \in S : m <= k
  <1>1. IsWellFoundedOn(OpToRel(<, Nat), Nat)
    BY NatLessThanWellFounded, Zenon
  <1>2. PICK m \in S : \A k \in S : ~(<<k, m>> \in OpToRel(<, Nat))
    BY <1>1, WFMin, Zenon
  <1>3. \A k \in S : ~(k < m)
    BY <1>2, Zenon DEF OpToRel
  <1> QED
    BY <1>3

(* The minutes from a midnight up to the next one are of the same day.     *)
LEMMA SameDay ==
  ASSUME NEW u \in Nat, u % DayLen = 0, NEW t \in Nat, u <= t, t < u + DayLen
  PROVE  t \div DayLen = u \div DayLen
  <1> DEFINE D == DayLen
             p == u \div D
             q == t \div D
  <1>1. D \in Nat /\ D > 0
    BY ScheduleAssumption
  <1>2. p \in Nat /\ u = D * p
    BY <1>1
  <1>3. q \in Nat /\ D * q <= t /\ t < D * q + D
    BY <1>1
  <1> HIDE DEF p, q, D
  <1>4. ~(q + 1 <= p)
    <2> SUFFICES ASSUME q + 1 <= p PROVE FALSE
      OBVIOUS
    <2>1. D * (q + 1) <= D * p
      BY <1>1, <1>2, <1>3
    <2> QED
      BY <1>1, <1>2, <1>3, <2>1 DEF D
  <1>5. ~(p + 1 <= q)
    <2> SUFFICES ASSUME p + 1 <= q PROVE FALSE
      OBVIOUS
    <2>1. D * (p + 1) <= D * q
      BY <1>1, <1>2, <1>3
    <2> QED
      BY <1>1, <1>2, <1>3, <2>1 DEF D
  <1>6. p = q
    BY <1>2, <1>3, <1>4, <1>5
  <1> QED
    BY <1>6 DEF p, q, D

(* A round of the loop, and the times of its first n rounds.               *)
Round(c) == [u \in Nat |-> IF Matches(c, u) THEN u ELSE Skip(c, u + 1)]

IsWalk(f, c, a, n) ==
  f = [i \in 0 .. n |-> IF i = 0 THEN a + 1 ELSE Round(c)[f[i - 1]]]

(* The walk of cron_next_after is defined for every number of rounds.      *)
LEMMA WalkExists ==
  ASSUME NEW c, NEW a
  PROVE  \A n \in Nat : \E f : IsWalk(f, c, a, n)
  <1> DEFINE Bad == {n \in Nat : ~ \E f : IsWalk(f, c, a, n)}
  <1> SUFFICES ASSUME Bad # {} PROVE FALSE
    OBVIOUS
  <1>1. PICK n \in Bad : \A j \in Bad : n <= j
    BY LeastElement, Zenon
  <1>2. n # 0
    <2>1. IsWalk([i \in 0 .. 0 |-> a + 1], c, a, 0)
      BY DEF IsWalk
    <2> QED
      BY <2>1, <1>1
  <1>3. n - 1 \in Nat /\ n - 1 \notin Bad
    BY <1>1, <1>2
  <1>4. PICK f : IsWalk(f, c, a, n - 1)
    BY <1>3
  <1> DEFINE g == [i \in 0 .. n |-> IF i < n THEN f[i] ELSE Round(c)[f[n - 1]]]
  <1>5. \A i \in 0 .. n : g[i] = IF i = 0 THEN a + 1 ELSE Round(c)[g[i - 1]]
    <2> TAKE i \in 0 .. n
    <2>1. CASE i = 0
      BY <2>1, <1>2, <1>3, <1>4 DEF IsWalk
    <2>2. CASE i # 0 /\ i < n
      <3>1. i \in 0 .. n - 1 /\ i - 1 \in 0 .. n /\ i - 1 < n
        BY <2>2
      <3>2. f[i] = Round(c)[f[i - 1]]
        BY <1>4, <2>2, <3>1 DEF IsWalk
      <3> QED
        BY <2>2, <3>1, <3>2
    <2>3. CASE i = n
      BY <2>3, <1>2, <1>3
    <2> QED
      BY <2>1, <2>2, <2>3
  <1>6. IsWalk(g, c, a, n)
    BY <1>5 DEF IsWalk
  <1> QED
    BY <1>6, <1>1

(* One round: from a time that does not match, to one with no match        *)
(* between.                                                                *)
LEMMA SkipsNothing ==
  ASSUME NEW c, NEW v \in Nat, ~Matches(c, v)
  PROVE  /\ Skip(c, v + 1) \in Nat /\ Skip(c, v + 1) >= v + 1
         /\ \A u \in Nat : v <= u /\ u < Skip(c, v + 1) => ~Matches(c, u)
  <1>1. DayLen \in Nat
    BY ScheduleAssumption
  <1>2. CASE (v + 1) % DayLen = 0 /\ ~DayMatches(c, v + 1)
    <2>1. Skip(c, v + 1) = v + 1 + DayLen
      BY <1>2 DEF Skip
    <2>2. ASSUME NEW u \in Nat, v + 1 <= u, u < v + 1 + DayLen
          PROVE  ~Matches(c, u)
      <3>1. u \div DayLen = (v + 1) \div DayLen
        BY <1>2, <2>2, SameDay
      <3> QED
        BY <1>2, <3>1 DEF Matches, DayMatches
    <2>3. \A u \in Nat : v <= u /\ u < v + 1 + DayLen => ~Matches(c, u)
      <3> TAKE u \in Nat
      <3>1. v <= u => u = v \/ v + 1 <= u
        OBVIOUS
      <3> QED
        BY <2>2, <3>1
    <2> QED
      BY <1>1, <2>1, <2>3
  <1>3. CASE ~((v + 1) % DayLen = 0 /\ ~DayMatches(c, v + 1))
    <2>1. Skip(c, v + 1) = v + 1
      BY <1>3 DEF Skip
    <2>2. \A u \in Nat : v <= u /\ u < v + 1 => u = v
      OBVIOUS
    <2> QED
      BY <2>1, <2>2
  <1> QED
    BY <1>2, <1>3

(* cron_next_after returns the first match after its argument, and gives   *)
(* up only if the next Attempts minutes have none.                         *)
LEMMA CronNext ==
  ASSUME NEW c, NEW a \in Nat
  PROVE  LET n == cron_next_after(c, a)
         IN  /\ n \in Nat
             /\ n = 0 => \A u \in a + 1 .. a + Attempts : ~Matches(c, u)
             /\ n # 0 => /\ a < n /\ Matches(c, n)
                         /\ \A u \in a + 1 .. n - 1 : ~Matches(c, u)
  <1> DEFINE N == Attempts - 1
             t == CHOOSE f : IsWalk(f, c, a, N)
             last == t[N]
             n == cron_next_after(c, a)
  <1>1. N \in Nat /\ Attempts \in Nat /\ Attempts = N + 1
    BY ScheduleAssumption
  <1>2. IsWalk(t, c, a, N)
    BY <1>1, WalkExists
  <1>3. n = IF Matches(c, last) THEN last ELSE 0
    BY DEF cron_next_after, IsWalk, Round
  <1> HIDE DEF t, n
  <1> DEFINE Ok(i) == /\ t[i] \in Nat /\ t[i] >= a + 1
                      /\ \A u \in Nat : a + 1 <= u /\ u < t[i] => ~Matches(c, u)
                      /\ Matches(c, t[i]) \/ t[i] >= a + 1 + i
             Bad == {i \in 0 .. N : ~ Ok(i)}
  <1>4. Bad = {}
    <2> SUFFICES ASSUME Bad # {} PROVE FALSE
      OBVIOUS
    <2>1. PICK i \in Bad : \A j \in Bad : i <= j
      <3>1. Bad \subseteq Nat
        BY <1>1
      <3> QED
        BY <3>1, LeastElement, Zenon
    <2>2. CASE i = 0
      <3>1. t[0] = a + 1
        BY <1>1, <1>2 DEF IsWalk
      <3>2. Ok(0)
        BY <3>1
      <3> QED
        BY <2>1, <2>2, <3>2
    <2>3. CASE i # 0
      <3> DEFINE v == t[i - 1]
      <3>1. i - 1 \in 0 .. N /\ i \in Nat /\ Ok(i - 1)
        BY <1>1, <2>1, <2>3
      <3>2. t[i] = Round(c)[v]
        BY <1>1, <1>2, <2>1, <2>3 DEF IsWalk
      <3>3. v \in Nat /\ v >= a + 1
            /\ (\A u \in Nat : a + 1 <= u /\ u < v => ~Matches(c, u))
            /\ (Matches(c, v) \/ v >= a + 1 + (i - 1))
        BY <3>1
      <3> HIDE DEF v
      <3>4. CASE Matches(c, v)
        <4>1. t[i] = v
          BY <3>2, <3>3, <3>4 DEF Round
        <4>2. Ok(i)
          BY <3>3, <3>4, <4>1
        <4> QED
          BY <2>1, <4>2
      <3>5. CASE ~Matches(c, v)
        <4>1. t[i] = Skip(c, v + 1)
          BY <3>2, <3>3, <3>5 DEF Round
        <4>2. /\ t[i] \in Nat /\ t[i] >= v + 1
              /\ \A u \in Nat : v <= u /\ u < t[i] => ~Matches(c, u)
          BY <3>3, <3>5, <4>1, SkipsNothing
        <4>3. \A u \in Nat : a + 1 <= u /\ u < t[i] => ~Matches(c, u)
          <5> TAKE u \in Nat
          <5>1. u < v \/ v <= u
            BY <3>3
          <5> QED
            BY <3>3, <4>2, <5>1
        <4>4. t[i] >= a + 1 /\ t[i] >= a + 1 + i
          <5> DEFINE w == t[i]
          <5>1. w \in Nat /\ w >= v + 1
            BY <4>2
          <5>2. v \in Nat /\ v >= a + 1 /\ v >= a + 1 + (i - 1) /\ i \in Nat
            BY <3>1, <3>3, <3>5, Zenon
          <5> HIDE DEF w
          <5>3. w >= a + 1 /\ w >= a + 1 + i
            BY <5>1, <5>2
          <5> QED
            BY <5>3 DEF w
        <4> QED
          BY <2>1, <4>2, <4>3, <4>4
      <3> QED
        BY <3>4, <3>5
    <2> QED
      BY <2>2, <2>3
  <1>5. Ok(N)
    BY <1>1, <1>4
  <1>6. last \in Nat /\ last >= a + 1
        /\ (\A u \in Nat : a + 1 <= u /\ u < last => ~Matches(c, u))
        /\ (Matches(c, last) \/ last >= a + Attempts)
    BY <1>1, <1>5
  <1> HIDE DEF last, Bad, Ok
  <1>7. CASE Matches(c, last)
    <2>1. n = last /\ n # 0 /\ a < n
      BY <1>3, <1>6, <1>7
    <2>2. \A u \in a + 1 .. n - 1 : ~Matches(c, u)
      BY <1>6, <2>1
    <2> QED
      BY <1>6, <1>7, <2>1, <2>2 DEF n
  <1>8. CASE ~Matches(c, last)
    <2>1. n = 0
      BY <1>3, <1>8
    <2>2. \A u \in a + 1 .. a + Attempts : ~Matches(c, u)
      <3> TAKE u \in a + 1 .. a + Attempts
      <3>1. last \in Nat /\ last >= a + Attempts
        BY <1>6, <1>8, Zenon
      <3>2. u \in Nat /\ a + 1 <= u /\ (u < last \/ u = last)
        BY <1>1, <3>1
      <3> QED
        BY <1>6, <1>8, <3>2
    <2> QED
      BY <2>1, <2>2 DEF n
  <1> QED
    BY <1>7, <1>8

-----------------------------------------------------------------------------
(* A tick's steps that commit nothing.                                     *)

SameTick(j) ==
  /\ pc'[j] = pc[j] /\ start'[j] = start[j] /\ list'[j] = list[j]
  /\ acted'[j] = acted[j] /\ armed'[j] = armed[j]

(* A step of one tick that commits nothing keeps the invariant if it keeps *)
(* what the invariant says of that tick.                                   *)
LEMMA TickKeeps ==
  ASSUME ScheduleInv, NEW k \in Ticks, TypeOK',
         UNCHANGED <<now, row, done, twice, runs, raced>>,
         Place(k)', raced = FALSE => Visits(k)',
         \A j \in Ticks \ {k} : SameTick(j)
  PROVE  ScheduleInv'
  <1>2. \A j \in Ticks : Place(j)'
    BY DEF ScheduleInv, Place, SameTick
  <1>3. ASSUME raced = FALSE, NEW j \in Ticks PROVE Visits(j)'
    <2>1. CASE j = k
      BY <1>3, <2>1
    <2>2. CASE j # k
      <3>1. Visits(j) /\ SameTick(j)
        BY <1>3, <2>2 DEF ScheduleInv
      <3> QED
        BY <3>1 DEF Visits, SameTick
    <2> QED
      BY <2>1, <2>2
  <1>4. ASSUME raced = FALSE, NEW s \in Schedules PROVE Alone(s)'
    <2>1. Alone(s)
      BY <1>4 DEF ScheduleInv
    <2> QED
      BY <2>1 DEF Alone
  <1> QED
    BY <1>2, <1>3, <1>4, Zenon DEF ScheduleInv

(* A tick outside a transaction.                                           *)
LEMMA IdleTick ==
  ASSUME NEW k \in Ticks, pc'[k] = "idle", list'[k] = <<>>, acted'[k] = {},
         armed'[k] = NothingArmed, start'[k] <= now'
  PROVE  Place(k)' /\ Visits(k)'
  <1>1. Place(k)'
    BY DEF Place
  <1>2. \A s \in Schedules : armed'[k][s] = 0
    BY DEF NothingArmed
  <1>3. Visits(k)'
    BY <1>2 DEF Visits
  <1> QED
    BY <1>1, <1>3

(* The query of a tick reads the rows as they are, so its list agrees with *)
(* them.                                                                   *)
LEMMA TickStartKeeps ==
  ASSUME ScheduleInv, NEW k \in Ticks, TickStart(k)
  PROVE  ScheduleInv'
  <1> DEFINE n == Cardinality(Due)
  <1>1. n \in Nat
    <2>1. IsFiniteSet(Schedules) /\ Due \subseteq Schedules
      BY ScheduleAssumption DEF Due
    <2> QED
      BY <2>1, FS_Subset, FS_CardinalityType
  <1>2. PICK q \in Orders :
          list' = [list EXCEPT ![k] =
                     [i \in DOMAIN q |->
                        [s |-> q[i], due |-> row[q[i]].next, cron |-> row[q[i]].cron]]]
    BY Zenon DEF TickStart
  <1>3. q \in [1 .. n -> Due]
    BY DEF Orders
  <1>4. TypeOK
    BY DEF ScheduleInv
  <1> DEFINE new == [i \in 1 .. n |->
                       [s |-> q[i], due |-> row[q[i]].next, cron |-> row[q[i]].cron]]
  <1> HIDE DEF n
  <1>5. list' = [list EXCEPT ![k] = new]
    BY <1>2, <1>3
  <1>6. \A i \in 1 .. n :
          /\ q[i] \in Schedules
          /\ row[q[i]].next # 0 /\ row[q[i]].next <= now
          /\ row[q[i]] \in Rows
    BY <1>3, <1>4, Zenon DEF Due, TypeOK
  <1>7. new \in [1 .. n -> Dues]
    BY <1>6 DEF Dues, Rows
  <1>8. new \in Seq(Dues) /\ Len(new) = n
    BY <1>1, <1>7
  <1>9. list'[k] = new
    BY <1>4, <1>5 DEF TypeOK
  <1>10. /\ pc' = [pc EXCEPT ![k] = "run"] /\ start' = [start EXCEPT ![k] = now]
         /\ pc[k] = "idle"
         /\ UNCHANGED <<now, inUse, row, done, twice, runs, acted, armed, raced>>
    BY DEF TickStart
  <1>11. acted[k] = {} /\ armed[k] = NothingArmed
    BY <1>10 DEF ScheduleInv, Place
  <1>12. TypeOK'
    BY <1>4, <1>5, <1>8, <1>10 DEF TypeOK
  <1>13. pc'[k] = "run" /\ start'[k] = now
    BY <1>4, <1>10 DEF TypeOK
  <1>14. Place(k)'
    BY <1>13 DEF Place
  <1>15. Visits(k)'
    <2>1. start'[k] <= now'
      BY <1>4, <1>10, <1>13 DEF TypeOK
    <2>2. ASSUME NEW i \in 1 .. Len(list'[k])
          PROVE  /\ list'[k][i].due = row'[list'[k][i].s].next
                 /\ list'[k][i].cron = row'[list'[k][i].s].cron
                 /\ list'[k][i].due # 0 /\ list'[k][i].due <= start'[k]
      <3>1. i \in 1 .. n
        BY <1>8, <1>9, Zenon
      <3>2. list'[k][i] = [s |-> q[i], due |-> row[q[i]].next, cron |-> row[q[i]].cron]
        BY <1>9, <3>1
      <3> QED
        BY <1>6, <1>10, <1>13, <3>1, <3>2
    <2>3. acted'[k] = {} /\ \A s \in Schedules : armed'[k][s] = 0
      BY <1>10, <1>11 DEF NothingArmed
    <2> QED
      BY <2>1, <2>2, <2>3 DEF Visits
  <1>16. \A j \in Ticks \ {k} : SameTick(j)
    BY <1>4, <1>5, <1>10 DEF TypeOK, SameTick
  <1> QED
    BY <1>10, <1>12, <1>14, <1>15, <1>16, TickKeeps, Zenon

(* Waiting for a row changes nothing but the queue for it.                 *)
LEMMA WaitKeeps ==
  ASSUME ScheduleInv, NEW k \in Ticks, Wait(k)
  PROVE  ScheduleInv'
  <1>1. UNCHANGED <<now, inUse, row, done, twice, runs, pc, start, list, acted,
                    armed, raced>>
    BY DEF Wait, tickVars
  <1>2. TypeOK'
    BY <1>1 DEF ScheduleInv, TypeOK
  <1>3. Place(k)'
    BY <1>1 DEF ScheduleInv, Place
  <1>4. raced = FALSE => Visits(k)'
    BY <1>1 DEF ScheduleInv, Visits
  <1>5. \A j \in Ticks \ {k} : SameTick(j)
    BY <1>1 DEF SameTick
  <1> QED
    BY <1>1, <1>2, <1>3, <1>4, <1>5, TickKeeps, Zenon

(* The first schedule of the list.                                         *)
LEMMA FirstOfList ==
  ASSUME TypeOK, NEW k \in Ticks, list[k] # <<>>
  PROVE  /\ Head(list[k]) = list[k][1] /\ 1 \in 1 .. Len(list[k])
         /\ Head(list[k]) \in Dues
         /\ Head(list[k]).s \in Schedules /\ Head(list[k]).due \in Nat
         /\ Head(list[k]).cron \in Crons
  <1>1. list[k] \in Seq(Dues)
    BY DEF TypeOK
  <1>2. Head(list[k]) = list[k][1] /\ 1 \in 1 .. Len(list[k])
        /\ Head(list[k]) \in Dues
    BY <1>1
  <1> QED
    BY <1>2 DEF Dues

(* A tick acts for the schedule at the head of its list, at its due time.  *)
LEMMA RunNowKeeps ==
  ASSUME ScheduleInv, NEW k \in Ticks, schedule_run_now(k)
  PROVE  ScheduleInv'
  <1> DEFINE r == Head(list[k])
             a == <<r.s, r.due, "succeeded">>
  <1>1. TypeOK
    BY DEF ScheduleInv
  <1>2. /\ pc[k] = "run" /\ list[k] # <<>> /\ pc' = [pc EXCEPT ![k] = "advance"]
        /\ UNCHANGED <<now, inUse, row, done, twice, runs, start, list, armed, raced>>
    BY DEF schedule_run_now
  <1>3. acted' = acted \/ acted' = [acted EXCEPT ![k] = @ \cup {a}]
    BY DEF schedule_run_now
  <1>4. r = list[k][1] /\ 1 \in 1 .. Len(list[k]) /\ r.s \in Schedules /\ r.due \in Nat
    BY <1>1, <1>2, FirstOfList
  <1> HIDE DEF r
  <1>5. a \in Schedules \X Nat \X {"succeeded"}
    BY <1>4
  <1>6. acted' \in [Ticks -> SUBSET (Schedules \X Nat \X {"succeeded"})]
        /\ acted'[k] \subseteq acted[k] \cup {a}
    <2> DEFINE A == Schedules \X Nat \X {"succeeded"}
    <2>1. acted \in [Ticks -> SUBSET A] /\ a \in A
      BY <1>1, <1>5 DEF TypeOK
    <2> HIDE DEF A, a
    <2>2. acted' \in [Ticks -> SUBSET A] /\ acted'[k] \subseteq acted[k] \cup {a}
      BY <1>3, <2>1
    <2> QED
      BY <2>2 DEF A
  <1>7. TypeOK'
    BY <1>1, <1>2, <1>6, Zenon DEF TypeOK
  <1>8. pc'[k] = "advance"
    BY <1>1, <1>2 DEF TypeOK
  <1>9. Place(k)'
    BY <1>2, <1>8 DEF Place
  <1>10. ASSUME raced = FALSE PROVE Visits(k)'
    <2>1. Visits(k)
      BY <1>10 DEF ScheduleInv
    <2>2. ASSUME NEW b \in acted'[k]
          PROVE  /\ b[2] = row[b[1]].next /\ b[2] # 0 /\ b[2] <= start[k]
                 /\ armed[k][b[1]] = 0 => Head(list[k]).s = b[1]
      <3>1. CASE b \in acted[k]
        BY <1>2, <2>1, <3>1 DEF Visits
      <3>2. CASE b = a
        <4>1. b[1] = r.s /\ b[2] = r.due
          BY <3>2
        <4>2. r.due = row[r.s].next /\ r.due # 0 /\ r.due <= start[k]
          BY <1>4, <2>1 DEF Visits
        <4> QED
          BY <4>1, <4>2 DEF r
      <3> QED
        BY <1>6, <3>1, <3>2
    <2> QED
      BY <1>2, <1>8, <2>1, <2>2 DEF Visits
  <1>11. \A j \in Ticks \ {k} : SameTick(j)
    BY <1>1, <1>2, <1>3 DEF TypeOK, SameTick
  <1> QED
    BY <1>2, <1>7, <1>9, <1>10, <1>11, TickKeeps, Zenon

(* A tick arms the row for a time after its own start, and so after the    *)
(* due time it acted for.                                                  *)
LEMMA AdvanceKeeps ==
  ASSUME ScheduleInv, NEW k \in Ticks, Advance(k)
  PROVE  ScheduleInv'
  <1> DEFINE r == Head(list[k])
             n == cron_next_after(r.cron, start[k])
  <1>1. TypeOK
    BY DEF ScheduleInv
  <1>2. /\ pc[k] = "advance" /\ n # 0
        /\ armed' = [armed EXCEPT ![k][r.s] = n]
        /\ list' = [list EXCEPT ![k] = Tail(@)]
        /\ pc' = [pc EXCEPT ![k] = "run"]
        /\ UNCHANGED <<now, inUse, row, done, twice, runs, start, acted, raced>>
    BY DEF Advance
  <1>3. list[k] # <<>>
    BY <1>2 DEF ScheduleInv, Place
  <1>4. r = list[k][1] /\ 1 \in 1 .. Len(list[k]) /\ r.s \in Schedules
    BY <1>1, <1>3, FirstOfList
  <1>5. start[k] \in Nat
    BY <1>1 DEF TypeOK
  <1>6. n \in Nat /\ start[k] < n /\ Matches(r.cron, n)
    BY <1>2, <1>5, CronNext
  <1> HIDE DEF n, r
  <1>7. list[k] \in Seq(Dues)
    BY <1>1 DEF TypeOK
  <1>8. list'[k] = Tail(list[k]) /\ Tail(list[k]) \in Seq(Dues)
    BY <1>1, <1>2, <1>3, <1>7 DEF TypeOK
  <1>9. armed'[k] = [armed[k] EXCEPT ![r.s] = n] /\ armed[k] \in [Schedules -> Nat]
    BY <1>1, <1>2 DEF TypeOK
  <1>10. armed' \in [Ticks -> [Schedules -> Nat]]
    BY <1>1, <1>2, <1>6, Zenon DEF TypeOK
  <1>11. list' \in [Ticks -> Seq(Dues)]
    BY <1>1, <1>2, <1>8 DEF TypeOK
  <1>12. TypeOK'
    BY <1>1, <1>2, <1>10, <1>11 DEF TypeOK
  <1>13. pc'[k] = "run"
    BY <1>1, <1>2 DEF TypeOK
  <1>14. Place(k)'
    BY <1>13 DEF Place
  <1>15. ASSUME raced = FALSE PROVE Visits(k)'
    <2>1. Visits(k)
      BY <1>15 DEF ScheduleInv
    <2>2. /\ r.due = row[r.s].next /\ r.cron = row[r.s].cron
          /\ r.due # 0 /\ r.due <= start[k]
      BY <1>4, <2>1 DEF Visits
    <2>3. ASSUME NEW i \in 1 .. Len(list'[k])
          PROVE  i + 1 \in 1 .. Len(list[k]) /\ list'[k][i] = list[k][i + 1]
      BY <1>3, <1>7, <1>8
    <2>4. ASSUME NEW i \in 1 .. Len(list'[k])
          PROVE  /\ list'[k][i].due = row[list'[k][i].s].next
                 /\ list'[k][i].cron = row[list'[k][i].s].cron
                 /\ list'[k][i].due # 0 /\ list'[k][i].due <= start[k]
      BY <2>1, <2>3 DEF Visits
    <2>5. ASSUME NEW a \in acted[k]
          PROVE  /\ a[2] = row[a[1]].next /\ a[2] # 0 /\ a[2] <= start[k]
                 /\ armed'[k][a[1]] # 0
      <3>1. a[1] \in Schedules
        BY <1>1 DEF TypeOK
      <3>2. /\ a[2] = row[a[1]].next /\ a[2] # 0 /\ a[2] <= start[k]
            /\ armed[k][a[1]] = 0 => r.s = a[1]
        BY <2>1 DEF Visits, r
      <3> QED
        BY <1>2, <1>9, <3>1, <3>2
    <2>6. ASSUME NEW s \in Schedules, armed'[k][s] # 0
          PROVE  /\ start[k] < armed'[k][s]
                 /\ row[s].next # 0 /\ row[s].next <= start[k]
                 /\ Matches(row[s].cron, armed'[k][s])
      <3>1. CASE s = r.s
        <4>1. armed'[k][s] = n
          BY <1>9, <3>1
        <4> QED
          BY <1>6, <2>2, <3>1, <4>1
      <3>2. CASE s # r.s
        <4>1. armed'[k][s] = armed[k][s]
          BY <1>9, <3>2
        <4> QED
          BY <2>1, <2>6, <4>1 DEF Visits
      <3> QED
        BY <3>1, <3>2
    <2>7. start[k] <= now
      BY <2>1 DEF Visits
    <2> QED
      BY <1>2, <2>4, <2>5, <2>6, <2>7 DEF Visits
  <1>16. \A j \in Ticks \ {k} : SameTick(j)
    BY <1>1, <1>2 DEF TypeOK, SameTick
  <1> QED
    BY <1>2, <1>12, <1>14, <1>15, <1>16, TickKeeps, Zenon

(* How a tick ends.                                                        *)
LEMMA EndedTick ==
  ASSUME TypeOK, NEW k \in Ticks, Ended(k)
  PROVE  /\ pc' \in [Ticks -> {"idle", "run", "advance"}]
         /\ start' \in [Ticks -> Nat]
         /\ list' \in [Ticks -> Seq(Dues)]
         /\ acted' \in [Ticks -> SUBSET (Schedules \X Nat \X {"succeeded"})]
         /\ armed' \in [Ticks -> [Schedules -> Nat]]
         /\ UNCHANGED <<now, inUse>>
         /\ Place(k)' /\ Visits(k)'
         /\ \A j \in Ticks \ {k} : SameTick(j)
  <1>1. /\ pc' = [pc EXCEPT ![k] = "idle"]
        /\ start' = [start EXCEPT ![k] = 0]
        /\ list' = [list EXCEPT ![k] = <<>>]
        /\ acted' = [acted EXCEPT ![k] = {}]
        /\ armed' = [armed EXCEPT ![k] = NothingArmed]
        /\ UNCHANGED <<now, inUse>>
    BY DEF Ended
  <1>2. pc' \in [Ticks -> {"idle", "run", "advance"}] /\ start' \in [Ticks -> Nat]
    BY <1>1 DEF TypeOK
  <1>3. list' \in [Ticks -> Seq(Dues)]
    BY <1>1 DEF TypeOK
  <1>4. acted' \in [Ticks -> SUBSET (Schedules \X Nat \X {"succeeded"})]
    BY <1>1 DEF TypeOK
  <1>5. NothingArmed \in [Schedules -> Nat]
    BY DEF NothingArmed
  <1>6. armed' \in [Ticks -> [Schedules -> Nat]]
    BY <1>1, <1>5 DEF TypeOK
  <1>7. /\ pc'[k] = "idle" /\ list'[k] = <<>> /\ acted'[k] = {}
        /\ armed'[k] = NothingArmed /\ start'[k] <= now'
    BY <1>1 DEF TypeOK
  <1>8. Place(k)' /\ Visits(k)'
    BY <1>7, IdleTick
  <1>9. \A j \in Ticks \ {k} : SameTick(j)
    BY <1>1 DEF TypeOK, SameTick
  <1> QED
    BY <1>1, <1>2, <1>3, <1>4, <1>6, <1>8, <1>9

(* A tick that is undone.                                                  *)
LEMMA UndoneKeeps ==
  ASSUME ScheduleInv, NEW k \in Ticks, Ended(k),
         UNCHANGED <<row, done, twice, runs, raced>>
  PROVE  ScheduleInv'
  <1>1. TypeOK
    BY DEF ScheduleInv
  <1>2. TypeOK'
    BY <1>1, EndedTick DEF TypeOK
  <1> QED
    BY <1>1, <1>2, EndedTick, TickKeeps, Zenon

(* A deadlock ends the action or the tick that PostgreSQL picks.           *)
LEMMA VictimKeeps ==
  ASSUME ScheduleInv, NEW k \in Ticks, DeadlockVictim(k)
  PROVE  ScheduleInv'
  <1>1. CASE pc[k] = "advance" /\ Ended(k) /\ UNCHANGED <<row, done, twice, runs, raced>>
    BY <1>1, UndoneKeeps
  <1>2. CASE /\ pc[k] = "run" /\ pc' = [pc EXCEPT ![k] = "advance"]
             /\ UNCHANGED <<now, inUse, failing, row, done, twice, runs, start, list,
                            acted, armed, raced, ops>>
    <2>1. TypeOK /\ list[k] # <<>>
      BY DEF ScheduleInv, DeadlockVictim, Waits
    <2>2. TypeOK' /\ pc'[k] = "advance"
      BY <1>2, <2>1 DEF TypeOK
    <2>3. Place(k)'
      BY <1>2, <2>1, <2>2 DEF Place
    <2>4. ASSUME raced = FALSE PROVE Visits(k)'
      <3>1. Visits(k)
        BY <2>4 DEF ScheduleInv
      <3> QED
        BY <1>2, <3>1, Zenon DEF Visits
    <2>5. \A j \in Ticks \ {k} : SameTick(j)
      BY <1>2, <2>1 DEF TypeOK, SameTick
    <2> QED
      BY <1>2, <2>2, <2>3, <2>4, <2>5, TickKeeps, Zenon
  <1> QED
    BY <1>1, <1>2 DEF DeadlockVictim

-----------------------------------------------------------------------------
(* The steps that commit.                                                  *)

(* A tick that nobody else's call has overlapped, and every other tick, is *)
(* outside a transaction when a call commits.                              *)
LEMMA IdleKeeps ==
  ASSUME ScheduleInv, NEW k \in Ticks, pc[k] = "idle", SameTick(k), raced = FALSE,
         now' = now
  PROVE  Visits(k)'
  <1>1. list[k] = <<>> /\ acted[k] = {} /\ armed[k] = NothingArmed /\ start[k] <= now
    BY DEF ScheduleInv, Place, Visits
  <1>2. /\ pc'[k] = "idle" /\ list'[k] = <<>> /\ acted'[k] = {}
        /\ armed'[k] = NothingArmed /\ start'[k] <= now'
    BY <1>1 DEF SameTick
  <1> QED
    BY <1>2, IdleTick

(* A commit that nothing overlaps acts for due times that nobody acted for *)
(* before, and moves each row past them.                                   *)
LEMMA CommitKeeps ==
  ASSUME ScheduleInv, NEW k \in Ticks, TickCommits(k)
  PROVE  ScheduleInv'
  <1>1. TypeOK
    BY DEF ScheduleInv
  <1>2. /\ pc[k] = "run" /\ list[k] = <<>> /\ Ended(k)
        /\ raced' = (raced \/ Busy # {k})
    BY DEF TickCommits
  <1>3. ASSUME NEW s \in Schedules
        PROVE  /\ twice'[s] = twice[s] \cup (done[s] \cap Acted(k, s))
               /\ done'[s] = done[s] \cup Acted(k, s)
               /\ runs'[s] = runs[s] \cup
                    {<<a[2], a[3]>> : a \in {b \in acted[k] : b[1] = s}}
               /\ row'[s] = IF armed[k][s] = 0 THEN row[s]
                            ELSE [row[s] EXCEPT !.next = armed[k][s]]
    BY DEF TickCommits
  <1>4. ASSUME NEW a \in acted[k]
        PROVE  a[1] \in Schedules /\ a[2] \in Nat /\ a[3] = "succeeded"
    BY <1>1 DEF TypeOK
  <1>5. ASSUME NEW s \in Schedules, NEW d
        PROVE  d \in Acted(k, s) <=> \E a \in acted[k] : a[1] = s /\ a[2] = d
    BY <1>4 DEF Acted
  <1>6. ASSUME NEW s \in Schedules
        PROVE  row[s] \in Rows /\ row[s].next \in Nat /\ armed[k][s] \in Nat
               /\ done[s] \subseteq Nat /\ twice[s] \subseteq Nat
               /\ Acted(k, s) \subseteq Nat
    <2>1. row[s] \in Rows /\ armed[k][s] \in Nat
          /\ done[s] \subseteq Nat /\ twice[s] \subseteq Nat
      BY <1>1 DEF TypeOK
    <2>2. Acted(k, s) \subseteq Nat
      BY <1>4, <1>5
    <2> QED
      BY <2>1, <2>2 DEF Rows
  <1>7. TypeOK'
    <2>1. row' \in [Schedules -> Rows]
      <3>1. ASSUME NEW s \in Schedules PROVE row'[s] \in Rows
        <4>1. CASE armed[k][s] = 0
          BY <1>3, <1>6, <4>1, Zenon
        <4>2. CASE armed[k][s] # 0
          <5>1. row'[s] = [row[s] EXCEPT !.next = armed[k][s]]
            BY <1>3, <4>2
          <5>2. row[s] \in Rows /\ armed[k][s] \in Nat
            BY <1>6
          <5> QED
            BY <5>1, <5>2 DEF Rows
        <4> QED
          BY <4>1, <4>2
      <3>2. row' = [s \in Schedules |->
                      IF armed[k][s] = 0 THEN row[s]
                      ELSE [row[s] EXCEPT !.next = armed[k][s]]]
        BY DEF TickCommits
      <3> QED
        BY <3>1, <3>2
    <2>2. done' \in [Schedules -> SUBSET Nat]
      BY <1>6 DEF TickCommits
    <2>3. twice' \in [Schedules -> SUBSET Nat]
      BY <1>6 DEF TickCommits
    <2>4. DOMAIN runs' = Schedules
      BY DEF TickCommits
    <2>5. raced' \in BOOLEAN
      BY <1>2, Zenon
    <2> QED
      BY <1>1, <1>2, <2>1, <2>2, <2>3, <2>4, <2>5, EndedTick, Zenon DEF TypeOK
  <1>9. \A j \in Ticks : Place(j)'
    <2>1. ASSUME NEW j \in Ticks \ {k} PROVE Place(j)'
      <3>1. Place(j) /\ SameTick(j)
        BY <1>1, <1>2, EndedTick DEF ScheduleInv
      <3> QED
        BY <3>1 DEF Place, SameTick
    <2>2. Place(k)'
      BY <1>1, <1>2, EndedTick
    <2> QED
      BY <2>1, <2>2
  <1>10. ASSUME raced' = FALSE
         PROVE  (\A j \in Ticks : Visits(j)') /\ (\A s \in Schedules : Alone(s)')
    <2>1. raced = FALSE /\ Busy = {k} /\ now' = now
      <3>1. raced = FALSE /\ Busy = {k}
        BY <1>1, <1>2, <1>10, Zenon DEF TypeOK
      <3> QED
        BY <3>1, <1>2 DEF Ended
    <2>2. ASSUME NEW j \in Ticks \ {k} PROVE Visits(j)'
      <3>1. pc[j] = "idle" /\ SameTick(j)
        BY <1>1, <1>2, <2>1, EndedTick DEF Busy
      <3> QED
        BY <2>1, <3>1, IdleKeeps, Zenon
    <2>3. Visits(k)'
      BY <1>1, <1>2, EndedTick
    <2>4. Visits(k)
      BY <2>1 DEF ScheduleInv
    <2>5. ASSUME NEW s \in Schedules PROVE Alone(s)'
      <3>1. Alone(s)
        BY <2>1 DEF ScheduleInv
      <3>2. ASSUME NEW d \in Acted(k, s)
            PROVE  /\ d = row[s].next /\ d # 0 /\ d <= start[k]
                   /\ armed[k][s] # 0
        <4>1. PICK a \in acted[k] : a[1] = s /\ a[2] = d
          BY <1>5
        <4>2. /\ a[2] = row[a[1]].next /\ a[2] # 0 /\ a[2] <= start[k]
              /\ armed[k][a[1]] = 0 => pc[k] = "advance"
          BY <2>4 DEF Visits
        <4> QED
          BY <1>2, <4>1, <4>2
      <3>3. armed[k][s] # 0 => /\ start[k] < armed[k][s]
                               /\ row[s].next # 0 /\ row[s].next <= start[k]
                               /\ Matches(row[s].cron, armed[k][s])
        BY <2>4 DEF Visits
      <3>4. start[k] \in Nat /\ now \in Nat /\ start[k] <= now
        BY <1>1, <2>4 DEF TypeOK, Visits
      <3>5. ASSUME NEW d \in done[s]
            PROVE  d \in Nat /\ d <= now /\ (row[s].next = 0 \/ row[s].next > d)
        BY <1>6, <3>1 DEF Alone
      <3>6. twice'[s] = {}
        <4>1. twice[s] = {}
          BY <3>1 DEF Alone
        <4>2. done[s] \cap Acted(k, s) = {}
          <5> SUFFICES ASSUME NEW d \in done[s], d \in Acted(k, s) PROVE FALSE
            OBVIOUS
          <5> QED
            BY <1>6, <3>2, <3>5
        <4> QED
          BY <1>3, <4>1, <4>2, Zenon
      <3>7. /\ row'[s].next = IF armed[k][s] = 0 THEN row[s].next ELSE armed[k][s]
            /\ row'[s].cron = row[s].cron
        BY <1>3, <1>6, Zenon DEF Rows
      <3>8. ASSUME NEW d \in done'[s]
            PROVE  d <= now /\ (row'[s].next = 0 \/ row'[s].next > d)
        <4>1. CASE d \in done[s]
          BY <1>6, <3>3, <3>4, <3>5, <3>7, <4>1
        <4>2. CASE d \in Acted(k, s)
          BY <1>6, <3>2, <3>3, <3>4, <3>7, <4>2
        <4> QED
          BY <1>3, <4>1, <4>2, Zenon
      <3>9. row'[s].next # 0 => Matches(row'[s].cron, row'[s].next)
        <4>1. row[s].next # 0 => Matches(row[s].cron, row[s].next)
          BY <3>1 DEF Alone
        <4> QED
          BY <3>3, <3>7, <4>1
      <3> QED
        BY <2>1, <3>6, <3>8, <3>9 DEF Alone
    <2> QED
      BY <2>2, <2>3, <2>5
  <1> QED
    BY <1>7, <1>9, <1>10, Zenon DEF ScheduleInv

(* The operator's calls change one row, and end the wait for calls that do *)
(* not overlap if a tick is in progress.                                   *)
LEMMA CallKeeps ==
  ASSUME ScheduleInv, TypeOK', NEW x \in Schedules, Operator(x),
         \A s \in Schedules : Alone(s) => Alone(s)'
  PROVE  ScheduleInv'
  <1>1. /\ UNCHANGED <<now, pc, start, list, acted, armed>>
        /\ raced' = (raced \/ Busy # {})
    BY DEF Operator, tickVars
  <1>2. \A j \in Ticks : SameTick(j)
    BY <1>1 DEF SameTick
  <1>3. \A j \in Ticks : Place(j)'
    BY <1>1 DEF ScheduleInv, Place
  <1>4. ASSUME raced' = FALSE
        PROVE  (\A j \in Ticks : Visits(j)') /\ (\A s \in Schedules : Alone(s)')
    <2>1. raced = FALSE /\ Busy = {}
      BY <1>1, <1>4, Zenon DEF ScheduleInv, TypeOK
    <2>2. \A s \in Schedules : Alone(s)
      BY <2>1 DEF ScheduleInv
    <2>3. ASSUME NEW j \in Ticks PROVE Visits(j)'
      <3>1. pc[j] = "idle"
        BY <2>1 DEF Busy
      <3> QED
        BY <1>1, <1>2, <2>1, <3>1, IdleKeeps, Zenon
    <2> QED
      BY <2>2, <2>3
  <1> QED
    BY <1>3, <1>4, Zenon DEF ScheduleInv

(* The row of x is armed for the first match after now, or disarmed.       *)
LEMMA RearmKeeps ==
  ASSUME ScheduleInv, NEW x \in Schedules, Operator(x), NEW r \in Rows,
         row' = [row EXCEPT ![x] = r],
         r.next = 0 \/ r.next = cron_next_after(r.cron, now),
         UNCHANGED <<done, twice, runs>>
  PROVE  ScheduleInv'
  <1>1. TypeOK
    BY DEF ScheduleInv
  <1>2. /\ UNCHANGED <<now, inUse, pc, start, list, acted, armed>>
        /\ raced' = (raced \/ Busy # {})
    BY DEF Operator, tickVars
  <1>3. raced' \in BOOLEAN
    BY <1>2, Zenon
  <1>4. row' \in [Schedules -> Rows]
    BY <1>1 DEF TypeOK
  <1>5. TypeOK'
    BY <1>1, <1>2, <1>3, <1>4 DEF TypeOK
  <1>7. ASSUME NEW s \in Schedules, Alone(s) PROVE Alone(s)'
    <2>1. CASE s # x
      <3>1. row'[s] = row[s]
        BY <1>1, <2>1 DEF TypeOK
      <3> QED
        BY <1>2, <1>7, <3>1 DEF Alone
    <2>2. CASE s = x
      <3>1. row'[s] = r
        BY <1>1, <2>2 DEF TypeOK
      <3>2. now \in Nat /\ done[s] \subseteq Nat
        BY <1>1 DEF TypeOK
      <3>3. r.next # 0 => now < r.next /\ Matches(r.cron, r.next)
        BY <3>2, CronNext
      <3>4. r.next \in Nat
        BY DEF Rows
      <3>5. ASSUME NEW d \in done[s]
            PROVE  d <= now /\ (r.next = 0 \/ r.next > d)
        <4>1. d <= now /\ d \in Nat
          BY <1>7, <3>2 DEF Alone
        <4> QED
          BY <3>2, <3>3, <3>4, <4>1
      <3> QED
        BY <1>2, <1>7, <3>1, <3>3, <3>5 DEF Alone
    <2> QED
      BY <2>1, <2>2
  <1> QED
    BY <1>5, <1>7, CallKeeps

(* schedule_create arms the row for the first match after now.             *)
LEMMA CreateKeeps ==
  ASSUME ScheduleInv, NEW x \in Schedules, NEW c \in inUse, NEW on \in BOOLEAN,
         schedule_create(x, c, on)
  PROVE  ScheduleInv'
  <1> DEFINE n == cron_next_after(c, now)
             r == [cron |-> c, enabled |-> on, next |-> n]
  <1>1. now \in Nat /\ c \in Crons
    BY DEF ScheduleInv, TypeOK
  <1>2. n \in Nat
    BY <1>1, CronNext
  <1>3. Operator(x) /\ row' = [row EXCEPT ![x] = r] /\ UNCHANGED <<done, twice, runs>>
    BY DEF schedule_create
  <1> HIDE DEF n
  <1>4. r \in Rows /\ r.next = n /\ r.cron = c
    BY <1>1, <1>2 DEF Rows
  <1>5. r.next = cron_next_after(r.cron, now)
    BY <1>4 DEF n
  <1> HIDE DEF r
  <1> QED
    BY <1>3, <1>4, <1>5, RearmKeeps, Zenon

(* schedule_enable arms the row again.                                     *)
LEMMA EnableKeeps ==
  ASSUME ScheduleInv, NEW x \in Schedules, schedule_enable(x)
  PROVE  ScheduleInv'
  <1> DEFINE n == cron_next_after(row[x].cron, now)
             r == [row[x] EXCEPT !.enabled = TRUE, !.next = n]
  <1>1. now \in Nat /\ row \in [Schedules -> Rows] /\ row[x] \in Rows
    BY DEF ScheduleInv, TypeOK
  <1>2. n \in Nat
    BY <1>1, CronNext
  <1>3. Operator(x) /\ UNCHANGED <<done, twice, runs>>
        /\ row' = [row EXCEPT ![x].enabled = TRUE, ![x].next = n]
    BY DEF schedule_enable
  <1> HIDE DEF n
  <1>4. row' = [row EXCEPT ![x] = r]
    BY <1>1, <1>3, Zenon
  <1>5. r \in Rows /\ r.next = n /\ r.cron = row[x].cron
    BY <1>1, <1>2, Zenon DEF Rows
  <1>6. r.next = cron_next_after(r.cron, now)
    BY <1>5 DEF n
  <1> HIDE DEF r
  <1> QED
    BY <1>3, <1>4, <1>5, <1>6, RearmKeeps, Zenon

(* schedule_disable takes the due time away.                               *)
LEMMA DisableKeeps ==
  ASSUME ScheduleInv, NEW x \in Schedules, schedule_disable(x)
  PROVE  ScheduleInv'
  <1> DEFINE r == [row[x] EXCEPT !.enabled = FALSE, !.next = 0]
  <1>1. row \in [Schedules -> Rows] /\ row[x] \in Rows
    BY DEF ScheduleInv, TypeOK
  <1>2. Operator(x) /\ UNCHANGED <<done, twice, runs>>
        /\ row' = [row EXCEPT ![x].enabled = FALSE, ![x].next = 0]
    BY DEF schedule_disable
  <1>3. row' = [row EXCEPT ![x] = r]
    BY <1>1, <1>2, Zenon
  <1>4. r \in Rows /\ r.next = 0
    BY <1>1, Zenon DEF Rows
  <1> HIDE DEF r
  <1> QED
    BY <1>2, <1>3, <1>4, RearmKeeps, Zenon

(* schedule_run_now called by the operator.                                *)
LEMMA ManualRunKeeps ==
  ASSUME ScheduleInv, NEW x \in Schedules, RunNow(x)
  PROVE  ScheduleInv'
  <1>1. TypeOK
    BY DEF ScheduleInv
  <1>2. /\ Operator(x) /\ UNCHANGED <<row, twice>>
        /\ done' = [done EXCEPT ![x] = @ \cup {0}]
        /\ runs' = [runs EXCEPT ![x] = @ \cup {<<0, "succeeded">>}]
    BY DEF RunNow
  <1>3. /\ UNCHANGED <<now, inUse, pc, start, list, acted, armed>>
        /\ raced' = (raced \/ Busy # {})
    BY <1>2 DEF Operator, tickVars
  <1>4. raced' \in BOOLEAN
    BY <1>3, Zenon
  <1>5. done' \in [Schedules -> SUBSET Nat] /\ DOMAIN runs' = Schedules
    BY <1>1, <1>2 DEF TypeOK
  <1>6. TypeOK'
    BY <1>1, <1>2, <1>3, <1>4, <1>5 DEF TypeOK
  <1>7. ASSUME NEW s \in Schedules
        PROVE  /\ done'[s] = IF s = x THEN done[s] \cup {0} ELSE done[s]
               /\ runs'[s] = IF s = x THEN runs[s] \cup {<<0, "succeeded">>} ELSE runs[s]
    BY <1>1, <1>2, Zenon DEF TypeOK
  <1>9. ASSUME NEW s \in Schedules, Alone(s) PROVE Alone(s)'
    <2>1. now \in Nat /\ row[s].next \in Nat /\ done[s] \subseteq Nat
      BY <1>1 DEF TypeOK, Rows
    <2>2. ASSUME NEW d \in done'[s]
          PROVE  d <= now /\ (row[s].next = 0 \/ row[s].next > d)
      <3>1. CASE d \in done[s]
        BY <1>9, <3>1 DEF Alone
      <3>2. CASE d = 0
        BY <2>1, <3>2
      <3> QED
        BY <1>7, <3>1, <3>2, Zenon
    <2> QED
      BY <1>2, <1>3, <1>9, <2>2, Zenon DEF Alone
  <1> QED
    BY <1>2, <1>6, <1>9, CallKeeps

(* Time passes.                                                            *)
LEMMA MinuteKeeps ==
  ASSUME ScheduleInv, Minute
  PROVE  ScheduleInv'
  <1>1. now \in Nat /\ now' = now + 1
        /\ UNCHANGED <<inUse, row, done, twice, runs, pc, start, list, acted, armed, raced>>
    BY DEF ScheduleInv, TypeOK, Minute, tickVars
  <1>2. TypeOK'
    BY <1>1 DEF ScheduleInv, TypeOK
  <1>3. \A k \in Ticks : Place(k)'
    BY <1>1 DEF ScheduleInv, Place
  <1>4. ASSUME raced = FALSE, NEW k \in Ticks PROVE Visits(k)'
    <2>1. Visits(k) /\ start[k] \in Nat
      BY <1>4 DEF ScheduleInv, TypeOK
    <2>2. start[k] <= now'
      BY <1>1, <2>1 DEF Visits
    <2> QED
      BY <1>1, <2>1, <2>2, Zenon DEF Visits
  <1>5. ASSUME raced = FALSE, NEW s \in Schedules PROVE Alone(s)'
    <2>1. Alone(s) /\ done[s] \subseteq Nat
      BY <1>5 DEF ScheduleInv, TypeOK
    <2>2. \A d \in done[s] : d <= now'
      BY <1>1, <2>1 DEF Alone
    <2> QED
      BY <1>1, <2>1, <2>2 DEF Alone
  <1> QED
    BY <1>1, <1>2, <1>3, <1>4, <1>5, Zenon DEF ScheduleInv

(* The invariant holds of the schedules as they are created.               *)
LEMMA InitInv == Init => ScheduleInv
  <1> SUFFICES ASSUME Init PROVE ScheduleInv
    OBVIOUS
  <1>1. ASSUME NEW s \in Schedules
        PROVE  \E c \in inUse : /\ cron_next_after(c, 0) # 0
                                /\ row[s] = [cron |-> c, enabled |-> TRUE,
                                             next |-> cron_next_after(c, 0)]
    BY DEF Init
  <1>2. ASSUME NEW s \in Schedules
        PROVE  row[s] \in Rows /\ Matches(row[s].cron, row[s].next)
    <2>1. PICK c \in inUse : /\ cron_next_after(c, 0) # 0
                             /\ row[s] = [cron |-> c, enabled |-> TRUE,
                                          next |-> cron_next_after(c, 0)]
      BY <1>1
    <2>2. cron_next_after(c, 0) \in Nat /\ Matches(c, cron_next_after(c, 0)) /\ c \in Crons
      BY <2>1, CronNext, Zenon DEF Init
    <2> QED
      BY <2>1, <2>2 DEF Rows
  <1>3. row \in [Schedules -> Rows]
    BY <1>2, Zenon DEF Init
  <1>4. NothingArmed \in [Schedules -> Nat]
    BY DEF NothingArmed
  <1>5. TypeOK
    <2>1. now \in Nat /\ inUse \subseteq Crons /\ raced \in BOOLEAN
          /\ DOMAIN runs = Schedules
      BY Zenon DEF Init
    <2>2. /\ done \in [Schedules -> SUBSET Nat] /\ twice \in [Schedules -> SUBSET Nat]
          /\ pc \in [Ticks -> {"idle", "run", "advance"}] /\ start \in [Ticks -> Nat]
      BY DEF Init
    <2>3. list \in [Ticks -> Seq(Dues)]
      BY DEF Init
    <2>4. acted \in [Ticks -> SUBSET (Schedules \X Nat \X {"succeeded"})]
      BY DEF Init
    <2>5. armed \in [Ticks -> [Schedules -> Nat]]
      BY <1>4 DEF Init
    <2> QED
      BY <1>3, <2>1, <2>2, <2>3, <2>4, <2>5 DEF TypeOK
  <1>7. \A k \in Ticks : Place(k)
    BY DEF Init, Place
  <1>8. \A k \in Ticks : Visits(k)
    <2>1. ASSUME NEW k \in Ticks
          PROVE  /\ start[k] <= now /\ list[k] = <<>> /\ acted[k] = {}
                 /\ \A s \in Schedules : armed[k][s] = 0
      BY DEF Init, NothingArmed
    <2> QED
      BY <2>1 DEF Visits
  <1>9. \A s \in Schedules : Alone(s)
    BY <1>2 DEF Init, Alone
  <1> QED
    BY <1>5, <1>7, <1>8, <1>9 DEF ScheduleInv

(* Every step keeps the invariant.                                         *)
LEMMA NextInv == ScheduleInv /\ [Next]_vars => ScheduleInv'
  <1> SUFFICES ASSUME ScheduleInv, [Next]_vars PROVE ScheduleInv'
    OBVIOUS
  <1>1. ASSUME NEW k \in Ticks, TickStep(k) PROVE ScheduleInv'
    <2>1. CASE TickAborts(k)
      BY <2>1, UndoneKeeps DEF TickAborts
    <2> QED
      BY <1>1, <2>1, TickStartKeeps, WaitKeeps, RunNowKeeps, AdvanceKeeps, CommitKeeps,
         VictimKeeps DEF TickStep
  <1>2. ASSUME NEW s \in Schedules,
               \/ schedule_enable(s) \/ schedule_disable(s) \/ RunNow(s)
               \/ \E c \in inUse, on \in BOOLEAN : schedule_create(s, c, on)
        PROVE  ScheduleInv'
    BY <1>2, EnableKeeps, DisableKeeps, ManualRunKeeps, CreateKeeps
  <1>3. CASE UNCHANGED vars
    <2>1. UNCHANGED <<now, inUse, row, done, twice, runs, pc, start, list, acted,
                      armed, raced>>
      BY <1>3 DEF vars, tickVars
    <2>2. TypeOK' /\ \A k \in Ticks : Place(k)'
      BY <2>1 DEF ScheduleInv, TypeOK, Place
    <2>3. ASSUME raced = FALSE, NEW k \in Ticks PROVE Visits(k)'
      BY <2>1, <2>3, Zenon DEF ScheduleInv, Visits
    <2>4. ASSUME raced = FALSE, NEW s \in Schedules PROVE Alone(s)'
      BY <2>1, <2>4, Zenon DEF ScheduleInv, Alone
    <2> QED
      BY <2>1, <2>2, <2>3, <2>4, Zenon DEF ScheduleInv
  <1> QED
    BY <1>1, <1>2, <1>3, MinuteKeeps DEF Next

(* Every reachable state satisfies ScheduleInv: the types and, until a     *)
(* call commits during a tick, that what a tick has read and armed is      *)
(* still true of the rows.                                                 *)
THEOREM Invariance == Spec => []ScheduleInv
  BY InitInv, NextInv, PTL DEF Spec

(* Whatever the expression, cron_next_after returns the first matching     *)
(* minute after its argument: skipping a whole day at a midnight never     *)
(* jumps over a match, and no_data_found is raised only if the next        *)
(* Attempts minutes have none.                                             *)
THEOREM CronFindsTheFirst == Spec => []NextIsFirst
  <1>1. ScheduleInv => NextIsFirst
    <2> SUFFICES ASSUME ScheduleInv, NEW c \in inUse, NEW a \in now .. now + 2 * DayLen
                 PROVE  LET n == cron_next_after(c, a) IN
                        IF n = 0 THEN \A t \in a + 1 .. a + Attempts : ~Matches(c, t)
                        ELSE Matches(c, n) /\ \A t \in a + 1 .. n - 1 : ~Matches(c, t)
      BY DEF NextIsFirst
    <2>1. a \in Nat
      BY ScheduleAssumption DEF ScheduleInv, TypeOK
    <2> QED
      BY <2>1, CronNext
  <1> QED
    BY <1>1, Invariance, PTL

(* As long as no call commits during a tick, no due time is acted upon     *)
(* twice, and the row is armed past every due time acted upon, at a time   *)
(* its own expression matches.                                             *)
THEOREM AloneActsOnce == Spec => []OnceIfAlone
  <1>1. ScheduleInv => OnceIfAlone
    <2> SUFFICES ASSUME ScheduleInv, ~raced, NEW s \in Schedules
                 PROVE  /\ twice[s] = {}
                        /\ \A d \in done[s] : row[s].next = 0 \/ row[s].next > d
                        /\ row[s].next # 0 => Matches(row[s].cron, row[s].next)
      BY DEF OnceIfAlone
    <2>1. raced = FALSE
      BY DEF ScheduleInv, TypeOK
    <2>2. Alone(s)
      BY <2>1 DEF ScheduleInv
    <2> QED
      BY <2>2 DEF Alone
  <1> QED
    BY <1>1, Invariance, PTL

=============================================================================
