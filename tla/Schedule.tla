------------------------------ MODULE Schedule ------------------------------
(***************************************************************************)
(* malu$schedule: cron expressions, the operator's calls, and              *)
(* schedule_tick, which an external clock calls and which may be called    *)
(* again before an earlier call has committed.  A tick is one READ         *)
(* COMMITTED transaction: it selects the due schedules, and for each runs  *)
(* the action in a subtransaction and sets next_run_at; each UPDATE keeps  *)
(* the row locked until the tick ends.                                     *)
(*                                                                         *)
(* Time is counted in minutes, a day has DayLen of them, and an expression *)
(* is the set of days and the set of minutes of the day it allows.  A due  *)
(* time of 0 is NULL.                                                      *)
(***************************************************************************)
EXTENDS Naturals, Sequences, FiniteSets

CONSTANTS
  Schedules, Ticks,
  DayLen,    \* 1440 in the code
  Attempts,  \* 366 * 4 in the code: a day and 24 minutes
  Crons,     \* expressions
  MaxNow, MaxOps  \* bounds on the clock and on the operator's calls

ASSUME ScheduleAssumption ==
  /\ IsFiniteSet(Schedules)
  /\ {DayLen, Attempts} \subseteq Nat \ {0}
  /\ {MaxNow, MaxOps} \subseteq Nat

-----------------------------------------------------------------------------
(* cron_next_after.                                                        *)

DayMatches(c, t) == (t \div DayLen) \in c.days
Matches(c, t) == DayMatches(c, t) /\ (t % DayLen) \in c.minutes

\* At a midnight whose day does not match, that day is skipped; the day after
\* it is walked whether it matches or not.
Skip_AnyDay(c, t) == IF t % DayLen = 0 THEN t + DayLen ELSE t

Skip(c, t) ==
  IF t % DayLen = 0 /\ ~DayMatches(c, t) THEN t + DayLen ELSE t

\* t[n] is the time looked at in round n, or the one that has matched before;
\* 0 where the code raises no_data_found.
cron_next_after(c, after) ==
  LET round == [u \in Nat |-> IF Matches(c, u) THEN u ELSE Skip(c, u + 1)]
      t[n \in 0 .. Attempts - 1] ==
        IF n = 0 THEN after + 1 ELSE round[t[n - 1]]
      last == t[Attempts - 1]
  IN  IF Matches(c, last) THEN last ELSE 0

\* The expressions whose next time is always within the walk.
Near == {c \in Crons : \A t \in 0 .. MaxNow : cron_next_after(c, t) # 0}

-----------------------------------------------------------------------------
VARIABLES
  now,
  inUse,    \* the expressions the schedules are created with
  failing,  \* schedules whose action raises
  row,      \* row[s]: [cron, enabled, next] of malu$schedule, as committed
  lock,     \* lock[s]: the tick that has updated the row and not yet ended,
            \* then those that wait for it, in order
  done,     \* done[s]: due times acted upon; 0 for schedule_run_now
  twice,    \* twice[s]: due times acted upon more than once
  runs,     \* runs[s]: <<due, status>> of the rows of malu$schedule_run
  pc,       \* pc[k]: "idle", "run" or "advance"
  start,    \* start[k]: now() in the tick's transaction
  list,     \* list[k]: the due schedules it has still to visit
  acted,    \* acted[k]: <<s, due, status>> of the runs in its transaction
  armed,    \* armed[k][s]: the next_run_at its transaction has set, 0 if none
  raced,    \* a call has committed while a tick was in progress
  ops

tickVars == <<pc, start, list, acted, armed>>
vars == <<now, inUse, failing, row, lock, done, twice, runs, tickVars, raced, ops>>

NothingArmed == [s \in Schedules |-> 0]
Busy == {k \in Ticks : pc[k] # "idle"}

Init ==
  /\ now = 0 /\ ops = 0 /\ raced = FALSE
  /\ failing \in SUBSET Schedules
  /\ inUse \in (SUBSET Crons) \ {{}}
  /\ row \in [Schedules -> {[cron |-> c, enabled |-> TRUE,
                             next |-> cron_next_after(c, 0)] :
                              c \in {c \in inUse : cron_next_after(c, 0) # 0}}]
  /\ lock = [s \in Schedules |-> <<>>]
  /\ done = [s \in Schedules |-> {}]
  /\ twice = [s \in Schedules |-> {}]
  /\ runs = [s \in Schedules |-> {}]
  /\ pc = [k \in Ticks |-> "idle"]
  /\ start = [k \in Ticks |-> 0]
  /\ list = [k \in Ticks |-> <<>>]
  /\ acted = [k \in Ticks |-> {}]
  /\ armed = [k \in Ticks |-> NothingArmed]

-----------------------------------------------------------------------------
(* The operator's calls, a transaction each; they wait for the row.        *)

Operator(s) ==
  /\ ops < MaxOps /\ ops' = ops + 1
  /\ lock[s] = <<>>
  /\ raced' = (raced \/ Busy # {})
  /\ UNCHANGED <<now, inUse, failing, lock, tickVars>>

schedule_create(s, c, on) ==
  /\ cron_next_after(c, now) # 0
  /\ Operator(s)
  /\ row' = [row EXCEPT ![s] =
               [cron |-> c, enabled |-> on, next |-> cron_next_after(c, now)]]
  /\ UNCHANGED <<done, twice, runs>>

schedule_enable(s) ==
  /\ cron_next_after(row[s].cron, now) # 0
  /\ Operator(s)
  /\ row' = [row EXCEPT ![s].enabled = TRUE,
                        ![s].next = cron_next_after(row[s].cron, now)]
  /\ UNCHANGED <<done, twice, runs>>

schedule_disable(s) ==
  /\ Operator(s)
  /\ row' = [row EXCEPT ![s].enabled = FALSE, ![s].next = 0]
  /\ UNCHANGED <<done, twice, runs>>

\* Called on its own.  A failing action leaves nothing: the handler writes the
\* 'failed' row and raises, and the transaction is rolled back with it.
RunNow(s) ==
  /\ s \notin failing
  /\ Operator(s)
  /\ done' = [done EXCEPT ![s] = @ \cup {0}]
  /\ runs' = [runs EXCEPT ![s] = @ \cup {<<0, "succeeded">>}]
  /\ UNCHANGED <<row, twice>>

-----------------------------------------------------------------------------
(* schedule_tick.                                                          *)

Due == {s \in Schedules : row[s].enabled /\ row[s].next # 0 /\ row[s].next <= now}

\* ORDER BY next_run_at; ties come in either order.
Orders ==
  {q \in [1 .. Cardinality(Due) -> Due] :
     /\ \A i, j \in DOMAIN q : i # j => q[i] # q[j]
     /\ \A i, j \in DOMAIN q : i < j => row[q[i]].next <= row[q[j]].next}

\* The query's snapshot: name, due time and cron_expr are those of now.
TickStart(k) ==
  /\ pc[k] = "idle" /\ Due # {}
  /\ \E q \in Orders :
       list' = [list EXCEPT ![k] =
                  [i \in DOMAIN q |->
                     [s |-> q[i], due |-> row[q[i]].next, cron |-> row[q[i]].cron]]]
  /\ pc' = [pc EXCEPT ![k] = "run"]
  /\ start' = [start EXCEPT ![k] = now]
  /\ UNCHANGED <<now, inUse, failing, row, lock, done, twice, runs, acted, armed, raced,
                 ops>>

\* The row is k's, or nobody's and k's for the asking.
Free(k, s) == lock[s] # <<>> => Head(lock[s]) = k

Held(k, s) == IF lock[s] = <<>> THEN [lock EXCEPT ![s] = <<k>>] ELSE lock

\* k holds the row or waits for it.
Queued(k, s) == \E i \in 1 .. Len(lock[s]) : lock[s][i] = k

Left(k, s) == SelectSeq(lock[s], LAMBDA j : j # k)

Without(k) == [s \in Schedules |-> Left(k, s)]

\* An UPDATE of the row at the head of the list finds it locked.
Wait(k) ==
  /\ pc[k] # "idle" /\ list[k] # <<>>
  /\ LET s == Head(list[k]).s IN
       /\ lock[s] # <<>> /\ ~Queued(k, s)
       /\ lock' = [lock EXCEPT ![s] = Append(@, k)]
  /\ UNCHANGED <<now, inUse, failing, row, done, twice, runs, tickVars, raced, ops>>

\* The error leaves the loop.
schedule_run_now_NotCaught(k) ==
  /\ pc[k] = "run" /\ list[k] # <<>>
  /\ LET r == Head(list[k]) IN
       /\ Free(k, r.s)
       /\ IF r.s \in failing
            THEN /\ pc' = [pc EXCEPT ![k] = "idle"]
                 /\ list' = [list EXCEPT ![k] = <<>>]
                 /\ acted' = [acted EXCEPT ![k] = {}]
                 /\ armed' = [armed EXCEPT ![k] = NothingArmed]
                 /\ lock' = Without(k)
            ELSE /\ lock' = Held(k, r.s)
                 /\ acted' = [acted EXCEPT ![k] = @ \cup {<<r.s, r.due, "succeeded">>}]
                 /\ pc' = [pc EXCEPT ![k] = "advance"]
                 /\ UNCHANGED <<list, armed>>
  /\ UNCHANGED <<now, inUse, failing, row, done, twice, runs, start, raced, ops>>

\* schedule_run_now inside the tick's handler: the action, the run row and the
\* update of the schedule's row, or, when the action raises, nothing at all.
\* Whether the schedule is still enabled is not looked at again.
schedule_run_now(k) ==
  /\ pc[k] = "run" /\ list[k] # <<>>
  /\ LET r == Head(list[k]) IN
       /\ Free(k, r.s)
       /\ IF r.s \in failing
            THEN /\ lock' = [lock EXCEPT ![r.s] = Left(k, r.s)]
                 /\ UNCHANGED acted
            ELSE /\ lock' = Held(k, r.s)
                 /\ acted' = [acted EXCEPT ![k] = @ \cup {<<r.s, r.due, "succeeded">>}]
  /\ pc' = [pc EXCEPT ![k] = "advance"]
  /\ UNCHANGED <<now, inUse, failing, row, done, twice, runs, start, list, armed, raced,
                 ops>>

\* next_run_at is worked out from the time it was due.
Advance_FromBefore(k) ==
  /\ pc[k] = "advance"
  /\ LET r == Head(list[k]) IN
       /\ cron_next_after(r.cron, r.due - 1) # 0 /\ Free(k, r.s)
       /\ armed' = [armed EXCEPT ![k][r.s] = cron_next_after(r.cron, r.due - 1)]
       /\ lock' = Held(k, r.s)
  /\ list' = [list EXCEPT ![k] = Tail(@)]
  /\ pc' = [pc EXCEPT ![k] = "run"]
  /\ UNCHANGED <<now, inUse, failing, row, done, twice, runs, start, acted, raced, ops>>

Advance(k) ==
  /\ pc[k] = "advance"
  /\ LET r == Head(list[k]) IN
       /\ cron_next_after(r.cron, start[k]) # 0 /\ Free(k, r.s)
       /\ armed' = [armed EXCEPT ![k][r.s] = cron_next_after(r.cron, start[k])]
       /\ lock' = Held(k, r.s)
  /\ list' = [list EXCEPT ![k] = Tail(@)]
  /\ pc' = [pc EXCEPT ![k] = "run"]
  /\ UNCHANGED <<now, inUse, failing, row, done, twice, runs, start, acted, raced, ops>>

Ended(k) ==
  /\ pc' = [pc EXCEPT ![k] = "idle"]
  /\ start' = [start EXCEPT ![k] = 0]
  /\ list' = [list EXCEPT ![k] = <<>>]
  /\ acted' = [acted EXCEPT ![k] = {}]
  /\ armed' = [armed EXCEPT ![k] = NothingArmed]
  /\ lock' = Without(k)
  /\ UNCHANGED <<now, inUse, failing, ops>>

Acted(k, s) == {a[2] : a \in {b \in acted[k] : b[1] = s /\ b[3] = "succeeded"}}

TickCommits(k) ==
  /\ pc[k] = "run" /\ list[k] = <<>>
  /\ row' = [s \in Schedules |->
               IF armed[k][s] = 0 THEN row[s]
               ELSE [row[s] EXCEPT !.next = armed[k][s]]]
  /\ twice' = [s \in Schedules |-> twice[s] \cup (done[s] \cap Acted(k, s))]
  /\ done' = [s \in Schedules |-> done[s] \cup Acted(k, s)]
  /\ runs' = [s \in Schedules |-> runs[s] \cup
                {<<a[2], a[3]>> : a \in {b \in acted[k] : b[1] = s}}]
  /\ raced' = (raced \/ Busy # {k})
  /\ Ended(k)

\* cron_next_after raises outside the handler: the whole tick is undone.
TickAborts(k) ==
  /\ pc[k] = "advance"
  /\ cron_next_after(Head(list[k]).cron, start[k]) = 0
  /\ Ended(k)
  /\ UNCHANGED <<row, done, twice, runs, raced>>

\* Two ticks wait for each other's rows; PostgreSQL picks one.  Inside the
\* handler that is one more failed action, outside it the end of the tick.
Waits(k, j) ==
  /\ k # j /\ list[k] # <<>>
  /\ LET s == Head(list[k]).s IN Queued(k, s) /\ Head(lock[s]) = j

DeadlockVictim(k) ==
  /\ \E j \in Ticks : Waits(k, j) /\ Waits(j, k)
  /\ \/ /\ pc[k] = "run"
        /\ pc' = [pc EXCEPT ![k] = "advance"]
        /\ lock' = [lock EXCEPT ![Head(list[k]).s] = Left(k, Head(list[k]).s)]
        /\ UNCHANGED <<now, inUse, failing, row, done, twice, runs, start, list,
                       acted, armed, raced, ops>>
     \/ /\ pc[k] = "advance"
        /\ Ended(k)
        /\ UNCHANGED <<row, done, twice, runs, raced>>

TickStep(k) ==
  \/ TickStart(k) \/ Wait(k) \/ schedule_run_now(k) \/ Advance(k) \/ TickCommits(k)
  \/ TickAborts(k) \/ DeadlockVictim(k)

Minute ==
  /\ now < MaxNow
  /\ now' = now + 1
  /\ UNCHANGED <<inUse, failing, row, lock, done, twice, runs, tickVars, raced, ops>>

Next ==
  \/ \E k \in Ticks : TickStep(k)
  \/ \E s \in Schedules :
       \/ schedule_enable(s) \/ schedule_disable(s) \/ RunNow(s)
       \/ \E c \in inUse, on \in BOOLEAN : schedule_create(s, c, on)
  \/ Minute

\* The clock calls schedule_tick again and again, and a call gets on.
Fairness == \A k \in Ticks : WF_vars(TickStep(k))

Spec == Init /\ [][Next]_vars /\ Fairness

-----------------------------------------------------------------------------
\* From any minute of the next two days, cron_next_after returns the first
\* matching minute after it, never one behind a match it skipped; and it gives
\* up only when the next Attempts minutes have none.
NextIsFirst ==
  \A c \in inUse, a \in now .. now + 2 * DayLen :
    LET n == cron_next_after(c, a) IN
    IF n = 0 THEN \A t \in a + 1 .. a + Attempts : ~Matches(c, t)
    ELSE Matches(c, n) /\ \A t \in a + 1 .. n - 1 : ~Matches(c, t)

\* When calls do not overlap, a due time is acted upon at most once and the
\* row is armed for a later one, at a time of its own expression.
OnceIfAlone ==
  ~raced => \A s \in Schedules :
    /\ twice[s] = {}
    /\ \A d \in done[s] : row[s].next = 0 \/ row[s].next > d
    /\ row[s].next # 0 => Matches(row[s].cron, row[s].next)

DueAt(d) == {s \in Due : row[s].next = d}

\* All schedules due at a time are dealt with, whatever the actions of the
\* others do and however ticks have got in each other's way, provided that
\* ticks do not overlap for ever and that every expression in use has a next
\* time within the walk.  Ticks that overlap for ever can end each other again
\* and again, as two that take tied schedules in opposite orders; an
\* expression without a next time ends every tick it is due in.
EveryDueIsPassed ==
  (<>[](Cardinality(Busy) <= 1)) =>
    \A d \in 1 .. MaxNow :
      (inUse \subseteq Near /\ DueAt(d) # {}) ~> (DueAt(d) = {})

\* schedule_tick: "schedule_run_now already recorded the failure; keep ticking
\* the rest of the queue."  When a tick commits that has gone past a schedule
\* whose action raised, the run history has the failure.  It has not:
\* schedule_run_now writes the row 'failed' and raises again, and the tick's
\* handler undoes the row with everything else schedule_run_now did.
FailureIsRecorded ==
  [][\A k \in Ticks, s \in failing :
       TickCommits(k) /\ armed[k][s] # 0 => \E r \in runs'[s] : r[2] = "failed"]_vars

=============================================================================
