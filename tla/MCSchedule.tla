----------------------------- MODULE MCSchedule -----------------------------
(***************************************************************************)
(* Two schedules and two overlapping ticks.  A day has three minutes and   *)
(* the walk makes four attempts, a day and a little, as 366 * 4 is of      *)
(* 1440.  One expression matches on most days, the other on day 0 and then *)
(* not before day 5; the first is always in use.  The schedules are alike, *)
(* so only one of them is given an action that fails, and that where the   *)
(* second expression is not in use.                                        *)
(***************************************************************************)
EXTENDS Schedule

MCCrons ==
  {[days |-> {0, 1, 3, 4, 6}, minutes |-> {1, 2}],
   [days |-> {0, 5}, minutes |-> {1}]}

MCInit ==
  /\ Init
  /\ failing \subseteq {CHOOSE s \in Schedules : TRUE}
  /\ inUse \cap Near # {}
  /\ failing = {} \/ inUse \subseteq Near

MCSpec == MCInit /\ [][Next]_vars /\ Fairness

=============================================================================
