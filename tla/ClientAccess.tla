---------------------------- MODULE ClientAccess ----------------------------
(***************************************************************************)
(* The ways of a client to the database that this repository provides in   *)
(* C: the mc2dbd process with its connections (Listener), one request from *)
(* the moment its body is complete (ToolCall, which is what Listener's     *)
(* Enter and Return enclose), and libmaludb (CDriver).  They share no      *)
(* state but the database's: `route' says which one a behaviour is about,  *)
(* and the others keep an initial state.                                   *)
(***************************************************************************)
EXTENDS Listener, ToolCall, CDriver

VARIABLE route

accessVars == <<vars, callVars, driverVars, route>>

\* Some request, which nobody looks at.
NoCall ==
  /\ CallInit
  /\ faults = CHOOSE f \in FaultSets : TRUE
  /\ method = CHOOSE m \in Methods : TRUE
  /\ impl = CHOOSE i \in Impls : TRUE
  /\ companion = TRUE /\ tool = "absent"

AccessInit ==
  /\ Init /\ DriverInit
  /\ \/ route \in {"process", "library"} /\ NoCall
     \/ route = "request" /\ CallInit

OnProcess(A) == route = "process" /\ A /\ UNCHANGED <<callVars, driverVars, route>>

AccessNext ==
  \/ OnProcess(Next)
  \/ route = "request" /\ CallNext /\ UNCHANGED <<vars, driverVars, route>>
  \/ route = "library" /\ DriverNext /\ UNCHANGED <<vars, callVars, route>>

\* The fairness of Listener.  Nothing is asked of the other two.
AccessFairness ==
  /\ WF_accessVars(OnProcess(Probe)) /\ WF_accessVars(OnProcess(GlobalInit))
  /\ WF_accessVars(OnProcess(http_start)) /\ WF_accessVars(OnProcess(MainLoop))
  /\ SF_accessVars(OnProcess(http_stop)) /\ WF_accessVars(OnProcess(Cleanup))
  /\ \A c \in Conns : SF_accessVars(OnProcess(Thread(c)))

AccessSpec == AccessInit /\ [][AccessNext]_accessVars /\ AccessFairness

=============================================================================
