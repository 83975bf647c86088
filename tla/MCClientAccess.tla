--------------------------- MODULE MCClientAccess ---------------------------
(***************************************************************************)
(* For the process: two connections; bodies on both sides of the limit,    *)
(* the first buffer doubled twice on the way to it.  For the request:      *)
(* every method and every implementation type under different sets of      *)
(* failures.  For the library: its whole interface, every allocation free  *)
(* to fail.                                                                *)
(***************************************************************************)
EXTENDS ClientAccess

MCLengths == {0, 3, 7, 8}

\* Everything; everything except _end_request; and the statements of the
\* tool's call, with a connection that lasts and an audit insert that works.
AllFaultSets ==
  { AllFails,
    AllFails \ {"end_request"},
    {"begin_request", "function", "end_request", "commit", "load_meta",
     "lookup"} }

=============================================================================
