---------------------------- MODULE MCProxyStdio ----------------------------
(***************************************************************************)
(* Small instances of ProxyStdio.  A pipe holds more than one read takes,  *)
(* as in the program (64 KiB and 4 KiB).                                   *)
(***************************************************************************)
EXTENDS ProxyStdio

ServerOf(out, mayClose, lingers, sysFails) ==
  [ plan |-> [s \in Outputs |-> out],
    mayClose |-> mayClose, lingers |-> lingers, sysFails |-> sysFails,
    diligent |-> FALSE, timed |-> TRUE ]

\* One unit more than MaxOutput = 4, from a server that does what it likes.
Unruly == ServerOf(5, {"in", "out"}, TRUE, TRUE)

\* Request and response of 4 units, more than the 3 a pipe holds.
Working ==
  [ ServerOf(4, {}, FALSE, FALSE) EXCEPT !.diligent = TRUE, !.timed = FALSE ]

AllCalls == {Unruly, Working}

=============================================================================
