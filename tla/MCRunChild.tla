----------------------------- MODULE MCRunChild -----------------------------
(***************************************************************************)
(* Small instances of RunChild: pipes of two units, buffers for two units  *)
(* of stdout and one of stderr.                                            *)
(***************************************************************************)
EXTENDS RunChild

ChildOf(out, err, mayClose, lingers, sysFails) ==
  [ plan |-> [s \in Outputs |-> IF s = "out" THEN out ELSE err],
    mayClose |-> mayClose, lingers |-> lingers, sysFails |-> sysFails,
    diligent |-> FALSE, timed |-> TRUE ]

\* More than both buffers hold, from a child that closes its outputs when it
\* likes and system calls that fail.
Unruly == ChildOf(3, 2, {"out", "err"}, FALSE, TRUE)

\* The same from a child that may close its stdin and leave descendants.
Lingering == ChildOf(3, 2, {"in"}, TRUE, FALSE)

\* More than a pipe holds on stderr, as much as the buffer holds on stdout.
Working ==
  [ ChildOf(2, 4, {}, FALSE, FALSE) EXCEPT !.diligent = TRUE, !.timed = FALSE ]

AllCalls == {Unruly, Lingering, Working}

=============================================================================
