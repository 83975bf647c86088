------------------------------ MODULE RunChild ------------------------------
(***************************************************************************)
(* run_child of mc2dbd/src/exec.c: the listener's side of one              *)
(* external_exec tool call.  It forks the tool, feeds it the call envelope *)
(* on stdin, collects stdout and stderr in one select() loop with a        *)
(* deadline, and reaps it.  The tool and the pipes are those of            *)
(* ChildProcess.                                                           *)
(*                                                                         *)
(* A value of pc is a place in the function: the loop head, and the three  *)
(* descriptor handlers that follow a select() that found something ready.  *)
(* The child runs between any two of them.  The clock is abstract: the     *)
(* deadline in force passes at some moment after it is set.                *)
(***************************************************************************)
EXTENDS ChildProcess

CONSTANTS
  StdinLens,   \* the lengths of stdin_text considered
  MaxOutput,   \* max_output_bytes, i.e. out_cap - 1
  MaxStderr    \* EXEC_STDERR_CAP, i.e. err_cap - 1

ASSUME RunChildAssumption ==
  /\ Outputs = {"out", "err"}
  /\ StdinLens \subseteq Nat /\ StdinLens # {}
  /\ MaxOutput \in Nat \ {0}
  /\ MaxStderr \in Nat

VARIABLES
  pc,
  stdin_len, stdin_off,
  out_len, err_len,
  ready,        \* what select() reported
  deadline,     \* the deadline in force: "timeout" or "grace"
  due,          \* it has passed
  killed_term, killed_kill, timed_out,
  rc,           \* the value returned: -1, 0, 1 (2 while running)
  exit_status   \* "none", or the child's as run_child reports it

ioVars == <<stdin_len, stdin_off, out_len, err_len, ready>>
killVars == <<deadline, due, killed_term, killed_kill, timed_out>>
resultVars == <<rc, exit_status>>
listenerVars == <<pc, ioVars, killVars, resultVars>>
vars == <<childVars, fds, listenerVars>>

InLoop == pc \in {"loop", "stdin", "stdout", "stderr"}

Init ==
  /\ ChildInit
  /\ pc = "pipe"
  /\ stdin_len \in StdinLens
  /\ stdin_off = 0 /\ out_len = 0 /\ err_len = 0
  /\ ready = {}
  /\ deadline = "timeout" /\ due = FALSE
  /\ killed_term = FALSE /\ killed_kill = FALSE /\ timed_out = FALSE
  /\ rc = 2 /\ exit_status = "none"

-----------------------------------------------------------------------------
(* Spawning.                                                               *)

\* The three pipes are made in order; the first failure jumps to io_err.
OpenPipes ==
  /\ pc = "pipe"
  /\ \E made \in {{}, {"in"}, {"in", "out"}, Streams} :
       /\ ~SysFails => made = Streams
       /\ fds' = BothEnds(made)
       /\ pc' = IF made = Streams THEN "fork" ELSE "io_err"
  /\ UNCHANGED <<childVars, ioVars, killVars, resultVars>>

\* After fork() the child holds its end of each pipe and the parent, once it
\* has closed those, the other.
Fork ==
  /\ pc = "fork"
  /\ child' = "running"
  /\ held' = Streams
  /\ fds' = OurEnds
  /\ pc' = "loop"
  /\ UNCHANGED <<call, status, signals, pipe, sent, doing, ioVars, killVars, resultVars>>

ForkFails ==
  /\ SysFails
  /\ pc = "fork"
  /\ pc' = "io_err"
  /\ UNCHANGED <<childVars, fds, ioVars, killVars, resultVars>>

-----------------------------------------------------------------------------
(* The head of the loop.                                                   *)

AllClosed ==
  /\ pc = "loop"
  /\ fds = {}
  /\ pc' = "close"
  /\ UNCHANGED <<childVars, fds, ioVars, killVars, resultVars>>

\* Stdin has nothing left to send: close it so that the child sees EOF.
StdinDrained ==
  /\ pc = "loop"
  /\ OurEnd("in") \in fds
  /\ stdin_off >= stdin_len
  /\ fds' = fds \ {OurEnd("in")}
  /\ UNCHANGED <<childVars, pc, ioVars, killVars, resultVars>>

\* The loop goes on to look at the clock.
Polls ==
  /\ pc = "loop"
  /\ fds # {}
  /\ OurEnd("in") \in fds => stdin_off < stdin_len

SendTerm ==
  /\ Polls
  /\ due
  /\ ~killed_term
  /\ timed_out' = TRUE
  /\ Kill("TERM")
  /\ killed_term' = TRUE
  /\ deadline' = "grace"
  /\ due' = FALSE
  /\ UNCHANGED <<call, child, status, held, pipe, sent, doing, fds, pc, ioVars,
                 killed_kill, resultVars>>

SendKill_NotSent ==
  /\ Polls
  /\ due
  /\ killed_term
  /\ ~killed_kill
  /\ timed_out' = TRUE
  /\ killed_kill' = TRUE
  /\ pc' = "close"
  /\ UNCHANGED <<childVars, fds, ioVars, deadline, due, killed_term,
                 resultVars>>

SendKill ==
  /\ Polls
  /\ due
  /\ killed_term
  /\ ~killed_kill
  /\ timed_out' = TRUE
  /\ Kill("KILL")
  /\ killed_kill' = TRUE
  /\ pc' = "close"
  /\ UNCHANGED <<call, child, status, held, pipe, sent, doing, fds, ioVars, deadline, due,
                 killed_term, resultVars>>

\* select() returns the descriptors that are ready now; the handlers run
\* later.  A select() that times out changes nothing.
Ready ==
  {s \in Outputs : OurEnd(s) \in fds /\ Readable(s)} \cup
  {s \in {"in"} : OurEnd(s) \in fds /\ Writable}

Select ==
  /\ Polls
  /\ ~due
  /\ Ready # {}
  /\ ready' = Ready
  /\ pc' = "stdin"
  /\ UNCHANGED <<childVars, fds, stdin_len, stdin_off, out_len, err_len,
                 killVars, resultVars>>

SelectFails ==
  /\ SysFails
  /\ Polls
  /\ ~due
  /\ pc' = "io_err"
  /\ UNCHANGED <<childVars, fds, ioVars, killVars, resultVars>>

-----------------------------------------------------------------------------
(* The three handlers, in the order of the code.                           *)

Least(m, n) == IF m < n THEN m ELSE n

\* One write to the child's stdin.  It takes what fits; stdin is closed when
\* everything has been written or the write fails.
WriteStdin_ClosesEarly ==
  /\ "in" \in ready
  /\ LET n == IF "in" \in held
               THEN Least(stdin_len - stdin_off, PipeCap - pipe["in"])
               ELSE 0
     IN  /\ stdin_off' = stdin_off + n
         /\ pipe' = [pipe EXCEPT !["in"] = @ + n]
         /\ fds' = fds \ {OurEnd("in")}

WriteStdin ==
  /\ "in" \in ready
  /\ LET n == IF "in" \in held
               THEN Least(stdin_len - stdin_off, PipeCap - pipe["in"])
               ELSE 0
     IN  /\ stdin_off' = stdin_off + n
         /\ pipe' = [pipe EXCEPT !["in"] = @ + n]
         /\ fds' = IF "in" \notin held \/ stdin_off' >= stdin_len
                   THEN fds \ {OurEnd("in")} ELSE fds

HandleStdin ==
  /\ pc = "stdin"
  /\ \/ WriteStdin
     \/ "in" \notin ready /\ UNCHANGED <<stdin_off, pipe, fds>>
  /\ pc' = "stdout"
  /\ UNCHANGED <<call, child, status, signals, held, sent, doing, stdin_len, out_len,
                 err_len, ready, killVars, resultVars>>

ReadStdout_ClosesOnShortRead ==
  /\ out_len < MaxOutput
  /\ LET n == Least(pipe["out"], MaxOutput - out_len)
     IN  /\ out_len' = out_len + n
         /\ pipe' = [pipe EXCEPT !["out"] = @ - n]
         /\ fds' = IF n < MaxOutput - out_len
                   THEN fds \ {OurEnd("out")} ELSE fds
  /\ UNCHANGED <<signals, killed_term>>

\* One read of what fits in the output buffer; end of file closes stdout.
ReadStdout ==
  /\ out_len < MaxOutput
  /\ LET n == Least(pipe["out"], MaxOutput - out_len)
     IN  /\ out_len' = out_len + n
         /\ pipe' = [pipe EXCEPT !["out"] = @ - n]
         /\ fds' = IF AtEof("out") THEN fds \ {OurEnd("out")} ELSE fds
  /\ UNCHANGED <<signals, killed_term>>

\* The buffer is full and stdout is readable: terminate the child, once, and
\* read no more of it.
OverflowStdout ==
  /\ out_len >= MaxOutput
  /\ \/ ~killed_term /\ Kill("TERM")
     \/ killed_term /\ UNCHANGED signals
  /\ killed_term' = TRUE
  /\ fds' = fds \ {OurEnd("out")}
  /\ UNCHANGED <<out_len, pipe>>

HandleStdout ==
  /\ pc = "stdout"
  /\ \/ "out" \in ready /\ (ReadStdout \/ OverflowStdout)
     \/ "out" \notin ready
        /\ UNCHANGED <<out_len, pipe, fds, signals, killed_term>>
  /\ pc' = "stderr"
  /\ UNCHANGED <<call, child, status, held, sent, doing, stdin_len, stdin_off, err_len,
                 ready, deadline, due, killed_kill, timed_out, resultVars>>

\* One read of stderr.  Beyond MaxStderr it is read in small pieces and
\* thrown away, so that the child never blocks on it.
ReadStderr_StopsWhenFull ==
  /\ LET n == Least(pipe["err"], MaxStderr - err_len)
     IN  /\ err_len' = err_len + n
         /\ pipe' = [pipe EXCEPT !["err"] = @ - n]
  /\ fds' = IF AtEof("err") THEN fds \ {OurEnd("err")} ELSE fds

ReadStderr ==
  /\ IF err_len < MaxStderr
     THEN LET n == Least(pipe["err"], MaxStderr - err_len)
          IN  /\ err_len' = err_len + n
              /\ pipe' = [pipe EXCEPT !["err"] = @ - n]
     ELSE /\ pipe' = [pipe EXCEPT !["err"] = @ - Least(@, 1)]
          /\ UNCHANGED err_len
  /\ fds' = IF AtEof("err") THEN fds \ {OurEnd("err")} ELSE fds

HandleStderr ==
  /\ pc = "stderr"
  /\ \/ "err" \in ready /\ ReadStderr
     \/ "err" \notin ready /\ UNCHANGED <<err_len, pipe, fds>>
  /\ pc' = "loop"
  /\ ready' = {}
  /\ UNCHANGED <<call, child, status, signals, held, sent, doing, stdin_len, stdin_off,
                 out_len, killVars, resultVars>>

-----------------------------------------------------------------------------
(* Leaving.                                                                *)

CloseAll ==
  /\ pc = "close"
  /\ fds' = {}
  /\ pc' = "wait"
  /\ UNCHANGED <<childVars, ioVars, killVars, resultVars>>

\* waitpid() blocks until the child has ended.
Wait ==
  /\ pc = "wait"
  /\ Reaped
  /\ rc' = IF timed_out THEN 1 ELSE 0
  /\ exit_status' = IF timed_out THEN "signal" ELSE status
  /\ pc' = "done"
  /\ UNCHANGED <<call, status, signals, held, pipe, sent, doing, fds, ioVars, killVars>>

\* Every descriptor that is still open is closed; a child already forked is
\* neither signalled nor reaped.
IoErr_AfterFork ==
  /\ pc = "io_err"
  /\ fds' = fds \ OurEnds
  /\ rc' = -1
  /\ pc' = "done"
  /\ UNCHANGED <<childVars, ioVars, killVars, exit_status>>

IoErr ==
  /\ pc = "io_err"
  /\ fds' = {}
  /\ rc' = -1
  /\ pc' = "done"
  /\ UNCHANGED <<childVars, ioVars, killVars, exit_status>>

\* The monotonic clock reaches the deadline in force.
DeadlinePasses ==
  /\ Timed
  /\ InLoop
  /\ ~due
  /\ due' = TRUE
  /\ UNCHANGED <<childVars, fds, pc, ioVars, deadline, killed_term,
                 killed_kill, timed_out, resultVars>>

Spawn == OpenPipes \/ Fork \/ ForkFails

LoopHead ==
  AllClosed \/ StdinDrained \/ SendTerm \/ SendKill \/ Select \/ SelectFails

Handlers == HandleStdin \/ HandleStdout \/ HandleStderr

Leave == CloseAll \/ Wait \/ IoErr

Listener == Spawn \/ LoopHead \/ Handlers \/ Leave

Child == ChildNext /\ UNCHANGED listenerVars

Next == Listener \/ DeadlinePasses \/ Child

Spec == Init /\ [][Next]_vars

\* The thread that runs the call goes on, time passes and the kernel delivers
\* SIGKILL.  Of the child nothing is assumed, except that a diligent one goes
\* on with its work.
Fairness ==
  /\ WF_vars(Listener)
  /\ WF_vars(DeadlinePasses)
  /\ WF_vars(ChildKilled /\ UNCHANGED listenerVars)
  /\ WF_vars(Diligent /\ ChildWorks /\ UNCHANGED listenerVars)

FairSpec == Spec /\ Fairness

-----------------------------------------------------------------------------
(* Safety.                                                                 *)

\* A call that returns 0 with the child's exit status 0 has everything the
\* child wrote to stdout, unless the child wrote more than max_output_bytes:
\* no order of writes, exit, end of file and deadline makes run_child hand
\* a truncated reply to the JSON parser of dispatch_external_exec as a
\* complete one.
SuccessIsComplete ==
  rc = 0 /\ exit_status = "zero" =>
    out_len = sent["out"] \/ sent["out"] > MaxOutput

\* "the child sees EOF" on its stdin only after the whole envelope: while
\* the listener has not given up on the call (SIGKILL, or an internal error),
\* a child that is still reading never takes a part of it for the whole.
StdinEofIsHonest ==
  /\ child = "running"
  /\ "in" \in held
  /\ OurEnd("in") \notin fds
  /\ ~killed_kill
  /\ rc # -1
  => stdin_off = stdin_len

\* However run_child returns, every descriptor it opened is closed; and
\* unless it failed internally the child has been reaped.
ReturnsClean ==
  pc = "done" => fds = {} /\ (rc # -1 => child = "reaped")

\* The child ends its output only by exiting.
KeepsStreams == MayClose \cap Outputs = {}

-----------------------------------------------------------------------------
(* Liveness.                                                               *)

\* Every call returns whose child keeps its output streams open until it
\* exits, be it that the child ignores stdin, ignores SIGTERM or leaves
\* descendants that hold its streams.
ReturnsIfStreamsKept == KeepsStreams => <>(pc = "done")

\* A child that works and keeps within max_output_bytes is never starved or
\* blocked by the listener, whatever the order in which it reads, writes to
\* stdout and writes to stderr: with no deadline to end the call, the call
\* still ends, with the child's own exit status 0.
WorkingChildSucceeds ==
  Diligent => <>(rc = 0 /\ exit_status = "zero")

=============================================================================
