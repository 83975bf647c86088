----------------------------- MODULE ProxyStdio -----------------------------
(***************************************************************************)
(* proxy_stdio of mc2dbd/src/proxy.c: one tools/call forwarded to an MCP   *)
(* server that the listener forks, the JSON-RPC request on its stdin and   *)
(* the response on its stdout, with a poll() loop and a deadline.  The     *)
(* server and the pipes are those of ChildProcess; its stderr goes to      *)
(* /dev/null.                                                              *)
(***************************************************************************)
EXTENDS ChildProcess

CONSTANTS
  ReqLen,     \* length of the request with its newline
  Chunk,      \* what one read() takes at most
  MaxOutput   \* max_output_bytes; 0 is no limit

ASSUME ProxyStdioAssumption ==
  /\ Outputs = {"out"}
  /\ ReqLen \in Nat \ {0}
  /\ Chunk \in Nat \ {0}
  /\ MaxOutput \in Nat

VARIABLES
  pc,
  req_off,   \* how much of the request has been written
  rb_len,    \* how much of the response has been read
  revents,   \* revents[s]: what poll() reported for the descriptor of s
  due,       \* the deadline in force (the call's, then the reap's) has passed
  rc         \* the value returned: -1 or 0 (1 while running)

ioVars == <<req_off, rb_len, revents>>
listenerVars == <<pc, ioVars, due, rc>>
vars == <<childVars, fds, listenerVars>>

NoEvents == [s \in Streams |-> {}]

Init ==
  /\ ChildInit
  /\ pc = "pipe"
  /\ req_off = 0 /\ rb_len = 0
  /\ revents = NoEvents
  /\ due = FALSE
  /\ rc = 1

-----------------------------------------------------------------------------

OpenPipes ==
  /\ pc = "pipe"
  /\ \E made \in {{}, {"in"}, Streams} :
       /\ ~SysFails => made = Streams
       /\ fds' = BothEnds(made)
       /\ pc' = IF made = Streams THEN "fork" ELSE "fail_cleanup"
  /\ UNCHANGED <<childVars, ioVars, due, rc>>

\* fork(), and the allocation of the request, after which a failure has a
\* child to kill.
Fork ==
  /\ pc = "fork"
  /\ child' = "running"
  /\ held' = Streams
  /\ fds' = OurEnds
  /\ pc' \in {"loop"} \cup (IF SysFails THEN {"fail_kill"} ELSE {})
  /\ UNCHANGED <<call, status, signals, pipe, sent, doing, ioVars, due, rc>>

ForkFails ==
  /\ SysFails
  /\ pc = "fork"
  /\ pc' = "fail_cleanup"
  /\ UNCHANGED <<childVars, fds, ioVars, due, rc>>

-----------------------------------------------------------------------------
(* The poll() loop.                                                        *)

TimedOut ==
  /\ pc = "loop"
  /\ due
  /\ pc' = "fail_kill"
  /\ UNCHANGED <<childVars, fds, ioVars, due, rc>>

\* The streams handed to poll().
Polled_RequestFirst ==
  IF OurEnd("in") \in fds THEN {"in"} ELSE {s \in Outputs : OurEnd(s) \in fds}

Polled ==
  {s \in Streams : OurEnd(s) \in fds /\ (s = "in" => req_off < ReqLen)}

\* Nothing is left to poll: go and reap the child, with a deadline of its
\* own.
LoopEnds ==
  /\ pc = "loop"
  /\ ~due
  /\ Polled = {}
  /\ pc' = "reap"
  /\ UNCHANGED <<childVars, fds, ioVars, due, rc>>

\* What poll() reports now: POLLHUP comes with POLLIN as long as the pipe
\* still holds data, POLLERR with POLLOUT as long as it has room.
Events(s) ==
  IF s = "in"
  THEN {e \in {"POLLOUT"} : pipe[s] < PipeCap} \cup {e \in {"POLLERR"} : Hup(s)}
  ELSE {e \in {"POLLIN"} : pipe[s] > 0} \cup {e \in {"POLLHUP"} : Hup(s)}

Poll ==
  /\ pc = "loop"
  /\ ~due
  /\ \E s \in Polled : Events(s) # {}
  /\ revents' = [s \in Streams |-> IF s \in Polled THEN Events(s) ELSE {}]
  /\ pc' = "in"
  /\ UNCHANGED <<childVars, fds, req_off, rb_len, due, rc>>

PollFails ==
  /\ SysFails
  /\ pc = "loop"
  /\ ~due
  /\ Polled # {}
  /\ pc' = "fail_kill"
  /\ UNCHANGED <<childVars, fds, ioVars, due, rc>>

Least(m, n) == IF m < n THEN m ELSE n

\* A write to a stdin nobody reads any more fails and is ignored: the next
\* poll() reports POLLERR.
Written ==
  IF "POLLOUT" \in revents["in"] /\ "in" \in held
  THEN Least(ReqLen - req_off, PipeCap - pipe["in"])
  ELSE 0

HandleIn ==
  /\ pc = "in"
  /\ req_off' = req_off + Written
  /\ pipe' = [pipe EXCEPT !["in"] = @ + Written]
  /\ fds' = IF req_off' >= ReqLen \/ "POLLERR" \in revents["in"]
            THEN fds \ {OurEnd("in")} ELSE fds
  /\ pc' = "out"
  /\ UNCHANGED <<call, child, status, signals, held, sent, doing, rb_len, revents, due, rc>>

\* One read() of at most Chunk.
Got == IF "POLLIN" \in revents["out"] THEN Least(pipe["out"], Chunk) ELSE 0

Overflow == MaxOutput > 0 /\ rb_len + Got > MaxOutput

HandleOut_Overflow ==
  /\ pc = "out"
  /\ Overflow
  /\ pipe' = [pipe EXCEPT !["out"] = @ - Got]
  /\ pc' = "fail_kill"
  /\ revents' = NoEvents
  /\ UNCHANGED <<call, child, status, signals, held, sent, doing, fds, req_off, rb_len,
                 due, rc>>

\* After the read the descriptor is closed if poll() saw a hangup, whether or
\* not the pipe is empty now.
HandleOut_HupFirst ==
  /\ pc = "out"
  /\ ~Overflow
  /\ IF "POLLHUP" \in revents["out"]
     THEN fds' = fds \ {OurEnd("out")} /\ UNCHANGED <<rb_len, pipe>>
     ELSE /\ rb_len' = rb_len + Got
          /\ pipe' = [pipe EXCEPT !["out"] = @ - Got]
          /\ UNCHANGED fds
  /\ pc' = "loop"
  /\ revents' = NoEvents
  /\ UNCHANGED <<call, child, status, signals, held, sent, doing, req_off, due, rc>>

HandleOut ==
  /\ pc = "out"
  /\ ~Overflow
  /\ rb_len' = rb_len + Got
  /\ pipe' = [pipe EXCEPT !["out"] = @ - Got]
  /\ fds' = IF "POLLHUP" \in revents["out"]
            THEN fds \ {OurEnd("out")} ELSE fds
  /\ pc' = "loop"
  /\ revents' = NoEvents
  /\ UNCHANGED <<call, child, status, signals, held, sent, doing, req_off, due, rc>>

-----------------------------------------------------------------------------
(* Reaping.                                                                *)

\* -1 for a child that failed, was killed or wrote nothing.
ResultOf(st) == IF st = "zero" /\ rb_len > 0 THEN 0 ELSE -1

Reap ==
  /\ pc \in {"reap", "kill_wait"}
  /\ Reaped
  /\ rc' = ResultOf(status)
  /\ pc' = "done"
  /\ UNCHANGED <<call, status, signals, held, pipe, sent, doing, fds, ioVars, due>>

ReapGivesUp_NoKill ==
  /\ pc = "reap"
  /\ due
  /\ pc' = "kill_wait"
  /\ UNCHANGED <<childVars, fds, ioVars, due, rc>>

ReapGivesUp ==
  /\ pc = "reap"
  /\ due
  /\ Kill("KILL")
  /\ pc' = "kill_wait"
  /\ UNCHANGED <<call, child, status, held, pipe, sent, doing, fds, ioVars, due, rc>>

FailKill ==
  /\ pc = "fail_kill"
  /\ Kill("KILL")
  /\ pc' = "fail_wait"
  /\ UNCHANGED <<call, child, status, held, pipe, sent, doing, fds, ioVars, due, rc>>

FailWait_LeavesPipes ==
  /\ pc = "fail_wait"
  /\ Reaped
  /\ rc' = -1
  /\ pc' = "done"
  /\ UNCHANGED <<call, status, signals, held, pipe, sent, doing, fds, ioVars, due>>

FailWait ==
  /\ pc = "fail_wait"
  /\ Reaped
  /\ fds' = {}
  /\ rc' = -1
  /\ pc' = "done"
  /\ UNCHANGED <<call, status, signals, held, pipe, sent, doing, ioVars, due>>

FailCleanup ==
  /\ pc = "fail_cleanup"
  /\ fds' = {}
  /\ rc' = -1
  /\ pc' = "done"
  /\ UNCHANGED <<childVars, ioVars, due>>

DeadlinePasses ==
  /\ Timed
  /\ pc \in {"loop", "in", "out", "reap"}
  /\ ~due
  /\ due' = TRUE
  /\ UNCHANGED <<childVars, fds, pc, ioVars, rc>>

Spawn == OpenPipes \/ Fork \/ ForkFails

Loop ==
  \/ TimedOut \/ LoopEnds \/ Poll \/ PollFails
  \/ HandleIn \/ HandleOut_Overflow \/ HandleOut

Leave == Reap \/ ReapGivesUp \/ FailKill \/ FailWait \/ FailCleanup

Listener == Spawn \/ Loop \/ Leave

Child == ChildNext /\ UNCHANGED listenerVars

Next == Listener \/ DeadlinePasses \/ Child

Spec == Init /\ [][Next]_vars

\* The listener's thread goes on, time passes and the kernel delivers
\* SIGKILL.  Of the server nothing is assumed, except that a diligent one goes
\* on with its work.
FairSpec ==
  /\ Spec
  /\ WF_vars(Listener)
  /\ WF_vars(DeadlinePasses)
  /\ WF_vars(ChildKilled /\ UNCHANGED listenerVars)
  /\ WF_vars(Diligent /\ ChildWorks /\ UNCHANGED listenerVars)

-----------------------------------------------------------------------------

\* A response that one read() can take is never truncated, in whatever order
\* the server's writes, its exit and the hangup reach the poll() loop.
SmallResponseIsComplete ==
  rc = 0 /\ sent["out"] <= Chunk => rb_len = sent["out"]

\* However proxy_stdio returns, it leaves no descriptor open and no process
\* behind.
ReturnsClean ==
  pc = "done" => fds = {} /\ child \in {"none", "reaped"}

\* Every call returns, whatever the server does: closing its streams and
\* running on, ignoring its stdin, or leaving descendants that keep the
\* streams open.
EveryCallReturns == <>(pc = "done")

\* With no deadline to end the call, a server that works is answered for: it
\* is never deadlocked with the listener over two full pipes.
WorkingServerSucceeds == Diligent => <>(rc = 0)

=============================================================================
