---------------------------- MODULE ChildProcess ----------------------------
(***************************************************************************)
(* A program that the mc2dbd listener forks to run one tool call, and the  *)
(* pipes that connect the two: the program's stdin, its stdout and, for    *)
(* the external_exec runner, its stderr.  This is the part of a tool call  *)
(* that is not under the listener's control: the kernel's pipes and        *)
(* signals and a program that may read, write, close its streams, exit or  *)
(* ignore a signal when it likes.  RunChild (mc2dbd/src/exec.c) and        *)
(* ProxyStdio (mc2dbd/src/proxy.c) extend it with the listener's side.     *)
(*                                                                         *)
(* Bytes are counted, not represented: a pipe is the number of units in    *)
(* it.                                                                     *)
(***************************************************************************)
EXTENDS Integers, FiniteSets

CONSTANTS
  Outputs,   \* the streams the child writes and the listener reads
  PipeCap,   \* how much a pipe holds
  Calls      \* the calls considered: see CallType

CallType ==
  [ plan     : [Outputs -> Nat],              \* what the child may write
    mayClose : SUBSET ({"in"} \cup Outputs),  \* streams it may close early
    lingers  : BOOLEAN,   \* its descendants may keep its streams open
    diligent : BOOLEAN,   \* the child works: see below
    timed    : BOOLEAN,   \* the call's deadlines may pass
    sysFails : BOOLEAN ]  \* the listener's system calls may fail

ASSUME ChildAssumption ==
  /\ Outputs \subseteq {"out", "err"}
  /\ PipeCap \in Nat \ {0}
  /\ \A c \in Calls : c \in CallType

VARIABLES
  call,     \* the member of Calls this behaviour is about
  child,    \* "none", "running", "zombie" or "reaped"
  status,   \* how it ended: "none", "zero", "nonzero" or "signal"
  signals,  \* the signals the listener has sent to it
  held,     \* the streams it, or a descendant, still holds open
  pipe,     \* pipe[s]: what is in the pipe of stream s
  sent,     \* sent[s]: what the child has written to s so far
  doing,    \* the stream a diligent child is reading or writing, or "none"
  fds       \* the descriptors the listener has open: <<stream, "r" or "w">>

childVars == <<call, child, status, signals, held, pipe, sent, doing>>

Plan == call.plan
MayClose == call.mayClose
Lingers == call.lingers
Timed == call.timed
SysFails == call.sysFails

\* A diligent child does one operation after the other, in an order of its
\* own: it reads its stdin to the end and writes all of its plan; only then it
\* exits, with status 0.
Diligent == call.diligent

Streams == {"in"} \cup Outputs

\* The end of a stream's pipe that the listener keeps across fork().
OurEnd(s) == <<s, IF s = "in" THEN "w" ELSE "r">>

OurEnds == {OurEnd(s) : s \in Streams}

BothEnds(S) == S \X {"r", "w"}

ChildInit ==
  /\ call \in Calls
  /\ child = "none"
  /\ status = "none"
  /\ signals = {}
  /\ held = {}
  /\ pipe = [s \in Streams |-> 0]
  /\ sent = [s \in Outputs |-> 0]
  /\ doing = "none"
  /\ fds = {}

-----------------------------------------------------------------------------
(* What the kernel answers the listener.                                   *)

\* A read of s returns at once: there is data, or no writer is left.
Readable(s) == pipe[s] > 0 \/ s \notin held

AtEof(s) == pipe[s] = 0 /\ s \notin held

Hup(s) == s \notin held

\* A write to the child's stdin returns at once: there is room, or no reader
\* is left and the write fails with EPIPE (main.c ignores SIGPIPE).
Writable == pipe["in"] < PipeCap \/ "in" \notin held

\* kill(): a signal to a process that has ended has no effect.
Kill(sig) ==
  signals' = IF child = "running" THEN signals \cup {sig} ELSE signals

\* waitpid(): collects a child that has ended.
Reaped == child = "zombie" /\ child' = "reaped"

-----------------------------------------------------------------------------
(* What the child does.                                                    *)

Alive == child = "running" /\ "KILL" \notin signals

\* The child has seen the end of its stdin: every writer is gone and the
\* pipe is empty.
SeesStdinEof == OurEnd("in") \notin fds /\ pipe["in"] = 0

\* A diligent child chooses its next operation and is blocked in it until it
\* can be done.
ChildPicks(s) ==
  /\ Diligent
  /\ Alive
  /\ doing = "none"
  /\ IF s = "in" THEN ~SeesStdinEof ELSE sent[s] < Plan[s]
  /\ doing' = s
  /\ UNCHANGED <<call, child, status, signals, held, pipe, sent, fds>>

Doing(s) == Alive /\ (Diligent => doing = s)

ChildSeesEof ==
  /\ Diligent
  /\ Doing("in")
  /\ SeesStdinEof
  /\ doing' = "none"
  /\ UNCHANGED <<call, child, status, signals, held, pipe, sent, fds>>

ChildReads ==
  /\ Doing("in")
  /\ "in" \in held
  /\ pipe["in"] > 0
  /\ pipe' = [pipe EXCEPT !["in"] = @ - 1]
  /\ doing' = "none"
  /\ UNCHANGED <<call, child, status, signals, held, sent, fds>>

\* Into the pipe, or nowhere once the listener has closed its end.
ChildWrites(s) ==
  /\ Doing(s)
  /\ s \in held
  /\ sent[s] < Plan[s]
  /\ \/ /\ OurEnd(s) \in fds
        /\ pipe[s] < PipeCap
        /\ pipe' = [pipe EXCEPT ![s] = @ + 1]
     \/ /\ OurEnd(s) \notin fds
        /\ pipe' = pipe
  /\ sent' = [sent EXCEPT ![s] = @ + 1]
  /\ doing' = "none"
  /\ UNCHANGED <<call, child, status, signals, held, fds>>

ChildCloses(s) ==
  /\ Alive
  /\ s \in MayClose \cap held
  /\ held' = held \ {s}
  /\ UNCHANGED <<call, child, status, signals, pipe, sent, doing, fds>>

WorkDone == SeesStdinEof /\ sent = Plan

\* The child is gone; what its descendants inherited stays open.
Ends(st) ==
  /\ child' = "zombie"
  /\ status' = st
  /\ held' \in IF Lingers THEN {held, {}} ELSE {{}}
  /\ UNCHANGED <<call, signals, pipe, sent, doing, fds>>

ChildExits ==
  /\ Alive
  /\ Diligent => WorkDone
  /\ \E st \in (IF Diligent THEN {"zero"} ELSE {"zero", "nonzero"}) : Ends(st)

\* SIGTERM may end the child (it may also be caught or ignored).
ChildTerminated == Alive /\ "TERM" \in signals /\ Ends("signal")

ChildKilled == child = "running" /\ "KILL" \in signals /\ Ends("signal")

DescendantsEnd ==
  /\ child \in {"zombie", "reaped"}
  /\ held # {}
  /\ held' = {}
  /\ UNCHANGED <<call, child, status, signals, pipe, sent, doing, fds>>

ChildWorks ==
  \/ \E s \in Streams : ChildPicks(s)
  \/ ChildSeesEof
  \/ ChildReads
  \/ \E s \in Outputs : ChildWrites(s)
  \/ ChildExits

ChildNext ==
  \/ ChildWorks
  \/ \E s \in Streams : ChildCloses(s)
  \/ ChildTerminated
  \/ ChildKilled
  \/ DescendantsEnd

=============================================================================
