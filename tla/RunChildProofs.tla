--------------------------- MODULE RunChildProofs ---------------------------
(***************************************************************************)
(* Proofs about run_child of mc2dbd/src/exec.c for pipes, buffers and      *)
(* envelopes of every size and for every child: the child sees the end of  *)
(* its stdin only after the whole envelope (StdinEofIsHonest), a call that *)
(* succeeds has the whole of the child's output (SuccessIsComplete), and   *)
(* nothing is left open or unreaped (ReturnsClean).                        *)
(***************************************************************************)
EXTENDS RunChild, TLAPS

InType ==
  /\ held \subseteq Streams
  /\ pipe \in [Streams -> Nat]
  /\ \A s \in Streams : pipe[s] <= PipeCap
  /\ sent \in [Outputs -> Nat]
  /\ stdin_len \in Nat /\ stdin_off \in Nat /\ stdin_off <= stdin_len
  /\ out_len \in Nat /\ out_len <= MaxOutput
  /\ err_len \in Nat /\ err_len <= MaxStderr
  /\ killed_kill \in BOOLEAN /\ timed_out \in BOOLEAN

\* Where run_child is, and what follows from it: before fork() there is no
\* child and nothing has moved; the loop is left with every descriptor
\* closed or after SIGKILL; and a result is set only by returning.
Stages ==
  /\ pc \in {"pipe", "fork"} =>
       /\ child = "none" /\ held = {}
       /\ pipe["out"] = 0 /\ sent["out"] = 0 /\ out_len = 0
  /\ pc = "pipe" => fds = {}
  /\ pc = "close" => killed_kill = TRUE \/ fds = {}
  /\ pc = "wait" => fds = {}
  /\ pc = "done" => fds = {} /\ (rc # -1 => child = "reaped")
  /\ pc # "done" => rc = 2
  /\ killed_kill = TRUE => timed_out = TRUE /\ pc \in {"close", "wait", "done"}
  /\ rc = 0 => timed_out = FALSE

\* The listener has neither given up on the child nor failed internally.
Regular == killed_kill = FALSE /\ rc # -1

\* Stdin is closed under a child that still holds it only after all of it.
Envelope ==
  Regular /\ "in" \in held /\ OurEnd("in") \notin fds => stdin_off = stdin_len

\* While stdout is open, what the child has written is in the buffer or in
\* the pipe.  It is closed only at the end of file, after which the child
\* writes no more, or when the child has written too much.  What select()
\* reported stays true until the handler acts on it.
Collected ==
  /\ OurEnd("out") \in fds => out_len + pipe["out"] = sent["out"]
  /\ /\ Regular
     /\ OurEnd("out") \notin fds
     /\ pc \notin {"pipe", "fork", "io_err"}
     => sent["out"] > MaxOutput \/ (out_len = sent["out"] /\ "out" \notin held)
  /\ pc \in {"stdin", "stdout"} /\ "out" \in ready =>
       OurEnd("out") \in fds /\ Readable("out")

RInv == InType /\ Stages /\ Envelope /\ Collected

-----------------------------------------------------------------------------

\* The three pipes of run_child and the listener's ends of them.
LEMMA TheStreams ==
  /\ Streams = {"in", "out", "err"} /\ Outputs = {"out", "err"}
  /\ OurEnd("in") = <<"in", "w">>
  /\ OurEnd("out") = <<"out", "r">>
  /\ OurEnd("err") = <<"err", "r">>
  /\ PipeCap \in Nat /\ MaxOutput \in Nat /\ MaxStderr \in Nat
BY ChildAssumption, RunChildAssumption DEF Streams, OurEnd

\* Distinct streams have distinct descriptors.
LEMMA EndsDiffer ==
  /\ OurEnd("in") # OurEnd("out")
  /\ OurEnd("in") # OurEnd("err")
  /\ OurEnd("out") # OurEnd("err")
BY TheStreams

\* Of run_child's start.
LEMMA RInvInit == Init => RInv
<1> SUFFICES ASSUME Init PROVE RInv
  OBVIOUS
<1> USE TheStreams
<1>1. InType
  <2>1. /\ held \subseteq Streams
        /\ pipe \in [Streams -> Nat]
        /\ \A s \in Streams : pipe[s] <= PipeCap
        /\ sent \in [Outputs -> Nat]
    BY DEF Init, ChildInit
  <2>2. stdin_len \in Nat /\ stdin_off = 0 /\ out_len = 0 /\ err_len = 0
    BY RunChildAssumption DEF Init
  <2>3. killed_kill \in BOOLEAN /\ timed_out \in BOOLEAN
    BY DEF Init
  <2> QED
    BY <2>1, <2>2, <2>3 DEF InType
<1>2. Stages
  <2>1. pipe["out"] = 0 /\ sent["out"] = 0
    BY DEF Init, ChildInit
  <2>2. killed_kill = FALSE /\ timed_out = FALSE
    BY DEF Init
  <2> QED
    BY <2>1, <2>2 DEF Init, ChildInit, Stages
<1>3. Envelope /\ Collected
  BY DEF Init, ChildInit, Envelope, Collected, Regular
<1> QED
  BY <1>1, <1>2, <1>3 DEF RInv

\* A step that leaves alone everything the invariant is about, except the
\* clock, the kill flags that bear no weight and the signals.
LEMMA Untouched ==
  ASSUME RInv,
         UNCHANGED <<child, held, pipe, sent, fds, pc, stdin_len, stdin_off,
                     out_len, err_len, ready, killed_kill, rc>>,
         timed_out' = timed_out \/ (timed_out' = TRUE /\ rc # 0)
  PROVE  RInv'
<1>1. InType'
  BY DEF RInv, InType, Streams
<1>2. Stages'
  BY DEF RInv, InType, Stages
<1>3. Envelope'
  BY DEF RInv, Envelope, Regular, OurEnd
<1>4. Collected'
  BY DEF RInv, Collected, Regular, Readable, OurEnd
<1> QED
  BY <1>1, <1>2, <1>3, <1>4 DEF RInv

\* Whatever the child, a descendant or the kernel does to it.
LEMMA ChildKeeps ==
  ASSUME RInv, Child
  PROVE  RInv'
<1> USE TheStreams, EndsDiffer DEF listenerVars, ioVars, killVars, resultVars
<1>1. CASE \/ \E s \in Streams : ChildPicks(s)
           \/ ChildSeesEof
  BY <1>1, Untouched DEF Child, ChildPicks, ChildSeesEof
<1>2. CASE ChildReads
  <2>1. UNCHANGED <<child, held, sent, fds>> /\ pipe'["out"] = pipe["out"]
    BY <1>2 DEF ChildReads, RInv, InType
  <2>2. InType'
    BY <1>2 DEF ChildReads, RInv, InType, Child
  <2> QED
    BY <2>1, <2>2 DEF RInv, Stages, Envelope, Collected, Regular, Readable, Child
<1>3. ASSUME NEW s \in Outputs, ChildWrites(s)
      PROVE  RInv'
  <2>1. child = "running" /\ s \in held /\ UNCHANGED <<child, held, fds>>
    BY <1>3 DEF ChildWrites, Doing, Alive
  <2>2. InType'
    BY <1>3 DEF ChildWrites, RInv, InType, Child
  <2>3. pc \notin {"pipe", "fork"}
    BY <2>1 DEF RInv, Stages
  <2>4. Stages' /\ Envelope'
    BY <2>1, <2>3 DEF RInv, Stages, Envelope, Regular, Child
  <2>5. /\ pipe["out"] \in Nat /\ sent["out"] \in Nat
        /\ sent'["out"] = IF s = "out" THEN sent["out"] + 1 ELSE sent["out"]
        /\ pipe'["out"] = IF s = "out" /\ OurEnd("out") \in fds
                          THEN pipe["out"] + 1 ELSE pipe["out"]
    BY <1>3 DEF ChildWrites, RInv, InType
  <2>6. Collected'
    BY <2>1, <2>3, <2>5 DEF RInv, InType, Collected, Regular, Readable, Child
  <2> QED
    BY <2>2, <2>4, <2>6 DEF RInv
<1>4. ASSUME child \notin {"none", "reaped"} \/ child' = child,
             child # "none",
             held' \subseteq held, UNCHANGED <<pipe, sent, fds>>
      PROVE  RInv'
  <2>1. InType'
    BY <1>4 DEF RInv, InType, Child
  <2>2. Stages'
    BY <1>4 DEF RInv, Stages, Child
  <2>3. Envelope' /\ Collected'
    BY <1>4 DEF RInv, Stages, Envelope, Collected, Regular, Readable, Child
  <2> QED
    BY <2>1, <2>2, <2>3 DEF RInv
<1>5. ASSUME NEW st, Ends(st), child = "running"
      PROVE  RInv'
  BY <1>4, <1>5 DEF Ends
<1>6. CASE ChildExits \/ ChildTerminated \/ ChildKilled
  BY <1>5, <1>6 DEF ChildExits, ChildTerminated, ChildKilled, Alive
<1>7. CASE (\E s \in Streams : ChildCloses(s)) \/ DescendantsEnd
  BY <1>4, <1>7 DEF ChildCloses, DescendantsEnd, Alive
<1> QED
  BY <1>1, <1>2, <1>3, <1>6, <1>7 DEF Child, ChildNext, ChildWorks

\* Spawning the child.
LEMMA SpawnKeeps ==
  ASSUME RInv, Spawn
  PROVE  RInv'
<1> USE TheStreams, EndsDiffer DEF childVars, ioVars, killVars, resultVars
<1>1. CASE OpenPipes
  BY <1>1 DEF OpenPipes, RInv, InType, Stages, Envelope, Collected, Regular,
              Readable
<1>2. CASE Fork
  <2>1. OurEnd("in") \in fds' /\ OurEnd("out") \in fds'
    BY <1>2 DEF Fork, OurEnds
  <2> QED
    BY <1>2, <2>1 DEF Fork, RInv, InType, Stages, Envelope, Collected, Regular,
                      Readable
<1>3. CASE ForkFails
  BY <1>3 DEF ForkFails, RInv, InType, Stages, Envelope, Collected, Regular,
              Readable
<1> QED
  BY <1>1, <1>2, <1>3 DEF Spawn

\* The head of the loop.
LEMMA LoopHeadKeeps ==
  ASSUME RInv, LoopHead
  PROVE  RInv'
<1> USE TheStreams, EndsDiffer DEF childVars, ioVars, killVars, resultVars
<1>1. CASE AllClosed \/ SelectFails
  BY <1>1 DEF AllClosed, SelectFails, Polls, RInv, InType, Stages, Envelope,
              Collected, Regular, Readable
<1>2. CASE StdinDrained
  BY <1>2 DEF StdinDrained, RInv, InType, Stages, Envelope, Collected, Regular,
              Readable
<1>3. CASE SendTerm
  <2>1. rc # 0
    BY <1>3 DEF SendTerm, Polls, RInv, Stages
  <2> QED
    BY <1>3, <2>1, Untouched DEF SendTerm
<1>4. CASE SendKill
  BY <1>4 DEF SendKill, Polls, RInv, InType, Stages, Envelope, Collected,
              Regular, Readable
<1>5. CASE Select
  BY <1>5 DEF Select, Polls, Ready, RInv, InType, Stages, Envelope, Collected,
              Regular, Readable
<1> QED
  BY <1>1, <1>2, <1>3, <1>4, <1>5 DEF LoopHead

\* The three handlers.
LEMMA HandlersKeep ==
  ASSUME RInv, Handlers
  PROVE  RInv'
<1> USE TheStreams, EndsDiffer DEF killVars, resultVars
<1>1. CASE HandleStdin
  <2>1. UNCHANGED <<child, held, sent, stdin_len, out_len, err_len, ready,
                    killVars, rc>> /\ pc = "stdin" /\ pc' = "stdout"
    BY <1>1 DEF HandleStdin
  <2>2. CASE WriteStdin
    <3> DEFINE n == IF "in" \in held
                    THEN Least(stdin_len - stdin_off, PipeCap - pipe["in"])
                    ELSE 0
    <3>1. n \in Nat /\ stdin_off + n <= stdin_len /\ pipe["in"] + n <= PipeCap
      BY DEF Least, RInv, InType
    <3>2. /\ stdin_off' = stdin_off + n
          /\ pipe' = [pipe EXCEPT !["in"] = @ + n]
          /\ fds' = IF "in" \notin held \/ stdin_off' >= stdin_len
                    THEN fds \ {OurEnd("in")} ELSE fds
      BY <2>2 DEF WriteStdin
    <3> HIDE DEF n
    <3>3. pipe'["out"] = pipe["out"]
      BY <3>2 DEF RInv, InType
    <3>4. InType'
      BY <2>1, <3>1, <3>2 DEF RInv, InType
    <3>5. OurEnd("out") \in fds' <=> OurEnd("out") \in fds
      BY <3>2
    <3>6. Envelope'
      BY <2>1, <3>1, <3>2, <3>4 DEF RInv, InType, Envelope, Regular
    <3> QED
      BY <2>1, <3>3, <3>4, <3>5, <3>6
         DEF RInv, Stages, Collected, Regular, Readable
  <2>3. CASE UNCHANGED <<stdin_off, pipe, fds>>
    BY <2>1, <2>3 DEF RInv, InType, Stages, Envelope, Collected, Regular, Readable
  <2> QED
    BY <1>1, <2>2, <2>3 DEF HandleStdin
<1>2. CASE HandleStdout
  <2>1. /\ UNCHANGED <<child, held, sent, stdin_len, stdin_off, err_len, ready,
                       killed_kill, timed_out, rc>>
        /\ pc = "stdout" /\ pc' = "stderr"
    BY <1>2 DEF HandleStdout
  <2>2. CASE "out" \in ready /\ ReadStdout
    <3> DEFINE n == Least(pipe["out"], MaxOutput - out_len)
    <3>1. n \in Nat /\ out_len + n <= MaxOutput /\ n <= pipe["out"]
      BY DEF Least, RInv, InType
    <3>2. /\ out_len' = out_len + n
          /\ pipe' = [pipe EXCEPT !["out"] = @ - n]
          /\ fds' = IF AtEof("out") THEN fds \ {OurEnd("out")} ELSE fds
      BY <2>2 DEF ReadStdout
    <3>3. AtEof("out") => n = 0 /\ "out" \notin held
      BY <2>2 DEF AtEof, Least, ReadStdout, RInv, InType
    <3> HIDE DEF n
    <3>4. pipe'["out"] = pipe["out"] - n
      BY <3>2 DEF RInv, InType
    <3>5. InType'
      BY <2>1, <3>1, <3>2 DEF RInv, InType
    <3>6. Stages' /\ Envelope'
      BY <2>1, <3>2 DEF RInv, Stages, Envelope, Regular
    <3>7. Collected'
      BY <2>1, <2>2, <3>1, <3>2, <3>3, <3>4
         DEF RInv, InType, Collected, Regular, AtEof
    <3> QED
      BY <3>5, <3>6, <3>7 DEF RInv
  <2>3. CASE "out" \in ready /\ OverflowStdout
    <3>1. UNCHANGED <<out_len, pipe>> /\ fds' = fds \ {OurEnd("out")}
          /\ out_len = MaxOutput
      BY <2>3 DEF OverflowStdout, RInv, InType
    <3>2. sent["out"] > MaxOutput \/ (out_len = sent["out"] /\ "out" \notin held)
      BY <2>1, <2>3, <3>1 DEF RInv, InType, Collected, Readable
    <3>3. InType' /\ Stages' /\ Envelope'
      BY <2>1, <3>1 DEF RInv, InType, Stages, Envelope, Regular
    <3> QED
      BY <2>1, <3>1, <3>2, <3>3 DEF RInv, Collected
  <2>4. CASE UNCHANGED <<out_len, pipe, fds>>
    BY <2>1, <2>4 DEF RInv, InType, Stages, Envelope, Collected, Regular
  <2> QED
    BY <1>2, <2>2, <2>3, <2>4 DEF HandleStdout
<1>3. CASE HandleStderr
  <2>1. /\ UNCHANGED <<child, held, sent, stdin_len, stdin_off, out_len,
                       killVars, rc>>
        /\ pc = "stderr" /\ pc' = "loop" /\ ready' = {}
    BY <1>3 DEF HandleStderr
  <2>2. /\ pipe' \in [Streams -> Nat]
        /\ \A s \in Streams : pipe'[s] <= pipe[s]
        /\ pipe'["out"] = pipe["out"]
        /\ err_len' \in Nat /\ err_len' <= MaxStderr
        /\ fds' \in {fds, fds \ {OurEnd("err")}}
    BY <1>3 DEF HandleStderr, ReadStderr, Least, RInv, InType
  <2>3. InType'
    BY <2>1, <2>2 DEF RInv, InType
  <2> QED
    BY <2>1, <2>2, <2>3 DEF RInv, Stages, Envelope, Collected, Regular
<1> QED
  BY <1>1, <1>2, <1>3 DEF Handlers

\* Returning.
LEMMA LeaveKeeps ==
  ASSUME RInv, Leave
  PROVE  RInv'
<1> USE TheStreams, EndsDiffer DEF childVars, ioVars, killVars, resultVars
<1>1. CASE CloseAll
  BY <1>1 DEF CloseAll, RInv, InType, Stages, Envelope, Collected, Regular
<1>2. CASE Wait
  BY <1>2 DEF Wait, Reaped, RInv, InType, Stages, Envelope, Collected, Regular
<1>3. CASE IoErr
  BY <1>3 DEF IoErr, RInv, InType, Stages, Envelope, Collected, Regular
<1> QED
  BY <1>1, <1>2, <1>3 DEF Leave

-----------------------------------------------------------------------------

\* Of every call, whatever its size, its child and its failures.
LEMMA RInvHolds == Spec => []RInv
<1>1. RInv /\ [Next]_vars => RInv'
  <2> SUFFICES ASSUME RInv, [Next]_vars
               PROVE  RInv'
    OBVIOUS
  <2>1. CASE Listener
    BY <2>1, SpawnKeeps, LoopHeadKeeps, HandlersKeep, LeaveKeeps DEF Listener
  <2>2. CASE DeadlinePasses
    BY <2>2, Untouched DEF DeadlinePasses, childVars, ioVars, resultVars
  <2>3. CASE Child
    BY <2>3, ChildKeeps
  <2>4. CASE UNCHANGED vars
    BY <2>4, Untouched DEF vars, childVars, listenerVars, ioVars, killVars, resultVars
  <2> QED
    BY <2>1, <2>2, <2>3, <2>4 DEF Next
<1> QED
  BY <1>1, RInvInit, PTL DEF Spec

\* A call that succeeds has everything the child wrote to stdout unless that
\* is more than max_output_bytes, whatever the sizes and the interleaving.
THEOREM SuccessMeansComplete == Spec => []SuccessIsComplete
<1>1. RInv => SuccessIsComplete
  <2> SUFFICES ASSUME RInv, rc = 0
               PROVE  out_len = sent["out"] \/ sent["out"] > MaxOutput
    BY DEF SuccessIsComplete
  <2>1. pc = "done" /\ fds = {} /\ killed_kill = FALSE
    BY DEF RInv, InType, Stages
  <2> QED
    BY <2>1 DEF RInv, Collected, Regular
<1> QED
  BY <1>1, RInvHolds, PTL

\* A child that reads its stdin to the end has the whole envelope.
THEOREM StdinEndsWithTheEnvelope == Spec => []StdinEofIsHonest
<1>1. RInv => StdinEofIsHonest
  BY DEF RInv, InType, Envelope, Regular, StdinEofIsHonest
<1> QED
  BY <1>1, RInvHolds, PTL

\* run_child returns with every descriptor closed and the child reaped,
\* unless it failed internally.
THEOREM RunChildReturnsClean == Spec => []ReturnsClean
<1>1. RInv => ReturnsClean
  BY DEF RInv, Stages, ReturnsClean
<1> QED
  BY <1>1, RInvHolds, PTL

=============================================================================
