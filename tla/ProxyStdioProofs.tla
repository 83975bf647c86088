-------------------------- MODULE ProxyStdioProofs --------------------------
(***************************************************************************)
(* Proofs about proxy_stdio of mc2dbd/src/proxy.c for requests, pipes and  *)
(* reads of every size and for every server: a response that one read()    *)
(* can take is complete (SmallResponseIsComplete), and nothing is left     *)
(* open or unreaped (ReturnsClean).                                        *)
(***************************************************************************)
EXTENDS ProxyStdio, TLAPS

InType ==
  /\ held \subseteq Streams
  /\ pipe \in [Streams -> Nat] /\ pipe["in"] <= PipeCap
  /\ sent \in [Outputs -> Nat]
  /\ req_off \in Nat /\ req_off <= ReqLen
  /\ rb_len \in Nat
  /\ revents = [s \in Streams |-> revents[s]]

InLoop == {"loop", "in", "out"}
Reaping == {"reap", "kill_wait"}

\* Where proxy_stdio is, and what follows from it.  The loop keeps the
\* request's descriptor only while something is left to send, so that
\* nothing is open when the loop ends.
Stages ==
  /\ pc \in {"pipe", "fork"} =>
       /\ child = "none" /\ held = {} /\ req_off = 0
       /\ pipe["out"] = 0 /\ sent["out"] = 0 /\ rb_len = 0
  /\ pc = "pipe" => fds = {}
  /\ pc \in InLoop => fds \subseteq OurEnds /\ (OurEnd("in") \in fds => req_off < ReqLen)
  /\ pc \in Reaping => fds = {}
  /\ pc = "fail_cleanup" => child = "none"
  /\ pc = "done" => fds = {} /\ child \in {"none", "reaped"}
  /\ pc # "done" => rc = 1

\* While stdout is open, what the server has written is in the buffer or in
\* the pipe.  It is closed only after a hangup, when the server writes no
\* more; and a hangup without data to read is one with an empty pipe, since
\* what poll() reported can no longer change.
Collected ==
  /\ pc \in InLoop /\ OurEnd("out") \in fds => rb_len + pipe["out"] = sent["out"]
  /\ (pc \in InLoop \cup Reaping \/ rc = 0) /\ OurEnd("out") \notin fds =>
       "out" \notin held /\ (sent["out"] <= Chunk => rb_len = sent["out"])
  /\ pc \in {"in", "out"} =>
       /\ revents["out"] # {} => OurEnd("out") \in fds
       /\ "POLLHUP" \in revents["out"] =>
            "out" \notin held /\ ("POLLIN" \in revents["out"] \/ pipe["out"] = 0)

PInv == InType /\ Stages /\ Collected

-----------------------------------------------------------------------------

\* The two pipes of proxy_stdio and the listener's ends of them.
LEMMA TheStreams ==
  /\ Streams = {"in", "out"} /\ Outputs = {"out"}
  /\ OurEnd("in") = <<"in", "w">> /\ OurEnd("out") = <<"out", "r">>
  /\ OurEnds = {OurEnd("in"), OurEnd("out")}
  /\ OurEnd("in") # OurEnd("out")
  /\ PipeCap \in Nat /\ Chunk \in Nat /\ Chunk # 0 /\ MaxOutput \in Nat
  /\ ReqLen \in Nat /\ ReqLen # 0
BY ChildAssumption, ProxyStdioAssumption DEF Streams, OurEnd, OurEnds

\* Of proxy_stdio's start.
LEMMA PInvInit == Init => PInv
<1> SUFFICES ASSUME Init PROVE PInv
  OBVIOUS
<1> USE TheStreams
<1>1. InType
  BY DEF Init, ChildInit, InType, NoEvents
<1>2. Stages /\ Collected
  BY DEF Init, ChildInit, Stages, Collected, InLoop, Reaping
<1> QED
  BY <1>1, <1>2 DEF PInv

\* A step that leaves alone everything the invariant is about.
LEMMA Untouched ==
  ASSUME PInv,
         UNCHANGED <<child, held, pipe, sent, fds, pc, req_off, rb_len, revents, rc>>
  PROVE  PInv'
BY DEF PInv, InType, Stages, Collected

\* Whatever the server, a descendant or the kernel does to it.
LEMMA ChildKeeps ==
  ASSUME PInv, Child
  PROVE  PInv'
<1> USE TheStreams DEF listenerVars, ioVars
<1>1. CASE \/ \E s \in Streams : ChildPicks(s)
           \/ ChildSeesEof
  BY <1>1, Untouched DEF Child, ChildPicks, ChildSeesEof
<1>2. CASE ChildReads
  <2>1. UNCHANGED <<child, held, sent, fds>> /\ pipe'["out"] = pipe["out"]
    BY <1>2 DEF ChildReads, PInv, InType
  <2>2. InType'
    BY <1>2 DEF ChildReads, PInv, InType, Child
  <2> QED
    BY <2>1, <2>2 DEF PInv, Stages, Collected, Child
<1>3. ASSUME NEW s \in Outputs, ChildWrites(s)
      PROVE  PInv'
  <2>1. child = "running" /\ "out" \in held /\ UNCHANGED <<child, held, fds>>
    BY <1>3 DEF ChildWrites, Doing, Alive
  <2>2. InType'
    BY <1>3 DEF ChildWrites, PInv, InType, Child
  <2>3. Stages'
    BY <2>1 DEF PInv, Stages, Child
  <2>4. /\ pipe["out"] \in Nat /\ sent["out"] \in Nat
        /\ sent'["out"] = sent["out"] + 1
        /\ pipe'["out"] = IF OurEnd("out") \in fds THEN pipe["out"] + 1 ELSE pipe["out"]
    BY <1>3 DEF ChildWrites, PInv, InType
  <2>5. Collected'
    BY <2>1, <2>4 DEF PInv, InType, Collected, Child
  <2> QED
    BY <2>2, <2>3, <2>5 DEF PInv
<1>4. ASSUME child \notin {"none", "reaped"} \/ child' = child,
             child # "none",
             held' \subseteq held, UNCHANGED <<pipe, sent, fds>>
      PROVE  PInv'
  BY <1>4 DEF PInv, InType, Stages, Collected, Child
<1>5. ASSUME NEW st, Ends(st), child = "running"
      PROVE  PInv'
  BY <1>4, <1>5 DEF Ends
<1>6. CASE ChildExits \/ ChildTerminated \/ ChildKilled
  BY <1>5, <1>6 DEF ChildExits, ChildTerminated, ChildKilled, Alive
<1>7. CASE (\E s \in Streams : ChildCloses(s)) \/ DescendantsEnd
  BY <1>4, <1>7 DEF ChildCloses, DescendantsEnd, Alive
<1> QED
  BY <1>1, <1>2, <1>3, <1>6, <1>7 DEF Child, ChildNext, ChildWorks

\* Spawning the server.
LEMMA SpawnKeeps ==
  ASSUME PInv, Spawn
  PROVE  PInv'
<1> USE TheStreams DEF childVars, ioVars, PInv, InType, Stages, Collected, InLoop, Reaping
<1>1. CASE OpenPipes
  BY <1>1 DEF OpenPipes
<1>2. CASE Fork
  BY <1>2 DEF Fork
<1>3. CASE ForkFails
  BY <1>3 DEF ForkFails
<1> QED
  BY <1>1, <1>2, <1>3 DEF Spawn

\* The poll() loop.
LEMMA LoopKeeps ==
  ASSUME PInv, Loop
  PROVE  PInv'
<1> USE TheStreams DEF childVars, ioVars, InLoop, Reaping
<1>1. CASE TimedOut \/ PollFails
  BY <1>1 DEF TimedOut, PollFails, PInv, InType, Stages, Collected
<1>2. CASE LoopEnds
  <2>1. fds = {}
    BY <1>2 DEF LoopEnds, Polled, PInv, Stages
  <2> QED
    BY <1>2, <2>1 DEF LoopEnds, PInv, InType, Stages, Collected
<1>3. CASE Poll
  <2>1. /\ revents' = [s \in Streams |-> revents'[s]]
        /\ revents'["out"] # {} => OurEnd("out") \in fds
        /\ "POLLHUP" \in revents'["out"] =>
             "out" \notin held /\ ("POLLIN" \in revents'["out"] \/ pipe["out"] = 0)
    BY <1>3 DEF Poll, Polled, Events, Hup, PInv, InType
  <2> QED
    BY <1>3, <2>1 DEF Poll, PInv, InType, Stages, Collected
<1>4. CASE HandleIn
  <2>1. /\ Written \in Nat /\ pipe["in"] + Written <= PipeCap
        /\ req_off + Written <= ReqLen
    BY DEF Written, Least, PInv, InType
  <2>2. pipe'["out"] = pipe["out"]
    BY <1>4 DEF HandleIn, PInv, InType
  <2>3. InType'
    BY <1>4, <2>1 DEF HandleIn, PInv, InType
  <2> QED
    BY <1>4, <2>2, <2>3 DEF HandleIn, PInv, InType, Stages, Collected
<1>5. CASE HandleOut_Overflow \/ HandleOut
  <2>1. Got \in Nat /\ Got <= pipe["out"] /\ (Got < pipe["out"] =>
           "POLLIN" \notin revents["out"] \/ Got = Chunk)
    BY DEF Got, Least, PInv, InType
  <2>2. pipe' = [pipe EXCEPT !["out"] = @ - Got]
    BY <1>5 DEF HandleOut_Overflow, HandleOut
  <2>3. pipe' \in [Streams -> Nat] /\ pipe'["in"] = pipe["in"]
        /\ pipe'["out"] = pipe["out"] - Got
    BY <2>1, <2>2 DEF PInv, InType
  <2>4. rb_len' \in Nat /\ (pc' = "loop" => rb_len' = rb_len + Got)
    BY <1>5, <2>1 DEF HandleOut_Overflow, HandleOut, PInv, InType
  <2>5. InType'
    BY <1>5, <2>3, <2>4 DEF HandleOut_Overflow, HandleOut, PInv, InType, NoEvents
  <2>6. Stages'
    BY <1>5 DEF HandleOut_Overflow, HandleOut, PInv, Stages
  <2>7. CASE HandleOut_Overflow
    BY <2>5, <2>6, <2>7 DEF HandleOut_Overflow, PInv, Stages, Collected
  <2>8. CASE HandleOut
    <3>1. pc = "out" /\ pc' = "loop" /\ UNCHANGED <<held, sent, rc>> /\ rb_len' = rb_len + Got
          /\ fds' = IF "POLLHUP" \in revents["out"] THEN fds \ {OurEnd("out")} ELSE fds
      BY <2>8 DEF HandleOut
    <3>2. CASE OurEnd("out") \notin fds
      <4>1. Got = 0
        BY <3>1, <3>2 DEF Got, PInv, Collected
      <4> QED
        BY <2>5, <2>6, <3>1, <3>2, <4>1 DEF PInv, InType, Collected
    <3>3. CASE OurEnd("out") \in fds
      BY <2>1, <2>3, <2>5, <2>6, <3>1, <3>3 DEF PInv, InType, Collected
    <3> QED
      BY <3>2, <3>3
  <2> QED
    BY <1>5, <2>7, <2>8
<1> QED
  BY <1>1, <1>2, <1>3, <1>4, <1>5 DEF Loop

\* Reaping and giving up.
LEMMA LeaveKeeps ==
  ASSUME PInv, Leave
  PROVE  PInv'
<1> USE TheStreams DEF childVars, ioVars, PInv, InType, Stages, Collected, InLoop, Reaping
<1>1. CASE Reap
  BY <1>1 DEF Reap, Reaped, ResultOf
<1>2. CASE ReapGivesUp
  BY <1>2 DEF ReapGivesUp
<1>3. CASE FailKill
  BY <1>3 DEF FailKill
<1>4. CASE FailWait
  BY <1>4 DEF FailWait, Reaped
<1>5. CASE FailCleanup
  BY <1>5 DEF FailCleanup
<1> QED
  BY <1>1, <1>2, <1>3, <1>4, <1>5 DEF Leave

-----------------------------------------------------------------------------

\* Of every call, whatever its size, its server and its failures.
LEMMA PInvHolds == Spec => []PInv
<1>1. PInv /\ [Next]_vars => PInv'
  <2> SUFFICES ASSUME PInv, [Next]_vars
               PROVE  PInv'
    OBVIOUS
  <2>1. CASE Listener
    BY <2>1, SpawnKeeps, LoopKeeps, LeaveKeeps DEF Listener
  <2>2. CASE DeadlinePasses
    BY <2>2, Untouched DEF DeadlinePasses, childVars, ioVars
  <2>3. CASE Child
    BY <2>3, ChildKeeps
  <2>4. CASE UNCHANGED vars
    BY <2>4, Untouched DEF vars, childVars, listenerVars, ioVars
  <2> QED
    BY <2>1, <2>2, <2>3, <2>4 DEF Next
<1> QED
  BY <1>1, PInvInit, PTL DEF Spec

\* A response that fits in one read() of proxy_stdio is handed on whole.
THEOREM SmallResponsesAreWhole == Spec => []SmallResponseIsComplete
<1>1. PInv => SmallResponseIsComplete
  <2> SUFFICES ASSUME PInv, rc = 0, sent["out"] <= Chunk
               PROVE  rb_len = sent["out"]
    BY DEF SmallResponseIsComplete
  <2>1. fds = {}
    BY DEF PInv, Stages
  <2> QED
    BY <2>1 DEF PInv, Collected
<1> QED
  BY <1>1, PInvHolds, PTL

\* proxy_stdio returns with every descriptor closed and no process behind.
THEOREM ProxyReturnsClean == Spec => []ReturnsClean
<1>1. PInv => ReturnsClean
  BY DEF PInv, Stages, ReturnsClean
<1> QED
  BY <1>1, PInvHolds, PTL

=============================================================================
