--------------------------- MODULE ListenerProofs ---------------------------
(***************************************************************************)
(* For every number of connections and every body limit, nothing of a      *)
(* request or of the process is left behind, and a body that is dispatched *)
(* is whole.  What makes the first inductive is that the polling thread is *)
(* the only one that opens a database connection: it is in a call for c    *)
(* exactly while c is in phase "call" and db is {c}, and it exists only    *)
(* between http_start and http_stop.  The second needs that doubling a     *)
(* buffer from any size ends with room for what is asked for (GrownHolds). *)
(***************************************************************************)
EXTENDS Listener, WellFoundedInduction, TLAPS

Fields == {"phase", "kind", "total", "seen", "st", "cap", "len", "gone"}

(* How much of its body a request has.                                     *)
Whole(r) ==
  /\ {r.total, r.seen, r.cap, r.len} \subseteq Nat
  /\ r.phase = "headers" => r.seen = 0
  /\ r.phase = "upload" => r.st = TRUE
  /\ r.st = TRUE => r.len = r.seen /\ r.len < r.cap /\ r.len < MaxBody
  /\ r.phase = "call" /\ r.kind = "post" => r.st = TRUE /\ r.seen = r.total

(* What the steps rely on of a request record.                             *)
IsRequest(r) == r = [f \in Fields |-> r[f]] /\ r.st \in BOOLEAN /\ Whole(r)

LInv ==
  /\ req = [c \in Conns |-> req[c]]
  /\ \A c \in Conns : IsRequest(req[c])
  /\ \A c \in Conns : req[c].phase \in {"none", "headers"} => req[c].st = FALSE
  /\ main \in {"probe", "init", "start", "running", "stopping", "cleanup", "exited"}
  /\ thread \in Conns \cup {NoConn}
  /\ db = (IF thread = NoConn THEN {} ELSE {thread})
  /\ \A c \in Conns : req[c].phase = "call" <=> thread = c
  /\ thread # NoConn => Serving
  /\ \A c \in Conns : req[c].phase # "none" => Serving
  /\ main \in {"start", "running", "stopping", "cleanup"} => curl = "ready"
  /\ main = "exited" => curl # "ready"
  /\ main = "probe" => curl = "raw"

-----------------------------------------------------------------------------
(* The buffer.                                                             *)

(* Every non-empty set of natural numbers has a least element: the form in *)
(* which induction is used here.                                           *)
LEMMA LeastElement ==
  ASSUME NEW S, S \subseteq Nat, S # {}
  PROVE  \E m \in S : \A k \in S : m <= k
  <1>1. IsWellFoundedOn(OpToRel(<, Nat), Nat)
    BY NatLessThanWellFounded, Zenon
  <1>2. PICK m \in S : \A k \in S : ~(<<k, m>> \in OpToRel(<, Nat))
    BY <1>1, WFMin, Zenon
  <1>3. \A k \in S : ~(k < m)
    BY <1>2, Zenon DEF OpToRel
  <1> QED
    BY <1>3

(* The capacities that the loop of handle goes through.                    *)
IsDoubling(f, cap, n) ==
  f = [k \in 0 .. n |-> IF k = 0 THEN cap ELSE 2 * f[k - 1]]

(* The doublings of the capacity are defined for every number of them.     *)
LEMMA DoublingExists ==
  ASSUME NEW cap
  PROVE  \A n \in Nat : \E f : IsDoubling(f, cap, n)
  <1> DEFINE Bad == {n \in Nat : ~ \E f : IsDoubling(f, cap, n)}
  <1> SUFFICES ASSUME Bad # {} PROVE FALSE
    OBVIOUS
  <1>1. PICK n \in Bad : \A j \in Bad : n <= j
    BY LeastElement, Zenon
  <1>2. n # 0
    <2>1. IsDoubling([k \in 0 .. 0 |-> cap], cap, 0)
      BY DEF IsDoubling
    <2> QED
      BY <2>1, <1>1
  <1>3. n - 1 \in Nat /\ n - 1 \notin Bad
    BY <1>1, <1>2
  <1>4. PICK f : IsDoubling(f, cap, n - 1)
    BY <1>3
  <1> DEFINE g == [k \in 0 .. n |-> IF k < n THEN f[k] ELSE 2 * f[n - 1]]
  <1>5. \A k \in 0 .. n : g[k] = IF k = 0 THEN cap ELSE 2 * g[k - 1]
    <2> TAKE k \in 0 .. n
    <2>1. CASE k = 0
      BY <2>1, <1>2, <1>3, <1>4 DEF IsDoubling
    <2>2. CASE k # 0 /\ k < n
      <3>1. k \in 0 .. n - 1 /\ k - 1 \in 0 .. n /\ k - 1 < n
        BY <2>2
      <3>2. f[k] = 2 * f[k - 1]
        BY <1>4, <2>2, <3>1 DEF IsDoubling
      <3> QED
        BY <2>2, <3>1, <3>2
    <2>3. CASE k = n
      BY <2>3, <1>2, <1>3
    <2> QED
      BY <2>1, <2>2, <2>3
  <1>6. IsDoubling(g, cap, n)
    BY <1>5 DEF IsDoubling
  <1> QED
    BY <1>6, <1>1

(* Doubling a capacity of at least one byte ends with room for any need.   *)
LEMMA GrownHolds ==
  ASSUME NEW cap \in Nat \ {0}, NEW need \in Nat
  PROVE  Grown(cap, need) \in Nat /\ Grown(cap, need) >= need
  <1> DEFINE nc == CHOOSE f : IsDoubling(f, cap, need)
             enough == {k \in 0 .. need : nc[k] >= need}
             least == CHOOSE k \in enough : \A j \in enough : k <= j
  <1>1. IsDoubling(nc, cap, need)
    BY DoublingExists
  <1>2. Grown(cap, need) = nc[least]
    BY DEF Grown, IsDoubling
  <1> HIDE DEF nc
  <1> DEFINE Bad == {k \in 0 .. need : ~(nc[k] \in Nat /\ nc[k] >= cap + k)}
  <1>3. Bad = {}
    <2> SUFFICES ASSUME Bad # {} PROVE FALSE
      OBVIOUS
    <2>1. PICK k \in Bad : \A j \in Bad : k <= j
      <3>1. Bad \subseteq Nat
        OBVIOUS
      <3> QED
        BY <3>1, LeastElement, Zenon
    <2>2. CASE k = 0
      BY <1>1, <2>1, <2>2 DEF IsDoubling
    <2>3. CASE k # 0
      <3>1. k - 1 \in 0 .. need /\ nc[k - 1] \in Nat /\ nc[k - 1] >= cap + (k - 1)
        BY <2>1, <2>3
      <3>2. nc[k] = 2 * nc[k - 1]
        BY <1>1, <2>1, <2>3 DEF IsDoubling
      <3> QED
        BY <2>1, <2>3, <3>1, <3>2
    <2> QED
      BY <2>2, <2>3
  <1>4. need \in enough
    BY <1>3
  <1>5. \E k \in enough : \A j \in enough : k <= j
    <2>1. enough \subseteq Nat /\ enough # {}
      BY <1>4
    <2> QED
      BY <2>1, LeastElement, Zenon
  <1>6. least \in enough
    BY <1>5, Zenon
  <1> QED
    BY <1>2, <1>3, <1>6

-----------------------------------------------------------------------------

(* A connection without a request satisfies the invariant.                 *)
LEMMA NoRequestIsOne ==
  IsRequest(NoRequest) /\ NoRequest.phase = "none" /\ NoRequest.st = FALSE
  BY DEF IsRequest, Fields, NoRequest, Whole

(* Moving a request to an end of its life keeps what is known of it.       *)
LEMMA EndedRequest ==
  ASSUME NEW r, IsRequest(r), NEW ph \in {"replied", "closing"}
  PROVE  LET q == [r EXCEPT !.phase = ph] IN IsRequest(q) /\ q.phase = ph
  BY DEF IsRequest, Fields, Whole

(* The invariant holds before the first connection.                        *)
LEMMA LInit == Init => LInv
  <1> SUFFICES ASSUME Init
               PROVE  LInv
    OBVIOUS
  <1>1. \A c \in Conns : req[c] = NoRequest
    BY Zenon DEF Init
  <1>2. IsRequest(NoRequest) /\ NoRequest.phase = "none" /\ NoRequest.st = FALSE
    BY NoRequestIsOne
  <1>3. req = [c \in Conns |-> req[c]]
    BY DEF Init
  <1> QED
    BY <1>1, <1>2, <1>3, ListenerAssumption DEF Init, LInv

(* Steps of main().                                                        *)
LEMMA MainKeeps ==
  ASSUME LInv,
         \/ Probe \/ GlobalInit \/ http_start \/ on_signal \/ MainLoop
         \/ http_stop \/ Cleanup
  PROVE  LInv'
  <1>1. CASE Probe
    BY <1>1 DEF LInv, Probe, Serving
  <1>2. CASE GlobalInit
    BY <1>2 DEF LInv, GlobalInit, Serving
  <1>3. CASE http_start
    BY <1>3 DEF LInv, http_start, Serving
  <1>4. CASE on_signal
    BY <1>4 DEF LInv, on_signal, Serving
  <1>5. CASE MainLoop
    BY <1>5 DEF LInv, MainLoop, Serving
  <1>6. CASE http_stop
    BY <1>6, NoRequestIsOne, ListenerAssumption DEF LInv, http_stop, Serving
  <1>7. CASE Cleanup
    BY <1>7 DEF LInv, Cleanup, Serving
  <1> QED
    BY <1>1, <1>2, <1>3, <1>4, <1>5, <1>6, <1>7

(* A step on c that leaves the thread where it is and moves the request    *)
(* between phases other than "call".                                       *)
LEMMA RequestKeeps ==
  ASSUME LInv, NEW c \in Conns, NEW r, Becomes(c, r), Serving,
         UNCHANGED <<main, running, curl, thread, db>>,
         IsRequest(r), r.phase = "call" <=> thread = c,
         r.phase \in {"none", "headers"} => r.st = FALSE
  PROVE  LInv'
  BY DEF LInv, Becomes, Serving

(* db_open, and the thread is in the call for c or has answered.           *)
LEMMA EnterKeeps ==
  ASSUME LInv, NEW c \in Conns, Enter(c), Callback(c),
         req[c].kind = "post" => req[c].st = TRUE /\ req[c].seen = req[c].total
  PROVE  LInv'
  <1> DEFINE r == [req[c] EXCEPT !.phase = "call"]
  <1>1. IsRequest(r) /\ r.phase = "call"
    BY DEF LInv, IsRequest, Fields, Whole
  <1>2. CASE thread' = c /\ db' = db \cup {c} /\ Becomes(c, r)
    BY <1>1, <1>2, ListenerAssumption DEF LInv, Becomes, Callback, Serving, process
  <1>3. CASE Replied(c) /\ UNCHANGED <<thread, db>>
    <2> DEFINE q == [req[c] EXCEPT !.phase = "replied"]
    <2>1. IsRequest(q) /\ q.phase = "replied"
      BY EndedRequest, Zenon DEF LInv
    <2>2. thread # c
      BY ListenerAssumption DEF Callback
    <2> QED
      BY <1>3, <2>1, <2>2, RequestKeeps, Zenon DEF Replied, Callback, process
  <1> QED
    BY <1>2, <1>3 DEF Enter

(* The callbacks of the polling thread, and the clients.                   *)
LEMMA ConnKeeps ==
  ASSUME LInv, NEW c \in Conns,
         Thread(c) \/ Arrive(c) \/ HangUp(c) \/ \E n \in 1..MaxBody : HandleChunk(c, n)
  PROVE  LInv'
  <1>1. IsRequest(req[c]) /\ (req[c].phase = "call" <=> thread = c)
    BY DEF LInv
  <1>2. ASSUME Callback(c), UNCHANGED <<thread, db>>, Replied(c) \/ Closed(c)
        PROVE  LInv'
    <2>1. \A p \in {"replied", "closing"} :
            LET r == [req[c] EXCEPT !.phase = p]
            IN  IsRequest(r) /\ r.phase = p
      BY <1>1, EndedRequest, Zenon
    <2>2. thread # c
      BY <1>2, ListenerAssumption DEF Callback
    <2>3. PICK p \in {"replied", "closing"} :
            Becomes(c, [req[c] EXCEPT !.phase = p])
      BY <1>2 DEF Replied, Closed
    <2> QED
      BY <1>2, <2>1, <2>2, <2>3, RequestKeeps, Zenon DEF Callback, process
  <1>3. CASE HandleRefusal(c)
    BY <1>2, <1>3 DEF HandleRefusal
  <1>4. CASE HandleMetrics(c) \/ HandleLast(c)
    <2>1. req[c].kind = "post" => req[c].st = TRUE /\ req[c].seen = req[c].total
      BY <1>1, <1>4 DEF HandleMetrics, HandleLast, IsRequest, Whole
    <2> QED
      BY <1>4, <2>1, EnterKeeps, Zenon DEF HandleMetrics, HandleLast
  <1>5. CASE HandleFirst(c)
    <2> DEFINE r == [req[c] EXCEPT !.phase = "upload", !.st = TRUE,
                                   !.cap = InitCap, !.len = 0]
    <2>1. IsRequest(r) /\ r.phase = "upload"
      <3>1. /\ r = [f \in Fields |-> r[f]]
            /\ r.phase = "upload" /\ r.st = TRUE /\ r.cap = InitCap /\ r.len = 0
            /\ r.total = req[c].total /\ r.seen = req[c].seen
        BY <1>1, Zenon DEF IsRequest, Fields
      <3>2. req[c].total \in Nat /\ req[c].seen = 0
        BY <1>1, <1>5 DEF HandleFirst, IsRequest, Whole
      <3>3. InitCap \in Nat /\ 0 < InitCap /\ 0 < MaxBody
        BY ListenerAssumption
      <3> HIDE DEF r
      <3>4. Whole(r)
        BY <3>1, <3>2, <3>3 DEF Whole
      <3> QED
        BY <3>1, <3>4, Zenon DEF IsRequest
    <2>2. thread # c
      BY <1>5, ListenerAssumption DEF HandleFirst, Callback
    <2>3. CASE Becomes(c, r)
      BY <1>5, <2>1, <2>2, <2>3, RequestKeeps, Zenon DEF HandleFirst, Callback, process
    <2> QED
      BY <1>2, <1>5, <2>3 DEF HandleFirst
  <1>6. ASSUME NEW n \in 1..MaxBody, HandleChunk(c, n)
        PROVE  LInv'
    <2> DEFINE g == IF Need(c, n) > req[c].cap THEN Grown(req[c].cap, Need(c, n))
                    ELSE req[c].cap
               r == [req[c] EXCEPT !.seen = @ + n, !.len = @ + n, !.cap = g]
    <2>1. ASSUME Need(c, n) <= MaxBody
          PROVE  IsRequest(r) /\ r.phase = "upload"
      <3>1. /\ req[c].phase = "upload" /\ req[c].st = TRUE
            /\ {req[c].total, req[c].seen, req[c].cap, req[c].len} \subseteq Nat
            /\ req[c].len = req[c].seen /\ req[c].len < req[c].cap
        BY <1>1, <1>6, Zenon DEF IsRequest, Whole, HandleChunk
      <3>2. Need(c, n) = req[c].len + n + 1 /\ Need(c, n) \in Nat
        BY <3>1 DEF Need
      <3>3. g \in Nat /\ g >= Need(c, n)
        <4> DEFINE u == req[c].cap
                   w == Need(c, n)
        <4>1. u \in Nat /\ u > 0 /\ w \in Nat
          BY <3>1, <3>2
        <4> HIDE DEF u, w
        <4>2. Grown(u, w) \in Nat /\ Grown(u, w) >= w
          BY <4>1, GrownHolds
        <4>3. LET h == IF w > u THEN Grown(u, w) ELSE u IN h \in Nat /\ h >= w
          BY <4>1, <4>2
        <4> QED
          BY <4>3 DEF u, w
      <3> HIDE DEF g
      <3>4. /\ r = [f \in Fields |-> r[f]]
            /\ r.phase = "upload" /\ r.st = TRUE /\ r.total = req[c].total
            /\ r.seen = req[c].seen + n /\ r.len = req[c].len + n /\ r.cap = g
        BY <1>1, <3>1, Zenon DEF IsRequest, Fields
      <3>5. req[c].len + n < MaxBody
        BY <2>1, <3>1, <3>2, ListenerAssumption
      <3> HIDE DEF r
      <3>6. /\ r.total \in Nat /\ r.seen \in Nat /\ r.cap \in Nat /\ r.len \in Nat
            /\ r.len = r.seen /\ r.len < r.cap /\ r.len < MaxBody
        BY <3>1, <3>2, <3>3, <3>4, <3>5
      <3>7. Whole(r)
        BY <3>4, <3>6 DEF Whole
      <3> QED
        BY <3>4, <3>7, Zenon DEF IsRequest
    <2>2. thread # c
      BY <1>6, ListenerAssumption, Zenon DEF HandleChunk, Callback
    <2>3. (Need(c, n) <= MaxBody /\ Becomes(c, r)) \/ Replied(c) \/ Closed(c)
      BY <1>6, Zenon DEF HandleChunk
    <2>4. CASE Need(c, n) <= MaxBody /\ Becomes(c, r)
      <3> HIDE DEF r
      <3> QED
        BY <1>6, <2>1, <2>2, <2>4, RequestKeeps, Zenon DEF HandleChunk, Callback, process
    <2> QED
      BY <1>2, <1>6, <2>3, <2>4, Zenon DEF HandleChunk
  <1>7. CASE Return(c)
    <2> DEFINE r == [req[c] EXCEPT !.phase = "replied"]
    <2>1. IsRequest(r) /\ r.phase = "replied"
      BY <1>1, EndedRequest, Zenon
    <2>2. Becomes(c, r) /\ thread = c /\ thread' = NoConn /\ db' = db \ {c}
          /\ UNCHANGED <<main, running, curl>>
      BY <1>7 DEF Return, Replied, process
    <2> QED
      BY <2>1, <2>2, ListenerAssumption DEF LInv, Becomes, Serving
  <1>8. CASE completed(c)
    <2>1. IsRequest(NoRequest) /\ NoRequest.phase = "none" /\ NoRequest.st = FALSE
      BY NoRequestIsOne
    <2>2. thread # c
      BY <1>8, ListenerAssumption DEF completed, Over
    <2> QED
      BY <1>8, <2>1, <2>2, RequestKeeps, Zenon DEF completed, Over, process
  <1>9. CASE Arrive(c)
    <2>1. PICK k \in Kinds, n \in Lengths :
            Becomes(c, [NoRequest EXCEPT !.phase = "headers", !.kind = k,
                                         !.total = n])
      BY <1>9, Zenon DEF Arrive
    <2> DEFINE r == [NoRequest EXCEPT !.phase = "headers", !.kind = k, !.total = n]
    <2>2. IsRequest(r) /\ r.phase = "headers" /\ r.st = FALSE
      <3>1. /\ r = [f \in Fields |-> r[f]] /\ r.phase = "headers" /\ r.st = FALSE
            /\ r.total = n /\ r.seen = 0 /\ r.cap = 0 /\ r.len = 0
        BY Zenon DEF Fields, NoRequest
      <3>2. n \in Nat
        BY ListenerAssumption
      <3> HIDE DEF r
      <3>3. Whole(r)
        BY <3>1, <3>2 DEF Whole
      <3> QED
        BY <3>1, <3>3, Zenon DEF IsRequest
    <2>3. thread # c /\ Serving
      BY <1>1, <1>9, Zenon DEF Arrive, Serving
    <2> QED
      BY <1>9, <2>1, <2>2, <2>3, RequestKeeps, Zenon DEF Arrive, process
  <1>10. CASE HangUp(c)
    <2> DEFINE r == [req[c] EXCEPT !.gone = TRUE]
    <2>1. IsRequest(r) /\ r.phase = req[c].phase /\ r.st = req[c].st
      BY <1>1, Zenon DEF IsRequest, Fields, Whole
    <2>2. Serving /\ Becomes(c, r) /\ UNCHANGED <<process, thread, db>>
      BY <1>10 DEF HangUp, LInv
    <2>3. r.phase \in {"none", "headers"} => r.st = FALSE
      BY <2>1 DEF LInv
    <2> QED
      BY <1>1, <2>1, <2>2, <2>3, RequestKeeps, Zenon DEF process
  <1> QED
    BY <1>3, <1>4, <1>5, <1>6, <1>7, <1>8, <1>9, <1>10 DEF Thread

(* Every step keeps the invariant.                                         *)
LEMMA LInvInductive == LInv /\ [Next]_vars => LInv'
  <1> SUFFICES ASSUME LInv, [Next]_vars
               PROVE  LInv'
    OBVIOUS
  <1>1. CASE UNCHANGED vars
    BY <1>1 DEF vars, LInv, Serving
  <1>2. CASE Next
    BY <1>2, MainKeeps, ConnKeeps DEF Next
  <1> QED
    BY <1>1, <1>2

(* However requests end, and wherever a signal or a failed start ends the    *)
(* process: completed frees every req_state, every database connection is    *)
(* closed, no call runs without libcurl, and main() exits with all of it     *)
(* gone.                                                                     *)
THEOREM ListenerLeavesNothing == Spec => []NothingLeftBehind
  <1>1. LInv => NothingLeftBehind
    BY ListenerAssumption DEF LInv, NothingLeftBehind, Serving
  <1> QED
    BY <1>1, LInit, LInvInductive, PTL DEF Spec

(* handle dispatches only a body it has whole, in a buffer that has room   *)
(* for the closing NUL at every moment, for every limit, first capacity    *)
(* and division of the body into chunks.                                   *)
THEOREM ListenerBodyIsWhole == Spec => []BodyIsWhole
  <1>1. LInv => BodyIsWhole
    BY Zenon DEF LInv, IsRequest, Whole, BodyIsWhole
  <1> QED
    BY <1>1, LInit, LInvInductive, PTL DEF Spec

=============================================================================
