------------------------------ MODULE Listener ------------------------------
(***************************************************************************)
(* The mc2dbd process around the tool calls: main.c starts the listener,   *)
(* waits for a signal and shuts down; http.c is the handler libmicrohttpd  *)
(* calls back for every connection, all from ONE internal polling thread.  *)
(* While that thread is inside a database or tool call it serves nobody.   *)
(*                                                                         *)
(* A request is what its first line and headers say (Kinds) and the length *)
(* of its body, which arrives in chunks of any size.  The call itself is   *)
(* module ToolCall; here it is the time between db_open and db_close.      *)
(***************************************************************************)
EXTENDS Naturals

CONSTANTS
  Conns,    \* the connections clients hold
  Lengths,  \* the body lengths considered
  MaxBody,  \* MC2DBD_MAX_BODY
  InitCap   \* the first buffer's size, 4096 in the code

NoConn == "idle"

ASSUME ListenerAssumption ==
  /\ NoConn \notin Conns
  /\ Lengths \subseteq Nat
  /\ MaxBody \in Nat \ {0}
  /\ InitCap \in Nat \ {0}

Kinds == {"healthz", "metrics", "not_post", "other_url", "no_token", "post"}

VARIABLES
  main,     \* how far main() is
  running,  \* g_running
  curl,     \* libcurl's global state: "raw", "ready" or "cleaned"
  thread,   \* the connection the polling thread is in a call for, or NoConn
  db,       \* the connections a PostgreSQL connection is open for
  req       \* the request on each connection

process == <<main, running, curl>>
vars == <<main, running, curl, thread, db, req>>

\* phase: "none", "headers" (arrived, handle not called yet), "upload",
\* "call" (inside the database), "replied" (a response is queued) or "closing"
\* (the handler returned MHD_NO).  seen is what libmicrohttpd has handed over,
\* st, cap and len are req_state (*con_cls), gone says the client hung up.
NoRequest ==
  [phase |-> "none", kind |-> "healthz", total |-> 0, seen |-> 0,
   st |-> FALSE, cap |-> 0, len |-> 0, gone |-> FALSE]

Init ==
  /\ main = "probe"
  /\ running = TRUE
  /\ curl = "raw"
  /\ thread = NoConn
  /\ db = {}
  /\ req = [c \in Conns |-> NoRequest]

-----------------------------------------------------------------------------
(* main.c.                                                                 *)

\* Options and environment are read (exit 0 or 2 for those that end it there)
\* and PostgreSQL must answer (else exit 3) before anything is started.
Probe ==
  /\ main = "probe"
  /\ main' \in {"init", "exited"}
  /\ UNCHANGED <<running, curl, thread, db, req>>

GlobalInit ==
  /\ main = "init"
  /\ curl' = "ready"
  /\ main' = "start"
  /\ UNCHANGED <<running, thread, db, req>>

\* http_start, or its failure and exit 4.
http_start_SetsRunning ==
  /\ main = "start"
  /\ \/ main' = "running" /\ UNCHANGED curl
     \/ main' = "exited" /\ curl' = "cleaned"
  /\ running' = TRUE
  /\ UNCHANGED <<thread, db, req>>

http_start ==
  /\ main = "start"
  /\ \/ main' = "running" /\ UNCHANGED curl
     \/ main' = "exited" /\ curl' = "cleaned"
  /\ UNCHANGED <<running, thread, db, req>>

\* SIGTERM or SIGINT; the handlers are installed before proxy_global_init.
on_signal ==
  /\ main \in {"init", "start", "running"}
  /\ running
  /\ running' = FALSE
  /\ UNCHANGED <<main, curl, thread, db, req>>

\* The main loop wakes up every second to look at g_running.
MainLoop ==
  /\ main = "running"
  /\ ~running
  /\ main' = "stopping"
  /\ UNCHANGED <<running, curl, thread, db, req>>

\* MHD_stop_daemon joins the polling thread, which has first to come back from
\* the call it is in, and completes every request that is still there.
http_stop ==
  /\ main = "stopping"
  /\ thread = NoConn
  /\ req' = [c \in Conns |-> NoRequest]
  /\ main' = "cleanup"
  /\ UNCHANGED <<running, curl, thread, db>>

Cleanup ==
  /\ main = "cleanup"
  /\ curl' = "cleaned"
  /\ main' = "exited"
  /\ UNCHANGED <<running, thread, db, req>>

-----------------------------------------------------------------------------
(* http.c, on the polling thread.                                          *)

Serving == main \in {"running", "stopping"}

\* The thread is in its loop and calls back for c.
Callback(c) ==
  /\ Serving
  /\ thread = NoConn
  /\ ~req[c].gone
  /\ UNCHANGED process

Becomes(c, r) == req' = [req EXCEPT ![c] = r]

Replied(c) == Becomes(c, [req[c] EXCEPT !.phase = "replied"])

Closed(c) == Becomes(c, [req[c] EXCEPT !.phase = "closing"])

\* What is answered from the request line and the headers alone.
HandleRefusal(c) ==
  /\ Callback(c)
  /\ req[c].phase = "headers"
  /\ req[c].kind \in {"healthz", "not_post", "other_url", "no_token"}
  /\ Replied(c)
  /\ UNCHANGED <<thread, db>>

\* db_open succeeds and the thread enters the call, or it fails and the
\* answer says so.
Enter(c) ==
  \/ /\ thread' = c
     /\ db' = db \cup {c}
     /\ Becomes(c, [req[c] EXCEPT !.phase = "call"])
  \/ Replied(c) /\ UNCHANGED <<thread, db>>

HandleMetrics(c) ==
  /\ Callback(c)
  /\ req[c].phase = "headers"
  /\ req[c].kind = "metrics"
  /\ Enter(c)

\* The first callback of a POST allocates the state, or cannot.
HandleFirst(c) ==
  /\ Callback(c)
  /\ req[c].phase = "headers"
  /\ req[c].kind = "post"
  /\ \/ Becomes(c, [req[c] EXCEPT !.phase = "upload", !.st = TRUE,
                                  !.cap = InitCap, !.len = 0])
     \/ Closed(c)
  /\ UNCHANGED <<thread, db>>

Need_NoTerminator(c, n) == req[c].len + n

Need(c, n) == req[c].len + n + 1

\* nc doubles from the present capacity until it holds need bytes.
Grown(cap, need) ==
  LET nc[k \in 0..need] == IF k = 0 THEN cap ELSE 2 * nc[k - 1]
      enough == {k \in 0..need : nc[k] >= need}
  IN  nc[CHOOSE k \in enough : \A j \in enough : k <= j]

\* A chunk of n bytes: refused over the limit (413 if libmicrohttpd still
\* takes a response in the middle of an upload, else the connection closes),
\* appended if the buffer has or gets the room, else MHD_NO.
HandleChunk(c, n) ==
  /\ Callback(c)
  /\ req[c].phase = "upload"
  /\ n <= req[c].total - req[c].seen
  /\ \/ /\ Need(c, n) > MaxBody
        /\ Replied(c) \/ Closed(c)
     \/ /\ Need(c, n) <= MaxBody
        /\ Becomes(c, [req[c] EXCEPT
             !.seen = @ + n, !.len = @ + n,
             !.cap = IF Need(c, n) > @ THEN Grown(@, Need(c, n)) ELSE @])
     \/ /\ Need(c, n) <= MaxBody
        /\ Need(c, n) > req[c].cap
        /\ Closed(c)
  /\ UNCHANGED <<thread, db>>

\* The callback after the last chunk.
HandleLast_NotEmpty(c) ==
  /\ Callback(c)
  /\ req[c].phase = "upload"
  /\ req[c].seen = req[c].total
  /\ req[c].len > 0
  /\ Enter(c)

HandleLast(c) ==
  /\ Callback(c)
  /\ req[c].phase = "upload"
  /\ req[c].seen = req[c].total
  /\ Enter(c)

\* The call is over: db_close, and its answer is queued.
Return(c) ==
  /\ thread = c
  /\ thread' = NoConn
  /\ db' = db \ {c}
  /\ Replied(c)
  /\ UNCHANGED process

Over(c) ==
  /\ Serving
  /\ thread = NoConn
  /\ \/ req[c].phase \in {"replied", "closing"}
     \/ req[c].phase # "none" /\ req[c].gone

\* libmicrohttpd's notification that a request is over, however it ended.
\* The connection may then carry another one.
completed_OnlyReplied(c) ==
  /\ Over(c)
  /\ Becomes(c, IF req[c].phase = "replied" THEN NoRequest
                ELSE [req[c] EXCEPT !.phase = "none", !.gone = FALSE])
  /\ UNCHANGED <<process, thread, db>>

completed(c) ==
  /\ Over(c)
  /\ Becomes(c, NoRequest)
  /\ UNCHANGED <<process, thread, db>>

-----------------------------------------------------------------------------
(* The clients.                                                            *)

Arrive(c) ==
  /\ main = "running"
  /\ req[c].phase = "none"
  /\ \E k \in Kinds, n \in Lengths :
       /\ k # "post" => n = 0
       /\ Becomes(c, [NoRequest EXCEPT !.phase = "headers", !.kind = k,
                                       !.total = n])
  /\ UNCHANGED <<process, thread, db>>

HangUp(c) ==
  /\ req[c].phase # "none"
  /\ ~req[c].gone
  /\ Becomes(c, [req[c] EXCEPT !.gone = TRUE])
  /\ UNCHANGED <<process, thread, db>>

Thread(c) ==
  \/ HandleRefusal(c) \/ HandleMetrics(c) \/ HandleFirst(c) \/ HandleLast(c)
  \/ Return(c) \/ completed(c)

Next ==
  \/ Probe \/ GlobalInit \/ http_start \/ on_signal \/ MainLoop \/ http_stop
  \/ Cleanup
  \/ \E c \in Conns :
       \/ Thread(c) \/ Arrive(c) \/ HangUp(c)
       \/ \E n \in 1..MaxBody : HandleChunk(c, n)

\* main() goes on; the polling loop comes round to every connection that has
\* work and ends when it is told to; a call returns.  Nothing makes a client
\* send, or an operator signal.
Fairness ==
  /\ WF_vars(Probe) /\ WF_vars(GlobalInit) /\ WF_vars(http_start)
  /\ WF_vars(MainLoop) /\ SF_vars(http_stop) /\ WF_vars(Cleanup)
  /\ \A c \in Conns : SF_vars(Thread(c))

Spec == Init /\ [][Next]_vars /\ Fairness

-----------------------------------------------------------------------------
(* Safety.                                                                 *)

\* handle dispatches only a body it has whole: every byte the client sent, no
\* longer than the limit, in a buffer with room for the closing NUL at every
\* moment of the upload, however the chunks fall and whatever the other
\* connections do between them.
BodyIsWhole ==
  \A c \in Conns :
    /\ req[c].st => req[c].len = req[c].seen /\ req[c].len < req[c].cap
    /\ req[c].phase = "call" /\ req[c].kind = "post" =>
         /\ req[c].len = req[c].total
         /\ req[c].len < MaxBody

\* A request that is over leaves nothing: its req_state is freed by completed
\* on every path, its database connection closed; and the process exits with
\* no request, no connection and libcurl cleaned up if it was initialised, as
\* it is for as long as a call is in progress.
NothingLeftBehind ==
  /\ \A c \in Conns : req[c].phase = "none" => ~req[c].st /\ c \notin db
  /\ main = "exited" =>
       /\ \A c \in Conns : req[c].phase = "none"
       /\ db = {} /\ thread = NoConn
       /\ curl # "ready"
  /\ thread # NoConn => curl = "ready"

-----------------------------------------------------------------------------
(* Liveness.                                                               *)

\* A liveness probe, and a request whose body has arrived, are answered or
\* closed however many other clients upload, stall or hang up, as long as
\* every call returns: there is one thread, so one that does not return stops
\* /healthz too.
EveryRequestEnds ==
  \A c \in Conns :
    req[c].phase # "none" /\ (req[c].kind # "post" \/ req[c].seen = req[c].total)
      ~> req[c].phase = "none"

\* A signal ends the process, under the same condition.
SignalEndsIt == ~running ~> main = "exited"

=============================================================================
