------------------------------- MODULE CDriver -------------------------------
(***************************************************************************)
(* libmaludb, the C client (drivers/c): one handle, its libpq connection,  *)
(* its error slot, and the calls an application makes on it one after the  *)
(* other.  A call checks its parameters, builds the ones it must put into  *)
(* the heap, sends one statement, and turns the result into an id, a       *)
(* string, a list of hits or a plain 0.                                    *)
(*                                                                         *)
(* What can go wrong: any allocation, the statement, the connection before *)
(* or after the server has committed the statement, an answer that is NULL *)
(* or has no row.  What is abstracted: the SQL text, the values and their  *)
(* sizes.                                                                  *)
(***************************************************************************)
EXTENDS TLC

CONSTANT Short  \* allocations may fail

ASSUME ShortAssumption == Short \in BOOLEAN

\* kind is what the function returns; required says it refuses a NULL or
\* non-positive parameter; heap names the parameters it builds with malloc;
\* checked says it looks at the outcome.
Fn(kind, required, heap, checked) ==
  [kind |-> kind, required |-> required, heap |-> heap, checked |-> checked]

\* maludb_version and maludb_search_path look at the connection first.
Probes ==
  [maludb_version     |-> Fn("probe", FALSE, {}, TRUE),
   maludb_search_path |-> Fn("probe", FALSE, {}, TRUE)]

Ingest ==
  [maludb_register_source_package |-> Fn("id", FALSE, {}, TRUE),
   maludb_register_claim          |-> Fn("id", FALSE, {}, TRUE),
   maludb_register_fact           |-> Fn("id", FALSE, {"claim_ids"}, TRUE),
   maludb_register_memory         |-> Fn("id", FALSE, {}, TRUE),
   maludb_register_episode        |-> Fn("id", FALSE, {}, TRUE)]

Retrieval ==
  [maludb_text_search    |-> Fn("hits", FALSE, {"types"}, TRUE),
   maludb_retrieve       |-> Fn("hits", FALSE, {"types"}, TRUE),
   maludb_replay_episode |-> Fn("text", FALSE, {}, TRUE)]

Pools ==
  [maludb_pool_create           |-> Fn("id", TRUE, {"partitions", "max"}, FALSE),
   maludb_pool_add_observation  |-> Fn("id", TRUE, {"confidence", "account"}, FALSE),
   maludb_pool_promote_to_claim |-> Fn("id", FALSE, {}, TRUE)]

Skills ==
  [maludb_skill_register        |-> Fn("id", TRUE, {}, TRUE),
   maludb_skill_add_state       |-> Fn("id", TRUE, {}, TRUE),
   maludb_skill_add_transition  |-> Fn("id", TRUE, {}, TRUE),
   maludb_skill_begin_execution |-> Fn("id", FALSE, {"stack", "account", "pool"}, FALSE),
   maludb_skill_step_execution  |-> Fn("text", TRUE, {}, TRUE),
   maludb_skill_abort_execution |-> Fn("none", FALSE, {}, TRUE)]

Nodes ==
  [maludb_node_register |-> Fn("id", TRUE, {}, TRUE),
   maludb_node_submit   |-> Fn("id", TRUE, {"local_id"}, FALSE),
   maludb_node_accept   |-> Fn("text", FALSE, {}, TRUE),
   maludb_node_reject   |-> Fn("none", TRUE, {}, TRUE)]

PageIndex ==
  [maludb_pageindex_build     |-> Fn("id", TRUE, {"alias", "template"}, FALSE),
   maludb_pageindex_supersede |-> Fn("id", TRUE, {}, TRUE),
   maludb_pageindex_ask       |-> Fn("text", TRUE, {}, TRUE)]

ChatIndex ==
  [maludb_chatindex_build  |-> Fn("id", TRUE, {"alias", "template"}, FALSE),
   maludb_chatindex_append |-> Fn("none", TRUE, {}, TRUE),
   maludb_chatindex_ask    |-> Fn("text", TRUE, {}, TRUE)]

Api ==
  Probes @@ Ingest @@ Retrieval @@ Pools @@ Skills @@ Nodes @@ PageIndex
    @@ ChatIndex

Codes ==
  {"OK", "GENERIC", "CONNECT", "NOT_FOUND", "INVALID_PARAMETER",
   "OBJECT_NOT_IN_STATE", "CHECK_VIOLATION", "PERMISSION_DENIED"}

VARIABLES
  at,       \* "idle", "path" (connecting), "args", "exec" or "take"
  fn,       \* the function called, "connect" for maludb_connect_schema
  link,     \* PQstatus: "none" without a handle, "ok" or "bad"
  code,     \* last_code
  message,  \* the code last_message was written for, "none" if it is NULL
  given,    \* the heap parameters the application gave
  carried,  \* those of them the statement carried
  applied,  \* the server has committed this call's statement
  reply,    \* what the statement brought back: "none", "row" or "null"
  heap,     \* what is allocated and belongs to the library
  out,      \* what the application holds and must free: "none", "text",
            \* "hits", or "holes", hits some of whose strings are missing
  failing,  \* an allocation of this call has failed
  ret       \* the call's return: "none", "ok" or "failed"

statementVars == <<given, carried, applied, failing>>
handleVars == <<link, code, message>>
driverVars == <<at, fn, handleVars, statementVars, reply, heap, out, ret>>

DriverInit ==
  /\ at = "idle" /\ fn = "connect"
  /\ link = "none" /\ code = "OK" /\ message = "none"
  /\ given = {} /\ carried = {} /\ applied = FALSE /\ failing = FALSE
  /\ reply = "none" /\ heap = {} /\ out = "none" /\ ret = "none"

-----------------------------------------------------------------------------
(* The error slot.                                                         *)

\* Frees the old message, whatever it was, and keeps a copy of the new one
\* unless there is no memory for it.
set_error(c, freed, also) ==
  /\ code' = c
  /\ \E m \in {c} \cup (IF Short THEN {"none"} ELSE {}) :
       /\ message' = m
       /\ heap' = (heap \ (freed \cup {"message"})) \cup
                    (IF m = "none" THEN {} ELSE {"message"})
  /\ failing' = also

sqlstate_to_errcode == Codes \ {"OK", "CONNECT"}

Fails(c, freed, also) ==
  /\ set_error(c, freed, also)
  /\ ret' = "failed"
  /\ at' = "idle"

\* last_code is set; an old message stays.
Succeeds(freed) ==
  /\ code' = "OK"
  /\ heap' = heap \ freed
  /\ ret' = "ok"
  /\ at' = "idle"
  /\ UNCHANGED message

-----------------------------------------------------------------------------
(* The connection.                                                         *)

\* No memory for the handle; no connection; or on to set_search_path.
maludb_connect_schema ==
  /\ at = "idle" /\ link = "none"
  /\ fn' = "connect"
  /\ \/ /\ Short
        /\ ret' = "failed"
        /\ UNCHANGED <<at, handleVars, heap, failing>>
     \/ /\ link' = "bad"
        /\ code' = "CONNECT"
        /\ message' \in {"CONNECT"} \cup (IF Short THEN {"none"} ELSE {})
        /\ heap' = {"handle"} \cup (IF message' = "none" THEN {} ELSE {"message"})
        /\ ret' = "failed"
        /\ UNCHANGED <<at, failing>>
     \/ /\ link' = "ok"
        /\ heap' = {"handle"}
        /\ at' = "path" /\ ret' = "none"
        /\ UNCHANGED <<code, message, failing>>
  /\ UNCHANGED <<given, carried, applied, reply, out>>

\* SET search_path: no memory for the statement, an error, a lost connection,
\* or done.  The handle is returned either way.
set_search_path ==
  /\ at = "path"
  /\ \/ Short /\ Fails("GENERIC", {}, TRUE) /\ UNCHANGED link
     \/ /\ \E c \in sqlstate_to_errcode : Fails(c, {}, failing)
        /\ UNCHANGED link
     \/ Fails("GENERIC", {}, failing) /\ link' = "bad"
     \/ Succeeds({}) /\ UNCHANGED <<link, failing>>
  /\ UNCHANGED <<fn, given, carried, applied, reply, out>>

\* The application closes; what the handle held is gone with it.
maludb_close ==
  /\ at = "idle" /\ link # "none" /\ out = "none"
  /\ link' = "none" /\ code' = "OK" /\ message' = "none"
  /\ heap' = heap \ {"handle", "message"}
  /\ fn' = "connect" /\ ret' = "none"
  /\ given' = {} /\ carried' = {} /\ applied' = FALSE /\ failing' = FALSE
  /\ reply' = "none"
  /\ UNCHANGED <<at, out>>

-----------------------------------------------------------------------------
(* A call.                                                                 *)

\* The application calls f with parameters that are fit or not.
Called(f) ==
  /\ at = "idle" /\ link # "none" /\ out = "none"
  /\ fn' = f
  /\ given' \in IF Api[f].checked THEN {Api[f].heap} ELSE SUBSET Api[f].heap
  /\ carried' = {} /\ applied' = FALSE /\ reply' = "none"
  /\ UNCHANGED <<link, out>>

\* A probe on a connection that is known to be bad returns NULL and leaves
\* the error slot as it is.
ProbeRefused(f) ==
  /\ Called(f)
  /\ Api[f].kind = "probe" /\ link = "bad"
  /\ ret' = "failed"
  /\ failing' = FALSE
  /\ UNCHANGED <<at, code, message, heap>>

ParameterRefused(f) ==
  /\ Called(f)
  /\ Api[f].required
  /\ Fails("INVALID_PARAMETER", {}, FALSE)

Accepted(f) ==
  /\ Called(f)
  /\ Api[f].kind = "probe" => link = "ok"
  /\ at' = "args" /\ ret' = "none" /\ failing' = FALSE
  /\ UNCHANGED <<code, message, heap>>

\* The parameters malloc gives room for.
Buildable == IF Short THEN SUBSET given ELSE {given}

\* int64_array_literal, text_array_literal, int64_or_null and their like.  In
\* the functions that do not check, what could not be built goes out as NULL,
\* "not given".
BuildArguments ==
  /\ at = "args"
  /\ \E built \in Buildable :
       /\ carried' = built
       /\ \/ /\ Api[fn].checked /\ built # given
             /\ Fails("GENERIC", {}, TRUE)
          \/ /\ Api[fn].checked => built = given
             /\ heap' = heap \cup built
             /\ failing' = (built # given)
             /\ at' = "exec"
             /\ UNCHANGED <<code, message, ret>>
  /\ UNCHANGED <<fn, link, given, applied, reply, out>>

\* exec_params where the statement does not come back with a result: refused
\* by the server, not sent or not answered for want of a connection, or
\* committed and its result lost, with the connection or for want of memory.
\* The function then frees its parameters and returns.
exec_params_fails_Leaks ==
  /\ at = "exec"
  /\ \/ /\ link = "ok"
        /\ \E c \in sqlstate_to_errcode : Fails(c, {}, failing)
        /\ UNCHANGED <<link, applied>>
     \/ /\ link' = "bad"
        /\ applied' \in IF link = "ok" THEN BOOLEAN ELSE {FALSE}
        /\ Fails("GENERIC", given, failing)
     \/ /\ Short /\ link = "ok"
        /\ applied' = TRUE
        /\ Fails("GENERIC", given, TRUE)
        /\ UNCHANGED link
  /\ UNCHANGED <<fn, given, carried, reply, out>>

exec_params_fails ==
  /\ at = "exec"
  /\ \/ /\ link = "ok"
        /\ \E c \in sqlstate_to_errcode : Fails(c, given, failing)
        /\ UNCHANGED <<link, applied>>
     \/ /\ link' = "bad"
        /\ applied' \in IF link = "ok" THEN BOOLEAN ELSE {FALSE}
        /\ Fails("GENERIC", given, failing)
     \/ /\ Short /\ link = "ok"
        /\ applied' = TRUE
        /\ Fails("GENERIC", given, TRUE)
        /\ UNCHANGED link
  /\ UNCHANGED <<fn, given, carried, reply, out>>

\* Any status is taken for a result.
exec_params_AnyStatus ==
  /\ at = "exec" /\ link = "ok"
  /\ applied' \in BOOLEAN
  /\ reply' \in IF applied' THEN {"row", "null"} ELSE {"null"}
  /\ heap' = (heap \ (IF Api[fn].checked THEN given ELSE {})) \cup {"result"}
  /\ at' = "take"
  /\ UNCHANGED <<fn, handleVars, given, carried, failing, out, ret>>

\* The statement ran; its first column is a value, or NULL, or there is no
\* row.  The functions that check their parameters free them here, the others
\* after they have taken the answer.
exec_params ==
  /\ at = "exec" /\ link = "ok"
  /\ applied' = TRUE
  /\ reply' \in {"row", "null"}
  /\ heap' = (heap \ (IF Api[fn].checked THEN given ELSE {})) \cup {"result"}
  /\ at' = "take"
  /\ UNCHANGED <<fn, handleVars, given, carried, failing, out, ret>>

\* An empty answer is refused and the error slot left alone.
TakeFails_Silent ==
  /\ at = "take"
  /\ Api[fn].kind \in {"id", "text", "probe"} /\ reply = "null"
  /\ heap' = heap \ ({"result"} \cup given)
  /\ ret' = "failed" /\ at' = "idle"
  /\ UNCHANGED <<fn, handleVars, statementVars, reply, out>>

\* scalar_int64 finds no value, scalar_string finds none or cannot copy it,
\* or there is no memory for the hits.  The result is cleared.
TakeFails ==
  /\ at = "take"
  /\ \/ /\ Api[fn].kind \in {"id", "text", "probe"} /\ reply = "null"
        /\ Fails("GENERIC", {"result"} \cup given, failing)
     \/ /\ Short /\ Api[fn].kind \in {"text", "probe", "hits"} /\ reply = "row"
        /\ Fails("GENERIC", {"result"} \cup given, TRUE)
  /\ UNCHANGED <<fn, link, given, carried, applied, reply, out>>

\* What a call that succeeds hands out.  No row is an empty list of hits; a
\* string of a hit that cannot be copied is left NULL and the call goes on.
Outcome(kind) ==
  CASE kind \in {"text", "probe"} -> {"text"}
    [] kind = "hits" -> {"hits"} \cup
                          (IF Short /\ reply = "row" THEN {"holes"} ELSE {})
    [] OTHER -> {"none"}

Take ==
  /\ at = "take"
  /\ Api[fn].kind \in {"id", "text", "probe"} => reply = "row"
  /\ out' \in Outcome(Api[fn].kind)
  /\ failing' = (failing \/ out' = "holes")
  /\ Succeeds({"result"} \cup given)
  /\ UNCHANGED <<fn, link, given, carried, applied, reply>>

\* free(), maludb_free_source_hits, maludb_free_retrieval_hits.
Release ==
  /\ at = "idle" /\ out # "none"
  /\ out' = "none"
  /\ UNCHANGED <<at, fn, handleVars, statementVars, reply, heap, ret>>

DriverNext ==
  \/ maludb_connect_schema \/ set_search_path \/ maludb_close
  \/ \E f \in DOMAIN Api : ProbeRefused(f) \/ ParameterRefused(f) \/ Accepted(f)
  \/ BuildArguments \/ exec_params_fails \/ exec_params \/ TakeFails \/ Take
  \/ Release

DriverSpec == DriverInit /\ [][DriverNext]_driverVars

-----------------------------------------------------------------------------
(* Safety.                                                                 *)

\* maludb.h: "On failure, inspect maludb_last_error_code()".  A failed call on
\* a handle leaves a code that is not OK, maludb_version and
\* maludb_search_path on a broken connection included: they set none, but the
\* call that broke it did and no call can have succeeded since.
FailureIsExplained == ret = "failed" /\ link # "none" => code # "OK"

\* A call that returns success has had its statement committed, with every
\* parameter the application gave if the function checks them; one that
\* returns failure has not, unless the connection broke, memory ran out or
\* the function's answer was NULL, when the application must not simply
\* repeat it.
ReturnAgrees ==
  fn # "connect" =>
    /\ ret = "ok" => applied /\ code = "OK" /\ link = "ok"
    /\ applied /\ Api[fn].checked => carried = given
    /\ ret = "failed" /\ applied =>
         link = "bad" \/ failing \/ reply = "null"

\* Between calls the library holds the handle and its message and nothing of
\* a call: no PGresult, no parameter, whichever way the calls went; and
\* nothing at all once the handle is closed.
HeapIsExact ==
  at = "idle" =>
    heap = (IF link = "none" THEN {} ELSE {"handle"}) \cup
           (IF message = "none" THEN {} ELSE {"message"})

=============================================================================
