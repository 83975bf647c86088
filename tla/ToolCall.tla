------------------------------ MODULE ToolCall ------------------------------
(***************************************************************************)
(* One request to the mc2dbd listener, from the buffered HTTP body to the  *)
(* JSON-RPC answer: http.c opens a database connection for it, mcp.c finds *)
(* the method, dispatch.c runs the tool (a SQL function inside a           *)
(* transaction, or one of the three external kinds), db.c writes the audit *)
(* row malu$mc2db_invocation, and mcp.c composes the answer.               *)
(*                                                                         *)
(* Each step is one statement sent to PostgreSQL or one piece of local     *)
(* code between two statements.  An operator who disables or deletes the   *)
(* tool, and the loss of the connection, can come between any two.         *)
(***************************************************************************)
EXTENDS Naturals, FiniteSets

CONSTANTS
  Methods,   \* the kinds of request body considered
  Impls,     \* the implementation types considered
  FaultSets, \* sets of what may fail: names of statements, and "connection"
  Operator   \* what an operator may do meanwhile: "disable", "delete"

AllMethods ==
  {"unparsable", "no_method", "unknown", "initialize", "ping", "tools_list",
   "bad_params", "tools_call"}

AllImpls == {"sql_function", "external_exec", "mcp_proxy", "http_endpoint"}

AllFails ==
  {"connection", "open", "list", "lookup", "begin_request", "function",
   "end_request", "commit", "load_meta", "audit"}

ASSUME ToolCallAssumption ==
  /\ Methods \subseteq AllMethods
  /\ Impls \subseteq AllImpls
  /\ FaultSets \subseteq SUBSET AllFails
  /\ Operator \subseteq {"disable", "delete"}

VARIABLES
  pc,
  faults,     \* what may fail in this behaviour
  method,     \* what the request asks for
  impl,       \* the tool's implementation_type
  companion,  \* the tool has its per-type row
  tool,       \* the tool's catalog row: "enabled", "disabled" or "absent"
  meta,       \* tool_meta: what the lookup saw ("none" before it)
  conn,       \* the connection: "none", "open", "broken" or "closed"
  tx,         \* the session's transaction: "none", "open" or "aborted"
  effects,    \* what the SQL function did: "none", "pending" or "committed"
  active,     \* what the active-request row holds, "none" without a row
  captured,   \* what _end_request returned
  res,        \* mc2dbd_tool_result
  audit,      \* the rows written to malu$mc2db_invocation
  answer      \* "none", "protocol_error" or "result"

dbVars == <<conn, tx, effects, active>>
catalogVars == <<impl, companion, tool>>
request == <<faults, method>>
callVars == <<pc, request, catalogVars, meta, dbVars, captured, res, audit, answer>>

\* What a SQL function can leave for the answer: nothing, put_text blocks, a
\* put_object payload with or without content, or an error payload: put_error's,
\* which has a text block, or a put_object with isError and an empty content.
Payloads == {"empty", "texts", "object", "bare_object", "error", "bare_error"}

\* The errors a SQL function reports itself; its transaction is committed.
Reported == {"error", "bare_error"}

\* mc2dbd_tool_result_init: no error, no content.
NoResult == [error |-> FALSE, code |-> "none", content |-> FALSE]

CallInit ==
  /\ pc = "accept"
  /\ faults \in FaultSets
  /\ method \in Methods
  /\ impl \in Impls
  /\ companion \in BOOLEAN
  /\ tool \in {"enabled", "disabled", "absent"}
  /\ meta = "none"
  /\ conn = "none" /\ tx = "none" /\ effects = "none" /\ active = "none"
  /\ captured = "none"
  /\ res = NoResult
  /\ audit = {}
  /\ answer = "none"

\* A statement may fail for a reason of its own, and does on a broken
\* connection.
Failing(statement) == conn = "broken" \/ statement \in faults

-----------------------------------------------------------------------------
(* http.c and mcp.c: from the body to the method.                          *)

AnswerNow(kind) ==
  /\ answer' = kind
  /\ pc' = "done"
  /\ UNCHANGED <<request, catalogVars, meta, tx, effects, active, captured,
                 res, audit>>

\* The body is complete; no connection can be opened for it.
NoConnection ==
  /\ pc = "accept"
  /\ "open" \in faults
  /\ conn' = "closed"
  /\ AnswerNow("protocol_error")

\* The methods that need no tool, and the requests refused before one is
\* looked for.
mcp_handle_request ==
  /\ pc = "accept"
  /\ conn' = "closed"
  /\ \/ method \in {"initialize", "ping"} /\ AnswerNow("result")
     \/ /\ method \in {"unparsable", "no_method", "unknown", "bad_params"}
        /\ AnswerNow("protocol_error")

\* The catalog is listed, or the query fails.
db_tools_list ==
  {"result"} \cup IF "list" \in faults THEN {"protocol_error"} ELSE {}

handle_tools_list ==
  /\ pc = "accept"
  /\ method = "tools_list"
  /\ conn' = "closed"
  /\ \E kind \in db_tools_list : AnswerNow(kind)

handle_tools_call ==
  /\ pc = "accept"
  /\ method = "tools_call"
  /\ conn' = "open"
  /\ pc' = "lookup"
  /\ UNCHANGED <<request, catalogVars, meta, tx, effects, active, captured,
                 res, audit, answer>>

-----------------------------------------------------------------------------
(* Finding the tool.                                                       *)

\* A result that carries an error; dispatch.c and exec.c give it a text
\* block, proxy.c and http_endpoint.c leave the content as it is.
tool_error(code) == [error |-> TRUE, code |-> code, content |-> TRUE]

set_err(code, content) == [error |-> TRUE, code |-> code, content |-> content]

db_tool_lookup ==
  /\ pc = "lookup"
  /\ conn = "open"
  /\ tool # "absent"
  /\ meta' = tool
  /\ pc' = "dispatch"
  /\ UNCHANGED <<request, catalogVars, dbVars, captured, res, audit, answer>>

\* No row, or no answer: both are TOOL_NOT_FOUND.
LookupFails ==
  /\ pc = "lookup"
  /\ tool = "absent" \/ Failing("lookup")
  /\ res' = tool_error("TOOL_NOT_FOUND")
  /\ pc' = "audit_unknown"
  /\ UNCHANGED <<request, catalogVars, meta, dbVars, captured, audit, answer>>

\* The tool's part is over: dispatch_tool goes on to the audit row.
EndsWith(r) ==
  /\ res' = r
  /\ pc' = "audit"
  /\ UNCHANGED <<request, catalogVars, meta, audit, answer>>

dispatch_tool ==
  /\ pc = "dispatch"
  /\ \/ /\ meta = "disabled"
        /\ EndsWith(tool_error("TOOL_DISABLED"))
     \/ /\ meta = "enabled"
        /\ impl = "sql_function"
        /\ ~companion
        /\ EndsWith(tool_error("INTERNAL_ERROR"))
     \/ /\ meta = "enabled"
        /\ impl = "sql_function" => companion
        /\ pc' = IF impl = "sql_function" THEN "begin" ELSE "load_meta"
        /\ UNCHANGED <<request, catalogVars, meta, res, audit, answer>>
  /\ UNCHANGED <<dbVars, captured>>

-----------------------------------------------------------------------------
(* dispatch_sql_function.                                                  *)

\* The result of BEGIN is not looked at.
Begin ==
  /\ pc = "begin"
  /\ tx' = IF conn = "open" THEN "open" ELSE "none"
  /\ pc' = "begin_request"
  /\ UNCHANGED <<request, catalogVars, meta, conn, effects, active, captured,
                 res, audit, answer>>

\* ROLLBACK on the session: what the transaction did is gone, the row of the
\* active request with it.
Rollback ==
  /\ tx' = "none"
  /\ effects' = "none"
  /\ active' = "none"
  /\ UNCHANGED conn

db_begin_request ==
  /\ pc = "begin_request"
  /\ conn = "open"
  /\ active' = "empty"
  /\ pc' = "function"
  /\ UNCHANGED <<request, catalogVars, meta, conn, tx, effects, captured, res,
                 audit, answer>>

BeginRequestFails_NoRollback ==
  /\ pc = "begin_request"
  /\ Failing("begin_request")
  /\ tx' = IF conn = "open" THEN "aborted" ELSE "none"
  /\ UNCHANGED <<conn, effects, active, captured>>
  /\ EndsWith(tool_error("INTERNAL_ERROR"))

BeginRequestFails ==
  /\ pc = "begin_request"
  /\ Failing("begin_request")
  /\ Rollback
  /\ UNCHANGED captured
  /\ EndsWith(tool_error("INTERNAL_ERROR"))

\* The function runs, has its effects and fills the active-request row.
CallFunction ==
  /\ pc = "function"
  /\ conn = "open"
  /\ effects' = "pending"
  /\ active' \in Payloads
  /\ pc' = "end_request"
  /\ UNCHANGED <<request, catalogVars, meta, conn, tx, captured, res, audit,
                 answer>>

FunctionRaises ==
  /\ pc = "function"
  /\ Failing("function")
  /\ Rollback
  /\ UNCHANGED captured
  /\ EndsWith(tool_error("TOOL_EXECUTION_ERROR"))

\* A failing _end_request leaves nothing captured and the transaction
\* aborted; dispatch_sql_function goes on to COMMIT all the same.
db_end_request ==
  /\ pc = "end_request"
  /\ \/ /\ conn = "open"
        /\ captured' = active
        /\ active' = "none"
        /\ UNCHANGED tx
     \/ /\ Failing("end_request")
        /\ captured' = "none"
        /\ tx' = IF conn = "open" THEN "aborted" ELSE "none"
        /\ UNCHANGED active
  /\ pc' = "commit"
  /\ UNCHANGED <<request, catalogVars, meta, conn, effects, res, audit, answer>>

\* COMMIT reports success in an aborted transaction too, having rolled it
\* back.
Commit ==
  /\ pc = "commit"
  /\ conn = "open"
  /\ effects' = IF tx = "open" THEN "committed" ELSE "none"
  /\ active' = "none"
  /\ tx' = "none"
  /\ pc' = "compose"
  /\ UNCHANGED <<request, catalogVars, meta, conn, captured, res, audit, answer>>

\* COMMIT fails (a deferred constraint, or no connection), or succeeds and
\* its answer is lost with the connection.
CommitFails_Ignored ==
  /\ pc = "commit"
  /\ Failing("commit")
  /\ tx = "open" \/ conn = "broken"
  /\ Rollback
  /\ pc' = "compose"
  /\ UNCHANGED <<request, catalogVars, meta, captured, res, audit, answer>>

CommitFails ==
  /\ pc = "commit"
  /\ Failing("commit")
  /\ tx = "open" \/ conn = "broken"
  /\ Rollback
  /\ UNCHANGED captured
  /\ EndsWith(tool_error("INTERNAL_ERROR"))

CommitAnswerLost ==
  /\ pc = "commit"
  /\ "connection" \in faults
  /\ conn = "open"
  /\ tx = "open"
  /\ conn' = "broken"
  /\ effects' = "committed"
  /\ active' = "none"
  /\ tx' = "none"
  /\ UNCHANGED captured
  /\ EndsWith(tool_error("INTERNAL_ERROR"))

\* The payload if there is one, else the text blocks, else a block "ok".
Compose_EmptyIsError ==
  /\ pc = "compose"
  /\ EndsWith(IF captured \in Reported \cup {"empty"}
              THEN set_err("TOOL_EXECUTION_ERROR", captured # "bare_error")
              ELSE [NoResult EXCEPT !.content = captured # "bare_object"])
  /\ UNCHANGED <<dbVars, captured>>

Compose ==
  /\ pc = "compose"
  /\ EndsWith(IF captured \in Reported
              THEN set_err("TOOL_EXECUTION_ERROR", captured # "bare_error")
              ELSE [NoResult EXCEPT !.content = captured # "bare_object"])
  /\ UNCHANGED <<dbVars, captured>>

-----------------------------------------------------------------------------
(* The external implementation types.                                      *)

\* exec.c: not runnable, or run_child's -1; its 1, a non-zero exit or stdout
\* that is not JSON; the tool's own {"ok": false}; or its result.
ExecOutcomes ==
  {tool_error("INTERNAL_ERROR"), tool_error("TOOL_EXECUTION_ERROR"),
   tool_error("from_tool")} \cup
  {[NoResult EXCEPT !.content = c] : c \in BOOLEAN}

\* proxy.c: no usable transport; a failed, malformed or incomplete answer; a
\* remote JSON-RPC error; a result with isError, or without.
ProxyOutcomes ==
  {set_err("INTERNAL_ERROR", FALSE), set_err("UPSTREAM_ERROR", FALSE),
   set_err("TOOL_EXECUTION_ERROR", FALSE)} \cup
  {set_err("TOOL_EXECUTION_ERROR", c) : c \in BOOLEAN} \cup
  {[NoResult EXCEPT !.content = c] : c \in BOOLEAN}

\* http_endpoint.c: no usable request; a transport error, a status outside
\* 2xx or too long a body; the body as content.
HttpOutcomes ==
  {set_err("INTERNAL_ERROR", FALSE), set_err("UPSTREAM_ERROR", FALSE),
   [NoResult EXCEPT !.content = TRUE]}

\* The per-type metadata is read in a statement of its own, after the lookup:
\* it fails, finds no row (the tool has none, or is gone by now), or is there.
Load(type, failure) ==
  /\ pc = "load_meta"
  /\ impl = type
  /\ \/ /\ conn = "open" /\ tool # "absent" /\ companion
        /\ pc' = "run"
        /\ UNCHANGED <<request, catalogVars, meta, res, audit, answer>>
     \/ /\ Failing("load_meta") \/ tool = "absent" \/ ~companion
        /\ EndsWith(failure)
  /\ UNCHANGED <<dbVars, captured>>

load_exec_meta == Load("external_exec", tool_error("INTERNAL_ERROR"))

load_proxy_meta == Load("mcp_proxy", set_err("INTERNAL_ERROR", FALSE))

load_http_ep_meta == Load("http_endpoint", set_err("INTERNAL_ERROR", FALSE))

Run(type, outcomes) ==
  /\ pc = "run"
  /\ impl = type
  /\ \E r \in outcomes : EndsWith(r)
  /\ UNCHANGED <<dbVars, captured>>

dispatch_external_exec == Run("external_exec", ExecOutcomes)

dispatch_mcp_proxy == Run("mcp_proxy", ProxyOutcomes)

dispatch_http_endpoint == Run("http_endpoint", HttpOutcomes)

-----------------------------------------------------------------------------
(* The audit row and the answer.                                           *)

\* The row stays if it is inserted outside a transaction and its tool_id, a
\* foreign key unless it is NULL, still exists.  A failing insert is logged and
\* forgotten.
db_audit_write_Reconnects(row, tool_id) ==
  \/ /\ tx = "none"
     /\ tool_id => tool # "absent"
     /\ audit' = audit \cup {row}
  \/ /\ "audit" \in faults \/ tx # "none" \/ (tool_id /\ tool = "absent")
     /\ UNCHANGED audit

db_audit_write(row, tool_id) ==
  \/ /\ conn = "open" /\ tx = "none"
     /\ tool_id => tool # "absent"
     /\ audit' = audit \cup {row}
  \/ /\ Failing("audit") \/ tx # "none" \/ (tool_id /\ tool = "absent")
     /\ UNCHANGED audit

\* handle_tools_call writes the row of a tool it has not found by itself.
AuditUnknown ==
  /\ pc = "audit_unknown"
  /\ db_audit_write([type |-> "unknown", success |-> FALSE,
                     code |-> "TOOL_NOT_FOUND"], FALSE)
  /\ pc' = "answer"
  /\ UNCHANGED <<request, catalogVars, meta, dbVars, captured, res, answer>>

\* dispatch_tool writes the row of every tool it was given.
AuditCall ==
  /\ pc = "audit"
  /\ db_audit_write([type |-> impl, success |-> ~res.error, code |-> res.code],
                    TRUE)
  /\ pc' = "answer"
  /\ UNCHANGED <<request, catalogVars, meta, dbVars, captured, res, answer>>

\* The answer is composed and the connection closed, which ends whatever
\* transaction the session is in.
Answer ==
  /\ pc = "answer"
  /\ conn' = IF conn = "broken" THEN "broken" ELSE "closed"
  /\ tx' = "none"
  /\ answer' = "result"
  /\ pc' = "done"
  /\ UNCHANGED <<request, catalogVars, meta, effects, active, captured, res,
                 audit>>

-----------------------------------------------------------------------------
(* What happens meanwhile.                                                 *)

LoseConnection ==
  /\ "connection" \in faults
  /\ conn = "open"
  /\ conn' = "broken"
  /\ tx' = "none"
  /\ effects' = IF effects = "pending" THEN "none" ELSE effects
  /\ active' = "none"
  /\ UNCHANGED <<pc, request, catalogVars, meta, captured, res, audit, answer>>

DisableTool ==
  /\ "disable" \in Operator
  /\ tool = "enabled"
  /\ tool' = "disabled"
  /\ UNCHANGED <<pc, request, impl, companion, meta, dbVars, captured, res,
                 audit, answer>>

DeleteTool ==
  /\ "delete" \in Operator
  /\ tool # "absent"
  /\ tool' = "absent"
  /\ UNCHANGED <<pc, request, impl, companion, meta, dbVars, captured, res,
                 audit, answer>>

CallStep ==
  \/ NoConnection \/ mcp_handle_request \/ handle_tools_list
  \/ handle_tools_call
  \/ db_tool_lookup \/ LookupFails \/ dispatch_tool
  \/ Begin \/ db_begin_request \/ BeginRequestFails
  \/ CallFunction \/ FunctionRaises \/ db_end_request
  \/ Commit \/ CommitFails \/ CommitAnswerLost \/ Compose
  \/ load_exec_meta \/ load_proxy_meta \/ load_http_ep_meta
  \/ dispatch_external_exec \/ dispatch_mcp_proxy \/ dispatch_http_endpoint
  \/ AuditUnknown \/ AuditCall \/ Answer

CallNext == CallStep \/ LoseConnection \/ DisableTool \/ DeleteTool

CallSpec == CallInit /\ [][CallNext]_callVars

-----------------------------------------------------------------------------
(* Safety.                                                                 *)

Answered == pc = "done" /\ answer = "result" /\ method = "tools_call"

\* dispatch_sql_function: "COMMIT, and return whatever payload the function
\* emitted".  A SQL tool's call that is answered without an error has its
\* effects committed.
SuccessIsCommitted ==
  Answered /\ ~res.error /\ impl = "sql_function" => effects = "committed"

\* The same as long as _end_request does not fail by itself, whatever else
\* does.
SuccessIsCommittedIfCaptured ==
  "end_request" \notin faults => SuccessIsCommitted

\* A SQL tool's call answered with an error has left nothing in the database,
\* unless the tool reported the error itself (mc2db.put_error) or the
\* connection was lost, when dispatch.c cannot know.
ErrorLeavesNothing ==
  Answered /\ res.error /\ effects = "committed" =>
    captured \in Reported \/ conn = "broken"

\* The audit is never wrong about the database, at any moment of the call and
\* after it, however the call ended: a row of a SQL tool that says success is
\* of effects that are committed (as long as _end_request does not fail by
\* itself), and one that says failure is of effects that are not, or of a tool
\* that reported the error itself.  A lost connection is no excuse here: the
\* row would have gone over the connection that carried the COMMIT.
AuditTellsTheEffects ==
  \A row \in audit : row.type = "sql_function" =>
    IF row.success
    THEN "end_request" \notin faults => effects = "committed"
    ELSE effects = "committed" => captured \in Reported

\* Every answered tool call has its audit row, whatever failed in the call
\* itself: the row is not rolled back with a transaction that failed.  Not so
\* when the connection or the insert fails or the tool was deleted while it
\* ran; the manual's "Tool calls always write audit rows" leaves these out.
AuditedUnlessDeleted ==
  /\ Answered
  /\ faults \cap {"connection", "audit"} = {}
  => audit # {} \/ tool = "absent"

=============================================================================
