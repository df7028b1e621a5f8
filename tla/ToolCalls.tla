----------------------------- MODULE ToolCalls -----------------------------
(***************************************************************************)
(* The requests an MCP client sends in one session, by number; each is     *)
(* handled beside the others (#handle in src/mcp/server.js is async and    *)
(* nobody awaits it).                                                      *)
(***************************************************************************)
CONSTANTS
  Requests,
  None                 \* no value
=============================================================================
