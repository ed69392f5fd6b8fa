------------------------------ MODULE McpCallers ------------------------------
(***************************************************************************)
(* Who calls the MCP endpoint: what the search limiter, the success quota  *)
(* and the request pipeline that uses both agree on.                       *)
(***************************************************************************)
CONSTANTS
    Requests,   \* tools/call requests
    Users,
    UserOf      \* the authenticated user of a request

=============================================================================
