------------------------------ MODULE Requests ------------------------------
(***************************************************************************)
(* The commands a run of the runtime handles.  One call of                 *)
(* CommandRouter.execute() mints one requestId, builds one envelope and    *)
(* makes one enqueue(), so one name stands for the call, its request and   *)
(* its envelope alike (createRequestId in src/runtime/protocol.js).        *)
(***************************************************************************)
CONSTANT Calls
=============================================================================
