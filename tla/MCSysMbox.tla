------------------------------ MODULE MCSysMbox ------------------------------
(* A mailbox with a small ring and a pool that is one message smaller.     *)
EXTENDS SysMbox

=============================================================================
