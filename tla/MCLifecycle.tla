----------------------------- MODULE MCLifecycle -----------------------------
(* Small instances of Lifecycle: which endpoints the devices have.           *)
EXTENDS Lifecycle

CONSTANTS d1, d2, d3

\* Two adapters and a device without an endpoint to write to.
Endpoints == [d \in Device |-> IF d = d3 THEN {"interruptReadPipe"} ELSE Pipe]
=============================================================================
