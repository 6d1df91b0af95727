--------------------------- MODULE MCRemoteCalls ---------------------------
(* Two workers and the renewer; under the debugger one of the workers.     *)
EXTENDS RemoteCalls
CONSTANTS w1, w2, renewer
MCWorkers == {w1, w2}
=============================================================================
