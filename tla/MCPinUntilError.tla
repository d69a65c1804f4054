--------------------------- MODULE MCPinUntilError ---------------------------
(* Instances of PinUntilError for TLC. *)
EXTENDS PinUntilError, TLC

(* Calls are interchangeable; nothing here is a liveness property. *)
Interchangeable == Permutations(Calls)
=============================================================================
