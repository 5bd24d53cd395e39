----------------------------- MODULE MC_Session -----------------------------
(***************************************************************************)
(* Session instantiated for TLC: two clients, batches of two messages    *)
(* (an executed/trade pair), two batches, a send queue of two frames so  *)
(* that a batch can fill it and a directory push can overflow it.         *)
(***************************************************************************)
EXTENDS Session

CONSTANTS c1, c2

MC_Clients == {c1, c2}
\* One runner: order is a per-symbol property and a second symbol only
\* interleaves independent walks.
MC_Symbols == {1}
MC_QueueCap == 2
MC_BatchLen == 2
MC_MaxBatches == 2
\* One control message per client in the passing run: subscribe, and the
\* other requests each fire as a client's only request.
MC_MaxControls == 1
\* Two: subscribe, then unsubscribe or switch format.
MC_MaxControlsTwo == 2

=============================================================================
