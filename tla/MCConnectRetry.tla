--------------------------- MODULE MCConnectRetry ---------------------------
(***************************************************************************)
(* ConnectRetry with the numbers of the code, in ticks of half a second.   *)
(***************************************************************************)
EXTENDS ConnectRetry
=============================================================================
