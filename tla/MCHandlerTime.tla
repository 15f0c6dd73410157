--------------------------- MODULE MCHandlerTime ---------------------------
(***************************************************************************)
(* HandlerTime for TLC, with the delays of the code, in tenths of a        *)
(* second: three retries after 1, 2 and 4 seconds, calls of the simulated  *)
(* issuer of 0.2 to 0.5 seconds, and the defaults of kafkajs (heartbeats   *)
(* every 3 seconds, fetches of 5 at most, sessions of 30).  A send that    *)
(* fails is tried again five times, after 0.3 seconds and then after twice *)
(* as long each time, 9.3 in all; that leaves 0.7 seconds for an await     *)
(* that returns.                                                           *)
(***************************************************************************)
EXTENDS HandlerTime

CONSTANTS p1

OnePartition == [r \in Requests |-> p1]

RETRY_DELAYS == <<10, 20, 40>>

LongestSpent == [n \in 1 .. 4 |-> <<0, 15, 40, 85>>[n]]
=============================================================================
