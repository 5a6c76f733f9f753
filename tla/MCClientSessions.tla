--------------------------- MODULE MCClientSessions ---------------------------
(***************************************************************************)
(* Instances of ClientSessions for TLC.                                    *)
(***************************************************************************)
EXTENDS ClientSessionsProperties, TLC

CONSTANTS a, x

\* The call connects a browser.
Alone == a :> x

EverySession == Permutations(Sessions)
=============================================================================
