---------------------------- MODULE MCRuntimeCore ----------------------------
(***************************************************************************)
(* Instances of RuntimeCore for TLC: one or two calls of runOperation on   *)
(* the desktop input lease and the clipboard lease.                        *)
(***************************************************************************)
EXTENDS RuntimeCoreProperties, TLC

CONSTANTS a, b, k1, k2, p1, p2, desk, clip

\* Request keys and payloads.
OwnKeys == a :> k1 @@ b :> k2
OneKey == a :> k1 @@ b :> k1
SamePayload == a :> p1 @@ b :> p1
OtherPayload == a :> p1 @@ b :> p2

\* Resources.
BothDesktop == a :> {desk} @@ b :> {desk}
Nested == a :> {desk} @@ b :> {desk, clip}
Apart == a :> {desk} @@ b :> {clip}

\* A single call.
SingleKey == a :> k1
SinglePayload == a :> p1
SingleDesktop == a :> {desk}

\* Once a handler has ended, nothing looks at its abort signal, its staged
\* record, its grant or its refused view again: states that differ only in
\* these have the same future and satisfy the same properties.
Local(c) ==
  IF pc[c] \in Unsettled
    THEN <<staged[c], aborted[c], auth[c], viewFailed[c]>> ELSE <<>>

LiveView ==
  <<pc, dedup, mem, started, [c \in Calls |-> Local(c)], recon,
    sharedVars, storeVars, startVars, worldVars>>

=============================================================================
