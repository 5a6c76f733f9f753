--------------------------- MODULE ClientTransport ---------------------------
(***************************************************************************)
(* A client of the runtime on its socket (RuntimeUdsClient of transport.ts *)
(* with client-renewal.ts): its calls, the credential they go under, and   *)
(* the renewal of that credential, which the runtime grants only between   *)
(* calls and which invalidates the credential before it.                   *)
(*                                                                         *)
(* Stretches of JavaScript that wait only for a promise that has settled   *)
(* (the states of Continuations) end before any answer, timer or deadline  *)
(* is heard: those events wait for NothingSettled.                                  *)
(***************************************************************************)
EXTENDS Naturals, FiniteSets

CONSTANTS
  Users,           \* whoever calls through the client
  ReadOnly,        \* those whose calls are GETs, which may be repeated after a 401
  LongBudget,      \* those whose calls ask for more of the credential's life
  MaxClientFaults  \* bound: restarts of the runtime, lost answers and late renewals

ASSUME ClientAssumption ==
  /\ ReadOnly \subseteq Users /\ LongBudget \subseteq Users /\ MaxClientFaults \in Nat

VARIABLES
  calling,      \* each user's call
  activeCalls,       \* the calls that count as #active
  left,         \* of the credential's life: 2 for any call, 1 for short ones, 0 for none
  held,         \* whether the bearer the client holds is the runtime's current one
  renewing,     \* #renewing: "none", "asked", or "granted" with its answer on the way
  automatic,    \* whether #automatic waits for it
  renewTimer,   \* the timer: "none", "life" at the margin, "retry" after a second
  deferred,     \* #deferred
  clientClosed, \* close: "no", "asked", "done"
  posted,       \* requests on their way: by whom, and whether under the current bearer
  serving,      \* calls the runtime is at
  lateRenewal,  \* a renewal on its way that nobody waits for any more
  clientFaults

renewalVars == <<left, held, renewing, automatic, renewTimer, deferred>>
wireVars == <<posted, serving, lateRenewal>>
transportVars == <<calling, activeCalls, renewalVars, clientClosed, wireVars, clientFaults>>

Rested == [at |-> "out", sent |-> 0, renewed |-> FALSE]
Continuations == {"sharesDone", "retries", "woken"}

TransportTypeOK ==
  /\ calling \in [Users -> [at : {"out", "shares", "waits", "renews", "flight"} \cup Continuations,
                            sent : 0..2, renewed : BOOLEAN]]
  /\ activeCalls \subseteq Users /\ left \in 0..2
  /\ {held, automatic, deferred, lateRenewal} \subseteq BOOLEAN
  /\ renewing \in {"none", "asked", "granted"} /\ renewTimer \in {"none", "life", "retry"}
  /\ clientClosed \in {"no", "asked", "done"}
  /\ posted \subseteq [by : Users, good : BOOLEAN] /\ serving \subseteq Users

\* open has answered.
TransportInit ==
  /\ calling = [u \in Users |-> Rested] /\ activeCalls = {} /\ left = 2 /\ held = TRUE
  /\ renewing = "none" /\ automatic = FALSE /\ renewTimer = "life" /\ deferred = FALSE
  /\ clientClosed = "no" /\ posted = {} /\ serving = {} /\ lateRenewal = FALSE /\ clientFaults = 0

NothingSettled == \A u \in Users : calling[u].at \notin Continuations

-----------------------------------------------------------------------------
(* The coordinator. *)

\* The life that enter asks for, over the margin.
Suffices(u) == left >= IF u \in LongBudget THEN 2 ELSE 1

\* enter lets the call go, which sends its request; or the call waits until no other is
\* active, to renew.
LetGo(u, c) ==
  IF Suffices(u)
    THEN /\ calling' = [calling EXCEPT ![u] = [c EXCEPT !.at = "flight", !.sent = @ + 1]]
         /\ activeCalls' = activeCalls \cup {u}
         /\ posted' = posted \cup {[by |-> u, good |-> held]}
    ELSE /\ calling' = [calling EXCEPT ![u] = [c EXCEPT !.at = IF activeCalls = {} THEN "woken" ELSE "waits"]]
         /\ UNCHANGED <<activeCalls, posted>>

\* enter, up to its first wait.
Enters(u, c) ==
  IF renewing # "none" THEN calling' = [calling EXCEPT ![u] = [c EXCEPT !.at = "shares"]]
                            /\ UNCHANGED <<activeCalls, posted>>
  ELSE LetGo(u, c)

\* release: the last call wakes whoever waits for none to be active, and starts the
\* renewal that #automatic has put off.
Released(u, told) ==
  /\ activeCalls' = activeCalls \ {u}
  /\ calling' = [v \in Users |->
       IF v = u THEN IF told.at = "waits" /\ activeCalls' = {} THEN [told EXCEPT !.at = "woken"] ELSE told
       ELSE IF activeCalls' = {} /\ calling[v].at = "waits" THEN [calling[v] EXCEPT !.at = "woken"]
       ELSE calling[v]]
  /\ IF activeCalls' = {} /\ u \in activeCalls /\ deferred
       THEN /\ deferred' = FALSE /\ automatic' = TRUE
            /\ renewing' = IF renewing = "none" THEN "asked" ELSE renewing
       ELSE UNCHANGED <<deferred, automatic, renewing>>

\* What becomes of those who wait for a renewal that has ended well, or has not.  A new
\* credential suffices for every call (it lives five minutes, a call asks for three at
\* most), so the second attempt of enter gets in.
AfterRenewal(u) ==
  LET c == calling[u] IN
  CASE c.at = "shares" -> [c EXCEPT !.at = "sharesDone"]
    [] c.at = "renews" -> [c EXCEPT !.at = "retries"]
    [] OTHER -> c
AfterFailure(u) == IF calling[u].at \in {"shares", "renews"} THEN Rested ELSE calling[u]

RenewalFails ==
  /\ renewing' = "none" /\ calling' = [u \in Users |-> AfterFailure(u)]
  /\ automatic' = FALSE /\ renewTimer' = IF automatic THEN "retry" ELSE renewTimer

-----------------------------------------------------------------------------
(* Calls. *)

Call(u) ==
  /\ calling[u].at = "out" /\ clientClosed = "no" /\ u \notin serving
  /\ \A p \in posted : p.by # u
  /\ Enters(u, Rested)
  /\ UNCHANGED <<renewalVars, clientClosed, serving, lateRenewal, clientFaults>>

\* After the renewal it shared, a call only looks at the credential; after its own it
\* begins once more.
Continue(u) ==
  /\ \/ calling[u].at = "sharesDone" /\ LetGo(u, calling[u])
     \/ calling[u].at = "retries" /\ Enters(u, calling[u])
  /\ UNCHANGED <<renewalVars, clientClosed, serving, lateRenewal, clientFaults>>

\* #refresh: one renewal for all; refused when a call has become active meanwhile.
Refresh(u) ==
  /\ calling[u].at = "woken"
  /\ IF renewing = "none" /\ activeCalls # {}
       THEN calling' = [calling EXCEPT ![u] = Rested] /\ UNCHANGED renewing
       ELSE /\ calling' = [calling EXCEPT ![u].at = "renews"]
            /\ renewing' = IF renewing = "none" THEN "asked" ELSE renewing
  /\ UNCHANGED <<activeCalls, left, held, automatic, renewTimer, deferred, clientClosed, wireVars, clientFaults>>

\* The runtime takes a request: it knows the bearer and serves it, or answers 401.  A
\* request whose caller has gone may arrive all the same.
Serve(p) ==
  /\ p \in posted /\ p.good /\ posted' = posted \ {p} /\ serving' = serving \cup {p.by}
  /\ UNCHANGED <<calling, activeCalls, renewalVars, clientClosed, lateRenewal, clientFaults>>

\* 401: the lease is released; a read then has the credential renewed, and is sent once
\* more.  Nothing else is.
RetriesRead(u) == u \in ReadOnly /\ ~calling[u].renewed
Denied(u) ==
  IF RetriesRead(u) THEN [calling[u] EXCEPT !.at = "waits", !.renewed = TRUE] ELSE Rested

KeepsItsLease(p) ==   \* mutant: the renewal is asked for before the lease is released
  /\ NothingSettled /\ p \in posted /\ ~p.good /\ posted' = posted \ {p}
  /\ IF calling[p.by].at = "flight" THEN calling' = [calling EXCEPT ![p.by] = Denied(p.by)]
     ELSE UNCHANGED calling
  /\ UNCHANGED <<activeCalls, renewalVars, clientClosed, serving, lateRenewal, clientFaults>>

Deny(p) ==
  /\ NothingSettled /\ p \in posted /\ ~p.good /\ posted' = posted \ {p}
  /\ IF calling[p.by].at = "flight" THEN Released(p.by, Denied(p.by))
     ELSE UNCHANGED <<calling, activeCalls, deferred, automatic, renewing>>
  /\ UNCHANGED <<left, held, renewTimer, clientClosed, serving, lateRenewal, clientFaults>>

\* The runtime ends a call; its answer is heard, when somebody still listens.
Answer(u) ==
  /\ NothingSettled /\ u \in serving /\ serving' = serving \ {u}
  /\ IF calling[u].at = "flight" THEN Released(u, Rested)
     ELSE UNCHANGED <<calling, activeCalls, deferred, automatic, renewing>>
  /\ UNCHANGED <<left, held, renewTimer, clientClosed, posted, lateRenewal, clientFaults>>

\* The deadline of the request, or the caller's abort.
GiveUpCall(u) ==
  /\ NothingSettled /\ calling[u].at = "flight" /\ Released(u, Rested)
  /\ UNCHANGED <<left, held, renewTimer, clientClosed, wireVars, clientFaults>>

\* The caller of a call that waits aborts it.
AbortWaiting(u) ==
  /\ NothingSettled /\ calling[u].at \in {"shares", "waits", "renews"}
  /\ calling' = [calling EXCEPT ![u] = Rested]
  /\ UNCHANGED <<activeCalls, renewalVars, clientClosed, wireVars, clientFaults>>

-----------------------------------------------------------------------------
(* The credential. *)

\* resume in the runtime: refused while a call of this client runs; else the bearer is
\* new and the one before it unknown.
NewBearer == posted' = {[p EXCEPT !.good = FALSE] : p \in posted}
GrantRenewal ==
  /\ renewing = "asked" /\ serving = {} /\ NewBearer /\ renewing' = "granted" /\ held' = FALSE
  /\ UNCHANGED <<calling, activeCalls, left, automatic, renewTimer, deferred, clientClosed, serving,
                 lateRenewal, clientFaults>>
HearRenewal ==
  /\ NothingSettled /\ renewing = "granted" /\ renewing' = "none" /\ held' = TRUE /\ left' = 2
  /\ automatic' = FALSE /\ renewTimer' = "life"
  /\ calling' = [u \in Users |-> AfterRenewal(u)]
  /\ UNCHANGED <<activeCalls, deferred, clientClosed, wireVars, clientFaults>>

\* The runtime refuses; or the request fails or is late, with the renewal done, undone
\* or still on its way.
RefuseRenewal ==
  /\ NothingSettled /\ renewing = "asked" /\ serving # {} /\ RenewalFails
  /\ UNCHANGED <<activeCalls, left, held, deferred, clientClosed, wireVars, clientFaults>>
LoseRenewal(later) ==
  /\ NothingSettled /\ renewing # "none" /\ clientFaults < MaxClientFaults /\ clientFaults' = clientFaults + 1
  /\ RenewalFails
  /\ later => renewing = "asked"
  /\ lateRenewal' = (lateRenewal \/ later)
  /\ UNCHANGED <<activeCalls, left, held, deferred, clientClosed, posted, serving>>
\* The runtime grants renewals in the order in which they reach it.
LateGrant ==
  /\ lateRenewal /\ lateRenewal' = FALSE
  /\ IF serving = {} THEN NewBearer /\ held' = FALSE /\ renewing' = renewing
     ELSE UNCHANGED <<posted, held, renewing>>
  /\ renewing # "granted"
  /\ UNCHANGED <<calling, activeCalls, left, automatic, renewTimer, deferred, clientClosed, serving, clientFaults>>

\* Time passes.
Ages ==
  /\ NothingSettled /\ left > 0 /\ left' = left - 1
  /\ UNCHANGED <<calling, activeCalls, held, renewing, automatic, renewTimer, deferred, clientClosed,
                 wireVars, clientFaults>>

\* #automatic.
TimerRings ==
  /\ NothingSettled /\ (renewTimer = "retry" \/ (renewTimer = "life" /\ left = 0))
  /\ renewTimer' = "none"
  /\ IF activeCalls # {} THEN deferred' = TRUE /\ UNCHANGED <<automatic, renewing>>
     ELSE /\ automatic' = TRUE /\ renewing' = IF renewing = "none" THEN "asked" ELSE renewing
          /\ UNCHANGED deferred
  /\ UNCHANGED <<calling, activeCalls, left, held, clientClosed, wireVars, clientFaults>>

\* The runtime is replaced by another process: no bearer of the former one is known, but
\* the resumption token is.
RuntimeRestarts ==
  /\ NothingSettled /\ clientFaults < MaxClientFaults /\ clientFaults' = clientFaults + 1
  /\ NewBearer /\ held' = FALSE /\ serving' = {} /\ lateRenewal' = FALSE
  /\ IF renewing # "none" THEN RenewalFails ELSE UNCHANGED <<renewing, calling, automatic, renewTimer>>
  /\ UNCHANGED <<activeCalls, left, deferred, clientClosed>>

-----------------------------------------------------------------------------
(* The end of the client. *)

\* close: whoever waits is woken, what is under way is aborted, and the session is closed
\* under the bearer at hand; a renewal under way may still happen.
CloseClient(later) ==
  /\ clientClosed = "no" /\ clientClosed' = "asked"
  /\ calling' = [u \in Users |-> Rested] /\ activeCalls' = {}
  /\ later => renewing = "asked"
  /\ lateRenewal' = (lateRenewal \/ later)
  /\ renewing' = "none" /\ automatic' = FALSE /\ renewTimer' = "none" /\ deferred' = FALSE
  /\ UNCHANGED <<left, held, posted, serving, clientFaults>>
CloseAnswered ==
  /\ clientClosed = "asked" /\ clientClosed' = "done" /\ held' = FALSE
  /\ UNCHANGED <<calling, activeCalls, left, renewing, automatic, renewTimer, deferred, wireVars, clientFaults>>

TransportNext ==
  \/ \E u \in Users : Call(u) \/ Continue(u) \/ Refresh(u) \/ Answer(u) \/ GiveUpCall(u) \/ AbortWaiting(u)
  \/ \E p \in posted : Serve(p) \/ Deny(p)
  \/ GrantRenewal \/ HearRenewal \/ RefuseRenewal \/ LateGrant \/ Ages \/ TimerRings
  \/ RuntimeRestarts \/ CloseAnswered
  \/ \E later \in BOOLEAN : LoseRenewal(later) \/ CloseClient(later)

-----------------------------------------------------------------------------
(* Properties. *)

\* No call is under way while the client asks for the renewal that would invalidate its
\* bearer, and nothing but a refused read is sent twice.
RenewalSparesCalls ==
  /\ renewing # "none" => activeCalls = {}
  /\ \A u \in Users : calling[u].sent <= IF calling[u].renewed /\ u \in ReadOnly THEN 2 ELSE 1

\* Whoever waits is waiting for something that will end and then wakes it: a call for none
\* to be active only while another one is, one for the renewal only while there is one.
WaitersAreWoken ==
  \A u \in Users :
    /\ calling[u].at = "waits" => \E v \in activeCalls \ {u} : calling[v].at = "flight"
    /\ calling[u].at \in {"shares", "renews"} => renewing # "none"

\* A client that holds a bearer the runtime does not know, or one about to expire, is about
\* to have it renewed, however many renewals have failed.
RenewalIsComing ==
  clientClosed = "no" => renewTimer # "none" \/ automatic \/ (deferred /\ activeCalls # {})

\* A client does not wait for itself, its calls survive its renewals, and it never gives
\* up renewing.
ClientIsServed == RenewalSparesCalls /\ WaitersAreWoken /\ RenewalIsComing
=============================================================================
