------------------------ MODULE ObserverSubscriptions ------------------------
(***************************************************************************)
(* The Accessibility subscriptions of the helper's observer (meta_observer *)
(* on the main thread): which process incarnations and windows it listens  *)
(* to, while processes end, their numbers are reused, and callbacks and    *)
(* notifications come late.                                                *)
(***************************************************************************)
EXTENDS Naturals, FiniteSets

CONSTANTS
  Pids,         \* process numbers
  Windows,      \* windows of whatever process
  WindowLimit,  \* META_OBSERVER_MAX_WINDOWS
  MaxBirths,    \* bound: incarnations that a process number sees
  MaxSubscribes \* bound: subscriptions

ASSUME SubscriptionsAssumption ==
  /\ IsFiniteSet(Pids) /\ IsFiniteSet(Windows)
  /\ {WindowLimit, MaxBirths, MaxSubscribes} \subseteq Nat /\ MaxBirths > 0

VARIABLES
  alive,        \* the incarnation that has each number now, 0 when none has
  births,       \* how many incarnations there have been
  front,        \* the number of the foreground process
  subscribed,   \* for each number: the AX observer and the incarnation, or NoSubscription
  axWindows,    \* for each number: the windows listened to
  axWindowCount,
  subscribing,  \* the subscription that is being made, or NoAttempt
  callbacks,    \* callbacks on their way
  exits,        \* termination notifications on their way: number and incarnation
  told,         \* the last thing recorded: an event with its target, without one, or a gap
  made

subscriptionVars ==
  <<alive, births, front, subscribed, axWindows, axWindowCount, subscribing, callbacks, exits,
    told, made>>
worldVars == <<alive, births, front>>

NoSubscription == [observer |-> 0, birth |-> 0]
NoAttempt == [pid |-> "none", birth |-> 0, windows |-> {}]
Nothing == [what |-> "none", pid |-> "none", birth |-> 0]
AnyCallback == [pid : Pids, birth : 1..MaxBirths, observer : 1..MaxSubscribes,
             kind : {"focus", "moved", "created"}, window : Windows]

SubscriptionsTypeOK ==
  /\ alive \in [Pids -> 0..MaxBirths] /\ births \in [Pids -> 0..MaxBirths] /\ front \in Pids
  /\ subscribed \in [Pids -> [observer : 0..MaxSubscribes, birth : 0..MaxBirths]]
  /\ axWindows \in [Pids -> SUBSET Windows] /\ axWindowCount \in Nat
  /\ callbacks \subseteq AnyCallback /\ exits \subseteq Pids \X (1..MaxBirths)
  /\ told.what \in {"none", "target", "global", "gap"}

SubscriptionsInit ==
  /\ alive = [p \in Pids |-> 1] /\ births = [p \in Pids |-> 1] /\ front \in Pids
  /\ subscribed = [p \in Pids |-> NoSubscription] /\ axWindows = [p \in Pids |-> {}]
  /\ axWindowCount = 0 /\ subscribing = NoAttempt /\ callbacks = {} /\ exits = {}
  /\ told = Nothing /\ made = 0

Tells(what) == told' = [what |-> what, pid |-> "none", birth |-> 0]
TellsOf(c) == told' = [what |-> "target", pid |-> c.pid, birth |-> c.birth]

-----------------------------------------------------------------------------
(* The system. *)

ProcessEnds(p) ==
  /\ alive[p] # 0 /\ alive' = [alive EXCEPT ![p] = 0] /\ exits' = exits \cup {<<p, alive[p]>>}
  /\ UNCHANGED <<births, front, subscribed, axWindows, axWindowCount, subscribing, callbacks, told, made>>

ProcessStarts(p) ==
  /\ alive[p] = 0 /\ births[p] < MaxBirths
  /\ births' = [births EXCEPT ![p] = @ + 1] /\ alive' = [alive EXCEPT ![p] = births[p] + 1]
  /\ UNCHANGED <<front, subscribed, axWindows, axWindowCount, subscribing, callbacks, exits, told, made>>

ForegroundChanges(p) ==
  /\ front' = p /\ p # front
  /\ UNCHANGED <<alive, births, subscribed, axWindows, axWindowCount, subscribing, callbacks, exits,
                 told, made>>

\* A process that is listened to sends a callback.
Calls(p, kind, w) ==
  /\ subscribed[p].observer # 0 /\ alive[p] = subscribed[p].birth /\ callbacks = {}
  /\ callbacks' = {[pid |-> p, birth |-> alive[p], observer |-> subscribed[p].observer,
                    kind |-> kind, window |-> w]}
  /\ UNCHANGED <<worldVars, subscribed, axWindows, axWindowCount, subscribing, exits, told, made>>

World ==
  \/ \E p \in Pids : ProcessEnds(p) \/ ProcessStarts(p) \/ ForegroundChanges(p)
  \/ \E p \in Pids, kind \in {"focus", "moved", "created"}, w \in Windows : Calls(p, kind, w)

-----------------------------------------------------------------------------
(* Subscribing. *)

\* The windows of these numbers that are listened to.
ListenedTo(pids) == {x \in pids \X Windows : x[2] \in axWindows[x[1]]}

\* removeApplicationPid for a set of numbers.
Removed(gone) ==
  LET freed == Cardinality(ListenedTo(gone)) IN
  /\ subscribed' = [p \in Pids |-> IF p \in gone THEN NoSubscription ELSE subscribed[p]]
  /\ axWindows' = [p \in Pids |-> IF p \in gone THEN {} ELSE axWindows[p]]
  /\ axWindowCount' = IF freed > axWindowCount THEN 0 ELSE axWindowCount - freed

\* refreshForegroundSubscription: what is not in front is let go; the foreground
\* process stays when it is the incarnation that was subscribed.
Refresh ==
  LET others == {p \in Pids : p # front /\ subscribed[p].observer # 0}
      known == subscribed[front].observer # 0 /\ subscribed[front].birth = alive[front]
      stale == {p \in {front} : ~known /\ alive[p] # 0} IN
  /\ subscribing = NoAttempt /\ (known => others # {}) /\ made < MaxSubscribes
  /\ Removed(others \cup stale)
  /\ IF known \/ alive[front] = 0 THEN UNCHANGED <<subscribing, made>>
     ELSE subscribing' = [pid |-> front, birth |-> alive[front], windows |-> {}] /\ made' = made + 1
  /\ IF alive[front] = 0 THEN Tells("gap") ELSE UNCHANGED told
  /\ UNCHANGED <<worldVars, callbacks, exits>>

\* subscribeWindow, for a window of the process that is being subscribed.
SubscribeWindow(w) ==
  /\ subscribing # NoAttempt /\ w \notin axWindows[subscribing.pid]
  /\ axWindowCount < WindowLimit
  /\ axWindows' = [axWindows EXCEPT ![subscribing.pid] = @ \cup {w}]
  /\ axWindowCount' = axWindowCount + 1
  /\ UNCHANGED <<worldVars, subscribed, subscribing, callbacks, exits, told, made>>

\* The observer is kept when the number still belongs to the same incarnation.
SubscribeEnds ==
  LET p == subscribing.pid IN
  /\ subscribing # NoAttempt /\ alive[p] = subscribing.birth
  /\ subscribed' = [subscribed EXCEPT ![p] = [observer |-> made, birth |-> subscribing.birth]]
  /\ subscribing' = NoAttempt
  /\ UNCHANGED <<worldVars, axWindows, axWindowCount, callbacks, exits, told, made>>

SubscribeForgets ==   \* mutant: the windows of a half-made subscription still count
  /\ subscribing # NoAttempt
  /\ axWindows' = [axWindows EXCEPT ![subscribing.pid] = {}]
  /\ subscribing' = NoAttempt /\ Tells("gap")
  /\ UNCHANGED <<worldVars, subscribed, axWindowCount, callbacks, exits, made>>

\* A call that failed or timed out, too many windows, another incarnation: what was
\* done so far is taken back.
SubscribeFails ==
  LET partial == Cardinality(axWindows[subscribing.pid]) IN
  /\ subscribing # NoAttempt
  /\ axWindows' = [axWindows EXCEPT ![subscribing.pid] = {}]
  /\ axWindowCount' = IF partial > axWindowCount THEN 0 ELSE axWindowCount - partial
  /\ subscribing' = NoAttempt /\ Tells("gap")
  /\ UNCHANGED <<worldVars, subscribed, callbacks, exits, made>>

-----------------------------------------------------------------------------
(* Callbacks and notifications; the main thread is at nothing else. *)

\* The callback comes from the observer that is kept, for the incarnation that was
\* subscribed and that has the number now.
FromSubscription(c) ==
  /\ subscribed[c.pid].observer = c.observer
  /\ subscribed[c.pid].birth # 0 /\ subscribed[c.pid].birth = alive[c.pid]

\* A new window is listened to as well, or window coverage ends.
Widens(c) ==
  IF c.kind # "created" \/ c.window \in axWindows[c.pid]
    THEN UNCHANGED <<axWindows, axWindowCount>>
    ELSE /\ axWindowCount < WindowLimit
         /\ axWindows' = [axWindows EXCEPT ![c.pid] = @ \cup {c.window}]
         /\ axWindowCount' = axWindowCount + 1

\* handleAXElement; resolved is whether the target index knows the element.
HandleAXElement(c, resolved) ==
  /\ c \in callbacks /\ callbacks' = callbacks \ {c} /\ subscribing = NoAttempt
  /\ \/ /\ FromSubscription(c) /\ Widens(c)
        /\ IF resolved THEN TellsOf(c) ELSE Tells("global")
     \/ /\ ~FromSubscription(c) \/ c.kind = "created"
        /\ Tells("gap") /\ UNCHANGED <<axWindows, axWindowCount>>
  /\ UNCHANGED <<worldVars, subscribed, subscribing, exits, made>>

\* handleTerminatedApplication: only the incarnation that was subscribed is removed;
\* a number that already belongs to another is a gap.
HandleTerminated(p, b) ==
  /\ <<p, b>> \in exits /\ exits' = exits \ {<<p, b>>} /\ subscribing = NoAttempt
  /\ IF subscribed[p] = NoSubscription \/ (subscribed[p].birth # b /\ alive[p] = subscribed[p].birth)
       THEN UNCHANGED <<subscribed, axWindows, axWindowCount, told>>
       ELSE IF subscribed[p].birth # b \/ alive[p] \notin {0, b}
         THEN Tells("gap") /\ UNCHANGED <<subscribed, axWindows, axWindowCount>>
         ELSE Removed({p}) /\ Tells("global")
  /\ UNCHANGED <<worldVars, subscribing, callbacks, made>>

SubscriptionsNext ==
  \/ World \/ Refresh \/ (\E w \in Windows : SubscribeWindow(w)) \/ SubscribeEnds \/ SubscribeFails
  \/ \E c \in callbacks, resolved \in BOOLEAN : HandleAXElement(c, resolved)
  \/ \E x \in exits : HandleTerminated(x[1], x[2])

-----------------------------------------------------------------------------
(* Properties. *)

\* The count that the limit of windows is held against is the number of windows that
\* are listened to, however subscriptions fail and processes end: a count that grew by
\* itself would end observation for good.  And an event that names a target was sent by
\* the incarnation that has the number when it is handled, or the index would give the
\* window of one process to another.
SubscriptionsStayTrue ==
  /\ axWindowCount' = Cardinality(ListenedTo(Pids)')
  /\ told' # told /\ told'.what = "target" => told'.birth = alive[told'.pid]
=============================================================================
