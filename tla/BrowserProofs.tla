----------------------------- MODULE BrowserProofs -----------------------------
(***************************************************************************)
(* Proofs about the two ways to a browser, for any number of operations,   *)
(* commands, faults and moves of others: the session of a page, whose       *)
(* answers, events and navigations are those of its document, and the       *)
(* browser of a device behind a forwarded port, where no forward is         *)
(* forgotten and every effect is told.                                     *)
(***************************************************************************)
EXTENDS BrowserSession, DeviceBrowser, Integers, FiniteSetTheorems, SequenceTheorems, TLAPS

-----------------------------------------------------------------------------
(* The session of a page.                                                  *)

Docs == {"old", "new"}
CommandState == [id : Nat, is : {"no", "unready", "pending", "ok", "failed"}]
Wait == {"no", "armed", "seen", "lost"}
NavigationSteps ==
  {"start", "page", "network", "navigate", "load", "context", "focus", "state", "idle", "check", "done"}

SessionTypes ==
  /\ socket \in [is : {"opening", "open", "down"}, closed : BOOLEAN]
  /\ cmd \in [Commands -> CommandState] /\ lastId \in Nat
  /\ waiter \in [load : Wait, context : Wait]
  /\ tracker \in [on : BOOLEAN, open : SUBSET (1..MaxRequests)]
  /\ page \in [doc : Docs, loading : BOOLEAN, context : BOOLEAN, going : BOOLEAN,
               tells : SUBSET {"Page", "Network", "Runtime"}]
  /\ nav \in [at : NavigationSteps, ok : BOOLEAN, dispatched : BOOLEAN,
              complete : {"none"} \cup Docs, result : {"none", "failed", "partial", "ready"}]
  /\ misled \in [missed : BOOLEAN, stale : BOOLEAN]

\* Nothing waits for a session that is closed.
ClosedInv ==
  socket.closed => /\ \A c \in Commands : cmd[c].is \notin Unsettled
                   /\ waiter.load # "armed" /\ waiter.context # "armed" /\ ~tracker.on

\* What was answered was done.  The load is waited for before the navigation is sent, and
\* the state is asked for after it was seen.
CommandsInv ==
  /\ \A c \in Commands : cmd[c].is = "ok" => cmd[c].id \in executed
  /\ nav.dispatched => cmd["navigate"].is = "ok"
  /\ nav.at \in {"start", "page", "network"} => ~nav.dispatched /\ waiter.load = "no"
  /\ nav.at \in {"context", "focus", "state", "idle", "check"} => waiter.load = "seen"
  /\ nav.at \in {"idle", "check"} /\ nav.ok => nav.complete # "none" /\ cmd["state"].is # "pending"
  /\ nav.result = "ready" => nav.at = "done" /\ nav.complete # "none" /\ cmd["state"].is # "pending"

\* Commands and messages that may be on their way.
Sendable == {m \in [does : Commands, id : Nat] :
               /\ m.does = "navigate" => waiter.load # "no"
               /\ m.does = "state" => waiter.load = "seen"}
Answerable == {m \in [event : {"answer"}, id : Nat, says : {"none"} \cup Docs] :
                 m.id \in executed /\ (m.says = "old" => misled.stale)}
Tellable == {m \in [event : {"load", "context"}, of : Docs] :
               m.event = "load" /\ m.of = "new" => page.doc = "new"}
            \cup [event : {"begin", "finish"}, of : 1..MaxRequests]
WireInv == toBrowser \in Seq(Sendable) /\ fromBrowser \in Seq(Answerable \cup Tellable)

\* A load of the new document is told to somebody who waits; one of the old document that
\* was taken for it is known.
DocumentInv ==
  /\ waiter.load = "no" => page.doc = "old" /\ ~page.going
  /\ waiter.load = "seen" => page.doc = "new" \/ misled.stale
  /\ nav.complete = "old" => misled.stale
  /\ ~misled.missed

SessionInv == SessionTypes /\ ClosedInv /\ CommandsInv /\ WireInv /\ DocumentInv

\* A sequence over a set is one over a larger set.
LEMMA SeqGrows ==
  ASSUME NEW S, NEW T, S \subseteq T, NEW q \in Seq(S)
  PROVE  q \in Seq(T)
  OBVIOUS

\* What may be on its way stays so while nothing that was learnt is forgotten.
LEMMA WireStays ==
  ASSUME WireInv, executed \subseteq executed', misled.stale => misled'.stale,
         page.doc = "new" => page'.doc = "new",
         waiter.load # "no" => waiter'.load # "no", waiter.load = "seen" => waiter'.load = "seen"
  PROVE  /\ Sendable \subseteq Sendable' /\ (Answerable \cup Tellable) \subseteq (Answerable \cup Tellable)'
         /\ toBrowser \in Seq(Sendable') /\ fromBrowser \in Seq((Answerable \cup Tellable)')
<1>1. Sendable \subseteq Sendable'  BY DEF Sendable
<1>2. Answerable \subseteq Answerable'  BY DEF Answerable
<1>3. Tellable \subseteq Tellable'  BY DEF Tellable
<1>4. (Answerable \cup Tellable) \subseteq (Answerable \cup Tellable)'  BY <1>2, <1>3
<1>. QED  BY <1>1, <1>4, SeqGrows DEF WireInv

\* A command that is sent, or refused, or kept until the socket opens.
LEMMA CommandIsSent ==
  ASSUME SessionInv, NEW c \in Commands, Send(c), c # "navigate", c = "state" => waiter.load = "seen",
         Sendable' = Sendable
  PROVE  /\ cmd' \in [Commands -> CommandState] /\ lastId' \in Nat
         /\ cmd'[c].is \in {"failed", "unready", "pending"}
         /\ \A d \in Commands : d # c => cmd'[d] = cmd[d]
         /\ socket.closed => cmd'[c].is = "failed"
         /\ toBrowser' \in Seq(Sendable') /\ fromBrowser' = fromBrowser /\ socket' = socket
<1>1. /\ Sent(c, lastId + 1) \in CommandState
      /\ Sent(c, lastId + 1).is \in {"failed", "unready", "pending"}
      /\ socket.closed => Sent(c, lastId + 1).is = "failed"
  BY DEF Sent, SessionInv, SessionTypes, CommandState
<1>2. cmd' = [cmd EXCEPT ![c] = Sent(c, lastId + 1)]  BY DEF Send
<1>3. /\ cmd' \in [Commands -> CommandState] /\ cmd'[c] = Sent(c, lastId + 1)
      /\ \A d \in Commands : d # c => cmd'[d] = cmd[d]
  BY <1>1, <1>2 DEF SessionInv, SessionTypes
<1>4. [does |-> c, id |-> lastId + 1] \in Sendable
  BY DEF Sendable, SessionInv, SessionTypes
<1>5. /\ lastId' \in Nat /\ fromBrowser' = fromBrowser /\ socket' = socket
      /\ toBrowser' \in {toBrowser, Append(toBrowser, [does |-> c, id |-> lastId + 1])}
  BY DEF Send, SessionInv, SessionTypes
<1>6. toBrowser' \in Seq(Sendable)
  BY <1>4, <1>5, AppendProperties DEF SessionInv, WireInv
<1>. QED  BY <1>1, <1>3, <1>5, <1>6

\* What a close leaves of the commands, the waits and the tracker.
LEMMA ClosedIsSettled ==
  ASSUME SessionInv, NEW is \in {"opening", "open", "down"}, FinishClose(is)
  PROVE  /\ socket' \in [is : {"opening", "open", "down"}, closed : BOOLEAN]
         /\ cmd' \in [Commands -> CommandState] /\ waiter' \in [load : Wait, context : Wait]
         /\ tracker' \in [on : BOOLEAN, open : SUBSET (1..MaxRequests)]
         /\ \A c \in Commands : /\ (cmd'[c].is = "ok" <=> cmd[c].is = "ok") /\ cmd'[c].id = cmd[c].id
                                /\ cmd'[c].is # "pending"
         /\ waiter'.load = "no" <=> waiter.load = "no"
         /\ waiter'.load = "seen" <=> waiter.load = "seen"
         /\ ClosedInv'
<1>1. socket' = [is |-> is, closed |-> TRUE]  BY DEF FinishClose
<1>2. /\ cmd' \in [Commands -> CommandState]
      /\ \A c \in Commands : /\ (cmd'[c].is = "ok" <=> cmd[c].is = "ok") /\ cmd'[c].id = cmd[c].id
                             /\ cmd'[c].is \notin Unsettled
  <2>1. cmd' = [c \in Commands |-> IF cmd[c].is \in Unsettled THEN [cmd[c] EXCEPT !.is = "failed"] ELSE cmd[c]]
    BY DEF FinishClose
  <2>2. ASSUME NEW c \in Commands
        PROVE  /\ cmd'[c] \in CommandState /\ (cmd'[c].is = "ok" <=> cmd[c].is = "ok")
               /\ cmd'[c].id = cmd[c].id /\ cmd'[c].is \notin Unsettled
    <3>1. cmd[c] \in CommandState  BY DEF SessionInv, SessionTypes
    <3>2. cmd'[c] = IF cmd[c].is \in Unsettled THEN [cmd[c] EXCEPT !.is = "failed"] ELSE cmd[c]
      BY <2>1
    <3>. QED  BY <3>1, <3>2 DEF CommandState, Unsettled
  <2>. QED  BY <2>1, <2>2
<1>3. /\ waiter' \in [load : Wait, context : Wait] /\ waiter'.load # "armed" /\ waiter'.context # "armed"
      /\ waiter'.load = "no" <=> waiter.load = "no"
      /\ waiter'.load = "seen" <=> waiter.load = "seen"
  BY DEF FinishClose, SessionInv, SessionTypes, Wait
<1>4. tracker' \in [on : BOOLEAN, open : SUBSET (1..MaxRequests)] /\ ~tracker'.on
  BY DEF FinishClose, SessionInv, SessionTypes
<1>. QED  BY <1>1, <1>2, <1>3, <1>4 DEF ClosedInv, Unsettled

\* Steps that touch no more than the commands, the waits, the tracker and the navigation,
\* and learn nothing of the document.
LEMMA QuietStepKeeps ==
  ASSUME SessionInv, UNCHANGED <<page, executed, misled, fromBrowser>>,
         socket' \in [is : {"opening", "open", "down"}, closed : BOOLEAN],
         cmd' \in [Commands -> CommandState], lastId' \in Nat,
         waiter' \in [load : Wait, context : Wait],
         tracker' \in [on : BOOLEAN, open : SUBSET (1..MaxRequests)],
         nav' \in [at : NavigationSteps, ok : BOOLEAN, dispatched : BOOLEAN,
                   complete : {"none"} \cup Docs, result : {"none", "failed", "partial", "ready"}],
         ClosedInv', CommandsInv',
         waiter.load # "no" => waiter'.load # "no", waiter'.load = "seen" <=> waiter.load = "seen",
         toBrowser' \in Seq(Sendable'), nav'.complete = nav.complete
  PROVE  SessionInv'
<1>2. SessionTypes'  BY DEF SessionInv, SessionTypes
<1>3. WireInv'
  <2>1. fromBrowser \in Seq((Answerable \cup Tellable)')  BY WireStays DEF SessionInv
  <2>. QED  BY <2>1 DEF WireInv
<1>4. DocumentInv'  BY DEF SessionInv, DocumentInv
<1>. QED  BY <1>2, <1>3, <1>4 DEF SessionInv
\* The steps of a navigation keep its type.
NavigationType ==
  nav \in [at : NavigationSteps, ok : BOOLEAN, dispatched : BOOLEAN,
           complete : {"none"} \cup Docs, result : {"none", "failed", "partial", "ready"}]

\* The navigation goes on after its command was sent.
LEMMA SendingKeeps ==
  ASSUME SessionInv, NEW c \in Commands, Send(c), c # "navigate", c = "state" => waiter.load = "seen",
         UNCHANGED <<page, executed, misled, waiter>>,
         tracker' \in [on : BOOLEAN, open : SUBSET (1..MaxRequests)],
         tracker'.on => ~socket.closed \/ tracker.on,
         NavigationType', nav'.complete = nav.complete, nav'.dispatched = nav.dispatched,
         nav'.result = nav.result, nav.at # "done",
         nav'.at \in {"start", "page", "network"} => nav.at \in {"start", "page", "network"},
         nav'.at \in {"context", "focus", "state", "idle", "check"} => waiter.load = "seen",
         nav'.at \in {"idle", "check"} /\ nav'.ok =>
           nav.complete # "none" /\ cmd["state"].is # "pending" /\ c # "state"
  PROVE  SessionInv'
<1>1. /\ cmd' \in [Commands -> CommandState] /\ lastId' \in Nat
      /\ cmd'[c].is \in {"failed", "unready", "pending"}
      /\ \A d \in Commands : d # c => cmd'[d] = cmd[d]
      /\ socket.closed => cmd'[c].is = "failed"
      /\ toBrowser' \in Seq(Sendable') /\ fromBrowser' = fromBrowser /\ socket' = socket
  <2>1. Sendable' = Sendable  BY DEF Sendable
  <2>. QED  BY <2>1, CommandIsSent
<1>2. ClosedInv'  BY <1>1 DEF SessionInv, ClosedInv, Unsettled
<1>3. CommandsInv'
  <2>1. \A d \in Commands : cmd'[d].is = "ok" => cmd'[d].id \in executed'
    BY <1>1 DEF SessionInv, CommandsInv
  <2>2. "navigate" \in Commands /\ "state" \in Commands  BY DEF Commands
  <2>. QED  BY <1>1, <2>1, <2>2 DEF SessionInv, CommandsInv
<1>4. nav' \in [at : NavigationSteps, ok : BOOLEAN, dispatched : BOOLEAN,
                complete : {"none"} \cup Docs, result : {"none", "failed", "partial", "ready"}]
  BY DEF NavigationType
<1>5. socket' \in [is : {"opening", "open", "down"}, closed : BOOLEAN] /\ waiter' \in [load : Wait, context : Wait]
  BY <1>1 DEF SessionInv, SessionTypes
<1>. QED  BY <1>1, <1>2, <1>3, <1>4, <1>5, QuietStepKeeps

\* The navigation goes on and nothing else happens.
LEMMA GoingOnKeeps ==
  ASSUME SessionInv, UNCHANGED <<socket, cmd, lastId, wireVars, waiter, tracker, page, executed, misled>>,
         NavigationType', nav'.complete = nav.complete,
         nav'.dispatched => cmd["navigate"].is = "ok",
         nav'.result = nav.result, nav.at # "done",
         nav'.at \in NavigationSteps \ {"start", "page", "network"},
         nav'.at \in {"context", "focus", "state", "idle", "check"} => waiter.load = "seen",
         nav'.at \in {"idle", "check"} /\ nav'.ok => nav.complete # "none" /\ cmd["state"].is # "pending"
  PROVE  SessionInv'
<1>1. Sendable' = Sendable  BY DEF Sendable
<1>2. toBrowser' \in Seq(Sendable')  BY <1>1 DEF SessionInv, WireInv, wireVars
<1>3. ClosedInv'  BY DEF SessionInv, ClosedInv
<1>4. CommandsInv'  BY DEF SessionInv, CommandsInv
<1>5. /\ cmd' \in [Commands -> CommandState] /\ lastId' \in Nat
      /\ socket' \in [is : {"opening", "open", "down"}, closed : BOOLEAN]
      /\ waiter' \in [load : Wait, context : Wait]
      /\ tracker' \in [on : BOOLEAN, open : SUBSET (1..MaxRequests)]
  BY DEF SessionInv, SessionTypes
<1>6. nav' \in [at : NavigationSteps, ok : BOOLEAN, dispatched : BOOLEAN,
                complete : {"none"} \cup Docs, result : {"none", "failed", "partial", "ready"}]
  BY DEF NavigationType
<1>. QED  BY <1>2, <1>3, <1>4, <1>5, <1>6, QuietStepKeeps DEF wireVars

\* The navigation ends, and closes its session.
LEMMA FinishKeeps ==
  ASSUME SessionInv, Same, NEW result \in {"failed", "partial", "ready"}, FinishNavigation(result),
         result = "ready" => nav.complete # "none"
  PROVE  SessionInv'
<1>1. socket.is \in {"opening", "open", "down"}  BY DEF SessionInv, SessionTypes
<1>2. FinishClose(socket.is) /\ lastId' = lastId /\ UNCHANGED <<toBrowser, fromBrowser>>
  BY DEF FinishNavigation, wireVars
<1>3. nav' = [nav EXCEPT !.at = "done", !.result = result]  BY DEF FinishNavigation
<1>4. /\ nav' \in [at : NavigationSteps, ok : BOOLEAN, dispatched : BOOLEAN,
                   complete : {"none"} \cup Docs, result : {"none", "failed", "partial", "ready"}]
      /\ nav'.at = "done" /\ nav'.result = result /\ nav'.complete = nav.complete
      /\ nav'.dispatched = nav.dispatched
  BY <1>3 DEF SessionInv, SessionTypes, NavigationSteps
<1>5. UNCHANGED <<page, executed, misled>>  BY DEF Same, browserVars
<1>6. /\ socket' \in [is : {"opening", "open", "down"}, closed : BOOLEAN]
      /\ cmd' \in [Commands -> CommandState] /\ waiter' \in [load : Wait, context : Wait]
      /\ tracker' \in [on : BOOLEAN, open : SUBSET (1..MaxRequests)]
      /\ \A c \in Commands : /\ (cmd'[c].is = "ok" <=> cmd[c].is = "ok") /\ cmd'[c].id = cmd[c].id
                             /\ cmd'[c].is # "pending"
      /\ waiter'.load = "no" <=> waiter.load = "no"
      /\ waiter'.load = "seen" <=> waiter.load = "seen"
      /\ ClosedInv'
  BY <1>1, <1>2, ClosedIsSettled
<1>7. CommandsInv'
  BY <1>4, <1>5, <1>6 DEF SessionInv, CommandsInv, Commands
<1>8. toBrowser' \in Seq(Sendable') /\ lastId' \in Nat
  <2>1. Sendable' = Sendable  BY <1>6 DEF Sendable
  <2>. QED  BY <1>2, <2>1 DEF SessionInv, WireInv, SessionTypes
<1>. QED  BY <1>2, <1>4, <1>5, <1>6, <1>7, <1>8, QuietStepKeeps
\* The navigation begins, arms its readiness, and sees its command dispatched and its load.
LEMMA NavigationBegins ==
  ASSUME SessionInv, EnablePage \/ ArmReadiness \/ Dispatched \/ Loaded
  PROVE  SessionInv'
<1>0. UNCHANGED <<page, executed, misled>>
  BY DEF EnablePage, ArmReadiness, Dispatched, Loaded, Same, browserVars
<1>1. CASE EnablePage
  <2>1. nav.at = "start" /\ nav' = [nav EXCEPT !.at = "page"] /\ Send("page") /\ UNCHANGED <<waiter, tracker>>
    BY <1>1 DEF EnablePage, NavAt, NavTo
  <2>2. NavigationType' /\ nav'.at = "page" /\ nav'.complete = nav.complete /\ nav'.dispatched = nav.dispatched
        /\ nav'.result = nav.result
    BY <2>1 DEF NavigationType, SessionInv, SessionTypes, NavigationSteps
  <2>3. tracker' \in [on : BOOLEAN, open : SUBSET (1..MaxRequests)]
    BY <2>1 DEF SessionInv, SessionTypes
  <2>. QED  BY <1>0, <2>1, <2>2, <2>3, SendingKeeps DEF Commands
<1>2. CASE cmd["page"].is = "ok" /\ ArmReadiness
  <2>1. nav.at = "page" /\ nav' = [nav EXCEPT !.at = "network"] /\ Send("network") /\ UNCHANGED waiter
        /\ tracker' = [tracker EXCEPT !.on = ~socket.closed]
    BY <1>2 DEF ArmReadiness, NavAt, NavTo
  <2>2. NavigationType' /\ nav'.at = "network" /\ nav'.complete = nav.complete /\ nav'.dispatched = nav.dispatched
        /\ nav'.result = nav.result
    BY <2>1 DEF NavigationType, SessionInv, SessionTypes, NavigationSteps
  <2>3. tracker' \in [on : BOOLEAN, open : SUBSET (1..MaxRequests)] /\ (tracker'.on => ~socket.closed)
    BY <2>1 DEF SessionInv, SessionTypes
  <2>. QED  BY <1>0, <2>1, <2>2, <2>3, SendingKeeps DEF Commands
<1>3. CASE ArmReadiness /\ cmd["page"].is = "failed"
  BY <1>3, FinishKeeps DEF ArmReadiness
<1>4. CASE Dispatched
  <2>1. CASE cmd["navigate"].is = "ok"
    <3>1. nav.at = "navigate" /\ nav' = [nav EXCEPT !.at = "load", !.dispatched = TRUE]
          /\ UNCHANGED <<socket, cmd, lastId, wireVars, waiter, tracker, polls>>
      BY <1>4, <2>1 DEF Dispatched, NavAt
    <3>2. NavigationType' /\ nav'.at = "load" /\ nav'.complete = nav.complete /\ nav'.result = nav.result
      BY <3>1 DEF NavigationType, SessionInv, SessionTypes, NavigationSteps
    <3>. QED  BY <1>0, <2>1, <3>1, <3>2, GoingOnKeeps DEF NavigationSteps
  <2>2. CASE cmd["navigate"].is # "ok"
    BY <1>4, <2>2, FinishKeeps DEF Dispatched
  <2>. QED  BY <2>1, <2>2
<1>5. CASE Loaded
  <2>1. CASE waiter.load = "seen"
    <3>1. nav.at = "load" /\ nav' = [nav EXCEPT !.at = "context"]
          /\ UNCHANGED <<socket, cmd, lastId, wireVars, waiter, tracker, polls>>
      BY <1>5, <2>1 DEF Loaded, NavAt, NavTo
    <3>2. NavigationType' /\ nav'.at = "context" /\ nav'.complete = nav.complete /\ nav'.result = nav.result
          /\ nav'.dispatched = nav.dispatched
      BY <3>1 DEF NavigationType, SessionInv, SessionTypes, NavigationSteps
    <3>3. nav.dispatched => cmd["navigate"].is = "ok"  BY DEF SessionInv, CommandsInv
    <3>. QED  BY <1>0, <2>1, <3>1, <3>2, <3>3, GoingOnKeeps DEF NavigationSteps
  <2>2. CASE waiter.load # "seen"
    BY <1>5, <2>2, FinishKeeps DEF Loaded
  <2>. QED  BY <2>1, <2>2
<1>. QED  BY <1>1, <1>2, <1>3, <1>4, <1>5 DEF ArmReadiness

\* The load and the context are waited for before the command that causes them is sent.
LEMMA ArmingKeeps ==
  ASSUME SessionInv, ArmLoadEvent
  PROVE  SessionInv'
<1>1. CASE cmd["network"].is # "ok"
  BY <1>1, FinishKeeps DEF ArmLoadEvent
<1>2. CASE cmd["network"].is = "ok"
  <2>1. /\ nav.at = "network" /\ nav' = [nav EXCEPT !.at = "navigate"]
        /\ waiter' = [load |-> Armed, context |-> Armed]
        /\ cmd' = [cmd EXCEPT !["runtime"] = Sent("runtime", lastId + 1),
                              !["navigate"] = Sent("navigate", lastId + 2)]
        /\ IF socket.closed THEN UNCHANGED <<lastId, toBrowser>>
           ELSE /\ lastId' = lastId + 2
                /\ toBrowser' = toBrowser \o <<[does |-> "runtime", id |-> lastId + 1],
                                               [does |-> "navigate", id |-> lastId + 2]>>
        /\ UNCHANGED <<fromBrowser, socket, tracker, page, executed, misled>>
    BY <1>2 DEF ArmLoadEvent, NavAt, NavTo, Same, browserVars
  <2>2. /\ nav' \in [at : NavigationSteps, ok : BOOLEAN, dispatched : BOOLEAN,
                     complete : {"none"} \cup Docs, result : {"none", "failed", "partial", "ready"}]
        /\ nav'.at = "navigate" /\ nav'.result = nav.result /\ nav'.complete = nav.complete
        /\ nav'.dispatched = nav.dispatched
    BY <2>1 DEF SessionInv, SessionTypes, NavigationSteps
  <2>3. /\ waiter.load = "no" /\ waiter' \in [load : Wait, context : Wait]
        /\ waiter'.load \notin {"no", "seen"}
        /\ socket.closed => waiter'.load # "armed" /\ waiter'.context # "armed"
    BY <2>1 DEF SessionInv, CommandsInv, Armed, Wait
  <2>4. /\ lastId \in Nat /\ {"runtime", "navigate"} \subseteq Commands
        /\ \A c \in {"runtime", "navigate"}, n \in Nat :
             /\ Sent(c, n) \in CommandState /\ Sent(c, n).is \in {"failed", "unready", "pending"}
             /\ socket.closed => Sent(c, n).is = "failed"
    BY DEF SessionInv, SessionTypes, Sent, CommandState, Commands
  <2>5. /\ cmd' \in [Commands -> CommandState]
        /\ \A c \in Commands : cmd'[c].is = "ok" => cmd'[c] = cmd[c]
        /\ socket.closed => \A c \in Commands : cmd'[c].is = "failed" \/ cmd'[c] = cmd[c]
    BY <2>1, <2>4 DEF SessionInv, SessionTypes
  <2>6. ClosedInv'
    BY <2>1, <2>3, <2>5 DEF SessionInv, ClosedInv, Unsettled
  <2>7. CommandsInv'
    BY <2>1, <2>2, <2>5 DEF SessionInv, CommandsInv
  <2>8. toBrowser' \in Seq(Sendable')
    <3>1. toBrowser \in Seq(Sendable')
      BY <2>1, <2>3, WireStays DEF SessionInv
    <3>2. [does |-> "runtime", id |-> lastId + 1] \in Sendable'
          /\ [does |-> "navigate", id |-> lastId + 2] \in Sendable'
      BY <2>3, <2>4 DEF Sendable
    <3>3. <<[does |-> "runtime", id |-> lastId + 1], [does |-> "navigate", id |-> lastId + 2]>> \in Seq(Sendable')
      BY <3>2
    <3>. QED  BY <2>1, <3>1, <3>3, ConcatProperties
  <2>9. /\ lastId' \in Nat
        /\ socket' \in [is : {"opening", "open", "down"}, closed : BOOLEAN]
        /\ tracker' \in [on : BOOLEAN, open : SUBSET (1..MaxRequests)]
    BY <2>1 DEF SessionInv, SessionTypes
  <2>. QED  BY <2>1, <2>2, <2>3, <2>5, <2>6, <2>7, <2>8, <2>9, QuietStepKeeps
<1>. QED  BY <1>1, <1>2
\* The context is ready, or what waits for it is given up; the focus is emulated.
LEMMA ContextKeeps ==
  ASSUME SessionInv, ContextReady
  PROVE  SessionInv'
<1>1. CASE waiter.context = "lost"
  BY <1>1, FinishKeeps DEF ContextReady
<1>2. CASE waiter.context # "lost"
  <2>. DEFINE sent == Sent("focus", lastId + 1)
  <2>1. /\ nav.at = "context" /\ nav' = [nav EXCEPT !.at = "focus"]
        /\ waiter' = [waiter EXCEPT !.context = IF @ = "armed" THEN "lost" ELSE @]
        /\ cmd' = [cmd EXCEPT !["focus"] = sent, !["runtime"].is = IF @ = "pending" THEN "failed" ELSE @]
        /\ IF sent.is = "pending"
           THEN /\ lastId' = lastId + 1
                /\ toBrowser' = Append(toBrowser, [does |-> "focus", id |-> lastId + 1])
           ELSE UNCHANGED <<lastId, toBrowser>>
        /\ UNCHANGED <<fromBrowser, socket, tracker, page, executed, misled>>
    BY <1>2 DEF ContextReady, NavAt, NavTo, Same, browserVars
  <2>2. /\ nav' \in [at : NavigationSteps, ok : BOOLEAN, dispatched : BOOLEAN,
                     complete : {"none"} \cup Docs, result : {"none", "failed", "partial", "ready"}]
        /\ nav'.at = "focus" /\ nav'.result = nav.result /\ nav'.complete = nav.complete
        /\ nav'.dispatched = nav.dispatched
    BY <2>1 DEF SessionInv, SessionTypes, NavigationSteps
  <2>3. /\ waiter' \in [load : Wait, context : Wait] /\ waiter'.load = waiter.load
        /\ waiter.load = "seen" /\ waiter'.context # "armed"
    BY <2>1 DEF SessionInv, SessionTypes, CommandsInv, Wait
  <2>4. /\ lastId \in Nat /\ {"runtime", "focus", "navigate"} \subseteq Commands
        /\ sent \in CommandState /\ sent.is \in {"failed", "unready", "pending"}
        /\ socket.closed => sent.is = "failed"
    BY DEF SessionInv, SessionTypes, Sent, CommandState, Commands
  <2>. HIDE DEF sent
  <2>5. /\ cmd' \in [Commands -> CommandState]
        /\ \A c \in Commands : cmd'[c].is = "ok" => cmd'[c] = cmd[c]
        /\ socket.closed => \A c \in Commands : cmd'[c].is = "failed" \/ cmd'[c] = cmd[c]
        /\ cmd'["navigate"] = cmd["navigate"]
    <3>1. cmd \in [Commands -> CommandState] /\ cmd["runtime"] \in CommandState
      BY <2>4 DEF SessionInv, SessionTypes
    <3>2. /\ cmd' \in [Commands -> [id : Nat, is : {"no", "unready", "pending", "ok", "failed"}]]
          /\ cmd'["focus"] = sent
          /\ cmd'["runtime"] = [cmd["runtime"] EXCEPT !.is = IF @ = "pending" THEN "failed" ELSE @]
          /\ \A c \in Commands \ {"focus", "runtime"} : cmd'[c] = cmd[c]
      BY <2>1, <2>4, <3>1 DEF CommandState
    <3>3. cmd'["runtime"].is \in {"failed"} \/ cmd'["runtime"] = cmd["runtime"]
      BY <3>1, <3>2 DEF CommandState
    <3>4. cmd'["focus"].is # "ok" /\ (socket.closed => cmd'["focus"].is = "failed")
      BY <2>4, <3>2
    <3>. QED  BY <2>4, <3>2, <3>3, <3>4 DEF CommandState
  <2>6. ClosedInv'
    BY <2>1, <2>3, <2>5 DEF SessionInv, ClosedInv, Unsettled
  <2>7. CommandsInv'
    <3>1. \A c \in Commands : cmd'[c].is = "ok" => cmd'[c].id \in executed'
      BY <2>1, <2>5 DEF SessionInv, CommandsInv
    <3>2. nav'.dispatched => cmd'["navigate"].is = "ok"
      BY <2>2, <2>5 DEF SessionInv, CommandsInv
    <3>3. nav'.result # "ready"
      BY <2>1, <2>2 DEF SessionInv, CommandsInv
    <3>. QED  BY <2>2, <2>3, <3>1, <3>2, <3>3 DEF CommandsInv
  <2>8. toBrowser' \in Seq(Sendable')
    <3>1. toBrowser \in Seq(Sendable')
      BY <2>1, <2>3, WireStays DEF SessionInv
    <3>2. [does |-> "focus", id |-> lastId + 1] \in Sendable'
      BY <2>3, <2>4 DEF Sendable
    <3>. QED  BY <2>1, <3>1, <3>2, AppendProperties
  <2>9. /\ lastId' \in Nat
        /\ socket' \in [is : {"opening", "open", "down"}, closed : BOOLEAN]
        /\ tracker' \in [on : BOOLEAN, open : SUBSET (1..MaxRequests)]
    BY <2>1 DEF SessionInv, SessionTypes
  <2>. QED  BY <2>1, <2>2, <2>3, <2>5, <2>6, <2>7, <2>8, <2>9, QuietStepKeeps
<1>. QED  BY <1>1, <1>2

\* The state of the document is read until it is complete, and then its requests end.
LEMMA ReadingKeeps ==
  ASSUME SessionInv, FocusEmulated \/ StateRead \/ NetworkIdle \/ Checked
  PROVE  SessionInv'
<1>0. UNCHANGED <<page, executed, misled>>
  BY DEF FocusEmulated, StateRead, NetworkIdle, Checked, Same, browserVars
<1>1. tracker \in [on : BOOLEAN, open : SUBSET (1..MaxRequests)] /\ NavigationType /\ {"state", "check"} \subseteq Commands
  BY DEF SessionInv, SessionTypes, NavigationType, Commands
<1>2. CASE FocusEmulated
  <2>1. nav.at = "focus" /\ nav' = [nav EXCEPT !.at = "state"] /\ Send("state") /\ UNCHANGED <<waiter, tracker>>
    BY <1>2 DEF FocusEmulated, NavAt, NavTo, Read
  <2>2. NavigationType' /\ nav'.at = "state" /\ nav'.complete = nav.complete /\ nav'.dispatched = nav.dispatched
        /\ nav'.result = nav.result
    BY <1>1, <2>1 DEF NavigationType, NavigationSteps
  <2>3. waiter.load = "seen"  BY <2>1 DEF SessionInv, CommandsInv
  <2>. QED  BY <1>0, <1>1, <2>1, <2>2, <2>3, SendingKeeps
<1>3. CASE StateRead
  <2>1. nav.at = "state" /\ waiter.load = "seen" /\ (nav.dispatched => cmd["navigate"].is = "ok")
    BY <1>3 DEF StateRead, NavAt, SessionInv, CommandsInv
  <2>2. CASE Read /\ UNCHANGED nav
    <3>1. Send("state") /\ UNCHANGED <<waiter, tracker>>  BY <2>2 DEF Read
    <3>2. NavigationType'  BY <1>1, <2>2 DEF NavigationType
    <3>. QED  BY <1>0, <1>1, <2>1, <2>2, <3>1, <3>2, SendingKeeps
  <2>3. CASE /\ nav.complete # "none" /\ nav' = [nav EXCEPT !.at = "idle"]
             /\ cmd["state"].is = "ok" /\ UNCHANGED <<socket, cmd, lastId, wireVars, waiter, tracker, polls>>
    <3>1. NavigationType' /\ nav'.at = "idle" /\ nav'.complete = nav.complete /\ nav'.dispatched = nav.dispatched
          /\ nav'.result = nav.result
      BY <1>1, <2>3 DEF NavigationType, NavigationSteps
    <3>. QED  BY <1>0, <2>1, <2>3, <3>1, GoingOnKeeps DEF NavigationSteps
  <2>4. CASE /\ nav' = [nav EXCEPT !.at = "idle", !.ok = FALSE]
             /\ UNCHANGED <<socket, cmd, lastId, wireVars, waiter, tracker, polls>>
    <3>1. NavigationType' /\ nav'.at = "idle" /\ nav'.complete = nav.complete /\ nav'.dispatched = nav.dispatched
          /\ nav'.result = nav.result /\ ~nav'.ok
      BY <1>1, <2>4 DEF NavigationType, NavigationSteps
    <3>. QED  BY <1>0, <2>1, <2>4, <3>1, GoingOnKeeps DEF NavigationSteps
  <2>. QED  BY <1>3, <2>2, <2>3, <2>4 DEF StateRead, NavTo
<1>4. CASE NetworkIdle
  <2>1. nav.at = "idle" /\ Send("check") /\ UNCHANGED <<waiter, tracker>>
        /\ (nav' = [nav EXCEPT !.at = "check"] \/ nav' = [nav EXCEPT !.at = "check", !.ok = FALSE])
    BY <1>4 DEF NetworkIdle, NavAt, NavTo
  <2>2. NavigationType' /\ nav'.at = "check" /\ nav'.complete = nav.complete /\ nav'.dispatched = nav.dispatched
        /\ nav'.result = nav.result /\ (nav'.ok => nav.ok)
    BY <1>1, <2>1 DEF NavigationType, NavigationSteps
  <2>3. waiter.load = "seen" /\ (nav.ok => nav.complete # "none" /\ cmd["state"].is # "pending")
    BY <2>1 DEF SessionInv, CommandsInv
  <2>. QED  BY <1>0, <1>1, <2>1, <2>2, <2>3, SendingKeeps
<1>5. CASE Checked
  <2>1. nav.at = "check" /\ (nav.ok => nav.complete # "none")
    BY <1>5 DEF Checked, NavAt, SessionInv, CommandsInv
  <2>2. CASE cmd["check"].is = "ok"
    <3>1. FinishNavigation(IF nav.ok THEN "ready" ELSE "partial") /\ Same  BY <1>5, <2>2 DEF Checked
    <3>2. CASE nav.ok
      <4>1. FinishNavigation("ready")  BY <3>1, <3>2
      <4>. QED  BY <2>1, <3>1, <3>2, <4>1, FinishKeeps
    <3>3. CASE ~nav.ok
      <4>1. FinishNavigation("partial")  BY <3>1, <3>3
      <4>. QED  BY <3>1, <4>1, FinishKeeps
    <3>. QED  BY <3>2, <3>3
  <2>3. CASE cmd["check"].is # "ok"
    BY <1>5, <2>3, FinishKeeps DEF Checked
  <2>. QED  BY <2>2, <2>3
<1>. QED  BY <1>2, <1>3, <1>4, <1>5
\* The socket opens or breaks, and timers run out.
LEMMA SocketKeeps ==
  ASSUME SessionInv,
         \/ SocketOpens \/ SessionBreaks
         \/ \E c \in Commands : CommandTimesOut(c)
         \/ \E e \in {"load", "context"} : WaiterTimesOut(e)
  PROVE  SessionInv'
<1>0. /\ nav \in [at : NavigationSteps, ok : BOOLEAN, dispatched : BOOLEAN,
                  complete : {"none"} \cup Docs, result : {"none", "failed", "partial", "ready"}]
      /\ UNCHANGED <<page, executed, misled, nav, fromBrowser>>
  BY DEF SocketOpens, SessionBreaks, CommandTimesOut, WaiterTimesOut, Same, browserVars, wireVars,
         SessionInv, SessionTypes
<1>1. CASE SocketOpens
  <2>1. /\ ~socket.closed /\ socket' = [socket EXCEPT !.is = "open"] /\ UNCHANGED <<waiter, tracker>>
        /\ \/ /\ cmd["page"].is = "unready" /\ cmd' = [cmd EXCEPT !["page"] = [id |-> lastId + 1, is |-> "pending"]]
              /\ lastId' = lastId + 1 /\ toBrowser' = <<[does |-> "page", id |-> lastId + 1]>>
           \/ UNCHANGED <<cmd, lastId, toBrowser>>
    BY <1>1 DEF SocketOpens
  <2>2. /\ socket' \in [is : {"opening", "open", "down"}, closed : BOOLEAN] /\ ~socket'.closed
        /\ waiter' \in [load : Wait, context : Wait] /\ lastId \in Nat /\ lastId' \in Nat
        /\ tracker' \in [on : BOOLEAN, open : SUBSET (1..MaxRequests)]
    BY <2>1 DEF SessionInv, SessionTypes
  <2>3. /\ cmd' \in [Commands -> CommandState]
        /\ \A c \in Commands : cmd'[c].is = "ok" => cmd'[c] = cmd[c]
        /\ cmd'["navigate"] = cmd["navigate"] /\ cmd'["state"] = cmd["state"]
    BY <2>1, <2>2 DEF SessionInv, SessionTypes, CommandState, Commands
  <2>4. ClosedInv'  BY <2>2 DEF ClosedInv
  <2>5. CommandsInv'  BY <1>0, <2>1, <2>3 DEF SessionInv, CommandsInv
  <2>6. toBrowser' \in Seq(Sendable')
    <3>1. toBrowser \in Seq(Sendable')
      BY <1>0, <2>1, WireStays DEF SessionInv
    <3>2. [does |-> "page", id |-> lastId + 1] \in Sendable'  BY <2>2 DEF Sendable, Commands
    <3>3. <<[does |-> "page", id |-> lastId + 1]>> \in Seq(Sendable')  BY <3>2
    <3>. QED  BY <2>1, <3>1, <3>3
  <2>. QED  BY <1>0, <2>1, <2>2, <2>3, <2>4, <2>5, <2>6, QuietStepKeeps
<1>2. CASE SessionBreaks
  <2>1. FinishClose("down") /\ lastId' = lastId /\ toBrowser' = toBrowser
    BY <1>2 DEF SessionBreaks, wireVars
  <2>2. /\ socket' \in [is : {"opening", "open", "down"}, closed : BOOLEAN]
        /\ cmd' \in [Commands -> CommandState] /\ waiter' \in [load : Wait, context : Wait]
        /\ tracker' \in [on : BOOLEAN, open : SUBSET (1..MaxRequests)]
        /\ \A c \in Commands : /\ (cmd'[c].is = "ok" <=> cmd[c].is = "ok") /\ cmd'[c].id = cmd[c].id
                               /\ cmd'[c].is # "pending"
        /\ waiter'.load = "no" <=> waiter.load = "no"
        /\ waiter'.load = "seen" <=> waiter.load = "seen"
        /\ ClosedInv'
    BY <2>1, ClosedIsSettled
  <2>3. CommandsInv'  BY <1>0, <2>2 DEF SessionInv, CommandsInv, Commands
  <2>4. toBrowser' \in Seq(Sendable') /\ lastId' \in Nat
    <3>1. Sendable' = Sendable  BY <2>2 DEF Sendable
    <3>. QED  BY <2>1, <3>1 DEF SessionInv, WireInv, SessionTypes
  <2>. QED  BY <1>0, <2>2, <2>3, <2>4, QuietStepKeeps
<1>3. ASSUME NEW c \in Commands, CommandTimesOut(c)  PROVE SessionInv'
  <2>1. /\ cmd[c].is = "pending" /\ cmd' = [cmd EXCEPT ![c].is = "failed"]
        /\ UNCHANGED <<socket, lastId, toBrowser, waiter, tracker>>
    BY <1>3 DEF CommandTimesOut, wireVars
  <2>2. /\ cmd' \in [Commands -> CommandState]
        /\ \A d \in Commands : cmd'[d] = cmd[d] \/ (cmd'[d].is = "failed" /\ cmd[d].is = "pending")
    BY <2>1 DEF SessionInv, SessionTypes, CommandState
  <2>3. ClosedInv'  BY <2>1, <2>2 DEF SessionInv, ClosedInv, Unsettled
  <2>4. CommandsInv'
    <3>1. cmd'["navigate"].is = "ok" <=> cmd["navigate"].is = "ok"  BY <2>2 DEF Commands
    <3>. QED  BY <1>0, <2>1, <2>2, <3>1 DEF SessionInv, CommandsInv
  <2>5. Sendable' = Sendable  BY <2>1 DEF Sendable
  <2>6. /\ toBrowser' \in Seq(Sendable') /\ lastId' \in Nat
        /\ socket' \in [is : {"opening", "open", "down"}, closed : BOOLEAN]
        /\ waiter' \in [load : Wait, context : Wait]
        /\ tracker' \in [on : BOOLEAN, open : SUBSET (1..MaxRequests)]
    BY <2>1, <2>5 DEF SessionInv, SessionTypes, WireInv
  <2>. QED  BY <1>0, <2>1, <2>2, <2>3, <2>4, <2>6, QuietStepKeeps
<1>4. ASSUME NEW e \in {"load", "context"}, WaiterTimesOut(e)  PROVE SessionInv'
  <2>1. /\ waiter[e] = "armed" /\ waiter' = [waiter EXCEPT ![e] = "lost"]
        /\ UNCHANGED <<socket, cmd, lastId, toBrowser, tracker>>
    BY <1>4 DEF WaiterTimesOut, wireVars
  <2>2. /\ waiter' \in [load : Wait, context : Wait]
        /\ waiter'.load # "armed" \/ waiter'.load = waiter.load
        /\ waiter'.context # "armed" \/ waiter'.context = waiter.context
        /\ waiter'.load = "seen" <=> waiter.load = "seen"
        /\ waiter'.load = "no" <=> waiter.load = "no"
    <3>1. CASE e = "load"  BY <2>1, <3>1 DEF SessionInv, SessionTypes, Wait
    <3>2. CASE e = "context"  BY <2>1, <3>2 DEF SessionInv, SessionTypes, Wait
    <3>. QED  BY <3>1, <3>2
  <2>3. ClosedInv'  BY <2>1, <2>2 DEF SessionInv, ClosedInv
  <2>4. CommandsInv'  BY <1>0, <2>1, <2>2 DEF SessionInv, CommandsInv
  <2>5. Sendable' = Sendable  BY <2>2 DEF Sendable
  <2>6. /\ toBrowser' \in Seq(Sendable') /\ lastId' \in Nat
        /\ socket' \in [is : {"opening", "open", "down"}, closed : BOOLEAN]
        /\ cmd' \in [Commands -> CommandState]
        /\ tracker' \in [on : BOOLEAN, open : SUBSET (1..MaxRequests)]
    BY <2>1, <2>5 DEF SessionInv, SessionTypes, WireInv
  <2>. QED  BY <1>0, <2>1, <2>2, <2>3, <2>4, <2>6, QuietStepKeeps
<1>. QED  BY <1>1, <1>2, <1>3, <1>4
\* A message is heard.
LEMMA MessageKeeps ==
  ASSUME SessionInv, OnMessage
  PROVE  SessionInv'
<1>. DEFINE m == Head(fromBrowser)
<1>1. /\ fromBrowser # <<>> /\ fromBrowser' = Tail(fromBrowser)
      /\ UNCHANGED <<socket, lastId, toBrowser, page, executed>>
      /\ IF socket.closed THEN UNCHANGED <<cmd, waiter, tracker, nav, misled>>
         ELSE IF m.event = "answer" THEN OnAnswer(m) ELSE OnEvent(m)
  BY DEF OnMessage, browserVars
<1>2. m \in Answerable \cup Tellable /\ fromBrowser' \in Seq(Answerable \cup Tellable)
  BY <1>1, HeadTailProperties DEF SessionInv, WireInv
<1>. HIDE DEF m
<1>3. ASSUME /\ cmd' \in [Commands -> CommandState] /\ waiter' \in [load : Wait, context : Wait]
             /\ tracker' \in [on : BOOLEAN, open : SUBSET (1..MaxRequests)]
             /\ nav' \in [at : NavigationSteps, ok : BOOLEAN, dispatched : BOOLEAN,
                          complete : {"none"} \cup Docs, result : {"none", "failed", "partial", "ready"}]
             /\ misled' \in [missed : BOOLEAN, stale : BOOLEAN],
             ClosedInv', CommandsInv', DocumentInv', misled.stale => misled'.stale,
             waiter.load # "no" => waiter'.load # "no", waiter.load = "seen" => waiter'.load = "seen"
      PROVE  SessionInv'
  <2>1. SessionTypes'  BY <1>1, <1>3 DEF SessionInv, SessionTypes
  <2>2. /\ toBrowser \in Seq(Sendable') /\ (Answerable \cup Tellable) \subseteq (Answerable \cup Tellable)'
    BY <1>1, <1>3, WireStays DEF SessionInv
  <2>3. fromBrowser' \in Seq((Answerable \cup Tellable)')  BY <1>2, <2>2, SeqGrows
  <2>4. WireInv'  BY <1>1, <2>2, <2>3 DEF WireInv
  <2>. QED  BY <1>3, <2>1, <2>4 DEF SessionInv
<1>4. CASE socket.closed
  <2>1. UNCHANGED <<cmd, waiter, tracker, nav, misled>>  BY <1>1, <1>4
  <2>2. ClosedInv' /\ CommandsInv' /\ DocumentInv'
    BY <1>1, <2>1 DEF SessionInv, ClosedInv, CommandsInv, DocumentInv
  <2>. QED  BY <1>3, <2>1, <2>2 DEF SessionInv, SessionTypes
<1>5. CASE ~socket.closed /\ m.event = "answer"
  <2>1. OnAnswer(m)  BY <1>1, <1>5
  <2>2. m \in Answerable  BY <1>2, <1>5 DEF Tellable
  <2>3. m.id \in executed /\ m.says \in {"none"} \cup Docs /\ (m.says = "old" => misled.stale)
    BY <2>2 DEF Answerable
  <2>4. /\ cmd' = [c \in Commands |-> IF Answers(c, m.id) THEN [cmd[c] EXCEPT !.is = "ok"] ELSE cmd[c]]
        /\ UNCHANGED <<waiter, tracker, misled>>
        /\ (nav' = [nav EXCEPT !.complete = m.says] /\ Answers("state", m.id)) \/ nav' = nav
    BY <2>1 DEF OnAnswer
  <2>5. /\ cmd' \in [Commands -> CommandState]
        /\ \A c \in Commands : cmd'[c].is = "ok" => cmd'[c].id \in executed'
        /\ \A c \in Commands : cmd[c].is = "ok" => cmd'[c].is = "ok"
    <3>1. ASSUME NEW c \in Commands
          PROVE  /\ cmd'[c] \in CommandState /\ (cmd'[c].is = "ok" => cmd'[c].id \in executed)
                 /\ cmd[c].is = "ok" => cmd'[c].is = "ok"
      <4>1. cmd[c] \in CommandState /\ (cmd[c].is = "ok" => cmd[c].id \in executed)
        BY DEF SessionInv, SessionTypes, CommandsInv
      <4>. QED  BY <2>3, <2>4, <4>1 DEF Answers, CommandState
    <3>. QED  BY <1>1, <2>4, <3>1
  <2>6. /\ nav' \in [at : NavigationSteps, ok : BOOLEAN, dispatched : BOOLEAN,
                     complete : {"none"} \cup Docs, result : {"none", "failed", "partial", "ready"}]
        /\ nav'.at = nav.at /\ nav'.ok = nav.ok /\ nav'.dispatched = nav.dispatched /\ nav'.result = nav.result
        /\ nav'.complete = nav.complete \/ (nav'.complete = m.says /\ Answers("state", m.id))
    BY <2>3, <2>4 DEF SessionInv, SessionTypes
  <2>7. Answers("state", m.id) => cmd["state"].is = "pending" /\ cmd'["state"].is # "pending"
    BY <2>4 DEF Answers, Commands, SessionInv, SessionTypes, CommandState
  <2>8. CommandsInv'
    <3>1. nav'.dispatched => cmd'["navigate"].is = "ok"
      BY <2>5, <2>6 DEF SessionInv, CommandsInv, Commands
    <3>2. cmd["state"].is # "pending" => cmd'["state"].is # "pending"
      BY <2>4 DEF Answers, Commands
    <3>. QED  BY <2>4, <2>5, <2>6, <2>7, <3>1, <3>2 DEF SessionInv, CommandsInv
  <2>9. ClosedInv'  BY <1>1, <1>5 DEF ClosedInv
  <2>10. DocumentInv'  BY <1>1, <2>3, <2>4, <2>6 DEF SessionInv, DocumentInv
  <2>. QED  BY <1>3, <2>4, <2>5, <2>6, <2>8, <2>9, <2>10 DEF SessionInv, SessionTypes
<1>6. CASE ~socket.closed /\ m.event # "answer"
  <2>1. OnEvent(m)  BY <1>1, <1>6
  <2>2. m \in Tellable  BY <1>2, <1>6 DEF Answerable
  <2>3. /\ waiter' = IF m.event \in DOMAIN waiter /\ waiter[m.event] = "armed"
                     THEN [waiter EXCEPT ![m.event] = "seen"] ELSE waiter
        /\ UNCHANGED <<cmd, nav>>
    BY <2>1 DEF OnEvent
  <2>4. /\ waiter' \in [load : Wait, context : Wait]
        /\ waiter'.load = waiter.load \/ (m.event = "load" /\ waiter.load = "armed" /\ waiter'.load = "seen")
    <3>1. CASE m.event = "load"  BY <2>3, <3>1 DEF SessionInv, SessionTypes, Wait
    <3>2. CASE m.event = "context"  BY <2>3, <3>2 DEF SessionInv, SessionTypes, Wait
    <3>3. CASE m.event \notin {"load", "context"}  BY <2>3, <3>3 DEF SessionInv, SessionTypes
    <3>. QED  BY <3>1, <3>2, <3>3
  <2>5. tracker' \in [on : BOOLEAN, open : SUBSET (1..MaxRequests)]
    <3>1. m.event = "begin" => m.of \in 1..MaxRequests  BY <2>2 DEF Tellable
    <3>2. tracker' \in {tracker, [tracker EXCEPT !.open = @ \cup {m.of}], [tracker EXCEPT !.open = @ \ {m.of}]}
          /\ (m.event # "begin" => tracker' # [tracker EXCEPT !.open = @ \cup {m.of}] \/ tracker' = tracker
                                   \/ tracker' = [tracker EXCEPT !.open = @ \ {m.of}])
      BY <2>1 DEF OnEvent
    <3>. QED  BY <2>1, <3>1, <3>2 DEF OnEvent, SessionInv, SessionTypes
  <2>6. /\ misled' \in [missed : BOOLEAN, stale : BOOLEAN]
        /\ misled.stale => misled'.stale
        /\ ~misled'.missed
        /\ m.event = "load" /\ waiter.load = "armed" => page.doc = "new" \/ misled'.stale
    <3>1. m.event = "load" => m.of \in Docs /\ (m.of = "new" => page.doc = "new")
      BY <2>2 DEF Tellable
    <3>2. misled' = IF m.event # "load" THEN misled
                    ELSE [missed |-> misled.missed \/ (m.of = "new" /\ waiter.load = "no"),
                          stale |-> misled.stale \/ (m.of = "old" /\ waiter.load = "armed")]
      BY <2>1 DEF OnEvent
    <3>3. misled \in [missed : BOOLEAN, stale : BOOLEAN] /\ ~misled.missed
          /\ (waiter.load = "no" => page.doc = "old")
      BY DEF SessionInv, SessionTypes, DocumentInv
    <3>. QED  BY <3>1, <3>2, <3>3 DEF Docs
  <2>7. ClosedInv'  BY <1>1, <1>6 DEF ClosedInv
  <2>8. CommandsInv'  BY <1>1, <2>3, <2>4 DEF SessionInv, CommandsInv
  <2>9. DocumentInv'  BY <1>1, <2>3, <2>4, <2>6 DEF SessionInv, DocumentInv
  <2>. QED  BY <1>3, <2>3, <2>4, <2>5, <2>6, <2>7, <2>8, <2>9 DEF SessionInv, SessionTypes
<1>. QED  BY <1>4, <1>5, <1>6
\* Steps of the browser: they change what is on its way and the page only.
LEMMA BrowserStepKeeps ==
  ASSUME SessionInv, BrowserSame,
         page' \in [doc : Docs, loading : BOOLEAN, context : BOOLEAN, going : BOOLEAN,
                    tells : SUBSET {"Page", "Network", "Runtime"}],
         page.doc = "new" => page'.doc = "new",
         waiter.load = "no" => page'.doc = "old" /\ ~page'.going,
         executed \subseteq executed',
         toBrowser' \in Seq(Sendable'), fromBrowser' \in Seq((Answerable \cup Tellable)')
  PROVE  SessionInv'
<1>1. SessionTypes'  BY DEF BrowserSame, SessionInv, SessionTypes
<1>2. ClosedInv'  BY DEF BrowserSame, SessionInv, ClosedInv
<1>3. CommandsInv'  BY DEF BrowserSame, SessionInv, CommandsInv
<1>4. WireInv'  BY DEF WireInv
<1>5. DocumentInv'  BY DEF BrowserSame, SessionInv, DocumentInv
<1>. QED  BY <1>1, <1>2, <1>3, <1>4, <1>5 DEF SessionInv

\* The document changes, is loaded, and asks for what it needs.
LEMMA PageKeeps ==
  ASSUME SessionInv,
         \/ Commits \/ ContextCreated \/ PageLoads
         \/ \E r \in 1..MaxRequests : RequestBegins(r) \/ RequestEnds(r)
  PROVE  SessionInv'
<1>0. /\ BrowserSame /\ toBrowser' = toBrowser /\ executed' = executed /\ UNCHANGED <<waiter, misled>>
  BY DEF Commits, ContextCreated, PageLoads, RequestBegins, RequestEnds, wireVars, BrowserSame
<1>1. /\ page' \in [doc : Docs, loading : BOOLEAN, context : BOOLEAN, going : BOOLEAN,
                    tells : SUBSET {"Page", "Network", "Runtime"}]
      /\ page.doc = "new" => page'.doc = "new"
      /\ waiter.load = "no" => page'.doc = "old" /\ ~page'.going
  <2>1. page \in [doc : Docs, loading : BOOLEAN, context : BOOLEAN, going : BOOLEAN,
                  tells : SUBSET {"Page", "Network", "Runtime"}]
        /\ (waiter.load = "no" => page.doc = "old" /\ ~page.going)
    BY DEF SessionInv, SessionTypes, DocumentInv
  <2>2. \/ page' = page
        \/ page.going /\ page' = [page EXCEPT !.going = FALSE, !.doc = "new", !.loading = TRUE, !.context = FALSE]
        \/ page' = [page EXCEPT !.context = TRUE]
        \/ page' = [page EXCEPT !.loading = FALSE]
    BY DEF Commits, ContextCreated, PageLoads, RequestBegins, RequestEnds
  <2>. QED  BY <2>1, <2>2 DEF Docs
<1>2. /\ toBrowser' \in Seq(Sendable') /\ fromBrowser \in Seq((Answerable \cup Tellable)')
  BY <1>0, <1>1, WireStays DEF SessionInv
<1>3. fromBrowser' \in Seq((Answerable \cup Tellable)')
  <2>1. \/ fromBrowser' = fromBrowser
        \/ fromBrowser' = Append(fromBrowser, [event |-> "context", of |-> page.doc]) /\ page'.doc = page.doc
        \/ fromBrowser' = Append(fromBrowser, [event |-> "load", of |-> page.doc]) /\ page'.doc = page.doc
        \/ \E r \in 1..MaxRequests : \E event \in {"begin", "finish"} :
             fromBrowser' = Append(fromBrowser, [event |-> event, of |-> r])
    BY DEF Commits, ContextCreated, PageLoads, RequestBegins, RequestEnds, Tells, wireVars, SessionInv,
           SessionTypes
  <2>2. page.doc \in Docs  BY DEF SessionInv, SessionTypes
  <2>3. page'.doc = page.doc =>
          \A event \in {"context", "load"} : [event |-> event, of |-> page.doc] \in Tellable'
    BY <2>2 DEF Tellable
  <2>4. \A r \in 1..MaxRequests, event \in {"begin", "finish"} : [event |-> event, of |-> r] \in Tellable'
    BY DEF Tellable
  <2>5. ASSUME NEW m \in Tellable'  PROVE Append(fromBrowser, m) \in Seq((Answerable \cup Tellable)')
    <3>1. m \in (Answerable \cup Tellable)'  OBVIOUS
    <3>. QED  BY <1>2, <3>1, AppendProperties
  <2>. QED  BY <1>2, <2>1, <2>3, <2>4, <2>5
<1>. QED  BY <1>0, <1>1, <1>2, <1>3, BrowserStepKeeps

\* The browser carries out a command, and answers it if the document has a context.
LEMMA ExecuteKeeps ==
  ASSUME SessionInv, Execute
  PROVE  SessionInv'
<1>. DEFINE command == Head(toBrowser)
<1>1. /\ toBrowser # <<>> /\ toBrowser' = Tail(toBrowser) /\ BrowserSame
      /\ executed' = executed \cup {command.id} /\ UNCHANGED <<waiter, misled>>
  BY DEF Execute, BrowserSame
<1>2. command \in Sendable /\ toBrowser' \in Seq(Sendable)
  BY <1>1, HeadTailProperties DEF SessionInv, WireInv
<1>3. page \in [doc : Docs, loading : BOOLEAN, context : BOOLEAN, going : BOOLEAN,
                tells : SUBSET {"Page", "Network", "Runtime"}]
      /\ (waiter.load = "no" => page.doc = "old" /\ ~page.going)
  BY DEF SessionInv, SessionTypes, DocumentInv
<1>4. \/ /\ command.does \in DOMAIN Domain
         /\ page' = [page EXCEPT !.tells = @ \cup {Domain[command.does]}]
         /\ fromBrowser' = (IF command.does = "runtime" /\ page.context
                            THEN Append(fromBrowser, [event |-> "context", of |-> page.doc])
                            ELSE fromBrowser) \o <<Answer(command, "none")>>
      \/ /\ command.does = "navigate" /\ page' = [page EXCEPT !.going = TRUE]
         /\ fromBrowser' = Append(fromBrowser, Answer(command, "none"))
      \/ page' = page /\ fromBrowser' = fromBrowser
      \/ page' = page /\ fromBrowser' = Append(fromBrowser, Answer(command, "none"))
      \/ page' = page /\ command.does = "state" /\ fromBrowser' = Append(fromBrowser, Answer(command, page.doc))
  BY DEF Execute
<1>. HIDE DEF command
<1>5. /\ page' \in [doc : Docs, loading : BOOLEAN, context : BOOLEAN, going : BOOLEAN,
                    tells : SUBSET {"Page", "Network", "Runtime"}]
      /\ page'.doc = page.doc
      /\ waiter.load = "no" => page'.doc = "old" /\ ~page'.going
  <2>1. command.does \in DOMAIN Domain => Domain[command.does] \in {"Page", "Network", "Runtime"}
    BY DEF Domain
  <2>2. command.does = "navigate" => waiter.load # "no"  BY <1>2 DEF Sendable
  <2>3. \/ page' = page
        \/ command.does \in DOMAIN Domain /\ page' = [page EXCEPT !.tells = @ \cup {Domain[command.does]}]
        \/ waiter.load # "no" /\ page' = [page EXCEPT !.going = TRUE]
    BY <1>4, <2>2
  <2>4. CASE page' = page  BY <1>3, <2>4
  <2>5. CASE command.does \in DOMAIN Domain /\ page' = [page EXCEPT !.tells = @ \cup {Domain[command.does]}]
    <3>1. PICK d \in {"Page", "Network", "Runtime"} : page' = [page EXCEPT !.tells = @ \cup {d}]
      BY <2>1, <2>5
    <3>. QED  BY <1>3, <3>1
  <2>6. CASE waiter.load # "no" /\ page' = [page EXCEPT !.going = TRUE]  BY <1>3, <2>6
  <2>. QED  BY <2>3, <2>4, <2>5, <2>6
<1>6. /\ Sendable \subseteq Sendable' /\ fromBrowser \in Seq((Answerable \cup Tellable)')
  BY <1>1, <1>5, WireStays DEF SessionInv
<1>7. toBrowser' \in Seq(Sendable')  BY <1>2, <1>6, SeqGrows
<1>8. fromBrowser' \in Seq((Answerable \cup Tellable)')
  <2>1. command.id \in Nat  BY <1>2 DEF Sendable
  <2>2. Answer(command, "none") \in Answerable'  BY <1>1, <2>1 DEF Answer, Answerable
  <2>3. command.does = "state" => Answer(command, page.doc) \in Answerable'
    <3>1. command.does = "state" => page.doc = "new" \/ misled.stale
      BY <1>2 DEF Sendable, SessionInv, DocumentInv
    <3>. QED  BY <1>1, <1>3, <2>1, <3>1 DEF Answer, Answerable, Docs
  <2>4. [event |-> "context", of |-> page.doc] \in Tellable'
    BY <1>3 DEF Tellable
  <2>5. <<Answer(command, "none")>> \in Seq((Answerable \cup Tellable)')  BY <2>2
  <2>6. Append(fromBrowser, [event |-> "context", of |-> page.doc]) \in Seq((Answerable \cup Tellable)')
    BY <1>6, <2>4, AppendProperties
  <2>7. ASSUME NEW m \in Answerable'  PROVE Append(fromBrowser, m) \in Seq((Answerable \cup Tellable)')
    <3>1. m \in (Answerable \cup Tellable)'  OBVIOUS
    <3>. QED  BY <1>6, <3>1, AppendProperties
  <2>8. \A q \in Seq((Answerable \cup Tellable)') :
          q \o <<Answer(command, "none")>> \in Seq((Answerable \cup Tellable)')
    BY <2>5, ConcatProperties
  <2>. HIDE DEF Answerable, Tellable
  <2>. QED  BY <1>4, <1>6, <2>2, <2>3, <2>6, <2>7, <2>8
<1>. QED  BY <1>1, <1>5, <1>7, <1>8, BrowserStepKeeps

\* Every step keeps it.
LEMMA SessionSteps ==
  ASSUME SessionInv, [SessionNext]_sessionVars
  PROVE  SessionInv'
<1>1. CASE UNCHANGED sessionVars
  <2>1. UNCHANGED <<socket, cmd, lastId, toBrowser, fromBrowser, waiter, tracker, page, executed, nav, misled>>
    BY <1>1 DEF sessionVars, wireVars, browserVars
  <2>2. SessionTypes' /\ ClosedInv' /\ CommandsInv' /\ DocumentInv'
    BY <2>1 DEF SessionInv, SessionTypes, ClosedInv, CommandsInv, DocumentInv
  <2>3. WireInv'  BY <2>1, WireStays DEF SessionInv, WireInv
  <2>. QED  BY <2>2, <2>3 DEF SessionInv
<1>2. CASE SessionNext
  BY <1>2, SocketKeeps, MessageKeeps, ExecuteKeeps, PageKeeps, NavigationBegins, ArmingKeeps, ContextKeeps,
     ReadingKeeps
  DEF SessionNext
<1>. QED  BY <1>1, <1>2

\* What the session of a page believes of its commands and its document is so.
THEOREM PageIsConsistent == SessionSpec => []SessionInv
<1>1. SessionInit => SessionInv
  <2>. SUFFICES ASSUME SessionInit  PROVE SessionInv
    OBVIOUS
  <2>1. SessionTypes
    BY DEF SessionInit, SessionTypes, CommandState, Commands, Wait, Docs, NavigationSteps
  <2>2. ClosedInv /\ DocumentInv  BY DEF SessionInit, ClosedInv, DocumentInv
  <2>3. CommandsInv  BY DEF SessionInit, CommandsInv, Commands
  <2>4. WireInv  BY DEF SessionInit, WireInv
  <2>. QED  BY <2>1, <2>2, <2>3, <2>4 DEF SessionInv
<1>2. SessionInv /\ [SessionNext]_sessionVars => SessionInv'  BY SessionSteps
<1>. QED  BY <1>1, <1>2, PTL DEF SessionSpec

\* What was answered was done, and what is ready is the new document (SessionIsTrue).
LEMMA SessionTellsTheTruth == SessionInv => SessionIsTrue /\ SessionTypeOK
<1>. SUFFICES ASSUME SessionInv  PROVE SessionIsTrue /\ SessionTypeOK
  OBVIOUS
<1>1. AnswersAreTrue
  <2>1. nav.dispatched => cmd["navigate"].id \in executed  BY DEF SessionInv, CommandsInv, Commands
  <2>. QED  BY <2>1 DEF SessionInv, CommandsInv, ClosedInv, Unsettled, AnswersAreTrue
<1>2. ReadyIsTheNewDocument
  BY DEF SessionInv, SessionTypes, CommandsInv, DocumentInv, ReadyIsTheNewDocument, Docs
<1>3. SessionTypeOK  BY DEF SessionInv, SessionTypes, CommandState, SessionTypeOK
<1>. QED  BY <1>1, <1>2, <1>3 DEF SessionIsTrue

-----------------------------------------------------------------------------
(* The browser of a device.                                                *)

AdminKinds == {"connect", "disconnect", "recover"}
UseKinds == {"open", "act", "read"}
ConnectSteps == {"devices", "vacant", "create", "reconcile", "version", "after"}
ForwardSteps == {"looked", "remove", "removed"}
CheckSteps == {"check.pre", "check", "check.post"}
ListSteps == {"list.pre", "list", "list.post"}
UseSteps == {"drive.pre", "drive", "drive.post"} \cup ListSteps \cup CheckSteps
OpSteps ==
  {"new", "begin", "look", "status", "verify", "done"} \cup ConnectSteps \cup ForwardSteps \cup UseSteps
Effects == {"not-sent", "sent", "acknowledged", "reconciled"}
PortEntries == {"none", "ours", "foreign"}
OpRecord ==
  [kind : DeviceKinds \cup {"none"}, at : OpSteps, ref : Nat, stage : Effects,
   error : {"none", "plain", "post"}, aborted : BOOLEAN, abandoned : BOOLEAN,
   result : {"none", "ok", "failed"}, lease : {"none", "held", "released", "quarantined"}, seen : PortEntries]
DeviceInstances == [gen : Nat, state : {"disconnected", "connected", "degraded"}]
Reservations ==
  [state : {"none", "connecting", "active", "quarantined"}, ref : Nat, users : SUBSET DeviceOps]
Ownerships == {"none", "owned", "attempted"}
Effected == {"no", "ours", "foreign"}

DeviceTypes ==
  /\ mapping \in PortEntries /\ ownership \in Ownerships
  /\ lateCreate \in BOOLEAN /\ trampled \in BOOLEAN
  /\ instance \in DeviceInstances
  /\ reservation \in Reservations
  /\ deviceOp \in [DeviceOps -> OpRecord]
  /\ acted \in [DeviceOps -> Effected] /\ lateEffect \subseteq DeviceOps

\* Each step is one of an operation of its kind.
StepsInv ==
  \A o \in DeviceOps :
    /\ IF deviceOp[o].at = "new" THEN ~deviceOp[o].aborted ELSE deviceOp[o].kind # "none"
    /\ deviceOp[o].at \in ConnectSteps => deviceOp[o].kind = "connect"
    /\ deviceOp[o].at \in ForwardSteps \cup {"look", "verify"} => deviceOp[o].kind \in AdminKinds
    /\ deviceOp[o].at = "status" => deviceOp[o].kind = "recover"
    /\ deviceOp[o].at \in UseSteps => deviceOp[o].kind \in UseKinds
    /\ deviceOp[o].at \in ListSteps => deviceOp[o].kind # "open"
    /\ deviceOp[o].abandoned => deviceOp[o].aborted
    /\ deviceOp[o].at = "create" => ~deviceOp[o].abandoned
    /\ deviceOp[o].at # "done" => deviceOp[o].result = "none" /\ deviceOp[o].lease \in {"none", "held"}

\* The reservation knows the operations that nobody has abandoned, and one that connects,
\* disconnects or recovers has it for itself.
InUse(o) == deviceOp[o].at \notin {"new", "done"} /\ ~deviceOp[o].abandoned
ReservedInv ==
  /\ \A o \in DeviceOps : o \in reservation.users <=> InUse(o)
  /\ \A o \in DeviceOps : InUse(o) =>
       /\ reservation.state # "none"
       /\ deviceOp[o].kind \in AdminKinds => \A p \in DeviceOps : InUse(p) => p = o
       /\ deviceOp[o].kind = "connect" => reservation.state = "connecting"
       /\ deviceOp[o].kind = "recover" => reservation.state = "quarantined"

\* As long as no abandoned operation has written it, the ownership is what the operation
\* that has the reservation last saw or made of it.
OwnershipInv ==
  \/ trampled
  \/ /\ lateCreate => ownership = "attempted"
     /\ ownership = "attempted" => reservation.state = "quarantined"
     /\ \A o \in DeviceOps : InUse(o) =>
          /\ deviceOp[o].at \in ForwardSteps => ownership = "owned"
          /\ deviceOp[o].at \in {"status", "verify"} /\ deviceOp[o].kind # "connect" => ownership = "none"
     /\ reservation.state = "none" => mapping # "ours"

\* Effects come after they were said to be sent, and are looked at before they are called
\* a success.
EffectInv ==
  \A o \in DeviceOps :
    /\ acted[o] # "no" => deviceOp[o].stage # "not-sent" /\ deviceOp[o].at # "new"
    /\ deviceOp[o].at \in {"drive.pre", "drive"} /\ deviceOp[o].kind # "read" => deviceOp[o].stage # "not-sent"
    /\ o \in lateEffect => /\ deviceOp[o].at = "done" /\ deviceOp[o].result = "failed"
                           /\ deviceOp[o].stage = "sent" /\ deviceOp[o].lease = "quarantined"
    /\ acted[o] = "foreign" =>
         /\ deviceOp[o].at \in CheckSteps => trampled
         /\ deviceOp[o].at = "drive.post" /\ ~deviceOp[o].aborted => trampled \/ ~EntryIsOurs
         /\ deviceOp[o].result = "ok" => trampled
         /\ deviceOp[o].at \in {"drive.post", "done"} \cup CheckSteps

DeviceInv == DeviceTypes /\ StepsInv /\ ReservedInv /\ OwnershipInv /\ EffectInv

\* What an operation may become, by its kind and by its effect.
RightStep(r) ==
  /\ r.at \in ConnectSteps => r.kind = "connect"
  /\ r.at \in ForwardSteps \cup {"look", "verify"} => r.kind \in AdminKinds
  /\ r.at = "status" => r.kind = "recover"
  /\ r.at \in UseSteps => r.kind \in UseKinds
  /\ r.at \in ListSteps => r.kind # "open"
  /\ r.at = "create" => ~r.abandoned
  /\ r.at # "done" => r.result = "none" /\ r.lease \in {"none", "held"}
RightEffect(r, effect) ==
  /\ effect # "no" => r.stage # "not-sent"
  /\ r.at \in {"drive.pre", "drive"} /\ r.kind # "read" => r.stage # "not-sent"
  /\ effect = "foreign" =>
       /\ r.at \in CheckSteps => trampled
       /\ r.at = "drive.post" /\ ~r.aborted => trampled \/ ~EntryIsOurs
       /\ r.result = "ok" => trampled
       /\ r.at \in {"drive.post", "done"} \cup CheckSteps
OpIsOver(o, r) ==
  /\ r.at = "done" /\ ~r.abandoned
  /\ deviceOp[o].abandoned => reservation' = reservation
  /\ ~deviceOp[o].abandoned =>
       /\ reservation' \in Reservations
       /\ reservation'.users = reservation.users \ {o}
       /\ reservation'.state \in {reservation.state, "quarantined"} \/ deviceOp[o].kind \in AdminKinds
OpContinues(o, r) ==
  /\ r.at # "done" /\ r.aborted = deviceOp[o].aborted /\ r.abandoned = deviceOp[o].abandoned
  /\ reservation' = reservation

\* A step of operation o, which goes on or ends: what it may do to the forward and to the
\* other operations, and what must hold of what it becomes.
LEMMA OpStepKeeps ==
  ASSUME DeviceInv, NEW o \in DeviceOps, deviceOp[o].at \notin {"new", "done"},
         NEW r \in OpRecord, deviceOp' = [deviceOp EXCEPT ![o] = r], r.kind = deviceOp[o].kind, r.at # "new",
         mapping' \in PortEntries, ownership' \in Ownerships,
         lateCreate' \in BOOLEAN, trampled' \in BOOLEAN, trampled => trampled',
         instance' \in DeviceInstances,
         OpContinues(o, r) \/ OpIsOver(o, r), RightStep(r),
         NEW e \in Effected, acted' = [acted EXCEPT ![o] = e],
         lateEffect' \in {lateEffect, lateEffect \cup {o}},
         o \in lateEffect' => /\ r.at = "done" /\ r.result = "failed"
                              /\ r.stage = "sent" /\ r.lease = "quarantined",
         RightEffect(r, e)',
         ownership' = "owned" /\ mapping' = "ours" =>
           EntryIsOurs \/ trampled' \/ (~deviceOp[o].abandoned /\ deviceOp[o].kind \in AdminKinds),
         OwnershipInv'
  PROVE  DeviceInv'
<1>1. deviceOp' \in [DeviceOps -> OpRecord] /\ deviceOp'[o] = r
      /\ \A p \in DeviceOps : p # o => deviceOp'[p] = deviceOp[p]
  BY DEF DeviceInv, DeviceTypes
<1>2. acted' \in [DeviceOps -> Effected] /\ acted'[o] = e
      /\ \A p \in DeviceOps : p # o => acted'[p] = acted[p]
  BY DEF DeviceInv, DeviceTypes
<1>3. DeviceTypes'
  BY <1>1, <1>2 DEF DeviceInv, DeviceTypes, OpContinues, OpIsOver
<1>4. StepsInv'
  <2>1. (r.abandoned => r.aborted) /\ r.kind # "none"
    BY DEF DeviceInv, StepsInv, OpContinues, OpIsOver
  <2>2. ASSUME NEW p \in DeviceOps
        PROVE  /\ IF deviceOp'[p].at = "new" THEN ~deviceOp'[p].aborted ELSE deviceOp'[p].kind # "none"
               /\ deviceOp'[p].at \in ConnectSteps => deviceOp'[p].kind = "connect"
               /\ deviceOp'[p].at \in ForwardSteps \cup {"look", "verify"} => deviceOp'[p].kind \in AdminKinds
               /\ deviceOp'[p].at = "status" => deviceOp'[p].kind = "recover"
               /\ deviceOp'[p].at \in UseSteps => deviceOp'[p].kind \in UseKinds
               /\ deviceOp'[p].at \in ListSteps => deviceOp'[p].kind # "open"
               /\ deviceOp'[p].abandoned => deviceOp'[p].aborted
               /\ deviceOp'[p].at = "create" => ~deviceOp'[p].abandoned
               /\ deviceOp'[p].at # "done" => deviceOp'[p].result = "none" /\ deviceOp'[p].lease \in {"none", "held"}
    <3>1. CASE p = o  BY <1>1, <2>1, <3>1 DEF RightStep
    <3>2. CASE p # o  BY <1>1, <3>2 DEF DeviceInv, StepsInv
    <3>. QED  BY <3>1, <3>2
  <2>. QED  BY <2>2 DEF StepsInv
<1>5. \A p \in DeviceOps : p # o => (InUse(p)' <=> InUse(p))
  BY <1>1 DEF InUse
<1>6. InUse(o) <=> ~deviceOp[o].abandoned
  BY DEF InUse
<1>7. InUse(o)' <=> (InUse(o) /\ r.at # "done")
  BY <1>1, <1>6 DEF InUse, OpContinues, OpIsOver
<1>8. /\ ~InUse(o) \/ r.at # "done" => reservation' = reservation
      /\ InUse(o) /\ r.at = "done" =>
           /\ reservation'.users = reservation.users \ {o}
           /\ reservation'.state \in {reservation.state, "quarantined"} \/ deviceOp[o].kind \in AdminKinds
  BY <1>6 DEF OpContinues, OpIsOver
<1>9. ReservedInv'
  <2>1. ASSUME NEW p \in DeviceOps  PROVE p \in reservation'.users <=> InUse(p)'
    <3>1. p \in reservation.users <=> InUse(p)  BY DEF DeviceInv, ReservedInv
    <3>. QED  BY <1>5, <1>7, <1>8, <3>1
  <2>2. ASSUME NEW p \in DeviceOps, InUse(p)'
        PROVE  /\ reservation'.state # "none"
               /\ deviceOp'[p].kind \in AdminKinds => \A q \in DeviceOps : InUse(q)' => q = p
               /\ deviceOp'[p].kind = "connect" => reservation'.state = "connecting"
               /\ deviceOp'[p].kind = "recover" => reservation'.state = "quarantined"
    <3>1. InUse(p) /\ deviceOp'[p].kind = deviceOp[p].kind  BY <1>1, <1>5, <1>7, <2>2
    <3>2. /\ reservation.state # "none"
          /\ deviceOp[p].kind \in AdminKinds => \A q \in DeviceOps : InUse(q) => q = p
          /\ deviceOp[p].kind = "connect" => reservation.state = "connecting"
          /\ deviceOp[p].kind = "recover" => reservation.state = "quarantined"
      BY <3>1 DEF DeviceInv, ReservedInv
    <3>3. deviceOp'[p].kind \in AdminKinds => \A q \in DeviceOps : InUse(q)' => q = p
      BY <1>5, <1>7, <3>1, <3>2
    <3>4. CASE ~InUse(o) \/ r.at # "done"
      BY <1>8, <3>1, <3>2, <3>3, <3>4
    <3>5. CASE InUse(o) /\ r.at = "done"
      <4>1. p # o  BY <1>7, <2>2, <3>5
      <4>2. deviceOp[o].kind \notin AdminKinds
        BY <3>1, <3>5, <4>1 DEF DeviceInv, ReservedInv
      <4>3. deviceOp[p].kind \notin AdminKinds  BY <3>2, <3>5, <4>1
      <4>. QED  BY <1>8, <3>1, <3>2, <3>5, <4>2, <4>3 DEF AdminKinds
    <3>. QED  BY <3>4, <3>5
  <2>. QED  BY <2>1, <2>2 DEF ReservedInv
<1>10. EffectInv'
  <2>. DEFINE Ours == ownership' = "owned" /\ mapping' = "ours"
  <2>1. EntryIsOurs' <=> Ours  BY DEF EntryIsOurs
  <2>2. ASSUME NEW p \in DeviceOps
        PROVE  /\ acted'[p] # "no" => deviceOp'[p].stage # "not-sent" /\ deviceOp'[p].at # "new"
               /\ deviceOp'[p].at \in {"drive.pre", "drive"} /\ deviceOp'[p].kind # "read" =>
                    deviceOp'[p].stage # "not-sent"
               /\ p \in lateEffect' => /\ deviceOp'[p].at = "done" /\ deviceOp'[p].result = "failed"
                                       /\ deviceOp'[p].stage = "sent" /\ deviceOp'[p].lease = "quarantined"
               /\ acted'[p] = "foreign" =>
                    /\ deviceOp'[p].at \in CheckSteps => trampled'
                    /\ deviceOp'[p].at = "drive.post" /\ ~deviceOp'[p].aborted => trampled' \/ ~Ours
                    /\ deviceOp'[p].result = "ok" => trampled'
                    /\ deviceOp'[p].at \in {"drive.post", "done"} \cup CheckSteps
    <3>1. CASE p = o  BY <1>1, <1>2, <2>1, <3>1 DEF RightEffect
    <3>2. CASE p # o
      <4>1. deviceOp'[p] = deviceOp[p] /\ acted'[p] = acted[p] /\ (p \in lateEffect' => p \in lateEffect)
        BY <1>1, <1>2, <3>2
      <4>2. deviceOp[p].at = "drive.post" /\ ~deviceOp[p].aborted /\ Ours => EntryIsOurs \/ trampled'
        <5>1. deviceOp[p].at = "drive.post" /\ ~deviceOp[p].aborted => InUse(p)
          BY DEF InUse, DeviceInv, StepsInv
        <5>2. InUse(p) => ~(~deviceOp[o].abandoned /\ deviceOp[o].kind \in AdminKinds)
          BY <1>6, <3>2 DEF DeviceInv, ReservedInv
        <5>. QED  BY <5>1, <5>2
      <4>. QED  BY <4>1, <4>2 DEF DeviceInv, EffectInv
    <3>. QED  BY <3>1, <3>2
  <2>. QED  BY <2>1, <2>2 DEF EffectInv
<1>. QED  BY <1>3, <1>4, <1>9, <1>10 DEF DeviceInv
\* An operation goes on and leaves the forward and the reservation alone.
LEMMA OpGoesOn ==
  ASSUME DeviceInv, NEW o \in DeviceOps, deviceOp[o].at \notin {"new", "done"},
         NEW r \in OpRecord, deviceOp' = [deviceOp EXCEPT ![o] = r], r.kind = deviceOp[o].kind, r.at # "new",
         UNCHANGED forwardVars, OpContinues(o, r), RightStep(r),
         NEW e \in Effected, acted' = [acted EXCEPT ![o] = e], RightEffect(r, e),
         lateEffect' = lateEffect,
         instance' \in DeviceInstances,
         ~r.abandoned =>
           \/ trampled
           \/ /\ r.at \in ForwardSteps => ownership = "owned"
              /\ r.at \in {"status", "verify"} /\ r.kind # "connect" => ownership = "none"
  PROVE  DeviceInv'
<1>1. UNCHANGED <<mapping, lateCreate, ownership, trampled>>
  BY DEF forwardVars
<1>2. RightEffect(r, e)'  BY <1>1 DEF RightEffect, EntryIsOurs
<1>4. o \notin lateEffect'  BY DEF DeviceInv, EffectInv
<1>5. OwnershipInv'
  <2>1. ASSUME NEW p \in DeviceOps, InUse(p)', ~trampled
        PROVE  /\ deviceOp'[p].at \in ForwardSteps => ownership = "owned"
               /\ deviceOp'[p].at \in {"status", "verify"} /\ deviceOp'[p].kind # "connect" => ownership = "none"
    <3>1. deviceOp'[o] = r /\ \A q \in DeviceOps : q # o => deviceOp'[q] = deviceOp[q]
      BY DEF DeviceInv, DeviceTypes
    <3>2. CASE p = o  BY <2>1, <3>1, <3>2 DEF InUse
    <3>3. CASE p # o  BY <2>1, <3>1, <3>3 DEF InUse, DeviceInv, OwnershipInv
    <3>. QED  BY <3>2, <3>3
  <2>. QED  BY <1>1, <2>1 DEF DeviceInv, OwnershipInv, OpContinues
<1>6. /\ mapping' \in PortEntries /\ ownership' \in Ownerships
      /\ lateCreate' \in BOOLEAN /\ trampled' \in BOOLEAN
      /\ ownership' = "owned" /\ mapping' = "ours" => EntryIsOurs
      /\ trampled => trampled'
  BY <1>1 DEF DeviceInv, DeviceTypes, EntryIsOurs
<1>7. lateEffect' \in {lateEffect, lateEffect \cup {o}}  OBVIOUS
<1>. QED  BY <1>2, <1>4, <1>5, <1>6, <1>7, OpStepKeeps

\* An operation ends and leaves the forward alone.
LEMMA OpEndsThere ==
  ASSUME DeviceInv, NEW o \in DeviceOps, deviceOp[o].at \notin {"new", "done"},
         NEW r \in OpRecord, deviceOp' = [deviceOp EXCEPT ![o] = r], r.kind = deviceOp[o].kind,
         UNCHANGED forwardVars, OpIsOver(o, r), RightStep(r),
         NEW e \in Effected, acted' = [acted EXCEPT ![o] = e], RightEffect(r, e),
         lateEffect' \in {lateEffect, lateEffect \cup {o}},
         o \in lateEffect' => r.result = "failed" /\ r.stage = "sent" /\ r.lease = "quarantined",
         instance' \in DeviceInstances,
         ~deviceOp[o].abandoned /\ ~trampled =>
           /\ ownership = "attempted" => reservation'.state \in {reservation.state, "quarantined"}
           /\ reservation'.state = "none" => mapping # "ours"
  PROVE  DeviceInv'
<1>1. UNCHANGED <<mapping, lateCreate, ownership, trampled>>
  BY DEF forwardVars
<1>2. RightEffect(r, e)'  BY <1>1 DEF RightEffect, EntryIsOurs
<1>3. r.at = "done"  BY DEF OpIsOver
<1>4. OwnershipInv'
  <2>1. ASSUME NEW p \in DeviceOps, InUse(p)', ~trampled
        PROVE  /\ deviceOp'[p].at \in ForwardSteps => ownership = "owned"
               /\ deviceOp'[p].at \in {"status", "verify"} /\ deviceOp'[p].kind # "connect" => ownership = "none"
    <3>1. deviceOp'[o] = r /\ \A q \in DeviceOps : q # o => deviceOp'[q] = deviceOp[q]
      BY DEF DeviceInv, DeviceTypes
    <3>2. p # o  BY <1>3, <2>1, <3>1 DEF InUse
    <3>. QED  BY <2>1, <3>1, <3>2 DEF InUse, DeviceInv, OwnershipInv
  <2>2. ~trampled => /\ ownership = "attempted" => reservation'.state = "quarantined"
                     /\ reservation'.state = "none" => mapping # "ours"
    BY DEF DeviceInv, OwnershipInv, OpIsOver
  <2>. QED  BY <1>1, <2>1, <2>2 DEF DeviceInv, OwnershipInv
<1>5. /\ mapping' \in PortEntries /\ ownership' \in Ownerships
      /\ lateCreate' \in BOOLEAN /\ trampled' \in BOOLEAN
      /\ ownership' = "owned" /\ mapping' = "ours" => EntryIsOurs
  BY <1>1 DEF DeviceInv, DeviceTypes, EntryIsOurs
<1>. QED  BY <1>1, <1>2, <1>3, <1>4, <1>5, OpStepKeeps

\* What is left of an operation that ended.
LEMMA EndedOp ==
  ASSUME DeviceInv, NEW o \in DeviceOps, NEW result \in {"ok", "failed"}, NEW reached \in Effects,
         NEW lease \in {"none", "held", "released", "quarantined"}, DeviceOpEnds(o, result, reached, lease)
  PROVE  \E r \in OpRecord :
           /\ deviceOp' = [deviceOp EXCEPT ![o] = r] /\ r.kind = deviceOp[o].kind /\ r.at = "done"
           /\ r.result = result /\ ~r.abandoned /\ r.stage = reached /\ r.lease = lease
<1>. DEFINE r == [NewOp EXCEPT !.kind = deviceOp[o].kind, !.at = "done", !.result = result,
                    !.stage = reached, !.lease = lease]
<1>1. deviceOp[o].kind \in DeviceKinds \cup {"none"}  BY DEF DeviceInv, DeviceTypes, OpRecord
<1>2. NewOp \in OpRecord /\ NewOp.abandoned = FALSE
  BY DEF NewOp, OpRecord, OpSteps, Effects, PortEntries
<1>3. r \in OpRecord /\ r.kind = deviceOp[o].kind /\ r.at = "done" /\ r.result = result
      /\ r.stage = reached /\ r.lease = lease /\ r.abandoned = NewOp.abandoned
  BY <1>1, <1>2 DEF OpRecord, OpSteps
<1>4. deviceOp' = [deviceOp EXCEPT ![o] = r]  BY DEF DeviceOpEnds, Becomes
<1>. QED  BY <1>2, <1>3, <1>4

\* What a failure makes of an operation.
LEMMA FailureIs ==
  ASSUME DeviceInv, NEW o \in DeviceOps, NEW error, NEW reached \in Effects, FailsAs(o, error, reached)
  PROVE  \E r \in OpRecord :
           /\ deviceOp' = [deviceOp EXCEPT ![o] = r] /\ r.kind = deviceOp[o].kind /\ r.at = "done"
           /\ r.result = "failed" /\ OpIsOver(o, r) /\ RightStep(r)
           /\ r.stage \in {reached, "sent"}
           /\ reached = "sent" => r.stage = "sent" /\ r.lease = "quarantined"
           /\ instance' \in DeviceInstances
           /\ ~deviceOp[o].abandoned => reservation'.state = "quarantined"
<1>. DEFINE said == IF error = "post" THEN "sent" ELSE reached
            lease == IF DeliveryUnknown(reached, error) THEN "quarantined" ELSE "released"
<1>1. PICK r \in OpRecord :
        /\ deviceOp' = [deviceOp EXCEPT ![o] = r] /\ r.kind = deviceOp[o].kind /\ r.at = "done"
        /\ r.result = "failed" /\ ~r.abandoned /\ r.stage = said /\ r.lease = lease
  <2>1. said \in Effects /\ lease \in {"none", "held", "released", "quarantined"}  BY DEF Effects
  <2>2. DeviceOpEnds(o, "failed", said, lease)  BY DEF FailsAs
  <2>. HIDE DEF said, lease
  <2>. QED  BY <2>1, <2>2, EndedOp
<1>2. /\ r.kind = deviceOp[o].kind /\ r.at = "done" /\ r.result = "failed" /\ ~r.abandoned
      /\ r.stage = (IF error = "post" THEN "sent" ELSE reached)
      /\ r.lease = (IF DeliveryUnknown(reached, error) THEN "quarantined" ELSE "released")
  BY <1>1
<1>3. deviceOp' = [deviceOp EXCEPT ![o] = r]  BY <1>1
<1>4. instance' \in DeviceInstances
  BY DEF FailsAs, NextInstance, DeviceInv, DeviceTypes, DeviceInstances
<1>5. Leaves(o, "quarantined")  BY DEF FailsAs
<1>6. OpIsOver(o, r) /\ (~deviceOp[o].abandoned => reservation'.state = "quarantined")
  BY <1>2, <1>5 DEF Leaves, OpIsOver, DeviceInv, DeviceTypes, Reservations
<1>7. RightStep(r)  BY <1>2 DEF RightStep, ConnectSteps, ForwardSteps, ListSteps, UseSteps, CheckSteps
<1>8. reached = "sent" => r.stage = "sent" /\ r.lease = "quarantined"  BY <1>2 DEF DeliveryUnknown
<1>. QED  BY <1>2, <1>3, <1>4, <1>6, <1>7, <1>8

\* A failure leaves nothing that is not told.
LEMMA FailureKeeps ==
  ASSUME DeviceInv, NEW o \in DeviceOps, deviceOp[o].at \notin {"new", "done"},
         NEW error, NEW reached \in Effects, FailsAs(o, error, reached), UNCHANGED forwardVars,
         NEW e \in Effected, acted' = [acted EXCEPT ![o] = e], e # "no" => reached # "not-sent",
         lateEffect' = lateEffect \/ (lateEffect' = lateEffect \cup {o} /\ reached = "sent")
  PROVE  DeviceInv'
<1>1. PICK r \in OpRecord :
           /\ deviceOp' = [deviceOp EXCEPT ![o] = r] /\ r.kind = deviceOp[o].kind /\ r.at = "done"
           /\ r.result = "failed" /\ OpIsOver(o, r) /\ RightStep(r)
           /\ r.stage \in {reached, "sent"}
           /\ reached = "sent" => r.stage = "sent" /\ r.lease = "quarantined"
           /\ instance' \in DeviceInstances
           /\ ~deviceOp[o].abandoned => reservation'.state = "quarantined"
  BY FailureIs
<1>2. RightEffect(r, e)  BY <1>1 DEF RightEffect, CheckSteps
<1>3. o \notin lateEffect  BY DEF DeviceInv, EffectInv
<1>. QED  BY <1>1, <1>2, <1>3, OpEndsThere

\* A failure of a step that leaves the forward and the effects alone.
LEMMA PlainFailure ==
  ASSUME DeviceInv, NEW o \in DeviceOps, deviceOp[o].at \notin {"new", "done"}, NEW error, Fails(o, error),
         UNCHANGED <<forwardVars, effectVars>>
  PROVE  DeviceInv'
<1>1. deviceOp[o].stage \in Effects  BY DEF DeviceInv, DeviceTypes, OpRecord
<1>2. FailsAs(o, error, deviceOp[o].stage)  BY DEF Fails
<1>3. PICK e \in Effected : e = acted[o] /\ acted' = [acted EXCEPT ![o] = e]
  BY DEF DeviceInv, DeviceTypes, effectVars
<1>4. e # "no" => deviceOp[o].stage # "not-sent"  BY <1>3 DEF DeviceInv, EffectInv
<1>5. UNCHANGED <<forwardVars, lateEffect>>  BY DEF effectVars
<1>. QED  BY <1>1, <1>2, <1>3, <1>4, <1>5, FailureKeeps

\* What stays of an operation that goes on.
SameOp(o, r) ==
  /\ r \in OpRecord /\ r.kind = deviceOp[o].kind /\ r.aborted = deviceOp[o].aborted
  /\ r.abandoned = deviceOp[o].abandoned /\ r.result = deviceOp[o].result /\ r.lease = deviceOp[o].lease
  /\ r.stage = "not-sent" => deviceOp[o].stage = "not-sent"
RightPlace(o, r, effect) ==
  /\ r.at \in OpSteps \ {"new", "done"}
  /\ r.at \in ConnectSteps => r.kind = "connect"
  /\ r.at = "create" => ~r.aborted
  /\ r.at \in ForwardSteps \cup {"look", "verify"} => r.kind \in AdminKinds
  /\ r.at = "status" => r.kind = "recover"
  /\ r.at \in UseSteps => r.kind \in UseKinds
  /\ r.at \in ListSteps => r.kind # "open"
  /\ r.at \in {"drive.pre", "drive"} /\ r.kind # "read" => r.stage # "not-sent"
  /\ effect = "foreign" =>
       /\ r.at \in CheckSteps => trampled
       /\ r.at = "drive.post" /\ ~r.aborted => trampled \/ ~EntryIsOurs
       /\ r.at \in {"drive.post"} \cup CheckSteps
  /\ ~r.abandoned =>
       \/ trampled
       \/ /\ r.at \in ForwardSteps => ownership = "owned"
          /\ r.at \in {"status", "verify"} /\ r.kind # "connect" => ownership = "none"

\* An operation goes on, and its request may have had its effect.
LEMMA OpActs ==
  ASSUME DeviceInv, NEW o \in DeviceOps, deviceOp[o].at \notin {"new", "done"},
         NEW r, SameOp(o, r), Becomes(o, r), UNCHANGED <<forwardVars, lateEffect, reservation>>,
         NEW e \in Effected, acted' = [acted EXCEPT ![o] = e], RightPlace(o, r, e),
         e # "no" => r.stage # "not-sent",
         instance' \in DeviceInstances
  PROVE  DeviceInv'
<1>1. deviceOp' = [deviceOp EXCEPT ![o] = r] /\ r \in OpRecord  BY DEF Becomes, SameOp
<1>2. deviceOp[o].result = "none" /\ deviceOp[o].lease \in {"none", "held"}
      /\ (deviceOp[o].abandoned => deviceOp[o].aborted)
  BY DEF DeviceInv, StepsInv
<1>3. RightStep(r)  BY <1>2 DEF SameOp, RightPlace, RightStep
<1>4. OpContinues(o, r)  BY DEF SameOp, RightPlace, OpContinues
<1>5. RightEffect(r, e)  BY <1>2 DEF SameOp, RightPlace, RightEffect
<1>6. r.kind = deviceOp[o].kind /\ r.at # "new"  BY DEF SameOp, RightPlace
<1>7. ~r.abandoned =>
           \/ trampled
           \/ /\ r.at \in ForwardSteps => ownership = "owned"
              /\ r.at \in {"status", "verify"} /\ r.kind # "connect" => ownership = "none"
  BY DEF RightPlace
<1>. QED  BY <1>1, <1>3, <1>4, <1>5, <1>6, <1>7, OpGoesOn

\* An operation goes on and has had no effect by that.
LEMMA OpMoves ==
  ASSUME DeviceInv, NEW o \in DeviceOps, deviceOp[o].at \notin {"new", "done"},
         NEW r, SameOp(o, r), Becomes(o, r), UNCHANGED <<forwardVars, effectVars, reservation>>,
         RightPlace(o, r, acted[o]),
         instance' \in DeviceInstances
  PROVE  DeviceInv'
<1>1. PICK e \in Effected : e = acted[o] /\ acted' = [acted EXCEPT ![o] = e]
  BY DEF DeviceInv, DeviceTypes, effectVars
<1>2. e # "no" => r.stage # "not-sent"  BY <1>1 DEF DeviceInv, EffectInv, SameOp
<1>3. UNCHANGED <<forwardVars, lateEffect, reservation>>  BY DEF effectVars
<1>. QED  BY <1>1, <1>2, <1>3, OpActs

\* Only the place of an operation changes.
LEMMA GoesIs ==
  ASSUME DeviceInv, NEW o \in DeviceOps, NEW at \in OpSteps \ {"new", "done"}, Goes(o, at)
  PROVE  \E r : SameOp(o, r) /\ Becomes(o, r) /\ r.at = at /\ r.stage = deviceOp[o].stage
<1>. DEFINE r == [deviceOp[o] EXCEPT !.at = at]
<1>1. deviceOp[o] \in OpRecord  BY DEF DeviceInv, DeviceTypes
<1>2. SameOp(o, r) /\ r.at = at /\ r.stage = deviceOp[o].stage  BY <1>1 DEF SameOp, OpRecord
<1>3. Becomes(o, r)  BY DEF Goes
<1>. QED  BY <1>2, <1>3

LEMMA OpGoes ==
  ASSUME DeviceInv, NEW o \in DeviceOps, deviceOp[o].at \notin {"new", "done"},
         NEW at \in OpSteps \ {"new", "done"}, Goes(o, at),
         UNCHANGED <<forwardVars, effectVars, reservation>>,
         instance' \in DeviceInstances,
         at \in ConnectSteps => deviceOp[o].kind = "connect",
         at = "create" => ~deviceOp[o].aborted,
         at \in ForwardSteps \cup {"look", "verify"} => deviceOp[o].kind \in AdminKinds,
         at = "status" => deviceOp[o].kind = "recover",
         at \in UseSteps => deviceOp[o].kind \in UseKinds,
         at \in ListSteps => deviceOp[o].kind # "open",
         at \in {"drive.pre", "drive"} /\ deviceOp[o].kind # "read" => deviceOp[o].stage # "not-sent",
         acted[o] = "foreign" =>
           /\ at \in CheckSteps => trampled
           /\ at = "drive.post" /\ ~deviceOp[o].aborted => trampled \/ ~EntryIsOurs
           /\ at \in {"drive.post"} \cup CheckSteps,
         ~deviceOp[o].abandoned =>
           \/ trampled
           \/ /\ at \in ForwardSteps => ownership = "owned"
              /\ at \in {"status", "verify"} /\ deviceOp[o].kind # "connect" => ownership = "none"
  PROVE  DeviceInv'
<1>1. PICK r : SameOp(o, r) /\ Becomes(o, r) /\ r.at = at /\ r.stage = deviceOp[o].stage  BY GoesIs
<1>2. r.kind = deviceOp[o].kind /\ r.aborted = deviceOp[o].aborted /\ r.abandoned = deviceOp[o].abandoned
  BY <1>1 DEF SameOp
<1>3. RightPlace(o, r, acted[o])
  BY <1>1, <1>2 DEF RightPlace
<1>. QED  BY <1>1, <1>3, OpMoves

\* What an operation knows at its step.
LEMMA AtItsStep ==
  ASSUME DeviceInv, NEW o \in DeviceOps
  PROVE  /\ deviceOp[o] \in OpRecord
         /\ instance \in DeviceInstances
         /\ deviceOp[o].abandoned => deviceOp[o].aborted
         /\ deviceOp[o].at # "new" => deviceOp[o].kind # "none"
         /\ deviceOp[o].at \in ConnectSteps => deviceOp[o].kind = "connect"
         /\ deviceOp[o].at \in ForwardSteps \cup {"look", "verify"} => deviceOp[o].kind \in AdminKinds
         /\ deviceOp[o].at = "status" => deviceOp[o].kind = "recover"
         /\ deviceOp[o].at \in UseSteps => deviceOp[o].kind \in UseKinds
         /\ deviceOp[o].at \in ListSteps => deviceOp[o].kind # "open"
         /\ deviceOp[o].at \in {"drive.pre", "drive"} /\ deviceOp[o].kind # "read" =>
              deviceOp[o].stage # "not-sent"
         /\ acted[o] = "foreign" =>
              /\ deviceOp[o].at \in CheckSteps => trampled
              /\ deviceOp[o].at = "drive.post" /\ ~deviceOp[o].aborted => trampled \/ ~EntryIsOurs
              /\ deviceOp[o].at \in {"drive.post", "done"} \cup CheckSteps
         /\ ~deviceOp[o].abandoned /\ deviceOp[o].at \notin {"new", "done"} =>
              \/ trampled
              \/ /\ deviceOp[o].at \in ForwardSteps => ownership = "owned"
                 /\ deviceOp[o].at \in {"status", "verify"} /\ deviceOp[o].kind # "connect" => ownership = "none"
<1>1. /\ deviceOp[o] \in OpRecord
      /\ instance \in DeviceInstances
  BY DEF DeviceInv, DeviceTypes
<1>2. /\ deviceOp[o].abandoned => deviceOp[o].aborted
      /\ deviceOp[o].at # "new" => deviceOp[o].kind # "none"
      /\ deviceOp[o].at \in ConnectSteps => deviceOp[o].kind = "connect"
      /\ deviceOp[o].at \in ForwardSteps \cup {"look", "verify"} => deviceOp[o].kind \in AdminKinds
      /\ deviceOp[o].at = "status" => deviceOp[o].kind = "recover"
      /\ deviceOp[o].at \in UseSteps => deviceOp[o].kind \in UseKinds
      /\ deviceOp[o].at \in ListSteps => deviceOp[o].kind # "open"
  BY DEF DeviceInv, StepsInv
<1>3. /\ deviceOp[o].at \in {"drive.pre", "drive"} /\ deviceOp[o].kind # "read" =>
           deviceOp[o].stage # "not-sent"
      /\ acted[o] = "foreign" =>
           /\ deviceOp[o].at \in CheckSteps => trampled
           /\ deviceOp[o].at = "drive.post" /\ ~deviceOp[o].aborted => trampled \/ ~EntryIsOurs
           /\ deviceOp[o].at \in {"drive.post", "done"} \cup CheckSteps
  BY DEF DeviceInv, EffectInv
<1>4. /\ ~deviceOp[o].abandoned /\ deviceOp[o].at \notin {"new", "done"} =>
           \/ trampled
           \/ /\ deviceOp[o].at \in ForwardSteps => ownership = "owned"
              /\ deviceOp[o].at \in {"status", "verify"} /\ deviceOp[o].kind # "connect" => ownership = "none"
  BY DEF DeviceInv, OwnershipInv, InUse
<1>. QED  BY <1>1, <1>2, <1>3, <1>4

\* A command that is refused.
LEMMA BrokenKeeps ==
  ASSUME DeviceInv, NEW o \in DeviceOps, deviceOp[o].at \notin {"new", "done"}, Broken(o),
         UNCHANGED <<forwardVars, effectVars>>
  PROVE  DeviceInv'
<1>1. PICK error : Fails(o, error)  BY DEF Broken
<1>. QED  BY <1>1, PlainFailure

LEMMA BeginDeviceOpKeeps ==
  ASSUME DeviceInv, NEW o \in DeviceOps, BeginDeviceOp(o)
  PROVE  DeviceInv'
<1>1. deviceOp[o].at = "begin" /\ UNCHANGED <<forwardVars, effectVars>>  BY DEF BeginDeviceOp, Is
<1>2. CASE \E error : Fails(o, error)  BY <1>1, <1>2, PlainFailure
<1>3. CASE deviceOp[o].kind = "recover" /\ Goes(o, "look") /\ UNCHANGED <<instance, reservation>>
  BY <1>1, <1>3, AtItsStep, OpGoes
     DEF OpSteps, ConnectSteps, ForwardSteps, ListSteps, UseSteps, CheckSteps, AdminKinds
<1>. DEFINE r == [deviceOp[o] EXCEPT
                    !.at = CASE deviceOp[o].kind = "connect" -> "devices"
                             [] deviceOp[o].kind = "disconnect" -> "look"
                             [] deviceOp[o].kind = "open" -> "drive.pre"
                             [] OTHER -> "list.pre",
                    !.stage = IF deviceOp[o].kind \in {"act", "read"} THEN @ ELSE "sent"]
<1>4. CASE /\ Becomes(o, r) /\ UNCHANGED <<instance, reservation>>
           /\ deviceOp[o].kind # "recover" /\ deviceOp[o].kind # "none"
  <2>. DEFINE kind == deviceOp[o].kind
              at == CASE kind = "connect" -> "devices" [] kind = "disconnect" -> "look"
                      [] kind = "open" -> "drive.pre" [] OTHER -> "list.pre"
              reached == IF kind \in {"act", "read"} THEN deviceOp[o].stage ELSE "sent"
  <2>1. deviceOp[o] \in OpRecord  BY AtItsStep
  <2>2. kind \in {"connect", "disconnect", "open", "act", "read"}
    BY <1>4, <2>1 DEF OpRecord, DeviceKinds
  <2>3. /\ at \in {"devices", "look", "drive.pre", "list.pre"}
        /\ at = "devices" => kind = "connect"
        /\ at = "look" => kind = "disconnect"
        /\ at = "drive.pre" => kind = "open"
        /\ at = "list.pre" => kind \in {"act", "read"}
    BY <2>2
  <2>4. reached \in Effects /\ (reached = "not-sent" => deviceOp[o].stage = "not-sent")
        /\ (kind = "open" => reached # "not-sent")
    BY <2>1 DEF OpRecord, Effects
  <2>. DEFINE q == [deviceOp[o] EXCEPT !.at = at, !.stage = reached]
  <2>5. r = q  OBVIOUS
  <2>. HIDE DEF at, reached
  <2>6. at \in OpSteps  BY <2>3 DEF OpSteps, ConnectSteps, UseSteps, ListSteps
  <2>7. SameOp(o, q) /\ q.at = at /\ q.stage = reached /\ q.kind = kind
    BY <2>1, <2>4, <2>6 DEF SameOp, OpRecord
  <2>11. Becomes(o, q) /\ UNCHANGED reservation  BY <1>4, <2>5
  <2>. HIDE DEF r, q, kind
  <2>8. acted[o] # "foreign"
    BY <1>1, AtItsStep DEF CheckSteps
  <2>9. RightPlace(o, q, acted[o])
    BY <2>3, <2>4, <2>6, <2>7, <2>8
       DEF RightPlace, ConnectSteps, ForwardSteps, ListSteps, UseSteps, CheckSteps, AdminKinds, UseKinds
  <2>10. instance' \in DeviceInstances
    BY <1>4, AtItsStep
  <2>. QED  BY <1>1, <2>7, <2>9, <2>10, <2>11, OpMoves
<1>5. deviceOp[o].kind # "none"  BY <1>1, AtItsStep
<1>6. CASE deviceOp[o].kind = "recover"  BY <1>2, <1>3, <1>6 DEF BeginDeviceOp
<1>7. CASE deviceOp[o].kind # "recover"
  <2>1. Fails(o, "plain") \/ (Becomes(o, r) /\ UNCHANGED <<instance, reservation>>)
    BY <1>7 DEF BeginDeviceOp
  <2>. HIDE DEF r
  <2>. QED  BY <1>2, <1>4, <1>5, <1>7, <2>1
<1>. QED  BY <1>6, <1>7

LEMMA FindDeviceKeeps ==
  ASSUME DeviceInv, NEW o \in DeviceOps, FindDevice(o)
  PROVE  DeviceInv'
<1>1. deviceOp[o].at = "devices" /\ UNCHANGED <<forwardVars, effectVars>>  BY DEF FindDevice, Is
<1>2. CASE Broken(o)  BY <1>1, <1>2, BrokenKeeps
<1>3. CASE Fails(o, "plain")  BY <1>1, <1>3, PlainFailure
<1>4. CASE Goes(o, "vacant") /\ UNCHANGED <<instance, reservation>>
  BY <1>1, <1>4, AtItsStep, OpGoes
     DEF OpSteps, ConnectSteps, ForwardSteps, ListSteps, UseSteps, CheckSteps
<1>. QED  BY <1>2, <1>3, <1>4 DEF FindDevice

LEMMA PortIsVacantKeeps ==
  ASSUME DeviceInv, NEW o \in DeviceOps, PortIsVacant(o)
  PROVE  DeviceInv'
<1>1. deviceOp[o].at = "vacant" /\ UNCHANGED <<forwardVars, effectVars>>  BY DEF PortIsVacant, Is
<1>2. CASE Broken(o)  BY <1>1, <1>2, BrokenKeeps
<1>3. CASE Fails(o, "plain")  BY <1>1, <1>3, PlainFailure
<1>4. CASE ~Aborted(o) /\ Goes(o, "create") /\ UNCHANGED <<instance, reservation>>
  BY <1>1, <1>4, AtItsStep, OpGoes
     DEF OpSteps, ConnectSteps, ForwardSteps, ListSteps, UseSteps, CheckSteps, Aborted
<1>. QED  BY <1>2, <1>3, <1>4 DEF PortIsVacant

\* A step of an administrative kind that changes the error it keeps.
LEMMA UndoKeeps ==
  ASSUME DeviceInv, NEW o \in DeviceOps, deviceOp[o].at \in ConnectSteps, NEW error \in {"plain", "post"},
         Becomes(o, [deviceOp[o] EXCEPT !.at = "look", !.error = error]),
         UNCHANGED <<forwardVars, effectVars, instance, reservation>>
  PROVE  DeviceInv'
<1>. DEFINE r == [deviceOp[o] EXCEPT !.at = "look", !.error = error]
<1>1. deviceOp[o] \in OpRecord /\ deviceOp[o].kind = "connect" /\ deviceOp[o].at \notin {"new", "done"}
      /\ acted[o] # "foreign"
  BY AtItsStep DEF ConnectSteps, CheckSteps
<1>2. SameOp(o, r) /\ r.at = "look" /\ r.kind = "connect"
  BY <1>1 DEF SameOp, OpRecord, OpSteps
<1>. HIDE DEF r
<1>3. RightPlace(o, r, acted[o])
  BY <1>1, <1>2
     DEF RightPlace, OpSteps, ConnectSteps, ForwardSteps, ListSteps, UseSteps, CheckSteps, AdminKinds
<1>4. Becomes(o, r)  BY DEF r
<1>. QED  BY <1>1, <1>2, <1>3, <1>4, AtItsStep, OpMoves

LEMMA AskVersionKeeps ==
  ASSUME DeviceInv, NEW o \in DeviceOps, AskVersion(o)
  PROVE  DeviceInv'
<1>1. deviceOp[o].at = "version" /\ UNCHANGED <<forwardVars, effectVars, instance, reservation>>
  BY DEF AskVersion, Is
<1>2. CASE Becomes(o, [deviceOp[o] EXCEPT !.at = "look", !.error = "plain"])
  BY <1>1, <1>2, UndoKeeps DEF ConnectSteps
<1>3. CASE Goes(o, "after")
  BY <1>1, <1>3, AtItsStep, OpGoes
     DEF OpSteps, ConnectSteps, ForwardSteps, ListSteps, UseSteps, CheckSteps
<1>. QED  BY <1>2, <1>3 DEF AskVersion

LEMMA ConfirmForwardKeeps ==
  ASSUME DeviceInv, NEW o \in DeviceOps, ConfirmForward(o)
  PROVE  DeviceInv'
<1>1. deviceOp[o].at = "after" /\ UNCHANGED <<forwardVars, effectVars>>
  BY DEF ConfirmForward, AssertCurrent, Is
<1>2. CASE Becomes(o, [deviceOp[o] EXCEPT !.at = "look", !.error = "post"]) /\ UNCHANGED <<instance, reservation>>
  BY <1>1, <1>2, UndoKeeps DEF ConnectSteps
<1>. DEFINE r == [deviceOp[o] EXCEPT !.at = "verify", !.stage = "acknowledged", !.ref = instance.gen + 1]
<1>3. CASE Becomes(o, r) /\ instance' = [gen |-> instance.gen + 1, state |-> "connected"] /\ UNCHANGED reservation
  <2>1. deviceOp[o] \in OpRecord /\ deviceOp[o].kind = "connect" /\ acted[o] # "foreign"
        /\ instance.gen + 1 \in Nat
    BY <1>1, AtItsStep DEF ConnectSteps, CheckSteps, DeviceInstances
  <2>2. SameOp(o, r) /\ r.at = "verify" /\ r.kind = "connect"
    BY <2>1 DEF SameOp, OpRecord, OpSteps, Effects
  <2>. HIDE DEF r
  <2>3. RightPlace(o, r, acted[o])
    BY <2>1, <2>2
       DEF RightPlace, OpSteps, ConnectSteps, ForwardSteps, ListSteps, UseSteps, CheckSteps, AdminKinds
  <2>4. instance' \in DeviceInstances  BY <1>3, <2>1 DEF DeviceInstances
  <2>. QED  BY <1>1, <1>3, <2>2, <2>3, <2>4, OpMoves
<1>. QED  BY <1>2, <1>3 DEF ConfirmForward, AssertCurrent

LEMMA LookFails ==
  ASSUME DeviceInv, NEW o \in DeviceOps, LookAtForward(o), ownership # "none"
  PROVE  DeviceInv'
<1>1. deviceOp[o].at = "look" /\ UNCHANGED <<forwardVars, effectVars>>  BY DEF LookAtForward, Is
<1>2. CASE \E error : Fails(o, error)  BY <1>1, <1>2, PlainFailure
<1>. DEFINE r == [deviceOp[o] EXCEPT !.at = "looked", !.seen = mapping]
<1>3. CASE ownership = "owned" /\ Becomes(o, r) /\ UNCHANGED <<instance, reservation>>
  <2>1. deviceOp[o] \in OpRecord /\ deviceOp[o].kind \in AdminKinds /\ acted[o] # "foreign"
    BY <1>1, AtItsStep DEF ForwardSteps, CheckSteps
  <2>2. mapping \in PortEntries  BY DEF DeviceInv, DeviceTypes
  <2>3. SameOp(o, r) /\ r.at = "looked" /\ r.kind = deviceOp[o].kind
    BY <2>1, <2>2 DEF SameOp, OpRecord, OpSteps, ForwardSteps
  <2>. HIDE DEF r
  <2>4. RightPlace(o, r, acted[o])
    BY <1>3, <2>1, <2>3
       DEF RightPlace, OpSteps, ConnectSteps, ForwardSteps, ListSteps, UseSteps, CheckSteps
  <2>. QED  BY <1>1, <1>3, <2>3, <2>4, AtItsStep, OpMoves
<1>. QED  BY <1>2, <1>3 DEF LookAtForward

LEMMA RecoverRemovalKeeps ==
  ASSUME DeviceInv, NEW o \in DeviceOps, RecoverRemoval(o)
  PROVE  DeviceInv'
<1>1. deviceOp[o].at = "status" /\ UNCHANGED <<forwardVars, effectVars>>  BY DEF RecoverRemoval, Is
<1>2. CASE Fails(o, "plain")  BY <1>1, <1>2, PlainFailure
<1>3. CASE Goes(o, "verify") /\ instance' = [instance EXCEPT !.state = "disconnected"] /\ UNCHANGED reservation
  <2>1. instance' \in DeviceInstances
    BY <1>3, AtItsStep DEF DeviceInstances
  <2>2. deviceOp[o].kind = "recover"  BY <1>1, AtItsStep
  <2>3. acted[o] # "foreign"  BY <1>1, AtItsStep DEF CheckSteps
  <2>4. ~deviceOp[o].abandoned => trampled \/ ownership = "none"
    BY <1>1, <2>2, AtItsStep
  <2>. QED
    BY <1>1, <1>3, <2>1, <2>2, <2>3, <2>4, OpGoes
       DEF OpSteps, ConnectSteps, ForwardSteps, ListSteps, UseSteps, CheckSteps, AdminKinds
<1>. QED  BY <1>2, <1>3 DEF RecoverRemoval

\* An operation that has the reservation to itself.
LEMMA AdminIsAlone ==
  ASSUME DeviceInv, NEW o \in DeviceOps, deviceOp[o].at \notin {"new", "done"}, ~deviceOp[o].abandoned,
         deviceOp[o].kind \in AdminKinds
  PROVE  /\ \A p \in DeviceOps : InUse(p) => p = o
         /\ reservation.state # "none" /\ reservation.users = {o}
         /\ deviceOp[o].kind = "connect" => reservation.state = "connecting"
<1>1. InUse(o)  BY DEF InUse
<1>2. /\ \A p \in DeviceOps : InUse(p) => p = o
      /\ reservation.state # "none" /\ (deviceOp[o].kind = "connect" => reservation.state = "connecting")
  BY <1>1 DEF DeviceInv, ReservedInv
<1>3. \A p \in DeviceOps : p \in reservation.users <=> InUse(p)  BY DEF DeviceInv, ReservedInv
<1>4. reservation.users \subseteq DeviceOps  BY DEF DeviceInv, DeviceTypes, Reservations
<1>. QED  BY <1>1, <1>2, <1>3, <1>4

\* Who writes the ownership has the reservation to itself, or says that it has not.
LEMMA OwnershipIsSet ==
  ASSUME DeviceInv, NEW o \in DeviceOps, deviceOp[o].at \notin {"new", "done"}, deviceOp[o].kind \in AdminKinds,
         NEW is \in Ownerships, SetOwnership(o, is), lateCreate' \in BOOLEAN,
         NEW r \in OpRecord, deviceOp' = [deviceOp EXCEPT ![o] = r], OpContinues(o, r) \/ OpIsOver(o, r),
         deviceOp[o].abandoned => mapping' \in {"none", mapping} /\ UNCHANGED lateCreate,
         ~deviceOp[o].abandoned /\ ~trampled =>
           /\ lateCreate' => is = "attempted"
           /\ is = "attempted" => reservation'.state = "quarantined"
           /\ r.at \in ForwardSteps => is = "owned"
           /\ r.at \in {"status", "verify"} /\ r.kind # "connect" => is = "none"
           /\ reservation'.state # "none"
  PROVE  /\ OwnershipInv' /\ ownership' \in Ownerships /\ trampled' \in BOOLEAN
         /\ trampled => trampled'
<1>1. ownership' = is /\ (trampled => trampled') /\ trampled' \in BOOLEAN
      /\ (~trampled' => ~trampled /\ (deviceOp[o].abandoned => is = ownership))
  BY DEF SetOwnership
<1>2. deviceOp'[o] = r /\ \A p \in DeviceOps : p # o => deviceOp'[p] = deviceOp[p]
  BY DEF DeviceInv, DeviceTypes
<1>3. ASSUME ~trampled', deviceOp[o].abandoned  PROVE OwnershipInv'
  <2>1. UNCHANGED <<lateCreate, ownership, reservation>> /\ ~trampled /\ mapping' \in {"none", mapping}
    BY <1>1, <1>3 DEF OpContinues, OpIsOver
  <2>2. \A p \in DeviceOps : InUse(p)' => p # o
    BY <1>2, <1>3 DEF InUse, OpContinues, OpIsOver
  <2>3. ASSUME NEW p \in DeviceOps, InUse(p)'
        PROVE  /\ deviceOp'[p].at \in ForwardSteps => ownership = "owned"
               /\ deviceOp'[p].at \in {"status", "verify"} /\ deviceOp'[p].kind # "connect" => ownership = "none"
    <3>1. deviceOp'[p] = deviceOp[p] /\ InUse(p)  BY <1>2, <2>2, <2>3 DEF InUse
    <3>. QED  BY <2>1, <3>1 DEF DeviceInv, OwnershipInv
  <2>. QED  BY <2>1, <2>3 DEF DeviceInv, OwnershipInv
<1>4. ASSUME ~trampled', ~deviceOp[o].abandoned  PROVE OwnershipInv'
  <2>1. \A p \in DeviceOps : InUse(p)' => p = o
    <3>1. \A p \in DeviceOps : InUse(p) => p = o  BY <1>4, AdminIsAlone
    <3>. QED  BY <1>2, <3>1 DEF InUse
  <2>2. /\ lateCreate' => ownership' = "attempted"
        /\ ownership' = "attempted" => reservation'.state = "quarantined"
        /\ r.at \in ForwardSteps => ownership' = "owned"
        /\ r.at \in {"status", "verify"} /\ r.kind # "connect" => ownership' = "none"
        /\ reservation'.state # "none"
    BY <1>1, <1>4
  <2>. QED  BY <1>2, <2>1, <2>2 DEF OwnershipInv
<1>5. trampled' => OwnershipInv'  BY DEF OwnershipInv
<1>. QED  BY <1>1, <1>3, <1>4, <1>5

\* Such an operation ends with a failure.
LEMMA AdminFails ==
  ASSUME DeviceInv, NEW o \in DeviceOps, deviceOp[o].at \notin {"new", "done"} \cup UseSteps,
         deviceOp[o].kind \in AdminKinds, NEW error, Fails(o, error),
         NEW is \in Ownerships, SetOwnership(o, is), lateCreate' \in BOOLEAN,
         UNCHANGED effectVars, mapping' \in {"none", mapping},
         deviceOp[o].abandoned => UNCHANGED lateCreate,
         ~deviceOp[o].abandoned /\ ~trampled /\ lateCreate' => is = "attempted",
         is = "owned" => ownership = "owned"
  PROVE  DeviceInv'
<1>1. deviceOp[o].stage \in Effects  BY AtItsStep DEF OpRecord
<1>2. FailsAs(o, error, deviceOp[o].stage)  BY DEF Fails
<1>3. PICK r \in OpRecord :
           /\ deviceOp' = [deviceOp EXCEPT ![o] = r] /\ r.kind = deviceOp[o].kind /\ r.at = "done"
           /\ r.result = "failed" /\ OpIsOver(o, r) /\ RightStep(r)
           /\ r.stage \in {deviceOp[o].stage, "sent"}
           /\ instance' \in DeviceInstances
           /\ ~deviceOp[o].abandoned => reservation'.state = "quarantined"
  BY <1>1, <1>2, FailureIs
<1>4. OwnershipInv' /\ ownership' \in Ownerships /\ trampled' \in BOOLEAN
      /\ (trampled => trampled')
  BY <1>3, OwnershipIsSet DEF ForwardSteps
<1>5. PICK e \in Effected : e = acted[o] /\ acted' = [acted EXCEPT ![o] = e]
  BY DEF DeviceInv, DeviceTypes, effectVars
<1>6. acted[o] # "foreign" /\ (acted[o] # "no" => deviceOp[o].stage # "not-sent")
  BY AtItsStep DEF DeviceInv, EffectInv, UseSteps
<1>7. RightEffect(r, e)'  BY <1>3, <1>5, <1>6 DEF RightEffect
<1>8. o \notin lateEffect' /\ lateEffect' \in {lateEffect, lateEffect \cup {o}}
  BY DEF DeviceInv, EffectInv, effectVars
<1>9. mapping' \in PortEntries /\ (ownership' = "owned" /\ mapping' = "ours" => EntryIsOurs)
  BY DEF DeviceInv, DeviceTypes, EntryIsOurs, SetOwnership, PortEntries
<1>. QED  BY <1>3, <1>4, <1>5, <1>7, <1>8, <1>9, OpStepKeeps

\* Such an operation goes on.
LEMMA AdminGoesOn ==
  ASSUME DeviceInv, NEW o \in DeviceOps, deviceOp[o].at \notin {"new", "done"} \cup UseSteps,
         deviceOp[o].kind \in AdminKinds, NEW r, SameOp(o, r), Becomes(o, r), UNCHANGED reservation,
         r.at \in {"version", "reconcile", "status", "verify", "removed"},
         r.at \in {"version", "reconcile"} => r.kind = "connect",
         r.at = "status" => r.kind = "recover",
         NEW is \in Ownerships, SetOwnership(o, is),
         UNCHANGED <<lateCreate, effectVars>>, mapping' \in PortEntries,
         deviceOp[o].abandoned => mapping' \in {"none", mapping} /\ (is = "owned" => ownership = "owned"),
         ~deviceOp[o].abandoned /\ ~trampled =>
           /\ lateCreate => is = "attempted"
           /\ is = "attempted" => reservation.state = "quarantined"
           /\ r.at = "removed" => is = "owned"
           /\ r.at \in {"status", "verify"} /\ r.kind # "connect" => is = "none",
         instance' \in DeviceInstances
  PROVE  DeviceInv'
<1>1. deviceOp' = [deviceOp EXCEPT ![o] = r] /\ r \in OpRecord /\ r.kind = deviceOp[o].kind
  BY DEF Becomes, SameOp
<1>2. deviceOp[o].result = "none" /\ deviceOp[o].lease \in {"none", "held"}
  BY DEF DeviceInv, StepsInv
<1>3. RightStep(r)
  BY <1>1, <1>2 DEF SameOp, RightStep, ConnectSteps, ForwardSteps, ListSteps, UseSteps, CheckSteps
<1>4. OpContinues(o, r)  BY DEF SameOp, OpContinues
<1>5. ~deviceOp[o].abandoned => reservation.state # "none"  BY AdminIsAlone
<1>6. OwnershipInv' /\ ownership' \in Ownerships /\ trampled' \in BOOLEAN
      /\ (trampled => trampled')
  <2>1. lateCreate' \in BOOLEAN  BY DEF DeviceInv, DeviceTypes
  <2>2. r.at \in ForwardSteps => r.at = "removed"  BY DEF ForwardSteps
  <2>. QED  BY <1>1, <1>4, <1>5, <2>1, <2>2, OwnershipIsSet
<1>7. PICK e \in Effected : e = acted[o] /\ acted' = [acted EXCEPT ![o] = e]
  BY DEF DeviceInv, DeviceTypes, effectVars
<1>8. acted[o] # "foreign" /\ (acted[o] # "no" => deviceOp[o].stage # "not-sent")
  BY AtItsStep DEF DeviceInv, EffectInv, UseSteps
<1>9. RightEffect(r, e)'  BY <1>7, <1>8 DEF RightEffect, SameOp
<1>10. o \notin lateEffect' /\ lateEffect' \in {lateEffect, lateEffect \cup {o}}
  BY DEF DeviceInv, EffectInv, effectVars
<1>11. ownership' = "owned" /\ mapping' = "ours" =>
           EntryIsOurs \/ trampled' \/ (~deviceOp[o].abandoned /\ deviceOp[o].kind \in AdminKinds)
  BY DEF SetOwnership, EntryIsOurs
<1>12. lateCreate' \in BOOLEAN /\ r.at # "new"  BY DEF DeviceInv, DeviceTypes
<1>. QED  BY <1>1, <1>3, <1>4, <1>6, <1>7, <1>9, <1>10, <1>11, <1>12, OpStepKeeps

LEMMA CreateForwardKeeps ==
  ASSUME DeviceInv, NEW o \in DeviceOps, CreateForward(o)
  PROVE  DeviceInv'
<1>1. deviceOp[o].at = "create" /\ UNCHANGED effectVars  BY DEF CreateForward, Is
<1>2. deviceOp[o].kind = "connect" /\ deviceOp[o] \in OpRecord  BY <1>1, AtItsStep DEF ConnectSteps
<1>3. ~deviceOp[o].abandoned  BY <1>1 DEF DeviceInv, StepsInv
<1>4. reservation.state = "connecting"  BY <1>1, <1>2, <1>3, AdminIsAlone DEF AdminKinds
<1>5. ~trampled => ~lateCreate /\ ownership # "attempted"  BY <1>4 DEF DeviceInv, OwnershipInv
<1>6. deviceOp[o].at \notin {"new", "done"} \cup UseSteps /\ deviceOp[o].kind \in AdminKinds
  BY <1>1, <1>2 DEF UseSteps, ListSteps, CheckSteps, AdminKinds
<1>7. /\ mapping \in PortEntries /\ ownership \in Ownerships /\ lateCreate \in BOOLEAN
      /\ trampled \in BOOLEAN
  BY DEF DeviceInv, DeviceTypes
<1>8. CASE /\ mapping' = "ours" /\ SetOwnership(o, "owned")
           /\ Goes(o, "version") /\ UNCHANGED <<lateCreate, instance, reservation>>
  <2>1. PICK r : SameOp(o, r) /\ Becomes(o, r) /\ r.at = "version"
    BY <1>8, GoesIs DEF OpSteps, ConnectSteps
  <2>2. r.kind = "connect"  BY <1>2, <2>1 DEF SameOp
  <2>3. mapping' \in PortEntries  BY <1>8 DEF PortEntries
  <2>. QED  BY <1>1, <1>3, <1>5, <1>6, <1>8, <2>1, <2>2, <2>3, AtItsStep, AdminGoesOn DEF Ownerships
<1>9. CASE /\ mapping' \in PortEntries /\ Goes(o, "reconcile")
           /\ UNCHANGED <<lateCreate, ownership, trampled, instance, reservation>>
  <2>1. PICK r : SameOp(o, r) /\ Becomes(o, r) /\ r.at = "reconcile"
    BY <1>9, GoesIs DEF OpSteps, ConnectSteps
  <2>2. r.kind = "connect"  BY <1>2, <2>1 DEF SameOp
  <2>3. SetOwnership(o, ownership)  BY <1>3, <1>7, <1>9 DEF SetOwnership
  <2>. QED  BY <1>1, <1>3, <1>5, <1>6, <1>7, <1>9, <2>1, <2>2, <2>3, AtItsStep, AdminGoesOn
<1>10. CASE lateCreate' = TRUE /\ SetOwnership(o, "attempted") /\ Fails(o, "cleanup") /\ UNCHANGED mapping
  BY <1>1, <1>3, <1>6, <1>10, AdminFails DEF Ownerships
<1>11. mapping = "none" => \A m \in {"none", "ours"} : m \in PortEntries  BY DEF PortEntries
<1>. QED  BY <1>7, <1>8, <1>9, <1>10, <1>11 DEF CreateForward

LEMMA ReconcileCreateKeeps ==
  ASSUME DeviceInv, NEW o \in DeviceOps, ReconcileCreate(o)
  PROVE  DeviceInv'
<1>1. deviceOp[o].at = "reconcile" /\ UNCHANGED <<mapping, lateCreate, effectVars>>
  BY DEF ReconcileCreate, Is
<1>2. deviceOp[o].kind = "connect"  BY <1>1, AtItsStep DEF ConnectSteps
<1>3. deviceOp[o].at \notin {"new", "done"} \cup UseSteps /\ deviceOp[o].kind \in AdminKinds
  BY <1>1, <1>2 DEF UseSteps, ListSteps, CheckSteps, AdminKinds
<1>4. ~deviceOp[o].abandoned /\ ~trampled => ~lateCreate
  <2>1. ~deviceOp[o].abandoned => reservation.state = "connecting"
    BY <1>1, <1>2, AdminIsAlone DEF AdminKinds
  <2>. QED  BY <2>1 DEF DeviceInv, OwnershipInv
<1>5. lateCreate \in BOOLEAN  BY DEF DeviceInv, DeviceTypes
<1>6. PICK is \in {"none", "attempted"} : SetOwnership(o, is) /\ \E error : Fails(o, error)
  BY DEF ReconcileCreate
<1>7. PICK error : Fails(o, error)  BY <1>6
<1>. QED  BY <1>1, <1>3, <1>4, <1>5, <1>6, <1>7, AdminFails DEF Ownerships

LEMMA ForwardIsGoneKeeps ==
  ASSUME DeviceInv, NEW o \in DeviceOps, deviceOp[o].at \in ForwardSteps \cup {"look"},
         ForwardIsGone(o), SetOwnership(o, "none"), UNCHANGED <<mapping, lateCreate, effectVars>>,
         ~deviceOp[o].abandoned /\ ~trampled => ownership # "attempted"
  PROVE  DeviceInv'
<1>1. deviceOp[o].kind \in AdminKinds /\ deviceOp[o] \in OpRecord /\ deviceOp[o].at \notin {"new", "done"} \cup UseSteps
  BY AtItsStep DEF ForwardSteps, UseSteps, ListSteps, CheckSteps
<1>2. ~deviceOp[o].abandoned /\ ~trampled => ~lateCreate
  BY DEF DeviceInv, OwnershipInv
<1>3. lateCreate \in BOOLEAN /\ mapping \in PortEntries  BY DEF DeviceInv, DeviceTypes
<1>4. CASE deviceOp[o].kind = "connect"
  <2>1. Fails(o, deviceOp[o].error)  BY <1>4 DEF ForwardIsGone
  <2>. QED  BY <1>1, <1>2, <1>3, <2>1, AdminFails DEF Ownerships
<1>5. CASE deviceOp[o].kind = "recover"
  <2>1. Goes(o, "status") /\ UNCHANGED <<instance, reservation>>  BY <1>5 DEF ForwardIsGone, Then
  <2>2. PICK r : SameOp(o, r) /\ Becomes(o, r) /\ r.at = "status"
    BY <2>1, GoesIs DEF OpSteps
  <2>3. r.kind = "recover"  BY <1>5, <2>2 DEF SameOp
  <2>. QED  BY <1>1, <1>2, <1>3, <2>1, <2>2, <2>3, AtItsStep, AdminGoesOn DEF Ownerships
<1>6. CASE deviceOp[o].kind = "disconnect"
  <2>. DEFINE r == [deviceOp[o] EXCEPT !.at = "verify", !.stage = "acknowledged"]
  <2>1. Becomes(o, r) /\ instance' = [instance EXCEPT !.state = "disconnected"] /\ UNCHANGED reservation
    BY <1>6 DEF ForwardIsGone
  <2>2. SameOp(o, r) /\ r.at = "verify" /\ r.kind = "disconnect"
    BY <1>1, <1>6 DEF SameOp, OpRecord, OpSteps, Effects
  <2>. HIDE DEF r
  <2>3. instance' \in DeviceInstances
    BY <2>1, AtItsStep DEF DeviceInstances
  <2>. QED  BY <1>1, <1>2, <1>3, <2>1, <2>2, <2>3, AdminGoesOn DEF Ownerships
<1>. QED  BY <1>1, <1>4, <1>5, <1>6 DEF AdminKinds

LEMMA LookAtForwardKeeps ==
  ASSUME DeviceInv, NEW o \in DeviceOps, LookAtForward(o)
  PROVE  DeviceInv'
<1>1. CASE ownership = "none"
  <2>1. deviceOp[o].at = "look" /\ ForwardIsGone(o) /\ UNCHANGED <<mapping, lateCreate, ownership, trampled, effectVars>>
    BY <1>1 DEF LookAtForward, Is, forwardVars
  <2>2. trampled \in BOOLEAN  BY DEF DeviceInv, DeviceTypes
  <2>3. SetOwnership(o, "none")  BY <1>1, <2>1, <2>2 DEF SetOwnership
  <2>. QED  BY <1>1, <2>1, <2>3, ForwardIsGoneKeeps
<1>2. CASE ownership # "none"  BY <1>2, LookFails
<1>. QED  BY <1>1, <1>2

LEMMA DropOwnershipKeeps ==
  ASSUME DeviceInv, NEW o \in DeviceOps, DropOwnership(o)
  PROVE  DeviceInv'
<1>1. deviceOp[o].at = "removed" /\ UNCHANGED <<mapping, lateCreate, effectVars>> /\ SetOwnership(o, "none")
      /\ ForwardIsGone(o)
  BY DEF DropOwnership, Is
<1>2. ~deviceOp[o].abandoned /\ ~trampled => ownership = "owned"
  BY <1>1, AtItsStep DEF ForwardSteps
<1>. QED  BY <1>1, <1>2, ForwardIsGoneKeeps DEF ForwardSteps

LEMMA ActOnLookKeeps ==
  ASSUME DeviceInv, NEW o \in DeviceOps, ActOnLook(o)
  PROVE  DeviceInv'
<1>1. deviceOp[o].at = "looked" /\ UNCHANGED <<mapping, lateCreate, effectVars>>
  BY DEF ActOnLook, Is
<1>2. (~deviceOp[o].abandoned => trampled \/ ownership = "owned") /\ deviceOp[o].kind \in AdminKinds
      /\ acted[o] # "foreign"
  BY <1>1, AtItsStep DEF ForwardSteps, CheckSteps
<1>3. CASE SetOwnership(o, "none") /\ ForwardIsGone(o)
  BY <1>1, <1>2, <1>3, ForwardIsGoneKeeps DEF ForwardSteps
<1>4. CASE Fails(o, "cleanup") /\ UNCHANGED <<ownership, trampled>>
  BY <1>1, <1>4, PlainFailure DEF forwardVars
<1>5. CASE Then(o, "remove") /\ UNCHANGED <<ownership, trampled>>
  BY <1>1, <1>2, <1>5, AtItsStep, OpGoes
     DEF Then, forwardVars, OpSteps, ConnectSteps, ForwardSteps, ListSteps, UseSteps, CheckSteps
<1>. QED  BY <1>3, <1>4, <1>5 DEF ActOnLook

LEMMA RemoveForwardKeeps ==
  ASSUME DeviceInv, NEW o \in DeviceOps, RemoveForward(o)
  PROVE  DeviceInv'
<1>1. deviceOp[o].at = "remove" /\ UNCHANGED <<lateCreate, ownership, trampled, effectVars>>
  BY DEF RemoveForward, Is
<1>2. /\ deviceOp[o].kind \in AdminKinds /\ deviceOp[o].at \notin {"new", "done"} \cup UseSteps
      /\ ~deviceOp[o].abandoned => trampled \/ ownership = "owned"
  BY <1>1, AtItsStep DEF ForwardSteps, UseSteps, ListSteps, CheckSteps
<1>3. /\ mapping \in PortEntries /\ ownership \in Ownerships /\ lateCreate \in BOOLEAN
      /\ trampled \in BOOLEAN
  BY DEF DeviceInv, DeviceTypes
<1>4. SetOwnership(o, ownership)  BY <1>1, <1>3 DEF SetOwnership
<1>5. ~trampled /\ lateCreate => ownership = "attempted"  BY DEF DeviceInv, OwnershipInv
<1>6. CASE mapping' = "none" /\ Then(o, "removed")
  <2>1. PICK r : SameOp(o, r) /\ Becomes(o, r) /\ r.at = "removed"
    BY <1>6, GoesIs DEF Then, OpSteps, ForwardSteps
  <2>2. UNCHANGED <<instance, reservation>>  BY <1>6 DEF Then
  <2>3. "none" \in PortEntries  BY DEF PortEntries
  <2>. QED  BY <1>1, <1>2, <1>3, <1>4, <1>5, <1>6, <2>1, <2>2, <2>3, AtItsStep, AdminGoesOn
<1>7. CASE mapping' \in {"none", mapping} /\ \E error : Fails(o, error)
  <2>1. PICK error : Fails(o, error)  BY <1>7
  <2>. QED  BY <1>1, <1>2, <1>3, <1>4, <1>5, <1>7, <2>1, AdminFails
<1>. QED  BY <1>6, <1>7 DEF RemoveForward

\* An operation ends and its request had no further effect.
LEMMA OpEnds ==
  ASSUME DeviceInv, NEW o \in DeviceOps, deviceOp[o].at \notin {"new", "done"},
         NEW result \in {"ok", "failed"}, NEW reached \in Effects,
         NEW lease \in {"none", "held", "released", "quarantined"}, DeviceOpEnds(o, result, reached, lease),
         reached = "not-sent" => deviceOp[o].stage = "not-sent",
         acted[o] = "foreign" /\ result = "ok" => trampled,
         UNCHANGED <<forwardVars, effectVars, instance>>,
         deviceOp[o].abandoned => reservation' = reservation,
         ~deviceOp[o].abandoned =>
           /\ reservation' \in Reservations
           /\ reservation'.users = reservation.users \ {o}
           /\ reservation'.state \in {reservation.state, "quarantined"} \/ deviceOp[o].kind \in AdminKinds,
         ~deviceOp[o].abandoned /\ ~trampled =>
           /\ ownership = "attempted" => reservation'.state \in {reservation.state, "quarantined"}
           /\ reservation'.state = "none" => mapping # "ours"
  PROVE  DeviceInv'
<1>1. PICK r \in OpRecord :
           /\ deviceOp' = [deviceOp EXCEPT ![o] = r] /\ r.kind = deviceOp[o].kind /\ r.at = "done"
           /\ r.result = result /\ ~r.abandoned /\ r.stage = reached /\ r.lease = lease
  BY EndedOp
<1>2. OpIsOver(o, r)  BY <1>1 DEF OpIsOver
<1>3. RightStep(r)  BY <1>1 DEF RightStep, ConnectSteps, ForwardSteps, ListSteps, UseSteps, CheckSteps
<1>4. PICK e \in Effected : e = acted[o] /\ acted' = [acted EXCEPT ![o] = e]
  BY DEF DeviceInv, DeviceTypes, effectVars
<1>5. acted[o] # "no" => deviceOp[o].stage # "not-sent"  BY DEF DeviceInv, EffectInv
<1>6. RightEffect(r, e)  BY <1>1, <1>4, <1>5 DEF RightEffect, CheckSteps
<1>7. o \notin lateEffect' /\ lateEffect' \in {lateEffect, lateEffect \cup {o}} /\ UNCHANGED forwardVars
  BY DEF DeviceInv, EffectInv, effectVars
<1>8. instance' \in DeviceInstances  BY AtItsStep
<1>9. /\ deviceOp' = [deviceOp EXCEPT ![o] = r] /\ r.kind = deviceOp[o].kind
      /\ acted' = [acted EXCEPT ![o] = e]
  BY <1>1, <1>4
<1>10. ~deviceOp[o].abandoned /\ ~trampled =>
           /\ ownership = "attempted" => reservation'.state \in {reservation.state, "quarantined"}
           /\ reservation'.state = "none" => mapping # "ours"
  OBVIOUS
<1>. QED  BY <1>2, <1>3, <1>6, <1>7, <1>8, <1>9, <1>10, OpEndsThere

LEMMA VerificationFails ==
  ASSUME DeviceInv, NEW o \in DeviceOps, deviceOp[o].at \notin {"new", "done"},
         DeviceOpEnds(o, "failed", deviceOp[o].stage, "quarantined"), Leaves(o, "quarantined"),
         UNCHANGED <<forwardVars, effectVars, instance>>
  PROVE  DeviceInv'
<1>1. deviceOp[o].stage \in Effects  BY AtItsStep DEF OpRecord
<1>2. reservation \in Reservations
  BY DEF DeviceInv, DeviceTypes
<1>3. /\ deviceOp[o].abandoned => reservation' = reservation
      /\ ~deviceOp[o].abandoned =>
           /\ reservation' \in Reservations
           /\ reservation'.users = reservation.users \ {o}
           /\ reservation'.state = "quarantined"
  BY <1>2 DEF Leaves, Reservations
<1>. QED  BY <1>1, <1>3, OpEnds

LEMMA VerifyConnectedKeeps ==
  ASSUME DeviceInv, NEW o \in DeviceOps, VerifyConnected(o), deviceOp[o].kind = "connect"
  PROVE  DeviceInv'
<1>1. deviceOp[o].at = "verify" /\ UNCHANGED <<forwardVars, effectVars, instance>>
  BY DEF VerifyConnected, Is
<1>2. CASE DeviceOpEnds(o, "failed", deviceOp[o].stage, "quarantined") /\ Leaves(o, "quarantined")
  BY <1>1, <1>2, VerificationFails
<1>3. CASE /\ EntryIsOurs /\ DeviceOpEnds(o, "ok", "reconciled", "released")
           /\ reservation' = IF deviceOp[o].abandoned THEN reservation
                             ELSE [state |-> "active", ref |-> deviceOp[o].ref, users |-> {}]
  <2>1. deviceOp[o] \in OpRecord /\ acted[o] # "foreign"  BY <1>1, AtItsStep DEF CheckSteps
  <2>2. deviceOp[o].ref \in Nat  BY <2>1 DEF OpRecord
  <2>3. ~deviceOp[o].abandoned => reservation.users = {o}
    BY <1>1, AdminIsAlone DEF AdminKinds
  <2>4. ~deviceOp[o].abandoned =>
           /\ reservation' \in Reservations
           /\ reservation'.users = reservation.users \ {o} /\ reservation'.state = "active"
    BY <1>3, <2>2, <2>3 DEF Reservations
  <2>5. deviceOp[o].kind \in AdminKinds /\ ownership # "attempted" /\ "reconciled" \in Effects
    BY <1>3 DEF AdminKinds, EntryIsOurs, Effects
  <2>. QED  BY <1>1, <1>3, <2>1, <2>4, <2>5, OpEnds
<1>. QED  BY <1>2, <1>3 DEF VerifyConnected

LEMMA VerifyRemovedKeeps ==
  ASSUME DeviceInv, NEW o \in DeviceOps, VerifyRemoved(o), deviceOp[o].kind \in {"disconnect", "recover"}
  PROVE  DeviceInv'
<1>1. deviceOp[o].at = "verify" /\ UNCHANGED <<forwardVars, effectVars, instance>>
  BY DEF VerifyRemoved, Is
<1>2. CASE DeviceOpEnds(o, "failed", deviceOp[o].stage, "quarantined") /\ Leaves(o, "quarantined")
  BY <1>1, <1>2, VerificationFails
<1>3. CASE mapping = "none" /\ Succeeds(o, "none")
  <2>1. acted[o] # "foreign"  BY <1>1, AtItsStep DEF CheckSteps
  <2>2. reservation \in Reservations
    BY DEF DeviceInv, DeviceTypes
  <2>3. /\ deviceOp[o].abandoned => reservation' = reservation
        /\ ~deviceOp[o].abandoned =>
             /\ reservation' \in Reservations
             /\ reservation'.users = reservation.users \ {o}
    BY <1>3, <2>2 DEF Succeeds, Leaves, Reservations
  <2>4. deviceOp[o].kind \in AdminKinds /\ "reconciled" \in Effects  BY DEF AdminKinds, Effects
  <2>5. ~deviceOp[o].abandoned /\ ~trampled => ownership # "attempted"
    BY <1>1, AtItsStep
  <2>6. DeviceOpEnds(o, "ok", "reconciled", "released")  BY <1>3 DEF Succeeds
  <2>. QED  BY <1>1, <1>3, <2>1, <2>3, <2>4, <2>5, <2>6, OpEnds
<1>. QED  BY <1>2, <1>3 DEF VerifyRemoved

LEMMA ResultsKeep ==
  ASSUME DeviceInv, NEW o \in DeviceOps, deviceOp[o].at \in {"drive.post", "check.post"}, ~deviceOp[o].aborted,
         EntryIsOurs, Results(o), UNCHANGED <<forwardVars, effectVars>>
  PROVE  DeviceInv'
<1>1. /\ acted[o] = "foreign" => trampled
      /\ deviceOp[o].at \notin {"new", "done"} /\ ~deviceOp[o].abandoned
  BY AtItsStep DEF CheckSteps
<1>2. CASE Succeeds(o, reservation.state) /\ UNCHANGED instance
  <2>2. reservation \in Reservations
    BY DEF DeviceInv, DeviceTypes
  <2>3. /\ reservation' \in Reservations
        /\ reservation'.users = reservation.users \ {o} /\ reservation'.state = reservation.state
    BY <1>1, <1>2, <2>2 DEF Succeeds, Leaves, Reservations
  <2>4. reservation.state # "none"  BY <1>1 DEF DeviceInv, ReservedInv, InUse
  <2>5. DeviceOpEnds(o, "ok", "reconciled", "released") /\ "reconciled" \in Effects
    BY <1>2 DEF Succeeds, Effects
  <2>. QED  BY <1>1, <1>2, <2>3, <2>4, <2>5, OpEnds
<1>3. CASE FailsAs(o, "plain", "reconciled")
  <2>1. PICK e \in Effected : acted' = [acted EXCEPT ![o] = e]
    BY DEF DeviceInv, DeviceTypes, effectVars
  <2>2. "reconciled" \in Effects /\ UNCHANGED <<forwardVars, lateEffect>>  BY DEF Effects, effectVars
  <2>. QED  BY <1>1, <1>3, <2>1, <2>2, FailureKeeps
<1>. QED  BY <1>2, <1>3 DEF Results

LEMMA BeforeRequestKeeps ==
  ASSUME DeviceInv, NEW o \in DeviceOps, NEW at \in {"list.pre", "drive.pre", "check.pre"},
         NEW next \in {"list", "drive", "check"},
         (at = "list.pre") <=> (next = "list"), (at = "drive.pre") <=> (next = "drive"),
         BeforeRequest(o, at, next)
  PROVE  DeviceInv'
<1>1. deviceOp[o].at = at /\ UNCHANGED <<forwardVars, effectVars>>  BY DEF BeforeRequest, AssertCurrent, Is
<1>2. CASE \E error : Fails(o, error)  BY <1>1, <1>2, PlainFailure
<1>3. CASE Then(o, next)
  <2>1. deviceOp[o].kind \in UseKinds /\ (acted[o] = "foreign" => at = "check.pre" /\ trampled)
        /\ (at = "drive.pre" /\ deviceOp[o].kind # "read" => deviceOp[o].stage # "not-sent")
        /\ (at = "list.pre" => deviceOp[o].kind # "open")
    BY <1>1, AtItsStep DEF UseSteps, ListSteps, CheckSteps
  <2>2. Goes(o, next) /\ UNCHANGED <<instance, reservation>>  BY <1>3 DEF Then
  <2>3. /\ next \in OpSteps \ {"new", "done"} /\ next \notin ConnectSteps
        /\ next \notin ForwardSteps \cup {"look", "verify", "create", "status"}
        /\ (next \in ListSteps => at = "list.pre") /\ (next \in CheckSteps <=> at = "check.pre")
        /\ (next \in {"drive.pre", "drive"} => at = "drive.pre") /\ next # "drive.post"
    BY DEF OpSteps, ConnectSteps, ForwardSteps, UseSteps, ListSteps, CheckSteps
  <2>4. at \notin {"new", "done"}  OBVIOUS
  <2>. QED  BY <1>1, <2>1, <2>2, <2>3, <2>4, AtItsStep, OpGoes
<1>. QED  BY <1>2, <1>3 DEF BeforeRequest, AssertCurrent

LEMMA ReadsKeeps ==
  ASSUME DeviceInv, NEW o \in DeviceOps, NEW at \in {"list", "drive", "check"},
         NEW next \in {"list.post", "drive.post", "check.post"},
         (at = "list") <=> (next = "list.post"), (at = "drive") <=> (next = "drive.post"),
         Reads(o, at, next)
  PROVE  DeviceInv'
<1>1. deviceOp[o].at = at /\ UNCHANGED <<forwardVars, effectVars>>  BY DEF Reads, Is
<1>2. CASE \E error : Fails(o, error)  BY <1>1, <1>2, PlainFailure
<1>3. CASE Then(o, next)
  <2>1. deviceOp[o].kind \in UseKinds /\ (acted[o] = "foreign" => at = "check" /\ trampled)
        /\ (at = "list" => deviceOp[o].kind # "open")
    BY <1>1, AtItsStep DEF UseSteps, ListSteps, CheckSteps
  <2>2. Goes(o, next) /\ UNCHANGED <<instance, reservation>>  BY <1>3 DEF Then
  <2>3. /\ next \in OpSteps \ {"new", "done"} /\ next \notin ConnectSteps
        /\ next \notin ForwardSteps \cup {"look", "verify", "create", "status"}
        /\ (next \in ListSteps => at = "list") /\ (next \in CheckSteps <=> at = "check")
        /\ next \notin {"drive.pre", "drive"}
    BY DEF OpSteps, ConnectSteps, ForwardSteps, UseSteps, ListSteps, CheckSteps
  <2>4. at \notin {"new", "done"}  OBVIOUS
  <2>. QED  BY <1>1, <2>1, <2>2, <2>3, <2>4, AtItsStep, OpGoes
<1>4. CASE Broken(o)  BY <1>1, <1>4, BrokenKeeps
<1>. QED  BY <1>2, <1>3, <1>4 DEF Reads

LEMMA ListTargetKeeps ==
  ASSUME DeviceInv, NEW o \in DeviceOps, ListTarget(o)
  PROVE  DeviceInv'
<1>1. CASE BeforeRequest(o, "list.pre", "list")  BY <1>1, BeforeRequestKeeps
<1>2. CASE Reads(o, "list", "list.post")  BY <1>2, ReadsKeeps
<1>. DEFINE r == [deviceOp[o] EXCEPT !.at = "drive.pre",
                    !.stage = IF deviceOp[o].kind = "act" THEN "sent" ELSE @]
            toDrive == Becomes(o, r) /\ UNCHANGED <<instance, reservation>>
<1>3. CASE AfterRequest(o, "list.post", toDrive)
  <2>1. deviceOp[o].at = "list.post" /\ UNCHANGED <<forwardVars, effectVars>>
    BY <1>3 DEF AfterRequest, AssertCurrent, Is
  <2>2. CASE \E error : Fails(o, error)  BY <2>1, <2>2, PlainFailure
  <2>3. CASE toDrive
    <3>1. deviceOp[o] \in OpRecord /\ acted[o] # "foreign" /\ deviceOp[o].kind \in {"act", "read"}
      BY <2>1, AtItsStep DEF ListSteps, UseSteps, CheckSteps, UseKinds
    <3>. DEFINE reached == IF deviceOp[o].kind = "act" THEN "sent" ELSE deviceOp[o].stage
    <3>2. reached \in Effects /\ (reached = "not-sent" => deviceOp[o].stage = "not-sent" /\ deviceOp[o].kind = "read")
      BY <3>1 DEF OpRecord, Effects
    <3>3. r = [deviceOp[o] EXCEPT !.at = "drive.pre", !.stage = reached]  OBVIOUS
    <3>. HIDE DEF reached
    <3>4. SameOp(o, r) /\ r.at = "drive.pre" /\ r.stage = reached /\ r.kind = deviceOp[o].kind
      BY <3>1, <3>2, <3>3 DEF SameOp, OpRecord, OpSteps, UseSteps
    <3>5. Becomes(o, r) /\ UNCHANGED <<instance, reservation>>  BY <2>3
    <3>. HIDE DEF r
    <3>6. RightPlace(o, r, acted[o])
      BY <3>1, <3>2, <3>4
         DEF RightPlace, OpSteps, ConnectSteps, ForwardSteps, ListSteps, UseSteps, CheckSteps, UseKinds
    <3>. QED  BY <2>1, <3>4, <3>5, <3>6, AtItsStep, OpMoves
  <2>. QED  BY <1>3, <2>2, <2>3 DEF AfterRequest, AssertCurrent
<1>4. ListTarget(o) => \/ BeforeRequest(o, "list.pre", "list") \/ Reads(o, "list", "list.post")
                       \/ AfterRequest(o, "list.post", toDrive)
  BY DEF ListTarget
<1>. QED  BY <1>1, <1>2, <1>3, <1>4

LEMMA NavigateKeeps ==
  ASSUME DeviceInv, NEW o \in DeviceOps, Navigate(o)
  PROVE  DeviceInv'
<1>1. deviceOp[o].at = "drive" /\ deviceOp[o].kind = "act" /\ UNCHANGED forwardVars  BY DEF Navigate, Is
<1>2. deviceOp[o] \in OpRecord /\ acted[o] # "foreign" /\ deviceOp[o].stage # "not-sent"
  BY <1>1, AtItsStep DEF CheckSteps
<1>3. mapping \in PortEntries /\ "sent" \in Effects /\ "acknowledged" \in Effects
  BY DEF DeviceInv, DeviceTypes, Effects
<1>4. PICK e \in Effected : e = acted[o] /\ acted = [acted EXCEPT ![o] = e]
  BY DEF DeviceInv, DeviceTypes
<1>. DEFINE landed == acted' = [acted EXCEPT ![o] = mapping] /\ UNCHANGED lateEffect
            r == [deviceOp[o] EXCEPT !.at = "drive.post", !.stage = "acknowledged"]
<1>5. CASE ~Aborted(o) /\ mapping # "none" /\ landed /\ Becomes(o, r) /\ UNCHANGED <<instance, reservation>>
  <2>1. SameOp(o, r) /\ r.at = "drive.post" /\ r.stage = "acknowledged" /\ r.kind = "act"
    BY <1>1, <1>2, <1>3 DEF SameOp, OpRecord, OpSteps, UseSteps
  <2>. HIDE DEF r
  <2>2. RightPlace(o, r, mapping)
    BY <2>1
       DEF RightPlace, EntryIsOurs, OpSteps, ConnectSteps, ForwardSteps, ListSteps, UseSteps, CheckSteps, UseKinds
  <2>3. mapping \in Effected  BY <1>3, <1>5 DEF PortEntries, Effected
  <2>. QED  BY <1>1, <1>5, <2>1, <2>2, <2>3, AtItsStep, OpActs
<1>6. CASE mapping # "none" /\ landed /\ \E error : FailsAs(o, error, "acknowledged")
  <2>1. mapping \in Effected  BY <1>3, <1>6 DEF PortEntries, Effected
  <2>2. PICK error : FailsAs(o, error, "acknowledged")  BY <1>6
  <2>. QED  BY <1>1, <1>3, <1>6, <2>1, <2>2, FailureKeeps
<1>7. CASE /\ lateEffect' = lateEffect \cup {o} /\ UNCHANGED acted
           /\ \E error : FailsAs(o, error, "sent")
  <2>1. PICK error : FailsAs(o, error, "sent")  BY <1>7
  <2>2. acted' = [acted EXCEPT ![o] = e]  BY <1>4, <1>7
  <2>3. deviceOp[o].at \notin {"new", "done"} /\ lateEffect' = lateEffect \cup {o}  BY <1>1, <1>7
  <2>4. "sent" \in Effects /\ UNCHANGED forwardVars  BY <1>1, <1>3
  <2>. QED  BY <2>1, <2>2, <2>3, <2>4, FailureKeeps
<1>8. CASE Fails(o, "plain") /\ UNCHANGED effectVars
  BY <1>1, <1>8, PlainFailure
<1>. QED  BY <1>5, <1>6, <1>7, <1>8 DEF Navigate

LEMMA OpenTargetKeeps ==
  ASSUME DeviceInv, NEW o \in DeviceOps, OpenTarget(o)
  PROVE  DeviceInv'
<1>1. deviceOp[o].at = "drive" /\ deviceOp[o].kind = "open" /\ UNCHANGED <<forwardVars, lateEffect>>
  BY DEF OpenTarget, Is
<1>2. deviceOp[o] \in OpRecord /\ acted[o] # "foreign" /\ deviceOp[o].stage # "not-sent"
      /\ deviceOp[o].stage \in Effects
  BY <1>1, AtItsStep DEF CheckSteps, OpRecord
<1>3. PICK before \in Effected : before = acted[o] /\ acted = [acted EXCEPT ![o] = before]
  BY DEF DeviceInv, DeviceTypes
<1>4. CASE acted' = [acted EXCEPT ![o] = "ours"] /\ Then(o, "drive.post")
  <2>1. PICK r : SameOp(o, r) /\ Becomes(o, r) /\ r.at = "drive.post" /\ r.stage = deviceOp[o].stage
    BY <1>4, GoesIs DEF Then, OpSteps, UseSteps
  <2>2. r.kind = "open"  BY <1>1, <2>1 DEF SameOp
  <2>3. RightPlace(o, r, "ours")
    BY <2>1, <2>2
       DEF RightPlace, OpSteps, ConnectSteps, ForwardSteps, ListSteps, UseSteps, CheckSteps, UseKinds
  <2>4. UNCHANGED <<instance, reservation>>  BY <1>4 DEF Then
  <2>. QED  BY <1>1, <1>2, <1>4, <2>1, <2>3, <2>4, AtItsStep, OpActs DEF Effected
<1>5. CASE /\ acted' \in {acted, [acted EXCEPT ![o] = IF phone.is = "there" THEN "ours" ELSE @]}
           /\ \E error : Fails(o, error)
  <2>1. PICK error : Fails(o, error)  BY <1>5
  <2>2. FailsAs(o, error, deviceOp[o].stage)  BY <2>1 DEF Fails
  <2>3. \E e \in Effected : acted' = [acted EXCEPT ![o] = e]
    <3>1. CASE acted' = acted \/ phone.is # "there"  BY <1>3, <1>5, <3>1
    <3>2. CASE acted' = [acted EXCEPT ![o] = "ours"]  BY <3>2 DEF Effected
    <3>. QED  BY <1>5, <3>1, <3>2
  <2>4. PICK e \in Effected : acted' = [acted EXCEPT ![o] = e]  BY <2>3
  <2>. QED  BY <1>1, <1>2, <2>2, <2>4, FailureKeeps
<1>. QED  BY <1>4, <1>5 DEF OpenTarget, Broken

LEMMA DriveKeeps ==
  ASSUME DeviceInv, NEW o \in DeviceOps, Drive(o)
  PROVE  DeviceInv'
<1>1. CASE BeforeRequest(o, "drive.pre", "drive")  BY <1>1, BeforeRequestKeeps
<1>2. CASE Reads(o, "drive", "drive.post")  BY <1>2, ReadsKeeps
<1>. DEFINE r == [deviceOp[o] EXCEPT !.at = "check.pre", !.stage = "acknowledged"]
            next == IF deviceOp[o].kind = "read" THEN Results(o)
                    ELSE Becomes(o, r) /\ UNCHANGED <<instance, reservation>>
<1>3. CASE AfterRequest(o, "drive.post", next)
  <2>1. deviceOp[o].at = "drive.post" /\ UNCHANGED <<forwardVars, effectVars>>
    BY <1>3 DEF AfterRequest, AssertCurrent, Is
  <2>2. CASE \E error : Fails(o, error)  BY <2>1, <2>2, PlainFailure
  <2>3. CASE ~Aborted(o) /\ EntryIsOurs /\ Results(o)
    BY <2>1, <2>3, ResultsKeep DEF Aborted
  <2>4. CASE /\ ~Aborted(o) /\ EntryIsOurs /\ Becomes(o, r) /\ UNCHANGED <<instance, reservation>>
    <3>1. deviceOp[o] \in OpRecord /\ (acted[o] = "foreign" => trampled) /\ deviceOp[o].kind \in UseKinds
      BY <2>1, <2>4, AtItsStep DEF UseSteps, Aborted
    <3>2. SameOp(o, r) /\ r.at = "check.pre" /\ r.stage = "acknowledged" /\ r.kind = deviceOp[o].kind
      BY <3>1 DEF SameOp, OpRecord, OpSteps, UseSteps, CheckSteps, Effects
    <3>. HIDE DEF r
    <3>3. RightPlace(o, r, acted[o])
      BY <3>1, <3>2
         DEF RightPlace, OpSteps, ConnectSteps, ForwardSteps, ListSteps, UseSteps, CheckSteps
    <3>. QED  BY <2>1, <2>4, <3>2, <3>3, AtItsStep, OpMoves
  <2>. QED  BY <1>3, <2>2, <2>3, <2>4 DEF AfterRequest, AssertCurrent
<1>4. Drive(o) => \/ BeforeRequest(o, "drive.pre", "drive") \/ Navigate(o) \/ OpenTarget(o)
                  \/ Reads(o, "drive", "drive.post") \/ AfterRequest(o, "drive.post", next)
  BY DEF Drive
<1>. QED  BY <1>1, <1>2, <1>3, <1>4, NavigateKeeps, OpenTargetKeeps

LEMMA CheckTargetKeeps ==
  ASSUME DeviceInv, NEW o \in DeviceOps, CheckTarget(o)
  PROVE  DeviceInv'
<1>1. CASE BeforeRequest(o, "check.pre", "check")  BY <1>1, BeforeRequestKeeps
<1>2. CASE Reads(o, "check", "check.post")  BY <1>2, ReadsKeeps
<1>3. CASE AfterRequest(o, "check.post", Results(o))
  <2>1. deviceOp[o].at = "check.post" /\ UNCHANGED <<forwardVars, effectVars>>
    BY <1>3 DEF AfterRequest, AssertCurrent, Is
  <2>2. CASE \E error : Fails(o, error)  BY <2>1, <2>2, PlainFailure
  <2>3. CASE ~Aborted(o) /\ EntryIsOurs /\ Results(o)
    BY <2>1, <2>3, ResultsKeep DEF Aborted
  <2>. QED  BY <1>3, <2>2, <2>3 DEF AfterRequest, AssertCurrent
<1>. QED  BY <1>1, <1>2, <1>3 DEF CheckTarget

\* What a new operation finds: nothing that would be in its way.
LEMMA NobodyIsInTheWay ==
  ASSUME DeviceInv, NEW o \in DeviceOps, deviceOp[o].at = "new", NEW kind \in DeviceKinds, Admits(kind),
         NEW p \in DeviceOps, InUse(p)
  PROVE  deviceOp[p].kind \notin AdminKinds /\ kind \notin AdminKinds
<1>1. p \in reservation.users /\ reservation.state # "none"  BY DEF DeviceInv, ReservedInv
<1>2. kind \in {"open", "act", "read"}  BY <1>1 DEF Admits, DeviceKinds
<1>3. reservation.state = "active" /\ deviceOp[p].kind # "disconnect"  BY <1>1, <1>2 DEF Admits
<1>4. deviceOp[p].kind \notin {"connect", "recover"}  BY <1>3 DEF DeviceInv, ReservedInv
<1>. QED  BY <1>2, <1>3, <1>4 DEF AdminKinds

LEMMA AdmitDeviceOpKeeps ==
  ASSUME DeviceInv, NEW o \in DeviceOps, NEW kind \in DeviceKinds, AdmitDeviceOp(o, kind)
  PROVE  DeviceInv'
<1>. DEFINE ref == IF kind = "connect" THEN instance.gen ELSE reservation.ref
            r == [NewOp EXCEPT !.kind = kind, !.at = "begin", !.ref = ref, !.lease = "held"]
            state == IF kind = "connect" THEN "connecting" ELSE reservation.state
<1>1. /\ deviceOp[o].at = "new" /\ Admits(kind) /\ deviceOp' = [deviceOp EXCEPT ![o] = r]
      /\ reservation' = [state |-> state, ref |-> ref, users |-> reservation.users \cup {o}]
      /\ UNCHANGED <<mapping, lateCreate, ownership, trampled, acted, lateEffect, instance>>
  BY DEF AdmitDeviceOp, Is, Becomes, forwardVars, effectVars
<1>2. ref \in Nat /\ reservation.state \in {"none", "connecting", "active", "quarantined"}
      /\ reservation.users \subseteq DeviceOps
  BY DEF DeviceInv, DeviceTypes, Reservations, DeviceInstances
<1>3. NewOp \in OpRecord /\ NewOp.abandoned = FALSE /\ NewOp.aborted = FALSE /\ NewOp.stage = "not-sent"
      /\ NewOp.result = "none"
  BY DEF NewOp, OpRecord, OpSteps, Effects, PortEntries
<1>. HIDE DEF ref
<1>4. r \in OpRecord /\ r.kind = kind /\ r.at = "begin" /\ r.stage = "not-sent" /\ r.result = "none"
      /\ r.lease = "held" /\ r.abandoned = FALSE /\ r.aborted = FALSE
  BY <1>2, <1>3 DEF OpRecord, OpSteps, DeviceKinds
<1>5. /\ kind = "connect" => reservation.state = "none"
      /\ kind = "recover" => reservation.state = "quarantined"
      /\ state # "none" /\ (kind = "connect" => state = "connecting") /\ (kind = "recover" => state = "quarantined")
      /\ state \in {reservation.state, "connecting"} /\ state \in {"none", "connecting", "active", "quarantined"}
  BY <1>1, <1>2 DEF Admits, DeviceKinds
<1>. HIDE DEF r, state
<1>6. deviceOp' \in [DeviceOps -> OpRecord] /\ deviceOp'[o] = r
      /\ \A p \in DeviceOps : p # o => deviceOp'[p] = deviceOp[p]
  BY <1>1, <1>4 DEF DeviceInv, DeviceTypes
<1>7. kind # "none" /\ acted[o] = "no" /\ o \notin lateEffect
  BY <1>1 DEF DeviceKinds, DeviceInv, EffectInv, DeviceTypes
<1>8. InUse(o)' /\ \A p \in DeviceOps : p # o => (InUse(p)' <=> InUse(p))
  BY <1>4, <1>6 DEF InUse
<1>9. \A p \in DeviceOps : InUse(p) => deviceOp[p].kind \notin AdminKinds /\ kind \notin AdminKinds
  BY <1>1, NobodyIsInTheWay
<1>10. DeviceTypes'
  <2>1. reservation' \in Reservations
    BY <1>1, <1>2, <1>5 DEF Reservations
  <2>. QED  BY <1>1, <1>6, <2>1 DEF DeviceInv, DeviceTypes
<1>11. StepsInv'
  <2>1. ASSUME NEW p \in DeviceOps
        PROVE  /\ IF deviceOp'[p].at = "new" THEN ~deviceOp'[p].aborted ELSE deviceOp'[p].kind # "none"
               /\ deviceOp'[p].at \in ConnectSteps => deviceOp'[p].kind = "connect"
               /\ deviceOp'[p].at \in ForwardSteps \cup {"look", "verify"} => deviceOp'[p].kind \in AdminKinds
               /\ deviceOp'[p].at = "status" => deviceOp'[p].kind = "recover"
               /\ deviceOp'[p].at \in UseSteps => deviceOp'[p].kind \in UseKinds
               /\ deviceOp'[p].at \in ListSteps => deviceOp'[p].kind # "open"
               /\ deviceOp'[p].abandoned => deviceOp'[p].aborted
               /\ deviceOp'[p].at = "create" => ~deviceOp'[p].abandoned
               /\ deviceOp'[p].at # "done" => deviceOp'[p].result = "none" /\ deviceOp'[p].lease \in {"none", "held"}
    <3>1. CASE p = o
      BY <1>4, <1>6, <1>7, <3>1 DEF ConnectSteps, ForwardSteps, UseSteps, ListSteps, CheckSteps
    <3>2. CASE p # o  BY <1>6, <3>2 DEF DeviceInv, StepsInv
    <3>. QED  BY <3>1, <3>2
  <2>. QED  BY <2>1 DEF StepsInv
<1>12. ReservedInv'
  <2>1. ASSUME NEW p \in DeviceOps  PROVE p \in reservation'.users <=> InUse(p)'
    <3>1. p \in reservation.users <=> InUse(p)  BY DEF DeviceInv, ReservedInv
    <3>. QED  BY <1>1, <1>8, <3>1
  <2>2. ASSUME NEW p \in DeviceOps, InUse(p)'
        PROVE  /\ reservation'.state # "none"
               /\ deviceOp'[p].kind \in AdminKinds => \A q \in DeviceOps : InUse(q)' => q = p
               /\ deviceOp'[p].kind = "connect" => reservation'.state = "connecting"
               /\ deviceOp'[p].kind = "recover" => reservation'.state = "quarantined"
    <3>1. CASE p = o
      <4>1. kind \in AdminKinds => \A q \in DeviceOps : InUse(q)' => q = o  BY <1>8, <1>9
      <4>. QED  BY <1>1, <1>4, <1>5, <1>6, <3>1, <4>1
    <3>2. CASE p # o
      <4>1. InUse(p) /\ deviceOp'[p] = deviceOp[p]  BY <1>6, <1>8, <2>2, <3>2
      <4>2. deviceOp[p].kind \notin AdminKinds  BY <1>9, <4>1
      <4>. QED  BY <1>1, <1>5, <4>1, <4>2 DEF AdminKinds
    <3>. QED  BY <3>1, <3>2
  <2>. QED  BY <2>1, <2>2 DEF ReservedInv
<1>13. OwnershipInv'
  <2>1. ASSUME NEW p \in DeviceOps, InUse(p)', ~trampled
        PROVE  /\ deviceOp'[p].at \in ForwardSteps => ownership = "owned"
               /\ deviceOp'[p].at \in {"status", "verify"} /\ deviceOp'[p].kind # "connect" => ownership = "none"
    <3>1. CASE p = o  BY <1>4, <1>6, <3>1 DEF ForwardSteps
    <3>2. CASE p # o  BY <1>6, <1>8, <2>1, <3>2 DEF DeviceInv, OwnershipInv
    <3>. QED  BY <3>1, <3>2
  <2>2. ~trampled => /\ lateCreate => ownership = "attempted"
                     /\ ownership = "attempted" => state = "quarantined"
    BY <1>5 DEF DeviceInv, OwnershipInv, state
  <2>. QED  BY <1>1, <1>5, <2>1, <2>2 DEF OwnershipInv
<1>14. EffectInv'
  <2>1. ASSUME NEW p \in DeviceOps
        PROVE  /\ acted[p] # "no" => deviceOp'[p].stage # "not-sent" /\ deviceOp'[p].at # "new"
               /\ deviceOp'[p].at \in {"drive.pre", "drive"} /\ deviceOp'[p].kind # "read" =>
                    deviceOp'[p].stage # "not-sent"
               /\ p \in lateEffect => /\ deviceOp'[p].at = "done" /\ deviceOp'[p].result = "failed"
                                      /\ deviceOp'[p].stage = "sent" /\ deviceOp'[p].lease = "quarantined"
               /\ acted[p] = "foreign" =>
                    /\ deviceOp'[p].at \in CheckSteps => trampled
                    /\ deviceOp'[p].at = "drive.post" /\ ~deviceOp'[p].aborted => trampled \/ ~EntryIsOurs
                    /\ deviceOp'[p].result = "ok" => trampled
                    /\ deviceOp'[p].at \in {"drive.post", "done"} \cup CheckSteps
    <3>1. CASE p = o  BY <1>4, <1>6, <1>7, <3>1
    <3>2. CASE p # o  BY <1>6, <3>2 DEF DeviceInv, EffectInv
    <3>. QED  BY <3>1, <3>2
  <2>2. EntryIsOurs' <=> EntryIsOurs  BY <1>1 DEF EntryIsOurs
  <2>. QED  BY <1>1, <2>1, <2>2 DEF EffectInv
<1>. QED  BY <1>10, <1>11, <1>12, <1>13, <1>14 DEF DeviceInv

\* An operation is aborted or given up, and its steps are as before.
LEMMA GivingUpKeeps ==
  ASSUME DeviceInv, NEW o \in DeviceOps, Cancel(o) \/ Abandon(o)
  PROVE  DeviceInv'
<1>1. UNCHANGED <<mapping, lateCreate, ownership, trampled, acted, lateEffect, instance>>
  BY DEF Cancel, Abandon, forwardVars, effectVars
<1>2. deviceOp[o].at \notin {"new", "done"} /\ deviceOp[o] \in OpRecord  
  BY AtItsStep DEF Cancel, Abandon, DeviceInv, StepsInv
<1>3. PICK r \in OpRecord :
        /\ deviceOp' = [deviceOp EXCEPT ![o] = r]
        /\ r.kind = deviceOp[o].kind /\ r.at = deviceOp[o].at /\ r.stage = deviceOp[o].stage
        /\ r.result = deviceOp[o].result /\ r.lease = deviceOp[o].lease
        /\ r.aborted
        /\ \/ r.abandoned = deviceOp[o].abandoned /\ reservation' = reservation
           \/ r.abandoned /\ r.at # "create" /\ ~deviceOp[o].abandoned /\ Leaves(o, "quarantined")
  <2>1. CASE Cancel(o)
    <3>. DEFINE r == [deviceOp[o] EXCEPT !.aborted = TRUE]
    <3>1. /\ r \in OpRecord /\ r.kind = deviceOp[o].kind /\ r.at = deviceOp[o].at /\ r.stage = deviceOp[o].stage
          /\ r.result = deviceOp[o].result /\ r.lease = deviceOp[o].lease /\ r.aborted
          /\ r.abandoned = deviceOp[o].abandoned
      BY <1>2 DEF OpRecord
    <3>2. deviceOp' = [deviceOp EXCEPT ![o] = r] /\ reservation' = reservation  BY <2>1 DEF Cancel, Becomes
    <3>. QED  BY <3>1, <3>2
  <2>2. CASE Abandon(o)
    <3>. DEFINE r == [deviceOp[o] EXCEPT !.abandoned = TRUE]
    <3>1. /\ r \in OpRecord /\ r.kind = deviceOp[o].kind /\ r.at = deviceOp[o].at /\ r.stage = deviceOp[o].stage
          /\ r.result = deviceOp[o].result /\ r.lease = deviceOp[o].lease /\ r.aborted = deviceOp[o].aborted
          /\ r.abandoned
      BY <1>2 DEF OpRecord
    <3>2. /\ deviceOp' = [deviceOp EXCEPT ![o] = r] /\ Leaves(o, "quarantined")
          /\ deviceOp[o].aborted /\ ~deviceOp[o].abandoned /\ deviceOp[o].at # "create"
      BY <2>2 DEF Abandon, Becomes
    <3>. HIDE DEF r
    <3>. QED  BY <3>1, <3>2
  <2>. QED  BY <2>1, <2>2
<1>4. deviceOp' \in [DeviceOps -> OpRecord] /\ deviceOp'[o] = r
      /\ \A p \in DeviceOps : p # o => deviceOp'[p] = deviceOp[p]
  BY <1>3 DEF DeviceInv, DeviceTypes
<1>5. \/ reservation' = reservation /\ r.abandoned = deviceOp[o].abandoned
      \/ /\ r.abandoned /\ r.at # "create" /\ ~deviceOp[o].abandoned
         /\ reservation' = [reservation EXCEPT !.users = @ \ {o}, !.state = "quarantined"]
  BY <1>3 DEF Leaves
<1>6. reservation \in Reservations
  BY DEF DeviceInv, DeviceTypes
<1>7. \/ reservation' = reservation /\ r.abandoned = deviceOp[o].abandoned
      \/ /\ r.abandoned /\ r.at # "create" /\ ~deviceOp[o].abandoned
         /\ reservation'.users = reservation.users \ {o} /\ reservation'.state = "quarantined"
  BY <1>5, <1>6 DEF Reservations
<1>8. reservation' \in Reservations
  BY <1>5, <1>6 DEF Reservations
<1>9. \A p \in DeviceOps : /\ InUse(p)' => InUse(p)
                           /\ p # o => (InUse(p)' <=> InUse(p))
  BY <1>3, <1>4, <1>7 DEF InUse
<1>10. InUse(o)' <=> InUse(o) /\ ~r.abandoned
  BY <1>2, <1>3, <1>4, <1>7 DEF InUse
<1>11. DeviceTypes'  BY <1>1, <1>4, <1>8 DEF DeviceInv, DeviceTypes
<1>12. StepsInv'
  <2>1. ASSUME NEW p \in DeviceOps
        PROVE  /\ IF deviceOp'[p].at = "new" THEN ~deviceOp'[p].aborted ELSE deviceOp'[p].kind # "none"
               /\ deviceOp'[p].at \in ConnectSteps => deviceOp'[p].kind = "connect"
               /\ deviceOp'[p].at \in ForwardSteps \cup {"look", "verify"} => deviceOp'[p].kind \in AdminKinds
               /\ deviceOp'[p].at = "status" => deviceOp'[p].kind = "recover"
               /\ deviceOp'[p].at \in UseSteps => deviceOp'[p].kind \in UseKinds
               /\ deviceOp'[p].at \in ListSteps => deviceOp'[p].kind # "open"
               /\ deviceOp'[p].abandoned => deviceOp'[p].aborted
               /\ deviceOp'[p].at = "create" => ~deviceOp'[p].abandoned
               /\ deviceOp'[p].at # "done" => deviceOp'[p].result = "none" /\ deviceOp'[p].lease \in {"none", "held"}
    <3>1. CASE p = o  BY <1>2, <1>3, <1>4, <1>7, <3>1 DEF DeviceInv, StepsInv
    <3>2. CASE p # o  BY <1>4, <3>2 DEF DeviceInv, StepsInv
    <3>. QED  BY <3>1, <3>2
  <2>. QED  BY <2>1 DEF StepsInv
<1>13. ReservedInv'
  <2>1. ASSUME NEW p \in DeviceOps  PROVE p \in reservation'.users <=> InUse(p)'
    <3>1. p \in reservation.users <=> InUse(p)  BY DEF DeviceInv, ReservedInv
    <3>2. CASE p = o
      <4>1. InUse(o) <=> ~deviceOp[o].abandoned  BY <1>2 DEF InUse
      <4>. QED  BY <1>7, <1>10, <3>1, <3>2, <4>1
    <3>3. CASE p # o  BY <1>7, <1>9, <3>1, <3>3
    <3>. QED  BY <3>2, <3>3
  <2>2. ASSUME NEW p \in DeviceOps, InUse(p)'
        PROVE  /\ reservation'.state # "none"
               /\ deviceOp'[p].kind \in AdminKinds => \A q \in DeviceOps : InUse(q)' => q = p
               /\ deviceOp'[p].kind = "connect" => reservation'.state = "connecting"
               /\ deviceOp'[p].kind = "recover" => reservation'.state = "quarantined"
    <3>1. InUse(p) /\ deviceOp'[p].kind = deviceOp[p].kind  BY <1>3, <1>4, <1>9, <2>2
    <3>2. /\ reservation.state # "none"
          /\ deviceOp[p].kind \in AdminKinds => \A q \in DeviceOps : InUse(q) => q = p
          /\ deviceOp[p].kind = "connect" => reservation.state = "connecting"
          /\ deviceOp[p].kind = "recover" => reservation.state = "quarantined"
      BY <3>1 DEF DeviceInv, ReservedInv
    <3>3. deviceOp'[p].kind \in AdminKinds => \A q \in DeviceOps : InUse(q)' => q = p
      BY <1>9, <3>1, <3>2
    <3>4. CASE reservation' = reservation  BY <3>1, <3>2, <3>3, <3>4
    <3>5. CASE r.abandoned /\ ~deviceOp[o].abandoned /\ reservation'.state = "quarantined"
      <4>1. p # o /\ InUse(o)  BY <1>2, <1>10, <2>2, <3>5 DEF InUse
      <4>2. deviceOp[p].kind \notin AdminKinds  BY <3>2, <4>1
      <4>. QED  BY <3>1, <3>3, <3>5, <4>2 DEF AdminKinds
    <3>. QED  BY <1>7, <3>4, <3>5
  <2>. QED  BY <2>1, <2>2 DEF ReservedInv
<1>14. OwnershipInv'
  <2>1. ASSUME NEW p \in DeviceOps, InUse(p)', ~trampled
        PROVE  /\ deviceOp'[p].at \in ForwardSteps => ownership = "owned"
               /\ deviceOp'[p].at \in {"status", "verify"} /\ deviceOp'[p].kind # "connect" => ownership = "none"
    <3>1. InUse(p) /\ deviceOp'[p].kind = deviceOp[p].kind /\ deviceOp'[p].at = deviceOp[p].at
      BY <1>3, <1>4, <1>9, <2>1
    <3>. QED  BY <2>1, <3>1 DEF DeviceInv, OwnershipInv
  <2>2. reservation'.state \in {reservation.state, "quarantined"}  BY <1>7
  <2>. QED  BY <1>1, <2>1, <2>2 DEF DeviceInv, OwnershipInv
<1>15. EffectInv'
  <2>1. ASSUME NEW p \in DeviceOps
        PROVE  /\ acted[p] # "no" => deviceOp'[p].stage # "not-sent" /\ deviceOp'[p].at # "new"
               /\ deviceOp'[p].at \in {"drive.pre", "drive"} /\ deviceOp'[p].kind # "read" =>
                    deviceOp'[p].stage # "not-sent"
               /\ p \in lateEffect => /\ deviceOp'[p].at = "done" /\ deviceOp'[p].result = "failed"
                                      /\ deviceOp'[p].stage = "sent" /\ deviceOp'[p].lease = "quarantined"
               /\ acted[p] = "foreign" =>
                    /\ deviceOp'[p].at \in CheckSteps => trampled
                    /\ deviceOp'[p].at = "drive.post" /\ ~deviceOp'[p].aborted => trampled \/ ~EntryIsOurs
                    /\ deviceOp'[p].result = "ok" => trampled
                    /\ deviceOp'[p].at \in {"drive.post", "done"} \cup CheckSteps
    <3>1. CASE p = o  BY <1>3, <1>4, <3>1 DEF DeviceInv, EffectInv
    <3>2. CASE p # o  BY <1>4, <3>2 DEF DeviceInv, EffectInv
    <3>. QED  BY <3>1, <3>2
  <2>2. EntryIsOurs' <=> EntryIsOurs  BY <1>1 DEF EntryIsOurs
  <2>. QED  BY <1>1, <2>1, <2>2 DEF EffectInv
<1>. QED  BY <1>11, <1>12, <1>13, <1>14, <1>15 DEF DeviceInv

\* Others touch the entry, the cable moves, and a command lands that was given up.
LEMMA SurroundingsKeep ==
  ASSUME DeviceInv, ForeignForward \/ PhoneMoves \/ CreateLandsLate
  PROVE  DeviceInv'
<1>1. UNCHANGED <<ownership, trampled, acted, lateEffect, instance, reservation, deviceOp>>
  BY DEF ForeignForward, PhoneMoves, CreateLandsLate, DeviceMoves, effectVars, adapterVars
<1>2. mapping' \in PortEntries
  BY DEF ForeignForward, PhoneMoves, CreateLandsLate, PortEntries, DeviceInv, DeviceTypes
<1>3. /\ lateCreate' => lateCreate /\ lateCreate' \in BOOLEAN
      /\ mapping' = "ours" => mapping = "ours" \/ lateCreate
  BY DEF ForeignForward, PhoneMoves, CreateLandsLate, DeviceInv, DeviceTypes
<1>4. lateCreate' \in BOOLEAN
  BY DEF ForeignForward, PhoneMoves, CreateLandsLate, DeviceInv, DeviceTypes
<1>5. lateCreate => trampled \/ (ownership = "attempted" /\ reservation.state = "quarantined")
  BY DEF DeviceInv, OwnershipInv
<1>6. EntryIsOurs' => trampled \/ EntryIsOurs  BY <1>1, <1>3, <1>5 DEF EntryIsOurs
<1>7. DeviceTypes'  BY <1>1, <1>2, <1>4 DEF DeviceInv, DeviceTypes
<1>8. StepsInv'  BY <1>1 DEF DeviceInv, StepsInv
<1>9. ReservedInv'  BY <1>1 DEF DeviceInv, ReservedInv, InUse
<1>10. OwnershipInv'  BY <1>1, <1>3, <1>5 DEF DeviceInv, OwnershipInv, InUse
<1>11. EffectInv'
  <2>1. ASSUME NEW p \in DeviceOps
        PROVE  acted[p] = "foreign" =>
                 (deviceOp[p].at = "drive.post" /\ ~deviceOp[p].aborted => trampled \/ ~EntryIsOurs')
    BY <1>6 DEF DeviceInv, EffectInv
  <2>. QED  BY <1>1, <2>1 DEF DeviceInv, EffectInv
<1>. QED  BY <1>7, <1>8, <1>9, <1>10, <1>11 DEF DeviceInv

LEMMA EffectLandsLateKeeps ==
  ASSUME DeviceInv, NEW o \in DeviceOps, EffectLandsLate(o)
  PROVE  DeviceInv'
<1>1. /\ UNCHANGED <<mapping, lateCreate, ownership, trampled, instance, reservation, deviceOp>>
      /\ lateEffect' = lateEffect \ {o} /\ o \in lateEffect
  BY DEF EffectLandsLate, forwardVars, adapterVars
<1>2. /\ acted' \in [DeviceOps -> Effected]
      /\ \A p \in DeviceOps : p # o => acted'[p] = acted[p]
  BY DEF EffectLandsLate, DeviceInv, DeviceTypes, PortEntries, Effected
<1>3. deviceOp[o].at = "done" /\ deviceOp[o].result = "failed" /\ deviceOp[o].stage = "sent"
  BY <1>1 DEF DeviceInv, EffectInv
<1>4. DeviceTypes'  BY <1>1, <1>2 DEF DeviceInv, DeviceTypes
<1>5. StepsInv' /\ ReservedInv' /\ OwnershipInv'
  BY <1>1 DEF DeviceInv, StepsInv, ReservedInv, OwnershipInv, InUse
<1>6. EffectInv'
  <2>1. ASSUME NEW p \in DeviceOps
        PROVE  /\ acted'[p] # "no" => deviceOp[p].stage # "not-sent" /\ deviceOp[p].at # "new"
               /\ acted'[p] = "foreign" =>
                    /\ deviceOp[p].at \in CheckSteps => trampled
                    /\ deviceOp[p].at = "drive.post" /\ ~deviceOp[p].aborted => trampled \/ ~EntryIsOurs
                    /\ deviceOp[p].result = "ok" => trampled
                    /\ deviceOp[p].at \in {"drive.post", "done"} \cup CheckSteps
    <3>1. CASE p = o  BY <1>3, <3>1 DEF CheckSteps
    <3>2. CASE p # o  BY <1>2, <3>2 DEF DeviceInv, EffectInv
    <3>. QED  BY <3>1, <3>2
  <2>2. EntryIsOurs' <=> EntryIsOurs  BY <1>1 DEF EntryIsOurs
  <2>. QED  BY <1>1, <2>1, <2>2 DEF DeviceInv, EffectInv
<1>. QED  BY <1>4, <1>5, <1>6 DEF DeviceInv

\* An inventory makes references stale and does nothing else.
LEMMA InventoryKeeps ==
  ASSUME DeviceInv, ListDevices \/ ListTargets \/ UNCHANGED deviceVars
  PROVE  DeviceInv'
<1>1. UNCHANGED <<mapping, lateCreate, ownership, trampled, acted, lateEffect, reservation, deviceOp>>
  BY DEF ListDevices, ListTargets, deviceVars, forwardVars, effectVars
<1>2. instance' = instance \/ instance' = NextInstance
  BY DEF ListDevices, ListTargets, deviceVars, adapterVars
<1>3. instance' \in DeviceInstances
  BY <1>2, AtItsStep DEF NextInstance, DeviceInv, DeviceTypes, DeviceInstances
<1>4. DeviceTypes'  BY <1>1, <1>3 DEF DeviceInv, DeviceTypes
<1>5. StepsInv' /\ ReservedInv' /\ OwnershipInv' /\ EffectInv'
  BY <1>1 DEF DeviceInv, StepsInv, ReservedInv, OwnershipInv, EffectInv, InUse, EntryIsOurs
<1>. QED  BY <1>4, <1>5 DEF DeviceInv

LEMMA DeviceStarts == DeviceInit => DeviceInv
<1>. SUFFICES ASSUME DeviceInit  PROVE DeviceInv
  OBVIOUS
<1>1. NewOp \in OpRecord /\ NewOp.at = "new" /\ NewOp.kind = "none" /\ NewOp.result = "none"
      /\ NewOp.lease = "none" /\ NewOp.abandoned = FALSE /\ NewOp.aborted = FALSE
  BY DEF NewOp, OpRecord, OpSteps, Effects, PortEntries
<1>2. \A o \in DeviceOps : deviceOp[o] = NewOp /\ acted[o] = "no"  BY DEF DeviceInit
<1>3. DeviceTypes  BY <1>1 DEF DeviceInit, DeviceTypes, PortEntries, DeviceInstances, Reservations, Ownerships, Effected
<1>4. StepsInv
  BY <1>1, <1>2 DEF StepsInv, ConnectSteps, ForwardSteps, UseSteps, ListSteps, CheckSteps
<1>5. \A o \in DeviceOps : ~InUse(o)  BY <1>1, <1>2 DEF InUse
<1>6. ReservedInv  BY <1>5 DEF DeviceInit, ReservedInv
<1>7. OwnershipInv  BY <1>5 DEF DeviceInit, OwnershipInv
<1>8. EffectInv  BY <1>1, <1>2 DEF DeviceInit, EffectInv
<1>. QED  BY <1>3, <1>4, <1>6, <1>7, <1>8 DEF DeviceInv

LEMMA DeviceStepKeeps ==
  ASSUME DeviceInv, [DeviceNext]_deviceVars
  PROVE  DeviceInv'
<1>1. CASE ForeignForward \/ PhoneMoves \/ CreateLandsLate  BY <1>1, SurroundingsKeep
<1>2. CASE ListDevices \/ ListTargets \/ UNCHANGED deviceVars  BY <1>2, InventoryKeeps
<1>3. ASSUME NEW o \in DeviceOps,
             \/ EffectLandsLate(o) \/ (\E kind \in DeviceKinds : AdmitDeviceOp(o, kind)) \/ Cancel(o) \/ Abandon(o)
             \/ BeginDeviceOp(o)
      PROVE  DeviceInv'
  BY <1>3, EffectLandsLateKeeps, AdmitDeviceOpKeeps, GivingUpKeeps, BeginDeviceOpKeeps
<1>4. ASSUME NEW o \in DeviceOps, deviceOp[o].kind = "connect",
             \/ FindDevice(o) \/ PortIsVacant(o) \/ CreateForward(o) \/ ReconcileCreate(o)
             \/ AskVersion(o) \/ ConfirmForward(o) \/ VerifyConnected(o)
      PROVE  DeviceInv'
  BY <1>4, FindDeviceKeeps, PortIsVacantKeeps, CreateForwardKeeps, ReconcileCreateKeeps, AskVersionKeeps,
     ConfirmForwardKeeps, VerifyConnectedKeeps
<1>5. ASSUME NEW o \in DeviceOps,
             \/ LookAtForward(o) \/ ActOnLook(o) \/ RemoveForward(o) \/ DropOwnership(o) \/ RecoverRemoval(o)
             \/ deviceOp[o].kind \in {"disconnect", "recover"} /\ VerifyRemoved(o)
      PROVE  DeviceInv'
  BY <1>5, LookAtForwardKeeps, ActOnLookKeeps, RemoveForwardKeeps, DropOwnershipKeeps, RecoverRemovalKeeps,
     VerifyRemovedKeeps
<1>6. ASSUME NEW o \in DeviceOps, ListTarget(o) \/ Drive(o) \/ CheckTarget(o)  PROVE DeviceInv'
  BY <1>6, ListTargetKeeps, DriveKeeps, CheckTargetKeeps
<1>. QED  BY <1>1, <1>2, <1>3, <1>4, <1>5, <1>6 DEF DeviceNext

\* DeviceInv is an invariant.
THEOREM DeviceIsConsistent == DeviceSpec => []DeviceInv
BY DeviceStarts, DeviceStepKeeps, PTL DEF DeviceSpec

\* The browser of a device keeps what it says.
LEMMA DeviceTellsTheTruth == DeviceInv => DeviceIsTrue /\ DeviceTypeOK
<1>. SUFFICES ASSUME DeviceInv  PROVE DeviceIsTrue /\ DeviceTypeOK
  OBVIOUS
<1>1. NoForwardIsForgotten  BY DEF DeviceInv, OwnershipInv, NoForwardIsForgotten
<1>2. EffectsAreTold  BY DEF DeviceInv, EffectInv, StepsInv, EffectsAreTold
<1>3. DeviceTypeOK
  <2>1. \A o \in DeviceOps : deviceOp[o].lease \in {"none", "held", "released", "quarantined"}
    BY AtItsStep DEF OpRecord
  <2>. QED  BY <2>1 DEF DeviceInv, DeviceTypes, DeviceTypeOK, PortEntries, DeviceInstances, Reservations, Ownerships, Effected
<1>. QED  BY <1>1, <1>2, <1>3 DEF DeviceIsTrue
=============================================================================
