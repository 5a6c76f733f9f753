---------------------------- MODULE BrowserSession ----------------------------
(***************************************************************************)
(* A page is told to go elsewhere and waited for, over a session of the      *)
(* DevTools protocol (shared/src/cdp.ts, chrome/src/cdp-mode.ts cdpNavigate  *)
(* and cdpReload, chrome/src/wait-ready.ts).                               *)
(*                                                                         *)
(* The session sends commands and matches answers to them by their number;   *)
(* events come in between, in the order of the socket.  The navigation waits  *)
(* for one command after another, and for two events that it asks for before  *)
(* it goes.  The browser carries out commands when it likes; a document that   *)
(* has no context yet leaves an evaluation without an answer.               *)
(***************************************************************************)
EXTENDS Naturals, Sequences

CONSTANTS
  MaxPolls,         \* reads of the state of the document
  MaxRequests,      \* requests of the new document
  MaxSessionFaults  \* timers that run out, aborts, sockets that break

ASSUME SessionAssumption == {MaxPolls, MaxRequests, MaxSessionFaults} \subseteq Nat

VARIABLES
  socket,       \* "opening", "open" or "down", and whether the session is closed
  cmd,          \* the last command of each kind: its number and what became of it
  lastId,
  toBrowser, fromBrowser,
  waiter,       \* waitForEvent of the load and of the context
  tracker,      \* subscribed to the network, and the requests it believes to be open
  page,         \* the document, its load and context, the domains that tell events
  loads,        \* requests of the new document: to begin and begun
  nav,          \* the navigation: where it is, what it has seen and its result
  executed,     \* history: numbers the browser has carried out
  misled,       \* history: a load told to nobody, and a load of the old document
  polls, sessionFaults

wireVars == <<toBrowser, fromBrowser>>
browserVars == <<page, loads, executed>>
sessionVars == <<socket, cmd, lastId, wireVars, waiter, tracker, browserVars, nav, misled, polls,
                 sessionFaults>>

Commands == {"page", "network", "runtime", "navigate", "focus", "state", "check"}

SessionInit ==
  /\ socket = [is |-> "opening", closed |-> FALSE]
  /\ cmd = [c \in Commands |-> [id |-> 0, is |-> "no"]] /\ lastId = 0
  /\ toBrowser = <<>> /\ fromBrowser = <<>>
  /\ waiter = [load |-> "no", context |-> "no"]
  /\ tracker = [on |-> FALSE, open |-> {}]
  /\ \E loading \in BOOLEAN :
       page = [doc |-> "old", loading |-> loading, context |-> TRUE, going |-> FALSE, tells |-> {}]
  /\ loads = [todo |-> 1..MaxRequests, open |-> {}]
  /\ nav = [at |-> "start", ok |-> TRUE, dispatched |-> FALSE, complete |-> "none", result |-> "none"]
  /\ executed = {} /\ misled = [missed |-> FALSE, stale |-> FALSE] /\ polls = 0 /\ sessionFaults = 0

SessionFault == sessionFaults < MaxSessionFaults /\ sessionFaults' = sessionFaults + 1
Same == UNCHANGED <<browserVars, misled, sessionFaults>>

-----------------------------------------------------------------------------
(* The session.                                                            *)

\* A command of a closed session is refused; one before the socket opens waits for it.
Sent(c, id) ==
  IF socket.closed THEN [id |-> 0, is |-> "failed"]
  ELSE IF socket.is = "opening" THEN [id |-> 0, is |-> "unready"] ELSE [id |-> id, is |-> "pending"]
Send(c) ==
  /\ cmd' = [cmd EXCEPT ![c] = Sent(c, lastId + 1)]
  /\ IF cmd'[c].is = "pending"
     THEN lastId' = lastId + 1 /\ toBrowser' = Append(toBrowser, [does |-> c, id |-> lastId + 1])
     ELSE UNCHANGED <<lastId, toBrowser>>
  /\ UNCHANGED <<fromBrowser, socket>>

SocketOpens ==
  /\ socket.is = "opening" /\ ~socket.closed
  /\ socket' = [socket EXCEPT !.is = "open"]
  /\ IF cmd["page"].is = "unready"
     THEN /\ cmd' = [cmd EXCEPT !["page"] = [id |-> lastId + 1, is |-> "pending"]]
          /\ lastId' = lastId + 1 /\ toBrowser' = <<[does |-> "page", id |-> lastId + 1]>>
     ELSE UNCHANGED <<cmd, lastId, toBrowser>>
  /\ UNCHANGED <<fromBrowser, waiter, tracker, nav, polls>> /\ Same

\* Whatever waits is refused, and nobody listens any more.
Unsettled == {"unready", "pending"}
FinishClose(is) ==
  /\ socket' = [is |-> is, closed |-> TRUE]
  /\ cmd' = [c \in Commands |-> IF cmd[c].is \in Unsettled THEN [cmd[c] EXCEPT !.is = "failed"] ELSE cmd[c]]
  /\ waiter' = [e \in DOMAIN waiter |-> IF waiter[e] = "armed" THEN "lost" ELSE waiter[e]]
  /\ tracker' = [tracker EXCEPT !.on = FALSE]

\* The connection is refused or breaks, or takes too long, or the caller aborts.
SessionBreaks ==
  /\ ~socket.closed /\ SessionFault /\ FinishClose("down")
  /\ UNCHANGED <<lastId, wireVars, browserVars, nav, misled, polls>>

\* The timer of a command, the budget of its step.
CommandTimesOut(c) ==
  /\ cmd[c].is = "pending" /\ SessionFault
  /\ cmd' = [cmd EXCEPT ![c].is = "failed"]
  /\ UNCHANGED <<socket, lastId, wireVars, waiter, tracker, browserVars, nav, misled, polls>>
WaiterTimesOut(e) ==
  /\ waiter[e] = "armed" /\ SessionFault
  /\ waiter' = [waiter EXCEPT ![e] = "lost"]
  /\ UNCHANGED <<socket, cmd, lastId, wireVars, tracker, browserVars, nav, misled, polls>>

\* An answer settles the command of its number, if that still waits.
AnswersTheOldest(c, id) == cmd[c].is = "pending"  \* mutant
Answers(c, id) == cmd[c].is = "pending" /\ cmd[c].id = id
OnAnswer(message) ==
  /\ cmd' = [c \in Commands |->
               IF Answers(c, message.id) THEN [cmd[c] EXCEPT !.is = "ok"] ELSE cmd[c]]
  /\ nav' = IF Answers("state", message.id) THEN [nav EXCEPT !.complete = message.says] ELSE nav
  /\ UNCHANGED <<waiter, tracker, misled>>
OnEvent(message) ==
  /\ waiter' = IF message.event \in DOMAIN waiter /\ waiter[message.event] = "armed"
               THEN [waiter EXCEPT ![message.event] = "seen"] ELSE waiter
  /\ tracker' = IF ~tracker.on THEN tracker
                ELSE CASE message.event = "begin" -> [tracker EXCEPT !.open = @ \cup {message.of}]
                       [] message.event = "finish" -> [tracker EXCEPT !.open = @ \ {message.of}]
                       [] OTHER -> tracker
  /\ misled' = IF message.event # "load" THEN misled
               ELSE [missed |-> misled.missed \/ (message.of = "new" /\ waiter.load = "no"),
                     stale |-> misled.stale \/ (message.of = "old" /\ waiter.load = "armed")]
  /\ UNCHANGED <<cmd, nav>>
OnMessage ==
  /\ fromBrowser # <<>> /\ socket.is = "open"
  /\ fromBrowser' = Tail(fromBrowser)
  /\ LET message == Head(fromBrowser)
     IN IF socket.closed THEN UNCHANGED <<cmd, waiter, tracker, nav, misled>>
        ELSE IF message.event = "answer" THEN OnAnswer(message) ELSE OnEvent(message)
  /\ UNCHANGED <<socket, lastId, toBrowser, browserVars, polls, sessionFaults>>

-----------------------------------------------------------------------------
(* The browser.                                                            *)

Tells(domain, event, of) ==
  IF domain \in page.tells THEN Append(fromBrowser, [event |-> event, of |-> of]) ELSE fromBrowser
BrowserSame == UNCHANGED <<socket, cmd, lastId, waiter, tracker, nav, misled, polls, sessionFaults>>

Answer(command, says) == [event |-> "answer", id |-> command.id, says |-> says]
Domain == [page |-> "Page", network |-> "Network", runtime |-> "Runtime"]
Execute ==
  /\ toBrowser # <<>> /\ toBrowser' = Tail(toBrowser) /\ BrowserSame /\ UNCHANGED loads
  /\ LET command == Head(toBrowser)
         Done == fromBrowser' = Append(fromBrowser, Answer(command, "none"))
     IN /\ executed' = executed \cup {command.id}
        /\ \/ /\ command.does \in DOMAIN Domain
              /\ page' = [page EXCEPT !.tells = @ \cup {Domain[command.does]}]
              /\ fromBrowser' = (IF command.does = "runtime" /\ page.context
                                 THEN Append(fromBrowser, [event |-> "context", of |-> page.doc])
                                 ELSE fromBrowser) \o <<Answer(command, "none")>>
           \/ command.does = "navigate" /\ page' = [page EXCEPT !.going = TRUE] /\ Done
           \/ command.does = "focus" /\ UNCHANGED page /\ Done
           \/ /\ command.does \in {"state", "check"} /\ UNCHANGED page
              /\ IF ~page.context THEN UNCHANGED fromBrowser
                 ELSE fromBrowser' = Append(fromBrowser, Answer(command,
                        IF command.does = "state" /\ ~page.loading THEN page.doc ELSE "none"))

Commits ==
  /\ page.going /\ page' = [page EXCEPT !.going = FALSE, !.doc = "new", !.loading = TRUE, !.context = FALSE]
  /\ UNCHANGED <<wireVars, loads, executed>> /\ BrowserSame
ContextCreated ==
  /\ ~page.context /\ page' = [page EXCEPT !.context = TRUE]
  /\ fromBrowser' = Tells("Runtime", "context", page.doc)
  /\ UNCHANGED <<toBrowser, loads, executed>> /\ BrowserSame
PageLoads ==
  /\ page.loading /\ loads.open = {}
  /\ page' = [page EXCEPT !.loading = FALSE]
  /\ fromBrowser' = Tells("Page", "load", page.doc)
  /\ UNCHANGED <<toBrowser, loads, executed>> /\ BrowserSame
RequestBegins(r) ==
  /\ page.doc = "new" /\ r \in loads.todo
  /\ loads' = [todo |-> loads.todo \ {r}, open |-> loads.open \cup {r}]
  /\ fromBrowser' = Tells("Network", "begin", r)
  /\ UNCHANGED <<toBrowser, page, executed>> /\ BrowserSame
RequestEnds(r) ==
  /\ r \in loads.open /\ loads' = [loads EXCEPT !.open = @ \ {r}]
  /\ fromBrowser' = Tells("Network", "finish", r)
  /\ UNCHANGED <<toBrowser, page, executed>> /\ BrowserSame

-----------------------------------------------------------------------------
(* cdpNavigate, armReadiness, armLoadEvent, waitOnSession.                  *)

NavAt(at) == nav.at = at
NavTo(at) == nav' = [nav EXCEPT !.at = at]
\* withSession closes the session whatever happened.
FinishNavigation(result) ==
  /\ nav' = [nav EXCEPT !.at = "done", !.result = result]
  /\ FinishClose(socket.is)
  /\ UNCHANGED <<lastId, wireVars, polls>>

EnablePage ==
  /\ NavAt("start") /\ NavTo("page") /\ Send("page") /\ UNCHANGED <<waiter, tracker, polls>> /\ Same
ArmReadiness ==
  /\ NavAt("page") /\ Same
  /\ \/ /\ cmd["page"].is = "ok" /\ Send("network") /\ NavTo("network")
        /\ tracker' = [tracker EXCEPT !.on = ~socket.closed]
        /\ UNCHANGED <<waiter, polls>>
     \/ cmd["page"].is = "failed" /\ FinishNavigation("failed")

\* The two waits begin before the command that causes what they wait for.
Armed == IF socket.closed THEN "lost" ELSE "armed"
ArmLoadEvent ==
  /\ NavAt("network") /\ Same
  /\ \/ /\ cmd["network"].is = "ok" /\ NavTo("navigate")
        /\ waiter' = [load |-> Armed, context |-> Armed]
        /\ cmd' = [cmd EXCEPT !["runtime"] = Sent("runtime", lastId + 1),
                              !["navigate"] = Sent("navigate", lastId + 2)]
        /\ IF socket.closed THEN UNCHANGED <<lastId, toBrowser>>
           ELSE /\ lastId' = lastId + 2
                /\ toBrowser' = toBrowser \o <<[does |-> "runtime", id |-> lastId + 1],
                                               [does |-> "navigate", id |-> lastId + 2]>>
        /\ UNCHANGED <<fromBrowser, socket, tracker, polls>>
     \/ cmd["network"].is = "failed" /\ FinishNavigation("failed")

Dispatched ==
  /\ NavAt("navigate") /\ Same
  /\ \/ /\ cmd["navigate"].is = "ok"
        /\ nav' = [nav EXCEPT !.at = "load", !.dispatched = TRUE]
        /\ UNCHANGED <<socket, cmd, lastId, wireVars, waiter, tracker, polls>>
     \/ cmd["navigate"].is = "failed" /\ FinishNavigation("failed")

Loaded ==
  /\ NavAt("load") /\ Same
  /\ \/ waiter.load = "seen" /\ NavTo("context")
        /\ UNCHANGED <<socket, cmd, lastId, wireVars, waiter, tracker, polls>>
     \/ waiter.load = "lost" /\ FinishNavigation("failed")

\* The context of the new document is there, or a little time has passed; what still
\* waits for it is aborted.
ContextReady ==
  /\ NavAt("context") /\ Same /\ UNCHANGED <<tracker, polls>>
  /\ \/ /\ waiter.context # "lost"
        /\ waiter' = [waiter EXCEPT !.context = IF @ = "armed" THEN "lost" ELSE @]
        /\ NavTo("focus")
        /\ LET sent == Sent("focus", lastId + 1)
           IN /\ cmd' = [cmd EXCEPT !["focus"] = sent,
                            !["runtime"].is = IF @ = "pending" THEN "failed" ELSE @]
              /\ IF sent.is = "pending"
                 THEN /\ lastId' = lastId + 1
                      /\ toBrowser' = Append(toBrowser, [does |-> "focus", id |-> lastId + 1])
                 ELSE UNCHANGED <<lastId, toBrowser>>
              /\ UNCHANGED <<fromBrowser, socket>>
     \/ waiter.context = "lost" /\ FinishNavigation("failed")

Read ==
  /\ polls < MaxPolls /\ polls' = polls + 1 /\ Send("state") /\ UNCHANGED <<waiter, tracker>>
FocusEmulated ==
  /\ NavAt("focus") /\ cmd["focus"].is \in {"ok", "failed"} /\ NavTo("state") /\ Read /\ Same
\* A step that fails leaves the navigation partial, and the next one begins.
StateRead ==
  /\ NavAt("state") /\ Same
  /\ \/ cmd["state"].is = "ok" /\ nav.complete = "none" /\ Read /\ UNCHANGED nav
     \/ /\ cmd["state"].is = "ok" /\ nav.complete # "none" /\ NavTo("idle")
        /\ UNCHANGED <<socket, cmd, lastId, wireVars, waiter, tracker, polls>>
     \/ /\ cmd["state"].is = "failed" \/ (nav.complete = "none" /\ polls = MaxPolls /\ cmd["state"].is = "ok")
        /\ nav' = [nav EXCEPT !.at = "idle", !.ok = FALSE]
        /\ UNCHANGED <<socket, cmd, lastId, wireVars, waiter, tracker, polls>>
NetworkIdle ==
  /\ NavAt("idle") /\ UNCHANGED <<browserVars, misled, waiter, tracker, polls>> /\ Send("check")
  /\ \/ tracker.open = {} /\ NavTo("check") /\ UNCHANGED sessionFaults
     \/ nav' = [nav EXCEPT !.at = "check", !.ok = FALSE] /\ SessionFault
Checked ==
  /\ NavAt("check") /\ Same
  /\ \/ cmd["check"].is = "ok" /\ FinishNavigation(IF nav.ok THEN "ready" ELSE "partial")
     \/ cmd["check"].is = "failed" /\ FinishNavigation("partial")

SessionNext ==
  \/ SocketOpens \/ SessionBreaks \/ OnMessage \/ Execute
  \/ \E c \in Commands : CommandTimesOut(c)
  \/ \E e \in {"load", "context"} : WaiterTimesOut(e)
  \/ Commits \/ ContextCreated \/ PageLoads \/ \E r \in 1..MaxRequests : RequestBegins(r) \/ RequestEnds(r)
  \/ EnablePage \/ ArmReadiness \/ ArmLoadEvent \/ Dispatched \/ Loaded \/ ContextReady
  \/ FocusEmulated \/ StateRead \/ NetworkIdle \/ Checked

SessionSpec == SessionInit /\ [][SessionNext]_sessionVars

-----------------------------------------------------------------------------
(* Properties.                                                             *)

SessionTypeOK ==
  /\ socket.is \in {"opening", "open", "down"} /\ socket.closed \in BOOLEAN
  /\ \A c \in Commands : cmd[c].is \in {"no", "unready", "pending", "ok", "failed"}
  /\ nav.result \in {"none", "failed", "partial", "ready"}

\* What was answered was done, and nothing waits for a session that is closed.
AnswersAreTrue ==
  /\ \A c \in Commands : cmd[c].is = "ok" => cmd[c].id \in executed
  /\ nav.dispatched => cmd["navigate"].id \in executed
  /\ socket.closed => /\ \A c \in Commands : cmd[c].is \notin {"unready", "pending"}
                      /\ "armed" \notin {waiter.load, waiter.context} /\ ~tracker.on

\* The load of the new document is never told before somebody waits for it, and what is
\* reported ready is the new document, unless the load of the old one was taken for it.
ReadyIsTheNewDocument ==
  /\ ~misled.missed
  /\ nav.result = "ready" => nav.complete = "new" \/ misled.stale

SessionIsTrue == AnswersAreTrue /\ ReadyIsTheNewDocument
=============================================================================
