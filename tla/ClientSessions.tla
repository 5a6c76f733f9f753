---------------------------- MODULE ClientSessions ----------------------------
(***************************************************************************)
(* Client sessions of the runtime (runtime/src/client-sessions.ts,         *)
(* client-grace.ts, client-state.ts and their use in core.ts): opening and *)
(* resuming a session, the durable snapshot that precedes every            *)
(* credential, close and expiry, and the grace after which the browser     *)
(* connections of a departed lineage are taken down.                       *)
(*                                                                         *)
(* A lineage is one client; its resumption token stays the same through    *)
(* every resume, so the lineage also names the token.  A call is an        *)
(* operation of a session.  A call with an instance connects to that       *)
(* browser; what the lifetime coordinator does with the connection is      *)
(* modelled as far as the cleanup of a lineage sees it.                    *)
(*                                                                         *)
(* A step is a stretch of JavaScript between two waits for I/O or a timer. *)
(* The twenty-four hours after which a token expires, the revocation of a  *)
(* principal (no caller) and the shutdown of the host are left out.        *)
(***************************************************************************)
EXTENDS Naturals, Sequences, FiniteSets

CONSTANTS
  Lineages,     \* clients
  Sessions,     \* sessions that may ever be opened
  NoSession,    \* "no session"
  Calls,        \* operations
  NoCall,       \* "no operation"
  Instances,    \* browsers that can be connected
  NoInstance,   \* what a call that is not a connect uses
  Uses,         \* the instance each call connects
  MaxWaiting,   \* bound: credential requests waiting at once
  MaxFaults,    \* bound: failed writes of the client state
  MaxCrashes    \* bound: deaths of the runtime process

ASSUME SessionsAssumption ==
  /\ "none" \notin Lineages   \* no client is the lineage of an absent session
  /\ NoSession \notin Sessions
  /\ NoCall \notin Calls
  /\ NoInstance \notin Instances
  /\ Uses \in [Calls -> Instances \cup {NoInstance}]
  /\ MaxWaiting \in Nat
  /\ MaxFaults \in Nat
  /\ MaxCrashes \in Nat

VARIABLES
  \* the registry
  stored,       \* ClientSessionRegistry.#sessions
  current,      \* sessions of this runtime epoch
  expired,      \* sessions whose expiresAt has passed
  persisted,    \* #persistedSessions
  \* credentials and their storage
  requests,     \* #credentialTail: open and resume requests, oldest first
  closing,      \* progress of closeClientDurable
  pending,      \* the operations each close waits for
  writes,       \* FileClientState.#tail: snapshots on their way, oldest first
  broken,       \* FileClientState.#tail is a rejected promise
  disk,         \* the client state file
  poisoned,     \* #storagePoisoned with its startup recovery reason
  \* operations and browser connections
  call,         \* where each operation stands
  by,           \* the session of each operation
  slot,         \* BrowserLifetimeCoordinator.#slots
  \* disconnect grace
  grace,        \* ClientDisconnectGrace.#entries
  failures,     \* #clientCleanupFailures
  \* outside of the runtime
  token,        \* lineages whose client has its resumption token
  faults, crashes

registryVars   == <<stored, current, expired, persisted>>
credentialVars == <<requests, closing, pending, writes, broken, disk, poisoned>>
callVars       == <<call, by, slot>>
graceVars      == <<grace, failures>>
worldVars      == <<token, faults, crashes>>
vars == <<registryVars, credentialVars, callVars, graceVars, worldVars>>

-----------------------------------------------------------------------------
(* State. *)

Absent == [lineage |-> "none", disconnected |-> FALSE, revoked |-> FALSE]

StoredSession ==
  {Absent} \cup [lineage : Lineages, disconnected : BOOLEAN, revoked : BOOLEAN]

Known(file) == {s \in Sessions : file[s] # Absent}

\* Sessions that the token of a lineage can resume.
Resumable(file, l) == {s \in Known(file) : file[s].lineage = l /\ ~file[s].revoked}

\* A session that is neither replaced nor disconnected and belongs to this epoch.
Live(s) == s \in current /\ ~stored[s].disconnected /\ ~stored[s].revoked

Requests == [kind : {"open", "resume"}, lineage : Lineages, session : Sessions \cup {NoSession}]

\* A snapshot and who waits for it: a new session, a session that closes, or
\* nobody any more.
Snapshot ==
  [for : {"credential", "close", "nobody"}, session : Sessions,
   file : [Sessions -> StoredSession], landed : BOOLEAN]

NoEntry == [phase |-> "none", calls |-> {}, slots |-> {}]

Entry == [phase : {"none", "timer", "calls", "slots"}, calls : SUBSET Calls,
          slots : SUBSET Instances]

Free == [state |-> "free", call |-> NoCall]

\* "asking" and "resolving" are the awaits of runOperation before its operation exists.
CallStates ==
  {"idle", "asking", "resolving", "registered", "connecting", "settled", "lost"}

TypeOK ==
  /\ stored \in [Sessions -> StoredSession]
  /\ current \subseteq Known(stored) /\ expired \subseteq current
  /\ persisted \subseteq Known(stored)
  /\ requests \in Seq(Requests) /\ Len(requests) <= MaxWaiting
  /\ closing \in [Sessions -> {"no", "calls", "write"}]
  /\ pending \in [Sessions -> SUBSET Calls]
  /\ writes \in Seq(Snapshot)
  /\ broken \in BOOLEAN /\ poisoned \in BOOLEAN
  /\ disk \in [Sessions -> StoredSession]
  /\ call \in [Calls -> CallStates]
  /\ by \in [Calls -> Sessions \cup {NoSession}]
  /\ slot \in [Instances ->
       [state : {"free", "connecting", "active", "quarantined"}, call : Calls \cup {NoCall}]]
  /\ grace \in [Lineages -> Entry]
  /\ failures \subseteq Lineages
  /\ token \subseteq Lineages
  /\ faults \in 0..MaxFaults /\ crashes \in 0..MaxCrashes

Init ==
  /\ stored = [s \in Sessions |-> Absent] /\ disk = stored
  /\ current = {} /\ expired = {} /\ persisted = {}
  /\ requests = <<>> /\ writes = <<>> /\ broken = FALSE /\ poisoned = FALSE
  /\ closing = [s \in Sessions |-> "no"] /\ pending = [s \in Sessions |-> {}]
  /\ call = [c \in Calls |-> "idle"] /\ by = [c \in Calls |-> NoSession]
  /\ slot = [i \in Instances |-> Free]
  /\ grace = [l \in Lineages |-> NoEntry] /\ failures = {}
  /\ token = {} /\ faults = 0 /\ crashes = 0

\* Calls that wait for assertActive or for their target.
Arriving == {c \in Calls : call[c] \in {"asking", "resolving"}}

Running == {c \in Calls : call[c] \in {"registered", "connecting"}}
CallsOfLineage(l) == {c \in Running : stored[by[c]].lineage = l}
SlotsOfLineage(l) ==
  {i \in Instances : slot[i].state # "free" /\ stored[by[slot[i].call]].lineage = l}

\* The oldest credential request has not begun.
Unstarted == requests # <<>> /\ Head(requests).session = NoSession

\* The cleanup of a lineage no longer waits for its operations.
CleanupReady(l) == grace[l].phase = "calls" /\ grace[l].calls \cap Running = {}

\* What a client sends arrives in turns, of one message or of several: a request
\* for a credential, a close or a call may find the handlers of others that came with it
\* at one of their awaits.
SameTurn == \A l \in Lineages : ~CleanupReady(l)

\* No microtask is due.  The oldest request begins as soon as the one before
\* it is answered, a call is registered or refused, and a cleanup goes on as soon as its
\* operations settled; timers and answers from outside come in between none of them.
Quiet == SameTurn /\ ~Unstarted /\ Arriving = {}

Created(s, l) == [lineage |-> l, disconnected |-> FALSE, revoked |-> FALSE]

-----------------------------------------------------------------------------
(* Plausible mistakes.  No action uses these: each has the parameters of a  *)
(* definition below and shows, put in its place, that a property notices.   *)

\* A resume deletes the session it replaces.
ReplacedDeleted(s, l) ==
  [t \in Sessions |->
     IF t = s THEN Created(s, l)
     ELSE IF t \in Resumable(stored, l) THEN Absent ELSE stored[t]]

\* A resume only disconnects the session it replaces.
ReplacedUnrevoked(s, l) ==
  [t \in Sessions |->
     IF t = s THEN Created(s, l)
     ELSE IF t \in Resumable(stored, l) THEN [stored[t] EXCEPT !.disconnected = TRUE]
     ELSE stored[t]]

\* A resume does not look at the operations of its lineage.
MayCreateAnyway(r) == r.kind = "resume" => Resumable(stored, r.lineage) # {}

\* A client that comes back does not cancel the timer.
ArrivedUnnoticed(l) == grace

\* A client that leaves starts no grace.
DepartedUnnoticed(ls) == grace

\* Credentials wait for their write without a deadline.
DeadlineOfClose ==
  \E n \in DOMAIN writes :
    LET w == writes[n] IN
      /\ Quiet /\ w.for = "close"
      /\ poisoned' = TRUE
      /\ writes' = [writes EXCEPT ![n].for = "nobody"]
      /\ closing' = [closing EXCEPT ![w.session] = "no"]
      /\ UNCHANGED <<registryVars, requests, pending, broken, disk, callVars, graceVars, worldVars>>

\* The deadline of a cleanup ends with its wait for operations.
DeadlineOfCalls(l) ==
  /\ Quiet /\ grace[l].phase = "calls"
  /\ grace' = [grace EXCEPT ![l] = NoEntry]
  /\ failures' = failures \cup {l}
  /\ UNCHANGED <<registryVars, credentialVars, callVars, worldVars>>

-----------------------------------------------------------------------------
(* Credentials. *)

\* Bound: every request that is accepted finds a session left.
SessionLeft == Cardinality(Known(stored)) + Len(requests) < Cardinality(Sessions)

Request(kind, l) ==
  /\ SameTurn
  /\ Len(requests) < MaxWaiting /\ SessionLeft
  /\ requests' = Append(requests, [kind |-> kind, lineage |-> l, session |-> NoSession])
  /\ UNCHANGED <<registryVars, closing, pending, writes, broken, disk, poisoned, callVars,
                 graceVars, worldVars>>

\* Every open creates a lineage of its own.
RequestOpen(l) ==
  /\ \A s \in Known(stored) : stored[s].lineage # l
  /\ \A n \in DOMAIN requests : requests[n].lineage # l
  /\ Request("open", l)

RequestResume(l) == l \in token /\ Request("resume", l)

\* The registry after a resume: the token moves to the new session, and the
\* previous one is disconnected and revoked.
Replaced(s, l) ==
  [t \in Sessions |->
     IF t = s THEN Created(s, l)
     ELSE IF t \in Resumable(stored, l)
       THEN [stored[t] EXCEPT !.disconnected = TRUE, !.revoked = TRUE]
     ELSE stored[t]]

MayCreate(r) ==
  r.kind = "resume" => Resumable(stored, r.lineage) # {} /\ CallsOfLineage(r.lineage) = {}

\* persist hands the snapshot to the store; behind a failed write it fails at
\* once, and with it the credential.
StartCredential(s) ==
  LET r == Head(requests)
      file == Replaced(s, r.lineage) IN
    /\ Unstarted /\ ~poisoned /\ MayCreate(r)
    /\ s \notin Known(stored)
    /\ stored' = file
    /\ current' = current \cup {s}
    /\ IF broken
         THEN /\ poisoned' = TRUE
              /\ requests' = Tail(requests)
              /\ UNCHANGED writes
         ELSE /\ requests' = [requests EXCEPT ![1].session = s]
              /\ writes' = Append(writes, [for |-> "credential", session |-> s,
                                           file |-> file, landed |-> FALSE])
              /\ UNCHANGED poisoned
    /\ UNCHANGED <<expired, persisted, closing, pending, broken, disk, callVars, graceVars,
                   worldVars>>

RefuseCredential ==
  /\ Unstarted
  /\ poisoned \/ ~MayCreate(Head(requests))
  /\ requests' = Tail(requests)
  /\ UNCHANGED <<registryVars, closing, pending, writes, broken, disk, poisoned, callVars,
                 graceVars, worldVars>>

-----------------------------------------------------------------------------
(* Disconnect grace. *)

\* disconnected: an entry that exists, also one whose cleanup is running,
\* stays as it is.
Departed(ls) ==
  [l \in Lineages |->
     IF l \in ls /\ grace[l].phase = "none" THEN [NoEntry EXCEPT !.phase = "timer"]
     ELSE grace[l]]

\* connected: only a waiting timer is cancelled.
Arrived(l) == IF grace[l].phase = "timer" THEN [grace EXCEPT ![l] = NoEntry] ELSE grace

\* The timer fires: the cleanup waits for the operations that are active now.
GraceExpires(l) ==
  /\ Quiet
  /\ grace[l].phase = "timer"
  /\ grace' = [grace EXCEPT ![l].phase = "calls", ![l].calls = CallsOfLineage(l)]
  /\ UNCHANGED <<registryVars, credentialVars, callVars, failures, worldVars>>

\* The connections that are left; after the last one the cleanup is a success.
CleanupLeaves(l, rest) ==
  IF rest # {}
    THEN /\ grace' = [grace EXCEPT ![l] = [phase |-> "slots", calls |-> {}, slots |-> rest]]
         /\ UNCHANGED failures
    ELSE /\ grace' = [grace EXCEPT ![l] = NoEntry]
         /\ failures' = failures \ {l}

\* shutdownLineage lists the connections of the lineage once.
CleanupBegins(l) ==
  /\ CleanupReady(l)
  /\ CleanupLeaves(l, SlotsOfLineage(l))
  /\ UNCHANGED <<registryVars, credentialVars, callVars, worldVars>>

\* One connection after the other is removed and its removal verified.
CleanupRemoves(l, i) ==
  /\ Quiet
  /\ grace[l].phase = "slots" /\ i \in grace[l].slots
  /\ slot[i].state # "connecting"
  /\ slot' = [slot EXCEPT ![i].state = "free"]
  /\ CleanupLeaves(l, grace[l].slots \ {i})
  /\ UNCHANGED <<registryVars, credentialVars, call, by, worldVars>>

\* A removal that fails, or meets an unfinished connect, ends the cleanup and
\* quarantines the connection.
CleanupFails(l, i) ==
  /\ Quiet
  /\ grace[l].phase = "slots" /\ i \in grace[l].slots
  /\ slot' = [slot EXCEPT ![i].state = "quarantined"]
  /\ grace' = [grace EXCEPT ![l] = NoEntry]
  /\ failures' = failures \cup {l}
  /\ UNCHANGED <<registryVars, credentialVars, call, by, worldVars>>

\* The deadline of the cleanup; a removal under way is aborted.
CleanupDeadline(l) ==
  \/ /\ Quiet /\ grace[l].phase = "calls"
     /\ grace' = [grace EXCEPT ![l] = NoEntry]
     /\ failures' = failures \cup {l}
     /\ UNCHANGED <<registryVars, credentialVars, callVars, worldVars>>
  \/ \E i \in Instances : CleanupFails(l, i)

-----------------------------------------------------------------------------
(* Close and expiry. *)

\* disconnectClient for a set of sessions: their lineages get their grace.
\* Their operations see the abort; how soon they end is up to the adapter.
Disconnected(ss) ==
  [s \in Sessions |-> IF s \in ss THEN [stored[s] EXCEPT !.disconnected = TRUE] ELSE stored[s]]

Disconnect(ss) ==
  /\ stored' = Disconnected(ss)
  /\ grace' = Departed({stored[s].lineage : s \in ss})

\* closeClientDurable of a session whose bearer the client holds.  It waits for the
\* operations that are registered now, not for calls that will be.
Close(s) ==
  /\ SameTurn
  /\ s \in persisted /\ Live(s) /\ s \notin expired
  /\ Disconnect({s})
  /\ closing' = [closing EXCEPT ![s] = "calls"]
  /\ pending' = [pending EXCEPT ![s] = {c \in Running : by[c] = s}]
  /\ UNCHANGED <<current, expired, persisted, requests, writes, broken, disk, poisoned,
                 callVars, failures, worldVars>>

\* Once those operations have settled, the snapshot of that moment is handed to
\* the store.
CloseWrites(s) ==
  /\ Quiet
  /\ closing[s] = "calls" /\ pending[s] \cap Running = {}
  /\ pending' = [pending EXCEPT ![s] = {}]
  /\ IF broken
       THEN closing' = [closing EXCEPT ![s] = "no"] /\ UNCHANGED writes
       ELSE /\ closing' = [closing EXCEPT ![s] = "write"]
            /\ writes' = Append(writes, [for |-> "close", session |-> s,
                                         file |-> stored, landed |-> FALSE])
  /\ UNCHANGED <<registryVars, requests, broken, disk, poisoned, callVars, graceVars, worldVars>>

\* Sessions live for minutes; a credential waits for its write for seconds.
Expires(s) ==
  /\ Quiet
  /\ Live(s) /\ s \notin expired /\ \A n \in DOMAIN requests : requests[n].session # s
  /\ expired' = expired \cup {s}
  /\ UNCHANGED <<stored, current, persisted, credentialVars, callVars, graceVars, worldVars>>

\* The timer of the host: every session whose time is over is disconnected.
Sweep ==
  LET over == {s \in expired : Live(s)} IN
    /\ Quiet /\ over # {}
    /\ Disconnect(over)
    /\ UNCHANGED <<current, expired, persisted, credentialVars, callVars, failures, worldVars>>

-----------------------------------------------------------------------------
(* The client state file. *)

\* What an acknowledged credential write gives its client.
Granted(w) == IF w.for = "credential" THEN {w.session} ELSE {}

Closed(w) == IF w.for = "close" THEN [closing EXCEPT ![w.session] = "no"] ELSE closing

WriteLands ==
  /\ Quiet
  /\ writes # <<>> /\ ~Head(writes).landed
  /\ disk' = Head(writes).file
  /\ writes' = [writes EXCEPT ![1].landed = TRUE]
  /\ UNCHANGED <<registryVars, requests, closing, pending, broken, poisoned, callVars, graceVars,
                 worldVars>>

WriteAcknowledged ==
  LET w == Head(writes)
      l == w.file[w.session].lineage IN
    /\ Quiet /\ writes # <<>> /\ w.landed
    /\ writes' = Tail(writes)
    /\ persisted' = persisted \cup Granted(w)
    /\ closing' = Closed(w)
    /\ IF w.for = "credential"
         THEN /\ requests' = Tail(requests)
              /\ token' = token \cup {l}
              /\ grace' = Arrived(l)
         ELSE UNCHANGED <<requests, token, grace>>
    /\ UNCHANGED <<stored, current, expired, pending, broken, disk, poisoned, callVars, failures,
                   faults, crashes>>

\* A write fails before or after its rename, and every write behind it with
\* it.  A credential that waits for one of them poisons the storage; a close
\* only reports its failure.
WriteFails ==
  /\ Quiet
  /\ writes # <<>> /\ faults < MaxFaults
  /\ faults' = faults + 1
  /\ broken' = TRUE
  /\ writes' = <<>>
  /\ LET waiting == {writes[n] : n \in DOMAIN writes} IN
       /\ IF \E w \in waiting : w.for = "credential"
            THEN poisoned' = TRUE /\ requests' = Tail(requests)
            ELSE UNCHANGED <<poisoned, requests>>
       /\ closing' = [s \in Sessions |->
                        IF \E w \in waiting : w.for = "close" /\ w.session = s
                          THEN "no" ELSE closing[s]]
  /\ UNCHANGED <<registryVars, pending, disk, callVars, graceVars, token, crashes>>

\* The deadline of a durable write: whoever waits gives up and the storage is
\* poisoned; the write itself may still land.
DurableDeadline ==
  \E n \in DOMAIN writes :
    LET w == writes[n] IN
      /\ Quiet /\ w.for # "nobody"
      /\ poisoned' = TRUE
      /\ writes' = [writes EXCEPT ![n].for = "nobody"]
      /\ closing' = Closed(w)
      /\ requests' = IF w.for = "credential" THEN Tail(requests) ELSE requests
      /\ UNCHANGED <<registryVars, pending, broken, disk, callVars, graceVars, worldVars>>

-----------------------------------------------------------------------------
(* Operations. *)

\* The session is known to be on disk.
Durable(s) == s \in persisted

\* runOperation: the session, whose bearer the client holds, is active now.  Calls that
\* are not registered yet do not see each other, so that they come one at a time.
Ask(c, s) ==
  /\ SameTurn /\ Arriving = {}
  /\ call[c] = "idle"
  /\ s \in persisted /\ Live(s) /\ s \notin expired
  /\ call' = [call EXCEPT ![c] = "asking"]
  /\ by' = [by EXCEPT ![c] = s]
  /\ UNCHANGED <<registryVars, credentialVars, slot, graceVars, worldVars>>

\* After the first await, whether the runtime admits the call; its target is resolved
\* next.  Nobody looks at the session again.
Admit(c) ==
  /\ call[c] = "asking" /\ ~poisoned /\ Durable(by[c])
  /\ call' = [call EXCEPT ![c] = "resolving"]
  /\ UNCHANGED <<registryVars, credentialVars, by, slot, graceVars, worldVars>>

\* After the second await the operation is in the journal.
Register(c) ==
  /\ call[c] = "resolving"
  /\ call' = [call EXCEPT ![c] = "registered"]
  /\ UNCHANGED <<registryVars, credentialVars, by, slot, graceVars, worldVars>>

\* The call is answered with an error before that: the runtime is sealed, its target is
\* stale, or a resource is taken.
Refuse(c) ==
  /\ c \in Arriving
  /\ call' = [call EXCEPT ![c] = "settled"]
  /\ UNCHANGED <<registryVars, credentialVars, by, slot, graceVars, worldVars>>

Arrives(c) == Admit(c) \/ Register(c) \/ Refuse(c)

\* The coordinator takes the instance before the adapter connects.
Connect(c) ==
  /\ Quiet
  /\ call[c] = "registered" /\ Uses[c] # NoInstance
  /\ Live(by[c]) /\ by[c] \notin expired
  /\ slot[Uses[c]].state = "free"
  /\ call' = [call EXCEPT ![c] = "connecting"]
  /\ slot' = [slot EXCEPT ![Uses[c]] = [state |-> "connecting", call |-> c]]
  /\ UNCHANGED <<registryVars, credentialVars, by, graceVars, worldVars>>

\* The connection counts only if its session is still active.
Connected(c) ==
  /\ Quiet
  /\ call[c] = "connecting"
  /\ Live(by[c]) /\ by[c] \notin expired
  /\ call' = [call EXCEPT ![c] = "settled"]
  /\ slot' = [slot EXCEPT ![Uses[c]].state =
                IF slot[Uses[c]].call = c THEN "active" ELSE @]
  /\ UNCHANGED <<registryVars, credentialVars, by, graceVars, worldVars>>

\* Any other end: the call needs no connection, was refused or aborted before
\* its adapter ran, or failed after it, with the connection in doubt.
Settles(c) ==
  /\ Quiet
  /\ c \in Running
  /\ call' = [call EXCEPT ![c] = "settled"]
  /\ IF call[c] = "connecting" /\ slot[Uses[c]].call = c
       THEN \E left \in {"free", "quarantined"} : slot' = [slot EXCEPT ![Uses[c]].state = left]
       ELSE UNCHANGED slot
  /\ UNCHANGED <<registryVars, credentialVars, by, graceVars, worldVars>>

-----------------------------------------------------------------------------
(* Restart. *)

\* restore refuses a file in which one token resumes two sessions.
Restorable(file) == \A l \in Lineages : Cardinality(Resumable(file, l)) <= 1

\* A new process: the file is all that is left of the sessions, and none of
\* them belongs to its epoch.  Connections are recovered by their own store.
Restart ==
  /\ Quiet
  /\ crashes < MaxCrashes /\ crashes' = crashes + 1
  /\ Restorable(disk)
  /\ stored' = disk /\ persisted' = Known(disk)
  /\ current' = {} /\ expired' = {}
  /\ requests' = <<>> /\ writes' = <<>> /\ broken' = FALSE /\ poisoned' = FALSE
  /\ closing' = [s \in Sessions |-> "no"] /\ pending' = [s \in Sessions |-> {}]
  /\ call' = [c \in Calls |-> IF c \in Running THEN "lost" ELSE call[c]]
  /\ slot' = [i \in Instances |-> Free]
  /\ grace' = [l \in Lineages |-> NoEntry] /\ failures' = {}
  /\ UNCHANGED <<disk, by, token, faults>>

BeginCredential == RefuseCredential \/ \E s \in Sessions : StartCredential(s)

Next ==
  \/ BeginCredential
  \/ \E l \in Lineages :
       \/ RequestOpen(l) \/ RequestResume(l)
       \/ GraceExpires(l) \/ CleanupBegins(l) \/ CleanupDeadline(l)
       \/ \E i \in Instances : CleanupRemoves(l, i)
  \/ \E s \in Sessions : Close(s) \/ CloseWrites(s) \/ Expires(s)
  \/ Sweep \/ WriteLands \/ WriteAcknowledged \/ WriteFails \/ DurableDeadline
  \/ \E c \in Calls :
       \/ \E s \in Sessions : Ask(c, s)
       \/ Arrives(c)
       \/ Connect(c) \/ Connected(c) \/ Settles(c)
  \/ Restart

Spec == Init /\ [][Next]_vars

\* Microtasks run and timers fire however often a microtask is due in between;
\* the store, the adapters and the removal of a connection may hang forever.
LiveSpec ==
  /\ Spec
  /\ WF_vars(BeginCredential) /\ SF_vars(DurableDeadline) /\ SF_vars(Sweep)
  /\ \A l \in Lineages :
       WF_vars(CleanupBegins(l)) /\ SF_vars(GraceExpires(l)) /\ SF_vars(CleanupDeadline(l))
  /\ \A c \in Calls : WF_vars(Arrives(c))
=============================================================================
