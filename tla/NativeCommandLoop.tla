-------------------------- MODULE NativeCommandLoop --------------------------
(***************************************************************************)
(* The command loop of the native helper (native/src/command_loop.m with   *)
(* the cancel and heartbeat flags of input_job.m and the receipts of       *)
(* meta_operation_receipts.m).  One serial queue handles the frames of the *)
(* runtime and the ends of work; another runs the actions, one at a time,  *)
(* and the maintenance work.  Frames arrive in the order they were sent;   *)
(* a queued end of work may be handled before or after any of them.        *)
(*                                                                         *)
(* What an action does to the machine is NativeExecutor's; here it is a    *)
(* checkpoint that reads the job's flags, and an event posted after it.    *)
(* The handshake is over and the request identifiers are unique, as the    *)
(* adapter of the runtime makes them.                                      *)
(***************************************************************************)
EXTENDS Naturals, Sequences, FiniteSets

CONSTANTS
  Actions,          \* the operations the runtime asks for, each once
  MaxFrames,        \* bound: frames on their way
  MaxMaintenance,   \* bound: commands that are work for the actions queue
  MaxLoopFaults     \* bound: failures of the channel, missed heartbeats, full receipts

ASSUME LoopAssumption ==
  {MaxFrames, MaxMaintenance, MaxLoopFaults} \subseteq Nat /\ {"none", "work"} \cap Actions = {}

VARIABLES
  frames,      \* sent by the runtime and not handled
  asked, cancelsSent, drainSent, maintenanceSent,   \* what the runtime has sent
  loopSealed,  \* _sealed
  busy,        \* _busy and _activeOperation: an operation, or "none"
  job,         \* the operation of _job, or "none"
  jobFlags,    \* _cancel and _heartbeatExpired of that job
  published,   \* the status the job last published
  receipts,    \* the terminal status of earlier operations
  maintenance, \* _maintenanceCount
  queue,       \* the actions queue
  worker,      \* what its thread is doing
  ends,        \* ends of work the control queue has not handled yet
  exiting,     \* _requestedExit, then _exitCode
  answers,     \* the response to each request
  drainAck,    \* what the drain was told
  stoppedAcks, \* operations whose cancel was answered "stopped"
  posted,      \* operations that posted an event
  loopFaults

runtimeVars == <<frames, asked, cancelsSent, drainSent, maintenanceSent>>
controlVars == <<loopSealed, busy, job, receipts, maintenance, exiting, answers, drainAck, stoppedAcks>>
workVars    == <<queue, worker, ends, posted, published>>
loopVars    == <<runtimeVars, controlVars, workVars, jobFlags, loopFaults>>

-----------------------------------------------------------------------------
NoFlags == [cancel |-> FALSE, expired |-> FALSE]
\* "ended" is finished, cancelled or failed, with its cleanup complete.
Statuses == {"none", "dispatching", "ended", "quarantined"}

LoopInit ==
  /\ frames = <<>> /\ asked = {} /\ cancelsSent = {} /\ drainSent = FALSE /\ maintenanceSent = 0
  /\ loopSealed = FALSE /\ busy = "none" /\ job = "none" /\ jobFlags = NoFlags
  /\ published = "none" /\ receipts = [a \in Actions |-> "none"] /\ maintenance = 0
  /\ queue = <<>> /\ worker = [at |-> "idle", item |-> "none"] /\ ends = <<>>
  /\ exiting = "no" /\ answers = [a \in Actions |-> "none"] /\ drainAck = "none"
  /\ stoppedAcks = {} /\ posted = {} /\ loopFaults = 0

LoopTypeOK ==
  /\ busy \in Actions \cup {"none"} /\ job \in Actions \cup {"none"}
  /\ worker.at \in {"idle", "checked", "verified", "done"}
  /\ published \in Statuses /\ \A a \in Actions : receipts[a] \in Statuses
  /\ exiting \in {"no", "requested", "published"}
  /\ drainAck \in {"none", "busy", "ready"} /\ maintenance \in 0..MaxMaintenance + Cardinality(Actions)

LoopFault == loopFaults < MaxLoopFaults /\ loopFaults' = loopFaults + 1

-----------------------------------------------------------------------------
(* The runtime. *)

Send(f) == Len(frames) < MaxFrames /\ frames' = Append(frames, f)

SendAction(a) ==
  /\ a \notin asked /\ asked' = asked \cup {a} /\ Send([kind |-> "action", op |-> a])
  /\ UNCHANGED <<cancelsSent, drainSent, maintenanceSent>>

SendCancel(a) ==
  /\ a \in asked \ cancelsSent /\ answers[a] = "none"
  /\ cancelsSent' = cancelsSent \cup {a} /\ Send([kind |-> "cancel", op |-> a])
  /\ UNCHANGED <<asked, drainSent, maintenanceSent>>

SendDrain ==
  /\ ~drainSent /\ drainSent' = TRUE /\ Send([kind |-> "drain"])
  /\ UNCHANGED <<asked, cancelsSent, maintenanceSent>>

SendMaintenance ==
  /\ maintenanceSent < MaxMaintenance /\ maintenanceSent' = maintenanceSent + 1
  /\ Send([kind |-> "maintenance"])
  /\ UNCHANGED <<asked, cancelsSent, drainSent>>

Runtime ==
  /\ exiting = "no"
  /\ (\E a \in Actions : SendAction(a) \/ SendCancel(a)) \/ SendDrain \/ SendMaintenance
  /\ UNCHANGED <<controlVars, workVars, jobFlags, loopFaults>>

-----------------------------------------------------------------------------
(* The control queue. *)

\* shutdown: 1 s later, or as soon as the last work ends, the exit is published.
Shutdown ==
  /\ loopSealed' = TRUE /\ jobFlags' = [jobFlags EXCEPT !.cancel = (job # "none")]
  /\ exiting' = IF busy = "none" /\ maintenance = 0 THEN "published" ELSE "requested"

Next1 == frames # <<>> /\ exiting = "no" /\ frames' = Tail(frames)
         /\ UNCHANGED <<asked, cancelsSent, drainSent, maintenanceSent>>
Is(kind) == frames # <<>> /\ Head(frames).kind = kind

\* Mutant: an early return without a response.
ReturnSilently(a) == UNCHANGED answers

Refuse(a) == answers' = [answers EXCEPT ![a] = "refused"]

\* A request: refused while sealed or busy, otherwise queued.
HandleAction ==
  /\ Next1 /\ Is("action")
  /\ LET a == Head(frames).op IN
     \/ /\ loopSealed \/ busy # "none"
        /\ Refuse(a)
        /\ UNCHANGED <<busy, job, jobFlags, published, queue>>
     \/ /\ ~loopSealed /\ busy = "none"
        /\ busy' = a /\ job' = a /\ jobFlags' = NoFlags /\ published' = "none"
        /\ queue' = Append(queue, a) /\ UNCHANGED answers
  /\ UNCHANGED <<loopSealed, receipts, maintenance, exiting, drainAck, stoppedAcks,
                 worker, ends, posted, loopFaults>>

\* statusForOperation: the job's own status, or the receipt.
StatusOf(a) == IF a = job THEN published ELSE receipts[a]

\* Mutant: any status of the operation will do.
HasStatus(a) == StatusOf(a) # "none"

\* The status says that the operation ended and that its cleanup is complete.
SaysStopped(a) == StatusOf(a) = "ended"

\* A cancel: it raises the flag of the current job; the cancel of an operation
\* with neither a job nor a receipt ends the helper.
HandleCancel ==
  /\ Next1 /\ Is("cancel")
  /\ LET a == Head(frames).op IN
     \/ /\ a = job \/ receipts[a] # "none"
        /\ jobFlags' = [jobFlags EXCEPT !.cancel = @ \/ (a = job)]
        /\ maintenance' = maintenance + 1 /\ queue' = Append(queue, "work")
        /\ stoppedAcks' = IF SaysStopped(a) THEN stoppedAcks \cup {a} ELSE stoppedAcks
        /\ UNCHANGED <<loopSealed, exiting>>
     \/ /\ a # job /\ receipts[a] = "none" /\ Shutdown
        /\ UNCHANGED <<maintenance, queue, stoppedAcks>>
  /\ UNCHANGED <<busy, job, receipts, answers, drainAck, worker, ends, posted, published, loopFaults>>

\* Mutant: an action in progress is left to the executor's own check.
IdleEnough == maintenance = 0

\* Nothing is running and nothing is queued.
NothingPending == busy = "none" /\ maintenance = 0

\* A drain seals, cancels, and says whether the helper is quiet; beginRotation
\* (NativeExecutor's Seal) may still find it unclean.
HandleDrain ==
  /\ Next1 /\ Is("drain")
  /\ loopSealed' = TRUE /\ jobFlags' = [jobFlags EXCEPT !.cancel = (job # "none")]
  /\ drainAck' \in IF NothingPending THEN {"ready", "busy"} ELSE {"busy"}
  /\ UNCHANGED <<busy, job, receipts, maintenance, exiting, answers, stoppedAcks, workVars, loopFaults>>

\* Observer, recovery, permission, status and cleanup commands.
HandleMaintenance ==
  /\ Next1 /\ Is("maintenance")
  /\ maintenance' = maintenance + 1 /\ queue' = Append(queue, "work")
  /\ UNCHANGED <<loopSealed, busy, job, receipts, exiting, answers, drainAck, stoppedAcks,
                 worker, ends, posted, published, jobFlags, loopFaults>>

\* The heartbeat of the current job is a second late: the flag stays, and the
\* next heartbeat, the next checkpoint or the end of the job seals the helper.
MissHeartbeat ==
  /\ LoopFault /\ busy # "none" /\ ~jobFlags.expired
  /\ jobFlags' = [cancel |-> TRUE, expired |-> TRUE]
  /\ UNCHANGED <<runtimeVars, controlVars, workVars>>

LateHeartbeat ==
  /\ jobFlags.expired /\ busy # "none" /\ ~loopSealed /\ exiting = "no" /\ loopSealed' = TRUE
  /\ UNCHANGED <<runtimeVars, busy, job, receipts, maintenance, exiting, answers, drainAck,
                 stoppedAcks, workVars, jobFlags, loopFaults>>

\* A malformed frame, a failed write, the end of the channel.
ChannelFails ==
  /\ LoopFault /\ exiting = "no" /\ Shutdown
  /\ UNCHANGED <<runtimeVars, busy, job, receipts, maintenance, answers, drainAck, stoppedAcks, workVars>>

ForceExit ==
  /\ exiting = "requested" /\ exiting' = "published"
  /\ UNCHANGED <<runtimeVars, loopSealed, busy, job, receipts, maintenance, answers, drainAck,
                 stoppedAcks, workVars, jobFlags, loopFaults>>

\* The end of an action: its receipt, the seal of a job that lost its heartbeat
\* or found no room for its receipt, and the response.
ActionEnds ==
  /\ exiting # "published"
  /\ ends # <<>> /\ ends' = Tail(ends)
  /\ LET e == Head(ends) IN
       /\ e.item \in Actions
       /\ \/ /\ receipts' = [receipts EXCEPT ![e.item] = published]
             /\ loopSealed' = (loopSealed \/ jobFlags.expired) /\ UNCHANGED loopFaults
          \/ /\ LoopFault /\ published # "none" /\ loopSealed' = TRUE /\ UNCHANGED receipts
       /\ IF exiting = "requested" THEN exiting' = "published" /\ UNCHANGED answers
          ELSE answers' = [answers EXCEPT ![e.item] = e.result] /\ UNCHANGED exiting
  /\ busy' = "none"
  /\ UNCHANGED <<runtimeVars, job, maintenance, drainAck, stoppedAcks, queue, worker, posted,
                 published, jobFlags>>

WorkEnds ==
  /\ exiting # "published"
  /\ ends # <<>> /\ Head(ends).item = "work" /\ ends' = Tail(ends)
  /\ maintenance' = maintenance - 1
  /\ exiting' = IF exiting = "requested" /\ busy = "none" /\ maintenance = 1 THEN "published" ELSE exiting
  /\ UNCHANGED <<runtimeVars, loopSealed, busy, job, receipts, answers, drainAck, stoppedAcks,
                 queue, worker, posted, published, jobFlags, loopFaults>>

-----------------------------------------------------------------------------
(* The actions queue. *)

End(result) ==
  /\ worker' = [at |-> "idle", item |-> "none"]
  /\ ends' = Append(ends, [item |-> worker.item, result |-> result])

\* Mutant: what was queued is run.
AlwaysAllowed == TRUE

\* Asked of the control queue just before the action starts.
StillAllowed == ~loopSealed /\ exiting = "no"

TakeNext ==
  /\ worker.at = "idle" /\ queue # <<>> /\ exiting # "published" /\ queue' = Tail(queue)
  /\ worker' = [at |-> IF Head(queue) \in Actions /\ StillAllowed THEN "checked" ELSE "done",
                item |-> Head(queue)]
  /\ UNCHANGED <<runtimeVars, controlVars, ends, posted, published, jobFlags, loopFaults>>

\* An executor checkpoint: the flags of the job are read before each event.
Checkpoint ==
  /\ worker.at = "checked" /\ exiting # "published"
  /\ \/ ~jobFlags.cancel /\ worker' = [worker EXCEPT !.at = "verified"] /\ published' = "dispatching"
        /\ UNCHANGED ends
     \/ jobFlags.cancel /\ published' \in {"ended", "quarantined"} /\ End("failed")
     \/ ~jobFlags.cancel /\ published' = "ended" /\ End("done")
  /\ UNCHANGED <<runtimeVars, controlVars, queue, posted, jobFlags, loopFaults>>

PostAfterCheckpoint ==
  /\ worker.at = "verified" /\ exiting # "published"
  /\ posted' = posted \cup {worker.item} /\ worker' = [worker EXCEPT !.at = "checked"]
  /\ UNCHANGED <<runtimeVars, controlVars, queue, ends, published, jobFlags, loopFaults>>

\* Maintenance work, and an action that was not allowed to start.
DoNothing ==
  /\ worker.at = "done" /\ exiting # "published" /\ End("failed")
  /\ UNCHANGED <<runtimeVars, controlVars, queue, posted, published, jobFlags, loopFaults>>

Control == HandleAction \/ HandleCancel \/ HandleDrain \/ HandleMaintenance
           \/ LateHeartbeat \/ ActionEnds \/ WorkEnds
ActionsQueue == TakeNext \/ Checkpoint \/ PostAfterCheckpoint \/ DoNothing

LoopNext == Runtime \/ Control \/ ActionsQueue \/ MissHeartbeat \/ ChannelFails \/ ForceExit

\* Both queues run what they have; an action ends, as each has a deadline of at
\* most 30 s that its checkpoints enforce.
LoopFairness ==
  /\ WF_loopVars(Control) /\ WF_loopVars(ForceExit)
  /\ WF_loopVars(TakeNext \/ DoNothing \/ PostAfterCheckpoint)
  /\ SF_loopVars(Checkpoint /\ worker'.at = "idle")

LoopSpec == LoopInit /\ [][LoopNext]_loopVars /\ LoopFairness

-----------------------------------------------------------------------------
(* Properties. *)

\* A helper that answered a drain with "ready" has no action left in any queue,
\* so nothing reaches the machine while its successor starts.
ReadyHelperIsQuiet ==
  drainAck = "ready" =>
    /\ busy = "none" /\ worker.item \notin Actions
    /\ \A i \in DOMAIN queue : queue[i] \notin Actions

\* An operation whose cancel was answered "stopped" neither runs nor waits to run.
StoppedIsFinal ==
  \A a \in stoppedAcks : worker.item # a /\ \A i \in DOMAIN queue : queue[i] # a

\* Every request is answered, or the helper exits and the runtime sees it end.
RequestsAreAnswered ==
  \A a \in Actions : (a \in asked) ~> (answers[a] # "none" \/ exiting = "published")

\* The helper's words are true: neither "ready" nor "stopped" leaves work behind, and
\* an action that was still queued when the helper sealed, by a drain, a failing
\* channel or a lost heartbeat, posts nothing.
LoopKeepsItsWord ==
  [][/\ ReadyHelperIsQuiet' /\ StoppedIsFinal'
     /\ \A a \in Actions :
          loopSealed /\ (\E i \in DOMAIN queue : queue[i] = a) =>
            ~(worker'.item = a /\ worker'.at \in {"checked", "verified"})]_loopVars
=============================================================================
