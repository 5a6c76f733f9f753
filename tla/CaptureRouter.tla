----------------------------- MODULE CaptureRouter -----------------------------
(***************************************************************************)
(* The helper's table of capture tasks (native/src/capture_router.m) under *)
(* its callers: the action queue starts, cancels and releases captures,    *)
(* the result queue waits for a picture and holds it while it is encoded,  *)
(* and ScreenCaptureKit calls back when it likes.                          *)
(*                                                                         *)
(* A step is one critical section of the router's lock, or one call of the *)
(* capture backend outside it.  A capture has one native task, or, as a    *)
(* layout, several whose pictures are composed into one.  The tombstones'  *)
(* journal and meta_capture_router_forget_released, which only the tests   *)
(* call, are left out.                                                     *)
(***************************************************************************)
EXTENDS Naturals, FiniteSets

CONSTANTS
  Callers,          \* the threads that use the router
  CallerOps,        \* what each of them calls: subsets of RouterOps
  Captures,         \* captures that may be asked for
  Children,         \* number of native tasks of each
  Authorities,      \* release authorities
  MaxNative,        \* bound of native tasks alive (128 in the code)
  MaxRouterFaults   \* bound: native tasks that do not start

RouterOps == {"start", "status", "tasks", "result", "cancel", "release", "authorized"}
\* The action queue alone starts, cancels and releases; the other queues take results
\* and list tasks (meta_command_loop).  What a rotation cancels and releases from the
\* control queue, which it does only while the other two are empty, counts as the
\* action queue's.
ASSUME RouterAssumption ==
  /\ IsFiniteSet(Captures) /\ IsFiniteSet(Callers) /\ MaxNative \in Nat /\ MaxRouterFaults \in Nat
  /\ CallerOps \in [Callers -> SUBSET RouterOps] /\ Children \in [Captures -> Nat \ {0}]
  /\ \E owner \in Callers : \A c \in Callers \ {owner} : CallerOps[c] \subseteq {"result", "tasks"}
  /\ "none" \notin Captures \cup Authorities

VARIABLES
  entry,         \* each capture: "absent", "listed" or "released"
  inFlight,      \* calls that hold the entry
  releasing,     \* entries a release has claimed
  cancelWanted,  \* entries whose cancel was asked for
  started,       \* the start of each: "no", "settled" or "failed"
  native,        \* each native task: "none", "running", "cancelled", "drained", "freed" or "twice"
  picture,       \* what each task called back with: "none", "held" or "freed"
  composed,      \* the picture of a layout: "none", "composing", "held" or "freed"
  pendingBy,     \* the authority whose release is under way, or "none"
  receiptOf,     \* the authority the tombstone is bound to, or "none"
  sealedRouter,  \* "no", "pending" or "ready"
  call,          \* what each caller is at
  routerFaults

routerVars == <<entry, inFlight, releasing, cancelWanted, started, native, picture, composed, pendingBy,
                receiptOf, sealedRouter, call, routerFaults>>
-----------------------------------------------------------------------------
NoCall == [op |-> "none", at |-> "none", on |-> "none", by |-> "none", pinned |-> FALSE]
Kids(e) == 1..Children[e]
Layout(e) == Children[e] > 1
StartedKids(e) == {i \in Kids(e) : native[e][i] # "none"}
Tasks(S) == UNION {{e} \X Kids(e) : e \in S}
ActiveTasks == Cardinality(Tasks({e \in Captures : entry[e] = "listed"}))

RouterInit ==
  /\ entry = [e \in Captures |-> "absent"] /\ inFlight = [e \in Captures |-> 0]
  /\ releasing = {} /\ cancelWanted = {} /\ started = [e \in Captures |-> "no"]
  /\ native = [e \in Captures |-> [i \in Kids(e) |-> "none"]]
  /\ picture = [e \in Captures |-> [i \in Kids(e) |-> "none"]]
  /\ composed = [e \in Captures |-> "none"]
  /\ pendingBy = [e \in Captures |-> "none"] /\ receiptOf = [e \in Captures |-> "none"]
  /\ sealedRouter = "no" /\ call = [c \in Callers |-> NoCall] /\ routerFaults = 0

RouterTypeOK ==
  /\ entry \in [Captures -> {"absent", "listed", "released"}] /\ inFlight \in [Captures -> 0..Cardinality(Callers)]
  /\ releasing \subseteq Captures /\ cancelWanted \subseteq Captures
  /\ started \in [Captures -> {"no", "settled", "failed"}]
  /\ \A e \in Captures : native[e] \in [Kids(e) -> {"none", "running", "cancelled", "drained", "freed", "twice"}]
  /\ \A e \in Captures : picture[e] \in [Kids(e) -> {"none", "held", "freed"}]
  /\ composed \in [Captures -> {"none", "composing", "held", "freed"}]
  /\ \A f \in {pendingBy, receiptOf} : f \in [Captures -> Authorities \cup {"none"}]
  /\ sealedRouter \in {"no", "pending", "ready"}

NoRouterFault == UNCHANGED routerFaults
At(c, where) == call[c].at = where
On(c) == call[c].on
GoTo(c, where) == call' = [call EXCEPT ![c].at = where]
Pinning(c, where, pin) == call' = [call EXCEPT ![c].at = where, ![c].pinned = pin]
Returns(c) == call' = [call EXCEPT ![c] = NoCall]
KeptOne(e) == UNCHANGED inFlight  \* mutant
LessOne(e) == inFlight' = [inFlight EXCEPT ![e] = IF @ > 0 THEN @ - 1 ELSE 0]
OneMore(e) == inFlight' = [inFlight EXCEPT ![e] = @ + 1]
taskVars == <<native, picture, composed>>
tableVars == <<entry, releasing, cancelWanted, started, pendingBy, receiptOf, sealedRouter>>
-----------------------------------------------------------------------------
(* The capture backend.                                                    *)
DrainTask(e, i) ==
  /\ native[e][i] \in {"running", "cancelled"} /\ native' = [native EXCEPT ![e][i] = "drained"]
  /\ NoRouterFault /\ UNCHANGED <<tableVars, inFlight, picture, composed, call>>

\* The completion of a task: kept for its entry, or a duplicate that is freed at once.
Wanted(e) == entry[e] # "released"
Callback(e, i) ==
  /\ native[e][i] # "none" /\ picture[e][i] = "none"
  /\ picture' = [picture EXCEPT ![e][i] = IF Wanted(e) THEN "held" ELSE "freed"]
  /\ NoRouterFault /\ UNCHANGED <<tableVars, inFlight, native, composed, call>>
-----------------------------------------------------------------------------
(* Start.                                                                  *)
Room(e) == ActiveTasks + Children[e] <= MaxNative
StartCapture(c, e) ==
  /\ entry[e] = "absent" /\ sealedRouter = "no" /\ Room(e)
  /\ entry' = [entry EXCEPT ![e] = "listed"] /\ OneMore(e) /\ NoRouterFault
  /\ call' = [call EXCEPT ![c] = [NoCall EXCEPT !.op = "start", !.at = "starting", !.on = e, !.pinned = TRUE]]
  /\ UNCHANGED <<releasing, cancelWanted, started, pendingBy, receiptOf, sealedRouter, taskVars>>

\* A cancel that came while the task was being started reaches it now.
FirstState(e) == IF e \in cancelWanted THEN "cancelled" ELSE "running"
StartTask(c) == LET e == On(c)  i == Cardinality(StartedKids(e)) + 1 IN
  /\ At(c, "starting")
  /\ \/ /\ native' = [native EXCEPT ![e][i] = FirstState(e)] /\ NoRouterFault
        /\ GoTo(c, IF i = Children[e] THEN "settling" ELSE "starting")
        /\ UNCHANGED <<entry, started, inFlight>>
     \/ /\ routerFaults < MaxRouterFaults /\ routerFaults' = routerFaults + 1 /\ UNCHANGED native
        /\ IF Layout(e) THEN started' = [started EXCEPT ![e] = "failed"] /\ GoTo(c, "settling") /\ UNCHANGED <<entry, inFlight>>
           ELSE /\ entry' = [entry EXCEPT ![e] = "released"] /\ inFlight' = [inFlight EXCEPT ![e] = 0]
                /\ Returns(c) /\ UNCHANGED started
  /\ UNCHANGED <<releasing, cancelWanted, pendingBy, receiptOf, sealedRouter, picture, composed>>

Cancelled(e) == [i \in Kids(e) |-> IF native[e][i] = "running" THEN "cancelled" ELSE native[e][i]]
SettleStart(c) == LET e == On(c) IN
  /\ At(c, "settling") /\ LessOne(e) /\ Returns(c) /\ NoRouterFault
  /\ native' = IF started[e] = "failed" THEN [native EXCEPT ![e] = Cancelled(e)] ELSE native
  /\ started' = [started EXCEPT ![e] = IF @ = "no" THEN "settled" ELSE @]
  /\ UNCHANGED <<entry, releasing, cancelWanted, pendingBy, receiptOf, sealedRouter, picture, composed>>
-----------------------------------------------------------------------------
(* Calls by task reference.  A reference is known once its start returned. *)
Known(e) == entry[e] # "absent" /\ started[e] # "no" /\ \A c \in Callers : ~(On(c) = e /\ call[c].op = "start")

BeginCall(c, op, e) ==
  /\ op \in {"status", "tasks", "result"} /\ Known(e)
  /\ call' = [call EXCEPT ![c] = [NoCall EXCEPT !.op = op, !.at = "entering", !.on = e]]
  /\ NoRouterFault /\ UNCHANGED <<tableVars, inFlight, taskVars>>

\* An entry being released is not held, yet status gives back the hold it did not take;
\* result and the listing of an operation's tasks do not.
EnterCall(c) == LET e == On(c) IN
  /\ At(c, "entering") /\ NoRouterFault
  /\ CASE entry[e] = "released" -> UNCHANGED inFlight /\ Returns(c)
       [] entry[e] # "released" /\ e \in releasing ->
            Returns(c) /\ (IF call[c].op = "status" THEN LessOne(e) ELSE UNCHANGED inFlight)
       [] OTHER -> OneMore(e) /\ Pinning(c, "inspecting", TRUE)
  /\ UNCHANGED <<tableVars, taskVars>>

AllDrained(e) == \A i \in StartedKids(e) : native[e][i] \in {"drained", "freed", "twice"}
CalledBack(e) == \A i \in StartedKids(e) : picture[e][i] # "none"
ReadyToCompose(e) ==
  /\ Layout(e) /\ started[e] # "no" /\ composed[e] = "none" /\ AllDrained(e) /\ CalledBack(e)
\* Also "settling": a layout whose start failed is not settled yet.
Settling(e) == \E c \in Callers : On(c) = e /\ At(c, "settling")

AfterInspect(c) ==
  CASE call[c].op = "result" -> "holding"
    [] call[c].op \in {"status", "tasks"} -> "leaving"
    [] OTHER -> "judging"
Inspect(c) == LET e == On(c) IN
  /\ At(c, "inspecting") /\ NoRouterFault
  /\ IF ReadyToCompose(e) /\ ~Settling(e)
       THEN composed' = [composed EXCEPT ![e] = "composing"] /\ GoTo(c, "composing")
       ELSE UNCHANGED composed /\ GoTo(c, AfterInspect(c))
  /\ UNCHANGED <<tableVars, inFlight, native, picture>>
Compose(c) ==
  /\ At(c, "composing") /\ composed' = [composed EXCEPT ![On(c)] = "held"] /\ GoTo(c, AfterInspect(c))
  /\ NoRouterFault /\ UNCHANGED <<tableVars, inFlight, native, picture>>

\* result_done, or the end of status.
LeaveCall(c) ==
  /\ call[c].at \in {"holding", "leaving"} /\ LessOne(On(c)) /\ Returns(c)
  /\ NoRouterFault /\ UNCHANGED <<tableVars, taskVars>>
-----------------------------------------------------------------------------
(* Cancel, by operation: also of an entry that is still being started.     *)
BeginCancel(c, e) ==
  /\ entry[e] = "listed" /\ cancelWanted' = cancelWanted \cup {e} /\ NoRouterFault
  /\ call' = [call EXCEPT ![c] = [NoCall EXCEPT !.op = "cancel", !.at = "cancelling", !.on = e, !.pinned = e \notin releasing]]
  /\ inFlight' = IF e \in releasing THEN inFlight ELSE [inFlight EXCEPT ![e] = @ + 1]
  /\ UNCHANGED <<entry, releasing, started, pendingBy, receiptOf, sealedRouter, taskVars>>
EndCancel(c) == LET e == On(c) IN
  /\ At(c, "cancelling") /\ LessOne(e) /\ Returns(c) /\ NoRouterFault
  /\ native' = IF call[c].pinned THEN [native EXCEPT ![e] = Cancelled(e)] ELSE native
  /\ UNCHANGED <<tableVars, picture, composed>>
-----------------------------------------------------------------------------
(* Release: of the drained tasks of an operation, which its callers have    *)
(* cancelled before, or of one task under an authority.                    *)
BeginRelease(c, e) ==
  /\ entry[e] = "listed" /\ e \in cancelWanted /\ NoRouterFault
  /\ call' = [call EXCEPT ![c] = [NoCall EXCEPT !.op = "release", !.at = "checking", !.on = e]]
  /\ UNCHANGED <<tableVars, inFlight, taskVars>>

\* Only the authority of the first receipt, or of the release under way, gets on.
Binds(e, a) == receiptOf[e] = "none" /\ pendingBy[e] = "none"
Authorize(c, e, a) ==
  /\ Known(e) /\ Binds(e, a) /\ NoRouterFault
  /\ IF entry[e] = "released"
       THEN receiptOf' = [receiptOf EXCEPT ![e] = a] /\ UNCHANGED <<pendingBy, call>>
       ELSE /\ pendingBy' = [pendingBy EXCEPT ![e] = a] /\ UNCHANGED receiptOf
            /\ call' = [call EXCEPT ![c] = [NoCall EXCEPT !.op = "authorized", !.at = "verifying", !.on = e, !.by = a]]
  /\ UNCHANGED <<entry, inFlight, releasing, cancelWanted, started, sealedRouter, taskVars>>

\* The end of a release: an authorized one leaves its receipt, or gives way.
Finish(c, ok) == LET e == On(c) IN
  /\ Returns(c)
  /\ pendingBy' = IF call[c].by # "none" THEN [pendingBy EXCEPT ![e] = "none"] ELSE pendingBy
  /\ receiptOf' = IF call[c].by # "none" /\ ok THEN [receiptOf EXCEPT ![e] = call[c].by] ELSE receiptOf

VerifyStatus(c) == LET e == On(c) IN
  /\ At(c, "verifying") /\ NoRouterFault
  /\ CASE entry[e] = "released" -> GoTo(c, "checking") /\ UNCHANGED <<inFlight, pendingBy, receiptOf>>
       [] entry[e] # "released" /\ e \in releasing -> LessOne(e) /\ Finish(c, FALSE)
       [] OTHER -> OneMore(e) /\ Pinning(c, "inspecting", TRUE) /\ UNCHANGED <<pendingBy, receiptOf>>
  /\ UNCHANGED <<entry, releasing, cancelWanted, started, sealedRouter, taskVars>>

\* What the status said: drained, and for a layout composed.
Complete(e) == AllDrained(e) /\ StartedKids(e) # {} /\ (Layout(e) => composed[e] = "held")
Judge(c) == LET e == On(c) IN
  /\ At(c, "judging") /\ LessOne(e) /\ NoRouterFault
  /\ IF Complete(e) THEN Pinning(c, IF call[c].by = "none" THEN "claiming" ELSE "checking", FALSE) /\ UNCHANGED <<pendingBy, receiptOf>>
     ELSE Finish(c, FALSE)
  /\ UNCHANGED <<entry, releasing, cancelWanted, started, sealedRouter, taskVars>>

\* The first look at the entry; a layout has its status read once more before it is claimed.
CheckRelease(c) == LET e == On(c) IN
  /\ At(c, "checking") /\ e \notin releasing /\ NoRouterFault
  /\ IF entry[e] = "released" THEN Finish(c, TRUE)
     ELSE GoTo(c, IF Layout(e) /\ call[c].by = "none" THEN "verifying" ELSE "claiming") /\ UNCHANGED <<pendingBy, receiptOf>>
  /\ UNCHANGED <<entry, inFlight, releasing, cancelWanted, started, sealedRouter, taskVars>>

\* A layout is looked at again under the lock; a single capture is not.
Claim(c) == LET e == On(c) IN
  /\ At(c, "claiming") /\ NoRouterFault
  /\ IF Layout(e) /\ entry[e] = "released" THEN e \notin releasing /\ Finish(c, TRUE) /\ UNCHANGED releasing
     ELSE /\ Layout(e) => e \notin releasing
          /\ releasing' = releasing \cup {e} /\ Pinning(c, "awaiting", StartedKids(e) # {}) /\ UNCHANGED <<pendingBy, receiptOf>>
  /\ UNCHANGED <<entry, inFlight, cancelWanted, started, sealedRouter, taskVars>>

InsideOrNot(e) == TRUE
NobodyInside(e) == inFlight[e] = 0
AwaitOthers(c) == At(c, "awaiting") /\ NobodyInside(On(c)) /\ GoTo(c, "reading")
                  /\ NoRouterFault /\ UNCHANGED <<tableVars, inFlight, taskVars>>

Unclaimed(e) == releasing \ {e}
\* The status is read; what is not drained stays.
ReadStatus(c) == LET e == On(c) IN
  /\ At(c, "reading") /\ NoRouterFault
  /\ IF call[c].pinned /\ Complete(e) THEN GoTo(c, "freeing") /\ UNCHANGED <<releasing, pendingBy, receiptOf>>
     ELSE releasing' = Unclaimed(e) /\ Finish(c, FALSE)
  /\ UNCHANGED <<entry, inFlight, cancelWanted, started, sealedRouter, taskVars>>

Free(state) == CASE state = "none" -> "none" [] state \in {"freed", "twice"} -> "twice" [] OTHER -> "freed"
FreeEntry(c) == LET e == On(c) IN
  /\ At(c, "freeing") /\ NoRouterFault
  /\ IF entry[e] = "released" THEN Finish(c, FALSE) /\ UNCHANGED <<entry, taskVars>>
     ELSE /\ entry' = [entry EXCEPT ![e] = "released"] /\ GoTo(c, "unclaiming")
          /\ native' = [native EXCEPT ![e] = [i \in Kids(e) |-> Free(@[i])]]
          /\ picture' = [picture EXCEPT ![e] = [i \in Kids(e) |-> IF @[i] = "held" THEN "freed" ELSE @[i]]]
          /\ composed' = [composed EXCEPT ![e] = IF @ = "held" THEN "freed" ELSE @]
          /\ UNCHANGED <<pendingBy, receiptOf>>
  /\ UNCHANGED <<inFlight, releasing, cancelWanted, started, sealedRouter>>
Unclaim(c) ==
  /\ At(c, "unclaiming") /\ releasing' = releasing \ {On(c)} /\ Finish(c, TRUE) /\ NoRouterFault
  /\ UNCHANGED <<entry, inFlight, cancelWanted, started, sealedRouter, taskVars>>
-----------------------------------------------------------------------------
\* The control queue seals only while the action and result queues are empty.
SealedReady ==
  /\ \A e \in Captures : /\ entry[e] # "listed" /\ e \notin releasing /\ inFlight[e] = 0 /\ pendingBy[e] = "none"
                         /\ CalledBack(e)
SealRouter ==
  /\ \A c \in Callers : call[c] = NoCall
  /\ sealedRouter # "ready" /\ sealedRouter' = IF SealedReady THEN "ready" ELSE "pending"
  /\ NoRouterFault
  /\ UNCHANGED <<entry, inFlight, releasing, cancelWanted, started, pendingBy, receiptOf, taskVars, call>>

RouterCall(c, op, e) ==
  /\ call[c] = NoCall /\ op \in CallerOps[c]
  /\ \/ op = "start" /\ StartCapture(c, e)
     \/ BeginCall(c, op, e)
     \/ op = "cancel" /\ BeginCancel(c, e)
     \/ op = "release" /\ BeginRelease(c, e)
     \/ op = "authorized" /\ \E a \in Authorities : Authorize(c, e, a)
RouterStep(c) ==
  \/ StartTask(c) \/ SettleStart(c) \/ EnterCall(c) \/ Inspect(c) \/ Compose(c) \/ LeaveCall(c)
  \/ EndCancel(c) \/ VerifyStatus(c) \/ Judge(c) \/ CheckRelease(c) \/ Claim(c) \/ AwaitOthers(c)
  \/ ReadStatus(c) \/ FreeEntry(c) \/ Unclaim(c)
RouterNext ==
  \/ \E e \in Captures : \E i \in Kids(e) : DrainTask(e, i) \/ Callback(e, i)
  \/ \E c \in Callers, e \in Captures, op \in RouterOps : RouterCall(c, op, e)
  \/ \E c \in Callers : RouterStep(c)
  \/ SealRouter
-----------------------------------------------------------------------------
\* Nothing a call in flight uses is freed under it: neither the native task whose
\* status it reads or which it cancels, nor the picture it holds while encoding
\* (capture_router.m in_flight, result_borrows, releasing).
InUseIsAlive ==
  \A c \in Callers : call[c].pinned /\ call[c].at \in {"settling", "inspecting", "composing", "holding", "leaving",
                                                         "judging", "cancelling", "reading"} =>
    LET e == On(c) IN (\A i \in Kids(e) : native[e][i] \notin {"freed", "twice"}) /\ composed[e] # "freed"

\* Everything is freed, and once: a released capture has no native task left and,
\* when the last callback has come, no picture, whether it came before the release
\* or after it.
FreedOnce ==
  \A e \in Captures :
    /\ \A i \in Kids(e) : native[e][i] # "twice"
    /\ entry[e] = "released" => /\ \A i \in Kids(e) : native[e][i] \in {"none", "freed"} /\ picture[e][i] # "held"
                                /\ composed[e] \in {"none", "freed"}

\* A release under way belongs to a caller that will end it: none stays behind to
\* block every later release (capture_router.m releasing).
ReleasingHasOwner ==
  \A e \in releasing : \E c \in Callers : On(c) = e /\ call[c].at \in {"awaiting", "reading", "freeing", "unclaiming"}

\* A rotation is ready only when nothing runs and nothing can call back into the
\* table that goes (meta_capture_router_seal_for_rotation).
SealedIsEmpty ==
  sealedRouter = "ready" => \A e \in Captures : \A i \in Kids(e) :
    native[e][i] \in {"none", "freed"} /\ picture[e][i] # "held" /\ (native[e][i] # "none" => picture[e][i] = "freed")

\* Whatever is to be stopped is: once no call is at a cancelled capture, or at a
\* layout one of whose tasks did not start, none of its native tasks runs on.
StopReaches ==
  \A e \in Captures : (e \in cancelWanted \/ started[e] = "failed") /\ (\A c \in Callers : On(c) # e)
    => \A i \in Kids(e) : native[e][i] # "running"

\* The native tasks alive stay within the bound, though a layout starts several.
NativeTasksBounded ==
  Cardinality({t \in Tasks(Captures) : native[t[1]][t[2]] \in {"running", "cancelled", "drained"}}) <= MaxNative

\* Every capture belongs to somebody at every moment: alive while it is used, freed
\* once, its release in the hands of a caller, the native tasks within their bound;
\* what is to be stopped is, and a sealed router has nothing left.
OwnedAndSettled ==
  /\ InUseIsAlive /\ FreedOnce /\ ReleasingHasOwner /\ NativeTasksBounded
  /\ StopReaches /\ SealedIsEmpty

\* That, and a receipt is only ever given for a release and stays what it is.
CaptureOwnership ==
  [][/\ OwnedAndSettled'
     /\ \A e \in Captures : /\ receiptOf[e] # "none" => receiptOf'[e] = receiptOf[e]
                           /\ receiptOf'[e] # "none" => entry'[e] = "released"]_routerVars
=============================================================================
