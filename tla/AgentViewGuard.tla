---------------------------- MODULE AgentViewGuard -----------------------------
(***************************************************************************)
(* What an agent sees and what it may then do                              *)
(* (runtime/src/agent-view-guard.ts, agent-view-bindings.ts and the        *)
(* helper's view-admission/meta_view_admission.m).                         *)
(*                                                                         *)
(* An observation becomes a view; an action consumes one view, and only if *)
(* nothing that concerns its target happened since the observation began.  *)
(* Events happen in the helper; the guard consumes them later, in order,   *)
(* and waits for them whenever it must know that it is up to date.         *)
(*                                                                         *)
(* One client lineage; targets are of different applications, so that an   *)
(* event about one is not about another.  Production gives views no time   *)
(* to live, so a view ages by events only.  Record and byte budgets are    *)
(* not modelled.                                                           *)
(***************************************************************************)
EXTENDS Naturals, Sequences

CONSTANTS
  Targets,       \* windows and surfaces an agent looks at
  Views,         \* observations; one attempt each
  AgentActions,       \* agent actions; one attempt each
  MaxEvents,     \* bound: events of the native observer
  MaxViewFaults  \* bound: lost streams, failed waits, incomplete captures, closed lineages

ASSUME ViewAssumption ==
  /\ "none" \notin Views   \* no observation is the absent view
  /\ MaxEvents \in Nat /\ MaxViewFaults \in Nat

VARIABLES
  happened,    \* what each event of the native observer is about, in order
  consumed,    \* #nextSequence: how many of them the guard has handled
  watching,    \* FALSE once #terminalError is set
  views,       \* #records
  looks,       \* where each observe() call is
  current,     \* #current: the view the guard holds for a target
  bound,       \* #views of AgentViewBindings: the view an action may take
  acts,        \* where each action is, the view it captured, the views its admission set aside
  viewFaults

viewVars == <<happened, consumed, watching, views, looks, current, bound, acts, viewFaults>>
-----------------------------------------------------------------------------
NoView == "none"
Everything == "everything"     \* an event with no exact target
FreshRecord == [state |-> "none", target |-> Everything, baseline |-> 0]

ViewInit ==
  /\ happened = <<>> /\ consumed = 0 /\ watching = TRUE
  /\ views = [v \in Views |-> FreshRecord]
  /\ looks = [v \in Views |-> [phase |-> "idle", mark |-> 0]]
  /\ current = [t \in Targets |-> NoView] /\ bound = [t \in Targets |-> NoView]
  /\ acts = [a \in AgentActions |-> [phase |-> "idle", view |-> NoView, mark |-> 0, over |-> {}]]
  /\ viewFaults = 0

ViewTypeOK ==
  /\ happened \in Seq(Targets \cup {Everything}) /\ consumed \in 0..Len(happened)
  /\ watching \in BOOLEAN
  /\ views \in [Views -> [state : {"none", "draft", "fresh", "stale"},
                          target : Targets \cup {Everything}, baseline : 0..MaxEvents]]
  /\ looks \in [Views -> [phase : {"idle", "beginning", "capturing", "committing", "done"},
                          mark : 0..MaxEvents]]
  /\ {current, bound} \subseteq [Targets -> Views \cup {NoView}]
  /\ acts \in [AgentActions -> [phase : {"idle", "bound", "admitting", "admitted", "sent", "acted", "refused", "ended"},
                           view : Views \cup {NoView}, mark : 0..MaxEvents, over : SUBSET Views]]

ViewFault == viewFaults < MaxViewFaults /\ viewFaults' = viewFaults + 1
NoViewFault == UNCHANGED viewFaults

\* relevantStructure: an event with no exact target is about every view.
Relevant(event, v) == event \in {Everything, views[v].target}

\* #invalidate: a view that is set aside is no longer the current one of its target.
Invalidated(gone) ==
  /\ views' = [v \in Views |-> IF v \in gone /\ views[v].state # "none"
                               THEN [views[v] EXCEPT !.state = "stale"] ELSE views[v]]
  /\ current' = [t \in Targets |-> IF current[t] \in gone THEN NoView ELSE current[t]]
LookAt(v, phase) == looks' = [looks EXCEPT ![v] = [phase |-> phase, mark |-> 0]]
ActAt(a, phase) == acts' = [acts EXCEPT ![a].phase = phase, ![a].mark = 0]
-----------------------------------------------------------------------------
(* Events: the native observer records one, the guard handles it later.    *)
Happen(about) ==
  /\ Len(happened) < MaxEvents /\ happened' = Append(happened, about) /\ NoViewFault
  /\ UNCHANGED <<consumed, watching, views, looks, current, bound, acts>>

OnlyExact(event) == {v \in Views : event = views[v].target}   \* mutant
Touched(event) == {v \in Views : Relevant(event, v)}
HandleEvent ==
  /\ watching /\ consumed < Len(happened) /\ consumed' = consumed + 1
  /\ Invalidated(Touched(happened[consumed + 1])) /\ NoViewFault
  /\ UNCHANGED <<happened, watching, looks, bound, acts>>

\* The stream ends, loses history or breaks its order: the guard is done for good.
Terminal ==
  /\ watching /\ watching' = FALSE /\ Invalidated(Views) /\ ViewFault
  /\ UNCHANGED <<happened, consumed, looks, bound, acts>>

\* #synchronize: the guard waits until it has consumed what the coverage answer names.
\* Callers share one request of the hub, so an answer may be older than the question.
AnswerMark == 0..Len(happened)
UpToDate(mark) == watching /\ consumed >= mark
-----------------------------------------------------------------------------
(* observe(): retire the old view, begin a draft, capture, commit.         *)
Observe(v, t) ==
  /\ looks[v].phase = "idle" /\ watching
  /\ \E mark \in AnswerMark : looks' = [looks EXCEPT ![v] = [phase |-> "beginning", mark |-> mark]]
  /\ views' = [w \in Views |-> IF w = v THEN [FreshRecord EXCEPT !.target = t]
                               ELSE IF w = bound[t] THEN [views[w] EXCEPT !.state = "stale"]
                               ELSE views[w]]
  /\ current' = [current EXCEPT ![t] = IF @ = bound[t] THEN NoView ELSE @]
  /\ bound' = [bound EXCEPT ![t] = NoView] /\ NoViewFault
  /\ UNCHANGED <<happened, consumed, watching, acts>>

BeginObservation(v) ==
  /\ looks[v].phase = "beginning" /\ UpToDate(looks[v].mark) /\ LookAt(v, "capturing")
  /\ views' = [views EXCEPT ![v].state = "draft", ![v].baseline = consumed]
  /\ NoViewFault /\ UNCHANGED <<happened, consumed, watching, current, bound, acts>>

Captured(v) ==
  /\ looks[v].phase = "capturing" /\ watching
  /\ \E mark \in AnswerMark : looks' = [looks EXCEPT ![v] = [phase |-> "committing", mark |-> mark]]
  /\ NoViewFault /\ UNCHANGED <<happened, consumed, watching, views, current, bound, acts>>

\* cancelObservation: an incomplete or failed capture forgets its draft.
CancelObservation(v) ==
  /\ looks[v].phase \in {"capturing", "committing"} /\ LookAt(v, "done")
  /\ looks[v].phase = "committing" => views[v].state = "stale"
  /\ views' = IF views[v].state = "draft" THEN [views EXCEPT ![v] = FreshRecord] ELSE views
  /\ ViewFault /\ UNCHANGED <<happened, consumed, watching, current, bound, acts>>

AnyDraft(v) == views[v].state \in {"draft", "stale"}   \* mutant
StillDraft(v) == views[v].state = "draft"
CommitObservation(v) ==
  LET t == views[v].target IN
  /\ looks[v].phase = "committing" /\ UpToDate(looks[v].mark) /\ StillDraft(v)
  /\ LookAt(v, "done")
  /\ views' = [w \in Views |-> IF w = v THEN [views[w] EXCEPT !.state = "fresh"]
                               ELSE IF w = current[t] THEN [views[w] EXCEPT !.state = "stale"]
                               ELSE views[w]]
  /\ current' = [current EXCEPT ![t] = v] /\ bound' = [bound EXCEPT ![t] = v]
  /\ NoViewFault /\ UNCHANGED <<happened, consumed, watching, acts>>
-----------------------------------------------------------------------------
(* An action: run() captures the view, authorize() admits the operation,   *)
(* the helper admits its proof and looks again before the first dispatch.  *)
Run(a, t) ==
  /\ acts[a].phase = "idle" /\ bound[t] # NoView
  /\ acts' = [acts EXCEPT ![a] = [phase |-> "bound", view |-> bound[t], mark |-> 0, over |-> {}]]
  /\ NoViewFault /\ UNCHANGED <<happened, consumed, watching, views, looks, current, bound>>

\* #assertFresh
Fresh(v) == views[v].state = "fresh" /\ current[views[v].target] = v

Authorize(a) ==
  /\ acts[a].phase = "bound" /\ watching /\ Fresh(acts[a].view)
  /\ \E mark \in AnswerMark : acts' = [acts EXCEPT ![a].phase = "admitting", ![a].mark = mark]
  /\ NoViewFault /\ UNCHANGED <<happened, consumed, watching, views, looks, current, bound>>

\* The ticket is checked again after the wait; an admission consumes every view.
CheckedOnce(v) == views[v].state # "none"   \* mutant
StillFresh(v) == Fresh(v)
OnlyItsOwn(v) == {v}   \* mutant
Consumed(v) == Views
Admit(a) ==
  /\ acts[a].phase = "admitting" /\ UpToDate(acts[a].mark) /\ StillFresh(acts[a].view)
  /\ Invalidated(Consumed(acts[a].view)) /\ NoViewFault
  /\ acts' = [acts EXCEPT ![a].phase = "admitted", ![a].mark = 0, ![a].over = {v \in Views : views[v].state # "none"}]
  /\ UNCHANGED <<happened, consumed, watching, looks, bound>>

Refused(a) ==
  /\ \/ acts[a].phase \in {"bound", "admitting"} /\ ~Fresh(acts[a].view)
     \/ acts[a].phase \in {"bound", "admitting"} /\ ~watching
  /\ ActAt(a, "refused") /\ NoViewFault
  /\ UNCHANGED <<happened, consumed, watching, views, looks, current, bound>>

\* admitRequest: no event at all after the baseline, and neither view nor operation used.
Unused(a) == \A b \in AgentActions \ {a} : acts[b].phase \in {"sent", "acted"} => acts[b].view # acts[a].view
NativeAdmit(a) ==
  /\ acts[a].phase = "admitted" /\ Unused(a)
  /\ views[acts[a].view].baseline = Len(happened)
  /\ acts' = [acts EXCEPT ![a].phase = "sent", ![a].mark = Len(happened)]
  /\ NoViewFault /\ UNCHANGED <<happened, consumed, watching, views, looks, current, bound>>

\* recheckOperationId: the head is still the one of the admission.
AnyHead(a) == acts[a].mark <= Len(happened)   \* mutant
SameHead(a) == acts[a].mark = Len(happened)
FirstDispatch(a) ==
  /\ acts[a].phase = "sent" /\ SameHead(a)
  /\ acts' = [acts EXCEPT ![a].phase = "acted", ![a].mark = Len(happened)]
  /\ NoViewFault /\ UNCHANGED <<happened, consumed, watching, views, looks, current, bound>>

\* The helper refuses the proof, or finds another head before the first dispatch.
NativeRefuses(a) ==
  /\ acts[a].phase \in {"admitted", "sent"} /\ views[acts[a].view].baseline < Len(happened)
  /\ ActAt(a, "refused") /\ NoViewFault
  /\ UNCHANGED <<happened, consumed, watching, views, looks, current, bound>>

\* run() ends, wherever the action failed: an admitted action retires the view it
\* captured, never a newer one of its key.
RetiredByKey(a) == {bound[views[acts[a].view].target]}   \* mutant
Retired(a) == {v \in {acts[a].view} : acts[a].over # {}}
EndRun(a) ==
  /\ acts[a].phase \in {"bound", "admitted", "acted", "refused"} /\ ActAt(a, "ended")
  /\ Invalidated(Retired(a))
  /\ bound' = [t \in Targets |-> IF bound[t] \in Retired(a) THEN NoView ELSE bound[t]]
  /\ NoViewFault /\ UNCHANGED <<happened, consumed, watching, looks>>
-----------------------------------------------------------------------------
\* A wait that runs out, or coverage that is not healthy, sets every view aside.
SyncFails ==
  /\ Invalidated(Views) /\ ViewFault
  /\ \/ \E v \in Views : /\ looks[v].phase \in {"beginning", "committing"} /\ LookAt(v, "done")
                         /\ UNCHANGED acts
     \/ \E a \in AgentActions : /\ acts[a].phase = "admitting" /\ ActAt(a, "refused")
                           /\ UNCHANGED looks
  /\ UNCHANGED <<happened, consumed, watching, bound>>

ReleaseLineage ==
  /\ ViewFault /\ Invalidated(Views) /\ bound' = [t \in Targets |-> NoView]
  /\ UNCHANGED <<happened, consumed, watching, looks, acts>>

ViewNext ==
  \/ \E about \in Targets \cup {Everything} : Happen(about)
  \/ HandleEvent \/ Terminal \/ SyncFails \/ ReleaseLineage
  \/ \E v \in Views, t \in Targets : Observe(v, t)
  \/ \E v \in Views : BeginObservation(v) \/ Captured(v) \/ CancelObservation(v) \/ CommitObservation(v)
  \/ \E a \in AgentActions, t \in Targets : Run(a, t)
  \/ \E a \in AgentActions : \/ Authorize(a) \/ Admit(a) \/ Refused(a) \/ NativeAdmit(a)
                        \/ FirstDispatch(a) \/ NativeRefuses(a) \/ EndRun(a)
-----------------------------------------------------------------------------
\* No relevant event was handled since the draft of a usable view began: neither
\* the wait of commitObservation nor a replaced draft lets one slip through
\* (agent-view-guard.ts #handleEvent, commitObservation).
UsableViewsAreCurrent ==
  \A v \in Views : views[v].state \in {"draft", "fresh"} =>
    \A i \in views[v].baseline + 1 .. consumed : ~Relevant(happened[i], v)

\* Of two actions that took the same view, and both found it fresh before they
\* waited, at most one is admitted (agent-view-guard.ts:282).
OneActionPerView ==
  \A a, b \in AgentActions :
    a # b /\ acts[a].over # {} /\ acts[b].over # {} => acts[a].view # acts[b].view

\* The first dispatch of an action finds the screen as its observation did: no
\* event since the observation began, though the guard lags behind the helper
\* (meta_view_admission.m admitRequest and recheckOperationId).
ActsOnWhatWasSeen ==
  \A a \in AgentActions : acts[a].phase = "acted" => views[acts[a].view].baseline = acts[a].mark

\* Of two admitted actions one had its view begun after the other was admitted:
\* what one action may have changed no later one relies on, though its view was
\* of another target (agent-view-guard.ts admit, invalidateViews).
NoActionOnAnOlderView ==
  \A a, b \in AgentActions : a # b => ~(acts[a].view \in acts[b].over /\ acts[b].view \in acts[a].over)

\* An action acts on what its view showed, no view serves two actions, and the end
\* of an action leaves a view that was observed while it ran usable
\* (agent-view-bindings.ts #retire: "only the captured ticket is released, even
\* if the key already points to a new observe").
ViewsServeOnce ==
  [][/\ UsableViewsAreCurrent' /\ OneActionPerView' /\ ActsOnWhatWasSeen' /\ NoActionOnAnOlderView'
     /\ \A a \in AgentActions, t \in Targets :
          acts[a].phase # "ended" /\ acts'[a].phase = "ended" /\ bound[t] # acts[a].view
            => bound'[t] = bound[t]]_viewVars
=============================================================================
