--------------------------- MODULE ServicesProofs ---------------------------
(***************************************************************************)
(* Proofs about the services around the core, for any value of their       *)
(* constants.  Views: an action acts on what its view showed, and no view   *)
(* serves two actions.  Hub: an observer's events reach its subscribers in  *)
(* order, or they are told of the gap.  Host: a rotation, a drain, a close, *)
(* a preparation and a recovery that overlap combine to no exit and no free *)
(* lock without proof, and to an open admission only by the recovery.       *)
(* Permissions, preparation of the observers and the doctor: what they open *)
(* and keep is what they were told.  The last part joins them into the      *)
(* specification that the run of the services checks.                      *)
(***************************************************************************)
EXTENDS BrowserProofs, MCServices, FunctionTheorems

-----------------------------------------------------------------------------
(* Views of agents: the inductive invariant.                               *)

ViewSpec == ViewInit /\ [][ViewNext]_viewVars

\* The events stay within their bound, and no usable view missed one that is about it.
EventsInv == Len(happened) <= MaxEvents /\ UsableViewsAreCurrent

\* A view has a record from the moment its draft begins, and is usable only after its
\* commit.
RecordInv ==
  \A v \in Views :
    /\ looks[v].phase \in {"idle", "beginning"} => views[v].state = "none"
    /\ views[v].state = "fresh" => looks[v].phase = "done"
    /\ views[v].state # "none" \/ looks[v].phase = "beginning" => views[v].target \in Targets

\* A committed view never becomes a draft again.
Shown(v) == looks[v].phase = "done" /\ views[v].state \in {"fresh", "stale"}

\* What the guard and the bindings hold for a target is a committed view of it.
HolderInv ==
  \A t \in Targets :
    /\ current[t] # NoView => views[current[t]].state = "fresh" /\ views[current[t]].target = t
    /\ bound[t] # NoView => Shown(bound[t]) /\ views[bound[t]].target = t

\* An action keeps the view it captured; the helper admitted it on the screen of that
\* view; what its admission set aside, its own view included, stays set aside.
AdmittedInv ==
  \A a \in AgentActions :
    /\ acts[a].phase # "idle" => acts[a].view \in Views /\ Shown(acts[a].view)
    /\ acts[a].phase \in {"sent", "acted"} => views[acts[a].view].baseline = acts[a].mark
    /\ \A v \in acts[a].over : views[v].state = "stale"
    /\ acts[a].over # {} => acts[a].view \in acts[a].over

ViewInv ==
  ViewTypeOK /\ EventsInv /\ RecordInv /\ HolderInv /\ AdmittedInv /\ NoActionOnAnOlderView

-----------------------------------------------------------------------------
(* Views: operators.                                                       *)

ViewRecord == [state : {"none", "draft", "fresh", "stale"}, target : Targets \cup {Everything},
           baseline : 0..MaxEvents]
Look == [phase : {"idle", "beginning", "capturing", "committing", "done"}, mark : 0..MaxEvents]
Act == [phase : {"idle", "bound", "admitting", "admitted", "sent", "acted", "refused", "ended"},
        view : Views \cup {NoView}, mark : 0..MaxEvents, over : SUBSET Views]

\* Views that are set aside keep what they showed; usable ones become stale, and the guard
\* holds none of them.
LEMMA InvalidatedIs ==
  ASSUME ViewTypeOK, NEW gone, Invalidated(gone)
  PROVE  /\ views' \in [Views -> ViewRecord] /\ current' \in [Targets -> Views \cup {NoView}]
         /\ \A v \in Views :
              /\ views'[v].target = views[v].target /\ views'[v].baseline = views[v].baseline
              /\ views'[v].state = IF v \in gone /\ views[v].state # "none" THEN "stale"
                                   ELSE views[v].state
         /\ \A t \in Targets : current'[t] = IF current[t] \in gone THEN NoView ELSE current[t]
<1>1. \A v \in Views : views[v] \in ViewRecord
  BY DEF ViewTypeOK, ViewRecord
<1>2. \A v \in Views : [views[v] EXCEPT !.state = "stale"] \in ViewRecord
  BY <1>1 DEF ViewRecord
<1>3. views' \in [Views -> ViewRecord]
  BY <1>1, <1>2 DEF Invalidated
<1>4. \A v \in Views :
        /\ views'[v].target = views[v].target /\ views'[v].baseline = views[v].baseline
        /\ views'[v].state = IF v \in gone /\ views[v].state # "none" THEN "stale"
                             ELSE views[v].state
  BY <1>1 DEF Invalidated, ViewRecord
<1> QED
  BY <1>3, <1>4 DEF Invalidated, ViewTypeOK

\* Views that were shown stay shown, of the same moment, and stale ones stay stale.
ViewsLast ==
  \A v \in Views :
    /\ Shown(v) => Shown(v)' /\ views'[v].baseline = views[v].baseline
    /\ views[v].state = "stale" => views'[v].state = "stale"

\* Setting views aside, with the looks and the bindings as they are or given up, keeps
\* the records and what is held.
LEMMA InvalidatedKeeps ==
  ASSUME ViewInv, NEW gone, Invalidated(gone),
         \A v \in Views :
           \/ looks'[v].phase = looks[v].phase
           \/ (looks[v].phase \in {"beginning", "committing"} /\ looks'[v].phase = "done"),
         \A t \in Targets : bound'[t] \in {bound[t], NoView}
  PROVE  RecordInv' /\ HolderInv' /\ ViewsLast
<1>1. /\ \A v \in Views :
           /\ views'[v].target = views[v].target /\ views'[v].baseline = views[v].baseline
           /\ views'[v].state = IF v \in gone /\ views[v].state # "none" THEN "stale"
                                ELSE views[v].state
      /\ \A t \in Targets : current'[t] = IF current[t] \in gone THEN NoView ELSE current[t]
  BY InvalidatedIs DEF ViewInv
<1>2. RecordInv'
  BY <1>1 DEF ViewInv, RecordInv
<1>3. ViewsLast
  BY <1>1 DEF ViewsLast, Shown
<1>4. \A t \in Targets : {current[t], bound[t]} \subseteq Views \cup {NoView}
  BY DEF ViewInv, ViewTypeOK
<1>5. HolderInv'
  BY <1>1, <1>3, <1>4 DEF ViewInv, HolderInv, ViewsLast
<1> QED
  BY <1>2, <1>3, <1>5

\* With no event handled, usable views miss none.
LEMMA InvalidatedMissesNone ==
  ASSUME ViewInv, NEW gone, Invalidated(gone), UNCHANGED <<happened, consumed>>
  PROVE  EventsInv'
<1>1. \A v \in Views :
        /\ views'[v].target = views[v].target /\ views'[v].baseline = views[v].baseline
        /\ views'[v].state \in {"draft", "fresh"} => views[v].state \in {"draft", "fresh"}
  BY InvalidatedIs DEF ViewInv
<1> QED
  BY <1>1 DEF ViewInv, EventsInv, UsableViewsAreCurrent, Relevant

\* Actions that keep their view and what they set aside keep what was admitted.
LEMMA ActsKeep ==
  ASSUME ViewInv, ViewsLast,
         \A a \in AgentActions :
           /\ acts'[a].view = acts[a].view /\ acts'[a].over = acts[a].over
           /\ acts'[a].phase # "idle" => acts[a].phase # "idle"
           /\ acts'[a].phase \in {"sent", "acted"} => views[acts[a].view].baseline = acts'[a].mark
  PROVE  AdmittedInv' /\ NoActionOnAnOlderView'
<1>1. NoActionOnAnOlderView'
  BY DEF ViewInv, NoActionOnAnOlderView
<1>2. \A a \in AgentActions : acts[a].over \subseteq Views
  BY DEF ViewInv, ViewTypeOK
<1>3. AdmittedInv'
  BY <1>2 DEF ViewInv, AdmittedInv, ViewsLast
<1> QED
  BY <1>1, <1>3

\* The same where no action moves.
LEMMA ActsRest ==
  ASSUME ViewInv, ViewsLast, acts' = acts PROVE AdmittedInv' /\ NoActionOnAnOlderView'
  BY ActsKeep DEF ViewInv, AdmittedInv

\* A moment of the screen lies within the bound of the events.
LEMMA MomentsAreBounded ==
  ASSUME ViewInv
  PROVE  /\ consumed \in 0..MaxEvents /\ Len(happened) \in 0..MaxEvents
         /\ \A mark \in AnswerMark : mark \in 0..MaxEvents
  BY ViewAssumption, LenProperties DEF ViewInv, ViewTypeOK, EventsInv, AnswerMark

\* One observation moves on, with no question open.
LEMMA LookAtIs ==
  ASSUME ViewInv, NEW v \in Views, LookAt(v, "done")
  PROVE  looks' \in [Views -> Look] /\ looks'[v].phase = "done"
         /\ \A w \in Views : w # v => looks'[w] = looks[w]
<1>1. looks \in [Views -> Look]
  BY DEF ViewInv, ViewTypeOK, Look
<1>2. [phase |-> "done", mark |-> 0] \in Look
  BY ViewAssumption DEF Look
<1>3. looks' = [looks EXCEPT ![v] = [phase |-> "done", mark |-> 0]]
  BY DEF LookAt
<1> QED
  BY <1>1, <1>2, <1>3

\* One action moves on, with no question open.
LEMMA ActAtIs ==
  ASSUME ViewInv, NEW a \in AgentActions, NEW p \in {"refused", "ended"}, ActAt(a, p)
  PROVE  /\ acts' \in [AgentActions -> Act]
         /\ acts'[a].phase = p /\ acts'[a].view = acts[a].view /\ acts'[a].over = acts[a].over
         /\ \A b \in AgentActions : b # a => acts'[b] = acts[b]
<1> DEFINE moved == [acts[a] EXCEPT !.phase = p, !.mark = 0]
<1>1. acts \in [AgentActions -> Act] /\ acts[a] \in Act
  BY DEF ViewInv, ViewTypeOK, Act
<1>2. 0 \in 0..MaxEvents
  BY ViewAssumption
<1>3. moved \in Act /\ moved.phase = p /\ moved.view = acts[a].view /\ moved.over = acts[a].over
  BY <1>1, <1>2 DEF Act
<1>4. acts' = [acts EXCEPT ![a] = moved]
  BY DEF ActAt
<1> HIDE DEF moved
<1> QED
  BY <1>1, <1>3, <1>4

-----------------------------------------------------------------------------
(* Views: events and failures.                                             *)

\* The screen changes: no view has handled the event yet.
LEMMA HappenStep ==
  ASSUME ViewInv, NEW about \in Targets \cup {Everything}, Happen(about) PROVE ViewInv'
<1>1. /\ happened' = Append(happened, about) /\ Len(happened) < MaxEvents
      /\ UNCHANGED <<consumed, watching, views, looks, current, bound, acts>>
  BY DEF Happen
<1>2. /\ happened \in Seq(Targets \cup {Everything}) /\ happened' \in Seq(Targets \cup {Everything})
      /\ Len(happened') = Len(happened) + 1 /\ Len(happened) \in Nat
      /\ \A i \in 1..Len(happened) : happened'[i] = happened[i]
  BY <1>1, AppendProperties, LenProperties DEF ViewInv, ViewTypeOK
<1>3. consumed \in 0..Len(happened)
  BY DEF ViewInv, ViewTypeOK
<1>4. ViewTypeOK'
  BY <1>1, <1>2, <1>3 DEF ViewInv, ViewTypeOK
<1>5. \A v \in Views : views[v].baseline \in Nat
  BY ViewAssumption DEF ViewInv, ViewTypeOK
<1>6. EventsInv'
  <2>1. Len(happened') <= MaxEvents
    BY <1>1, <1>2, ViewAssumption
  <2>2. \A v \in Views : \A i \in views[v].baseline + 1 .. consumed : happened'[i] = happened[i]
    BY <1>2, <1>3, <1>5
  <2> QED
    BY <1>1, <2>1, <2>2 DEF ViewInv, EventsInv, UsableViewsAreCurrent, Relevant
<1>7. RecordInv' /\ HolderInv' /\ ViewsLast
  BY <1>1 DEF ViewInv, RecordInv, HolderInv, ViewsLast, Shown
<1> QED
  BY <1>1, <1>4, <1>6, <1>7, ActsRest DEF ViewInv

\* The guard handles the next event: the views it is about are set aside.
LEMMA HandleStep == ASSUME ViewInv, HandleEvent PROVE ViewInv'
<1> DEFINE gone == Touched(happened[consumed + 1])
<1>1. /\ watching /\ consumed < Len(happened) /\ consumed' = consumed + 1 /\ Invalidated(gone)
      /\ UNCHANGED <<happened, watching, looks, bound, acts>>
  BY DEF HandleEvent
<1>2. /\ views' \in [Views -> ViewRecord] /\ current' \in [Targets -> Views \cup {NoView}]
      /\ \A v \in Views :
           /\ views'[v].target = views[v].target /\ views'[v].baseline = views[v].baseline
           /\ views'[v].state = IF v \in gone /\ views[v].state # "none" THEN "stale"
                                ELSE views[v].state
  BY <1>1, InvalidatedIs DEF ViewInv
<1>3. RecordInv' /\ HolderInv' /\ ViewsLast
  BY <1>1, InvalidatedKeeps
<1>4. consumed \in 0..Len(happened) /\ Len(happened) \in Nat
  BY LenProperties DEF ViewInv, ViewTypeOK
<1>5. ViewTypeOK'
  BY <1>1, <1>2, <1>4 DEF ViewInv, ViewTypeOK, ViewRecord
<1>6. EventsInv'
  <2>1. SUFFICES ASSUME NEW v \in Views, views'[v].state \in {"draft", "fresh"},
                        NEW i \in views'[v].baseline + 1 .. consumed'
                 PROVE  ~Relevant(happened[i], v)'
    BY <1>1 DEF ViewInv, EventsInv, UsableViewsAreCurrent
  <2>2. v \notin gone /\ views[v].state \in {"draft", "fresh"}
    BY <1>2, <2>1
  <2>3. views[v].baseline \in Nat
    BY ViewAssumption DEF ViewInv, ViewTypeOK
  <2>4. CASE i = consumed + 1
    BY <1>1, <1>2, <2>2, <2>4 DEF Touched, Relevant
  <2>5. CASE i # consumed + 1
    <3>1. i \in views[v].baseline + 1 .. consumed
      BY <1>1, <1>2, <1>4, <2>3, <2>5
    <3> QED
      BY <1>1, <1>2, <2>2, <3>1 DEF ViewInv, EventsInv, UsableViewsAreCurrent, Relevant
  <2> QED
    BY <2>4, <2>5
<1> QED
  BY <1>1, <1>3, <1>5, <1>6, ActsRest DEF ViewInv

\* The stream fails, a wait runs out or a lineage is released: every view is set aside.
LEMMA FailureStep == ASSUME ViewInv, Terminal \/ SyncFails \/ ReleaseLineage PROVE ViewInv'
<1>1. Invalidated(Views) /\ UNCHANGED <<happened, consumed>>
  BY DEF Terminal, SyncFails, ReleaseLineage
<1>2. views' \in [Views -> ViewRecord] /\ current' \in [Targets -> Views \cup {NoView}]
  BY <1>1, InvalidatedIs DEF ViewInv
<1>3. \/ looks' = looks
      \/ \E v \in Views : looks[v].phase \in {"beginning", "committing"} /\ LookAt(v, "done")
  BY DEF Terminal, SyncFails, ReleaseLineage
<1>4. \/ acts' = acts
      \/ \E a \in AgentActions : acts[a].phase = "admitting" /\ ActAt(a, "refused")
  BY DEF Terminal, SyncFails, ReleaseLineage
<1>5. bound' = bound \/ bound' = [t \in Targets |-> NoView]
  BY DEF Terminal, SyncFails, ReleaseLineage
<1>6. watching' \in BOOLEAN
  <2>1. watching' = FALSE \/ watching' = watching
    BY DEF Terminal, SyncFails, ReleaseLineage
  <2>2. watching \in BOOLEAN
    BY DEF ViewInv, ViewTypeOK
  <2> QED
    BY <2>1, <2>2, Zenon
<1>7. looks' \in [Views -> Look]
  BY <1>3, LookAtIs DEF ViewInv, ViewTypeOK, Look
<1>8. acts' \in [AgentActions -> Act]
  <2>1. CASE acts' = acts
    BY <2>1 DEF ViewInv, ViewTypeOK, Act
  <2> QED
    BY <1>4, <2>1, ActAtIs
<1>9. bound' \in [Targets -> Views \cup {NoView}]
  BY <1>5 DEF ViewInv, ViewTypeOK
<1>10. ViewTypeOK'
  BY <1>1, <1>2, <1>6, <1>7, <1>8, <1>9 DEF ViewInv, ViewTypeOK, ViewRecord, Look, Act
<1>11. \A v \in Views :
         \/ looks'[v].phase = looks[v].phase
         \/ (looks[v].phase \in {"beginning", "committing"} /\ looks'[v].phase = "done")
  BY <1>3, LookAtIs
<1>12. RecordInv' /\ HolderInv' /\ ViewsLast
  <2>1. \A t \in Targets : bound'[t] \in {bound[t], NoView}
    BY <1>5
  <2> QED
    BY <1>1, <1>11, <2>1, InvalidatedKeeps
<1>13. \A a \in AgentActions :
         /\ acts'[a].view = acts[a].view /\ acts'[a].over = acts[a].over
         /\ acts'[a].phase # "idle" => acts[a].phase # "idle"
         /\ acts'[a].phase \in {"sent", "acted"} => views[acts[a].view].baseline = acts'[a].mark
  <2>1. CASE acts' = acts
    BY <2>1 DEF ViewInv, AdmittedInv
  <2>2. ASSUME NEW a \in AgentActions, acts[a].phase = "admitting", ActAt(a, "refused")
        PROVE  \A b \in AgentActions :
                 /\ acts'[b].view = acts[b].view /\ acts'[b].over = acts[b].over
                 /\ acts'[b].phase # "idle" => acts[b].phase # "idle"
                 /\ acts'[b].phase \in {"sent", "acted"} => views[acts[b].view].baseline = acts'[b].mark
    <3>1. /\ acts'[a].phase = "refused" /\ acts'[a].view = acts[a].view /\ acts'[a].over = acts[a].over
          /\ \A b \in AgentActions : b # a => acts'[b] = acts[b]
      BY <2>2, ActAtIs
    <3> QED
      BY <2>2, <3>1 DEF ViewInv, AdmittedInv
  <2> QED
    BY <1>4, <2>1, <2>2
<1> QED
  BY <1>1, <1>10, <1>12, <1>13, ActsKeep, InvalidatedMissesNone DEF ViewInv
-----------------------------------------------------------------------------
(* Views: observations.                                                    *)

\* A new look retires the view its target had.
LEMMA ObserveStep ==
  ASSUME ViewInv, NEW v \in Views, NEW t \in Targets, Observe(v, t) PROVE ViewInv'
<1> DEFINE fresh == [FreshRecord EXCEPT !.target = t]
           retired == [views[bound[t]] EXCEPT !.state = "stale"]
<1>1. /\ looks[v].phase = "idle"
      /\ views' = [w \in Views |-> IF w = v THEN fresh
                                   ELSE IF w = bound[t] THEN [views[w] EXCEPT !.state = "stale"]
                                   ELSE views[w]]
      /\ current' = [current EXCEPT ![t] = IF current[t] = bound[t] THEN NoView ELSE current[t]]
      /\ bound' = [bound EXCEPT ![t] = NoView]
      /\ UNCHANGED <<happened, consumed, watching, acts>>
  BY DEF Observe
<1>2. PICK mark \in 0..MaxEvents :
        looks' = [looks EXCEPT ![v] = [phase |-> "beginning", mark |-> mark]]
  BY MomentsAreBounded DEF Observe
<1>3. /\ views \in [Views -> ViewRecord] /\ looks \in [Views -> Look]
      /\ current \in [Targets -> Views \cup {NoView}] /\ bound \in [Targets -> Views \cup {NoView}]
  BY DEF ViewInv, ViewTypeOK, ViewRecord, Look
<1>4. fresh \in ViewRecord /\ fresh.state = "none" /\ fresh.target = t
  BY ViewAssumption DEF FreshRecord, ViewRecord, Everything
<1>5. /\ looks' \in [Views -> Look] /\ looks'[v].phase = "beginning"
      /\ \A w \in Views \ {v} : looks'[w] = looks[w]
  BY <1>2, <1>3 DEF Look
<1>6. \A w \in Views : /\ [views[w] EXCEPT !.state = "stale"] \in ViewRecord
                       /\ [views[w] EXCEPT !.state = "stale"].state = "stale"
                       /\ [views[w] EXCEPT !.state = "stale"].target = views[w].target
                       /\ [views[w] EXCEPT !.state = "stale"].baseline = views[w].baseline
  BY <1>3 DEF ViewRecord
<1> HIDE DEF fresh
<1>7. /\ views' \in [Views -> ViewRecord] /\ views'[v] = fresh
      /\ \A w \in Views \ {v} :
           /\ w # bound[t] => views'[w] = views[w]
           /\ w = bound[t] => views'[w].state = "stale"
           /\ views'[w].target = views[w].target /\ views'[w].baseline = views[w].baseline
  BY <1>1, <1>3, <1>4, <1>6
<1>8. ViewTypeOK'
  <2>1. bound' \in [Targets -> Views \cup {NoView}] /\ current' \in [Targets -> Views \cup {NoView}]
    BY <1>1, <1>3
  <2> QED
    BY <1>1, <1>5, <1>7, <2>1 DEF ViewInv, ViewTypeOK, ViewRecord, Look
<1>9. bound[t] \in Views => Shown(bound[t]) /\ bound[t] # v
  BY <1>1, ViewAssumption DEF ViewInv, HolderInv, NoView, Shown
<1>10. EventsInv'
  <2>1. \A w \in Views : views'[w].state \in {"draft", "fresh"} => w # v /\ views'[w] = views[w]
    BY <1>4, <1>7
  <2> QED
    BY <1>1, <2>1 DEF ViewInv, EventsInv, UsableViewsAreCurrent, Relevant
<1>11. RecordInv'
  BY <1>4, <1>5, <1>7, <1>9 DEF ViewInv, RecordInv, Shown
<1>12. ViewsLast
  BY <1>1, <1>5, <1>7 DEF ViewInv, RecordInv, ViewsLast, Shown
<1>13. HolderInv'
  <2>1. \A u \in Targets : bound'[u] # NoView => bound'[u] = bound[u] /\ u # t /\ bound[u] \in Views
    BY <1>1, <1>3
  <2>2. \A u \in Targets : current'[u] # NoView =>
          current'[u] = current[u] /\ current[u] # bound[t] /\ current[u] \in Views
    BY <1>1, <1>3 DEF ViewInv, HolderInv
  <2>3. \A u \in Targets : current'[u] # NoView => current[u] # v
    BY <1>1, <2>2 DEF ViewInv, HolderInv, RecordInv
  <2>4. \A u \in Targets : bound'[u] # NoView => bound[u] # v
    BY <1>1, <2>1 DEF ViewInv, HolderInv, Shown
  <2>5. \A u \in Targets : bound'[u] # NoView => Shown(bound[u])' /\ views'[bound[u]].target = u
    BY <1>7, <1>12, <2>1, <2>4 DEF ViewInv, HolderInv, ViewsLast
  <2> QED
    BY <1>7, <2>1, <2>2, <2>3, <2>5 DEF ViewInv, HolderInv
<1> QED
  BY <1>1, <1>8, <1>10, <1>11, <1>12, <1>13, ActsRest DEF ViewInv

\* A draft begins at the moment the guard has reached.
LEMMA BeginStep == ASSUME ViewInv, NEW v \in Views, BeginObservation(v) PROVE ViewInv'
<1> DEFINE draft == [views[v] EXCEPT !.state = "draft", !.baseline = consumed]
           look == [phase |-> "capturing", mark |-> 0]
<1>1. /\ looks[v].phase = "beginning" /\ looks' = [looks EXCEPT ![v] = look]
      /\ views' = [views EXCEPT ![v] = draft]
      /\ UNCHANGED <<happened, consumed, watching, current, bound, acts>>
  BY DEF BeginObservation, LookAt
<1>2. /\ views \in [Views -> ViewRecord] /\ looks \in [Views -> Look] /\ views[v] \in ViewRecord
      /\ consumed \in 0..MaxEvents
  BY MomentsAreBounded DEF ViewInv, ViewTypeOK, ViewRecord, Look
<1>3. /\ draft \in ViewRecord /\ draft.state = "draft" /\ draft.target = views[v].target
      /\ draft.baseline = consumed
  BY <1>2 DEF ViewRecord
<1>4. look \in Look /\ look.phase = "capturing"
  BY ViewAssumption DEF Look
<1> HIDE DEF draft, look
<1>5. /\ views' \in [Views -> ViewRecord] /\ looks' \in [Views -> Look]
      /\ views'[v] = draft /\ looks'[v] = look
      /\ \A w \in Views \ {v} : views'[w] = views[w] /\ looks'[w] = looks[w]
  BY <1>1, <1>2, <1>3, <1>4
<1>6. ViewTypeOK'
  BY <1>1, <1>5 DEF ViewInv, ViewTypeOK, ViewRecord, Look
<1>7. EventsInv'
  <2>1. \A i \in views'[v].baseline + 1 .. consumed' : FALSE
    BY <1>1, <1>2, <1>3, <1>5
  <2> QED
    BY <1>1, <1>5, <2>1 DEF ViewInv, EventsInv, UsableViewsAreCurrent, Relevant
<1>8. RecordInv'
  BY <1>1, <1>3, <1>4, <1>5 DEF ViewInv, RecordInv
<1>9. views[v].state = "none"
  BY <1>1 DEF ViewInv, RecordInv
<1>10. HolderInv' /\ ViewsLast
  <2>1. ViewsLast
    BY <1>1, <1>5, <1>9 DEF ViewsLast, Shown
  <2>2. \A t \in Targets : {current[t], bound[t]} \subseteq Views \cup {NoView}
    BY DEF ViewInv, ViewTypeOK
  <2> QED
    BY <1>1, <1>5, <1>9, <2>1, <2>2 DEF ViewInv, HolderInv, Shown
<1> QED
  BY <1>1, <1>6, <1>7, <1>8, <1>10, ActsRest DEF ViewInv

\* The picture is taken; the guard waits until it has handled all that happened.
LEMMA CapturedStep == ASSUME ViewInv, NEW v \in Views, Captured(v) PROVE ViewInv'
<1>1. looks[v].phase = "capturing" /\ UNCHANGED <<happened, consumed, watching, views, current, bound, acts>>
  BY DEF Captured
<1>2. PICK mark \in 0..MaxEvents :
        looks' = [looks EXCEPT ![v] = [phase |-> "committing", mark |-> mark]]
  BY MomentsAreBounded DEF Captured
<1>3. /\ looks' \in [Views -> Look] /\ looks'[v].phase = "committing"
      /\ \A w \in Views \ {v} : looks'[w] = looks[w]
  BY <1>2 DEF ViewInv, ViewTypeOK, Look
<1>4. ViewTypeOK'
  BY <1>1, <1>3 DEF ViewInv, ViewTypeOK, Look
<1>5. EventsInv'
  BY <1>1 DEF ViewInv, EventsInv, UsableViewsAreCurrent, Relevant
<1>6. RecordInv' /\ ViewsLast
  BY <1>1, <1>3 DEF ViewInv, RecordInv, ViewsLast, Shown
<1>7. HolderInv'
  <2>1. \A t \in Targets : bound[t] \in Views \cup {NoView}
    BY DEF ViewInv, ViewTypeOK
  <2> QED
    BY <1>1, <1>6, <2>1 DEF ViewInv, HolderInv, ViewsLast
<1> QED
  BY <1>1, <1>4, <1>5, <1>6, <1>7, ActsRest DEF ViewInv

\* A failed capture forgets its draft.
LEMMA CancelStep == ASSUME ViewInv, NEW v \in Views, CancelObservation(v) PROVE ViewInv'
<1>1. /\ looks[v].phase \in {"capturing", "committing"} /\ LookAt(v, "done")
      /\ looks[v].phase = "committing" => views[v].state = "stale"
      /\ views' = IF views[v].state = "draft" THEN [views EXCEPT ![v] = FreshRecord] ELSE views
      /\ UNCHANGED <<happened, consumed, watching, current, bound, acts>>
  BY DEF CancelObservation
<1>2. /\ looks' \in [Views -> Look] /\ looks'[v].phase = "done"
      /\ \A w \in Views \ {v} : looks'[w] = looks[w]
  BY <1>1, LookAtIs
<1>3. FreshRecord \in ViewRecord /\ FreshRecord.state = "none"
  BY ViewAssumption DEF FreshRecord, ViewRecord
<1>4. /\ views' \in [Views -> ViewRecord] /\ \A w \in Views \ {v} : views'[w] = views[w]
      /\ views'[v] = views[v] \/ (views[v].state = "draft" /\ views'[v] = FreshRecord)
  BY <1>1, <1>3 DEF ViewInv, ViewTypeOK, ViewRecord
<1>5. ViewTypeOK'
  BY <1>1, <1>2, <1>4 DEF ViewInv, ViewTypeOK, ViewRecord, Look
<1>6. EventsInv'
  <2>1. \A w \in Views : views'[w].state \in {"draft", "fresh"} => views'[w] = views[w]
    BY <1>3, <1>4
  <2> QED
    BY <1>1, <2>1 DEF ViewInv, EventsInv, UsableViewsAreCurrent, Relevant
<1>7. RecordInv'
  BY <1>1, <1>2, <1>3, <1>4 DEF ViewInv, RecordInv
<1>8. ViewsLast
  BY <1>1, <1>2, <1>4 DEF ViewsLast, Shown
<1>9. HolderInv'
  <2>1. \A t \in Targets : {current[t], bound[t]} \subseteq Views \cup {NoView}
    BY DEF ViewInv, ViewTypeOK
  <2> QED
    BY <1>1, <1>4, <1>8, <2>1 DEF ViewInv, HolderInv, ViewsLast, Shown
<1> QED
  BY <1>1, <1>5, <1>6, <1>7, <1>8, <1>9, ActsRest DEF ViewInv

\* A commit makes a draft the view of its target.
LEMMA CommitStep == ASSUME ViewInv, NEW v \in Views, CommitObservation(v) PROVE ViewInv'
<1> DEFINE t == views[v].target
<1>1. /\ looks[v].phase = "committing" /\ views[v].state = "draft" /\ LookAt(v, "done")
      /\ views' = [w \in Views |-> IF w = v THEN [views[w] EXCEPT !.state = "fresh"]
                                   ELSE IF w = current[t] THEN [views[w] EXCEPT !.state = "stale"]
                                   ELSE views[w]]
      /\ current' = [current EXCEPT ![t] = v] /\ bound' = [bound EXCEPT ![t] = v]
      /\ UNCHANGED <<happened, consumed, watching, acts>>
  BY DEF CommitObservation, StillDraft
<1>2. /\ looks' \in [Views -> Look] /\ looks'[v].phase = "done"
      /\ \A w \in Views \ {v} : looks'[w] = looks[w]
  BY <1>1, LookAtIs
<1>3. /\ views \in [Views -> ViewRecord] /\ t \in Targets
      /\ current \in [Targets -> Views \cup {NoView}] /\ bound \in [Targets -> Views \cup {NoView}]
  BY <1>1 DEF ViewInv, ViewTypeOK, ViewRecord, RecordInv
<1>4. \A w \in Views : \A st \in {"fresh", "stale"} :
        /\ [views[w] EXCEPT !.state = st] \in ViewRecord
        /\ [views[w] EXCEPT !.state = st].state = st
        /\ [views[w] EXCEPT !.state = st].target = views[w].target
        /\ [views[w] EXCEPT !.state = st].baseline = views[w].baseline
  BY <1>3 DEF ViewRecord
<1> HIDE DEF t
<1>5. /\ views' \in [Views -> ViewRecord] /\ views'[v].state = "fresh"
      /\ \A w \in Views : views'[w].target = views[w].target /\ views'[w].baseline = views[w].baseline
      /\ \A w \in Views \ {v} : /\ w # current[t] => views'[w] = views[w]
                                /\ w = current[t] => views'[w].state = "stale"
  BY <1>1, <1>3, <1>4
<1>6. current[t] \in Views => views[current[t]].state = "fresh" /\ looks[current[t]].phase = "done"
  BY <1>3, ViewAssumption DEF ViewInv, HolderInv, RecordInv, NoView
<1>7. ViewTypeOK'
  <2>1. bound' \in [Targets -> Views \cup {NoView}] /\ current' \in [Targets -> Views \cup {NoView}]
    BY <1>1, <1>3
  <2> QED
    BY <1>1, <1>2, <1>5, <2>1 DEF ViewInv, ViewTypeOK, ViewRecord, Look
<1>8. EventsInv'
  <2>1. \A w \in Views : views'[w].state \in {"draft", "fresh"} => views[w].state \in {"draft", "fresh"}
    BY <1>1, <1>5
  <2> QED
    BY <1>1, <1>5, <2>1 DEF ViewInv, EventsInv, UsableViewsAreCurrent, Relevant
<1>9. RecordInv'
  BY <1>1, <1>2, <1>5, <1>6 DEF ViewInv, RecordInv
<1>10. ViewsLast
  BY <1>1, <1>2, <1>5, <1>6 DEF ViewsLast, Shown
<1>11. HolderInv'
  <2>1. \A u \in Targets \ {t} : current'[u] = current[u] /\ bound'[u] = bound[u]
    BY <1>1, <1>3
  <2>2. current'[t] = v /\ bound'[t] = v /\ views'[v].target = t /\ views'[v].state = "fresh" /\ Shown(v)'
    BY <1>1, <1>2, <1>3, <1>5 DEF Shown, t
  <2>3. \A u \in Targets \ {t} : bound[u] # NoView => Shown(bound[u])' /\ views'[bound[u]].target = u
    BY <1>3, <1>5, <1>10, <2>1 DEF ViewInv, HolderInv, ViewsLast
  <2>4. \A u \in Targets \ {t} : current[u] # NoView =>
          views'[current[u]].state = "fresh" /\ views'[current[u]].target = u
    <3>1. SUFFICES ASSUME NEW u \in Targets \ {t}, current[u] # NoView
                   PROVE  views'[current[u]].state = "fresh" /\ views'[current[u]].target = u
      OBVIOUS
    <3>2. current[u] \in Views /\ views[current[u]].state = "fresh" /\ views[current[u]].target = u
      BY <1>3, <3>1 DEF ViewInv, HolderInv
    <3>3. current[u] # v /\ current[u] # current[t]
      BY <1>1, <1>3, <3>2, ViewAssumption DEF ViewInv, HolderInv, NoView
    <3> QED
      BY <1>5, <3>2, <3>3
  <2> QED
    BY <2>1, <2>2, <2>3, <2>4 DEF HolderInv
<1> QED
  BY <1>1, <1>7, <1>8, <1>9, <1>10, <1>11, ActsRest DEF ViewInv
-----------------------------------------------------------------------------
(* Views: actions.                                                         *)

\* One action moves on with its view, and what it set aside.
LEMMA ActMoves ==
  ASSUME ViewInv, NEW a \in AgentActions, NEW r \in Act, acts' = [acts EXCEPT ![a] = r],
         r.view = acts[a].view, r.over = acts[a].over, acts[a].phase # "idle",
         r.phase \in {"sent", "acted"} => views[acts[a].view].baseline = r.mark,
         UNCHANGED <<happened, consumed, watching, views, looks, current, bound>>
  PROVE  ViewInv'
<1>1. acts \in [AgentActions -> Act]
  BY DEF ViewInv, ViewTypeOK, Act
<1>2. acts' \in [AgentActions -> Act] /\ acts'[a] = r /\ \A b \in AgentActions \ {a} : acts'[b] = acts[b]
  BY <1>1
<1>3. ViewTypeOK'
  BY <1>2 DEF ViewInv, ViewTypeOK, Act
<1>4. EventsInv' /\ RecordInv' /\ ViewsLast
  BY DEF ViewInv, EventsInv, UsableViewsAreCurrent, Relevant, RecordInv, ViewsLast, Shown
<1>5. HolderInv'
  BY DEF ViewInv, HolderInv, Shown
<1>6. \A b \in AgentActions :
        /\ acts'[b].view = acts[b].view /\ acts'[b].over = acts[b].over
        /\ acts'[b].phase # "idle" => acts[b].phase # "idle"
        /\ acts'[b].phase \in {"sent", "acted"} => views[acts[b].view].baseline = acts'[b].mark
  BY <1>2 DEF ViewInv, AdmittedInv
<1> QED
  BY <1>3, <1>4, <1>5, <1>6, ActsKeep DEF ViewInv

\* An action captures the view that is bound to its target.
LEMMA RunStep == ASSUME ViewInv, NEW a \in AgentActions, NEW t \in Targets, Run(a, t) PROVE ViewInv'
<1> DEFINE r == [phase |-> "bound", view |-> bound[t], mark |-> 0, over |-> {}]
<1>1. /\ bound[t] # NoView /\ acts' = [acts EXCEPT ![a] = r]
      /\ UNCHANGED <<happened, consumed, watching, views, looks, current, bound>>
  BY DEF Run
<1>2. bound[t] \in Views /\ Shown(bound[t]) /\ acts \in [AgentActions -> Act]
  BY <1>1 DEF ViewInv, ViewTypeOK, HolderInv, Act
<1>3. r \in Act /\ r.phase = "bound" /\ r.view = bound[t] /\ r.over = {}
  BY <1>2, ViewAssumption DEF Act
<1> HIDE DEF r
<1>4. acts' \in [AgentActions -> Act] /\ acts'[a] = r /\ \A b \in AgentActions \ {a} : acts'[b] = acts[b]
  BY <1>1, <1>2, <1>3
<1>5. ViewTypeOK'
  BY <1>1, <1>4 DEF ViewInv, ViewTypeOK, Act
<1>6. EventsInv' /\ RecordInv'
  BY <1>1 DEF ViewInv, EventsInv, UsableViewsAreCurrent, Relevant, RecordInv
<1>7. HolderInv'
  BY <1>1 DEF ViewInv, HolderInv, Shown
<1>8. AdmittedInv'
  <2>1. \A b \in AgentActions \ {a} :
          /\ acts'[b].phase # "idle" => acts'[b].view \in Views /\ Shown(acts'[b].view)
          /\ acts'[b].phase \in {"sent", "acted"} => views[acts'[b].view].baseline = acts'[b].mark
          /\ \A v \in acts'[b].over : views[v].state = "stale"
          /\ acts'[b].over # {} => acts'[b].view \in acts'[b].over
    BY <1>4 DEF ViewInv, AdmittedInv
  <2> QED
    BY <1>1, <1>2, <1>3, <1>4, <2>1 DEF AdmittedInv, Shown
<1>9. NoActionOnAnOlderView'
  BY <1>3, <1>4 DEF ViewInv, NoActionOnAnOlderView
<1> QED
  BY <1>5, <1>6, <1>7, <1>8, <1>9 DEF ViewInv

\* An action asks for admission, and is refused, admitted by the helper or refused there.
LEMMA AskingStep ==
  ASSUME ViewInv, NEW a \in AgentActions,
         Authorize(a) \/ Refused(a) \/ NativeAdmit(a) \/ FirstDispatch(a) \/ NativeRefuses(a)
  PROVE  ViewInv'
<1>1. UNCHANGED <<happened, consumed, watching, views, looks, current, bound>>
  BY DEF Authorize, Refused, NativeAdmit, FirstDispatch, NativeRefuses
<1>2. acts[a] \in Act /\ 0 \in 0..MaxEvents /\ Len(happened) \in 0..MaxEvents
  BY ViewAssumption, MomentsAreBounded DEF ViewInv, ViewTypeOK, Act
<1>3. \A p \in {"admitting", "sent", "acted", "refused"}, m \in 0..MaxEvents :
        /\ [acts[a] EXCEPT !.phase = p, !.mark = m] \in Act
        /\ [acts[a] EXCEPT !.phase = p, !.mark = m].phase = p
        /\ [acts[a] EXCEPT !.phase = p, !.mark = m].mark = m
        /\ [acts[a] EXCEPT !.phase = p, !.mark = m].view = acts[a].view
        /\ [acts[a] EXCEPT !.phase = p, !.mark = m].over = acts[a].over
  BY <1>2 DEF Act
<1>4. acts[a].phase # "idle"
  BY DEF Authorize, Refused, NativeAdmit, FirstDispatch, NativeRefuses
<1>5. CASE Authorize(a)
  <2>1. PICK m \in 0..MaxEvents : acts' = [acts EXCEPT ![a] = [acts[a] EXCEPT !.phase = "admitting", !.mark = m]]
    BY <1>5, MomentsAreBounded DEF Authorize
  <2> DEFINE r == [acts[a] EXCEPT !.phase = "admitting", !.mark = m]
  <2>2. /\ r \in Act /\ r.view = acts[a].view /\ r.over = acts[a].over /\ r.phase = "admitting"
        /\ acts' = [acts EXCEPT ![a] = r]
    BY <1>3, <2>1
  <2> HIDE DEF r
  <2> QED
    BY <1>1, <1>4, <2>2, ActMoves
<1>6. CASE Refused(a) \/ NativeRefuses(a)
  <2> DEFINE r == [acts[a] EXCEPT !.phase = "refused", !.mark = 0]
  <2>1. acts' = [acts EXCEPT ![a] = r]
    BY <1>6 DEF Refused, NativeRefuses, ActAt
  <2>2. r \in Act /\ r.view = acts[a].view /\ r.over = acts[a].over /\ r.phase = "refused"
    BY <1>2, <1>3
  <2> HIDE DEF r
  <2> QED
    BY <1>1, <1>4, <2>1, <2>2, ActMoves
<1>7. CASE NativeAdmit(a)
  <2> DEFINE r == [acts[a] EXCEPT !.phase = "sent", !.mark = Len(happened)]
  <2>1. views[acts[a].view].baseline = Len(happened) /\ acts' = [acts EXCEPT ![a] = r]
    BY <1>7 DEF NativeAdmit
  <2>2. r \in Act /\ r.view = acts[a].view /\ r.over = acts[a].over /\ r.mark = Len(happened)
    BY <1>2, <1>3
  <2> HIDE DEF r
  <2> QED
    BY <1>1, <1>4, <2>1, <2>2, ActMoves
<1>8. CASE FirstDispatch(a)
  <2> DEFINE r == [acts[a] EXCEPT !.phase = "acted", !.mark = Len(happened)]
  <2>1. /\ acts[a].phase = "sent" /\ acts[a].mark = Len(happened)
        /\ acts' = [acts EXCEPT ![a] = r]
    BY <1>8 DEF FirstDispatch, SameHead
  <2>2. r \in Act /\ r.view = acts[a].view /\ r.over = acts[a].over /\ r.mark = Len(happened)
    BY <1>2, <1>3
  <2>3. views[acts[a].view].baseline = Len(happened)
    BY <2>1 DEF ViewInv, AdmittedInv
  <2> HIDE DEF r
  <2> QED
    BY <1>1, <1>4, <2>1, <2>2, <2>3, ActMoves
<1> QED
  BY <1>5, <1>6, <1>7, <1>8

\* An admission sets every view aside.  Its own was usable until then, so no earlier
\* admission had set it aside.
LEMMA AdmitStep == ASSUME ViewInv, NEW a \in AgentActions, Admit(a) PROVE ViewInv'
<1> DEFINE aside == {v \in Views : views[v].state # "none"}
           r == [acts[a] EXCEPT !.phase = "admitted", !.mark = 0, !.over = aside]
<1>1. /\ acts[a].phase = "admitting" /\ views[acts[a].view].state = "fresh" /\ Invalidated(Views)
      /\ UNCHANGED <<happened, consumed, watching, looks, bound>>
  BY DEF Admit, StillFresh, Fresh, Consumed
<1>2. acts \in [AgentActions -> Act] /\ acts[a] \in Act /\ 0 \in 0..MaxEvents
  BY ViewAssumption DEF ViewInv, ViewTypeOK, Act
<1>3. /\ r \in Act /\ r.phase = "admitted" /\ r.view = acts[a].view /\ r.over = aside
      /\ acts' = [acts EXCEPT ![a] = r]
  BY <1>2 DEF Act, Admit
<1> HIDE DEF r
<1>4. acts' \in [AgentActions -> Act] /\ acts'[a] = r /\ \A b \in AgentActions \ {a} : acts'[b] = acts[b]
  BY <1>2, <1>3
<1>5. /\ views' \in [Views -> ViewRecord] /\ current' \in [Targets -> Views \cup {NoView}]
      /\ \A v \in aside : views'[v].state = "stale"
  BY <1>1, InvalidatedIs DEF ViewInv
<1>6. ViewTypeOK'
  BY <1>1, <1>4, <1>5 DEF ViewInv, ViewTypeOK, ViewRecord, Act
<1>7. EventsInv' /\ RecordInv' /\ HolderInv' /\ ViewsLast
  BY <1>1, InvalidatedKeeps, InvalidatedMissesNone
<1>8. acts[a].view \in aside /\ Shown(acts[a].view)
  BY <1>1 DEF ViewInv, AdmittedInv
<1>9. \A b \in AgentActions : acts[b].over \subseteq Views
  BY DEF ViewInv, ViewTypeOK
<1>10. AdmittedInv'
  <2>1. \A b \in AgentActions : acts'[b].view = acts[b].view
    BY <1>3, <1>4
  <2>2. \A b \in AgentActions :
          acts[b].phase # "idle" => /\ acts[b].view \in Views /\ Shown(acts[b].view)'
                                    /\ views'[acts[b].view].baseline = views[acts[b].view].baseline
    <3>1. \A v \in Views : Shown(v) => Shown(v)' /\ views'[v].baseline = views[v].baseline
      BY <1>7 DEF ViewsLast
    <3> QED
      BY <2>1, <3>1 DEF ViewInv, AdmittedInv
  <2>3. \A b \in AgentActions \ {a} :
          /\ acts'[b].phase \in {"sent", "acted"} => views'[acts'[b].view].baseline = acts'[b].mark
          /\ \A v \in acts'[b].over : views'[v].state = "stale"
          /\ acts'[b].over # {} => acts'[b].view \in acts'[b].over
    BY <1>4, <1>7, <1>9, <2>2 DEF ViewInv, AdmittedInv, ViewsLast
  <2>4. /\ acts'[a].phase = "admitted" /\ acts'[a].view \in acts'[a].over
        /\ \A v \in acts'[a].over : views'[v].state = "stale"
    BY <1>3, <1>4, <1>5, <1>8
  <2>5. \A b \in AgentActions : acts'[b].phase # "idle" => acts[b].phase # "idle"
    BY <1>1, <1>4
  <2> QED
    BY <2>1, <2>2, <2>3, <2>4, <2>5 DEF AdmittedInv
<1>11. NoActionOnAnOlderView'
  <2>1. \A b \in AgentActions : acts[a].view \notin acts[b].over
    BY <1>1 DEF ViewInv, AdmittedInv
  <2> QED
    BY <1>3, <1>4, <2>1 DEF ViewInv, NoActionOnAnOlderView
<1> QED
  BY <1>6, <1>7, <1>10, <1>11 DEF ViewInv

\* The end of an action retires its view.
LEMMA EndStep == ASSUME ViewInv, NEW a \in AgentActions, EndRun(a) PROVE ViewInv'
<1>1. /\ acts[a].phase # "idle" /\ ActAt(a, "ended") /\ Invalidated(Retired(a))
      /\ bound' = [t \in Targets |-> IF bound[t] \in Retired(a) THEN NoView ELSE bound[t]]
      /\ UNCHANGED <<happened, consumed, watching, looks>>
  BY DEF EndRun
<1>2. /\ acts' \in [AgentActions -> Act]
      /\ acts'[a].phase = "ended" /\ acts'[a].view = acts[a].view /\ acts'[a].over = acts[a].over
      /\ \A b \in AgentActions : b # a => acts'[b] = acts[b]
  BY <1>1, ActAtIs
<1>3. views' \in [Views -> ViewRecord] /\ current' \in [Targets -> Views \cup {NoView}]
  BY <1>1, InvalidatedIs DEF ViewInv
<1>4. bound' \in [Targets -> Views \cup {NoView}]
  BY <1>1 DEF ViewInv, ViewTypeOK
<1>5. ViewTypeOK'
  BY <1>1, <1>2, <1>3, <1>4 DEF ViewInv, ViewTypeOK, ViewRecord, Act
<1>6. EventsInv' /\ RecordInv' /\ HolderInv' /\ ViewsLast
  BY <1>1, InvalidatedKeeps, InvalidatedMissesNone
<1>7. \A b \in AgentActions :
        /\ acts'[b].view = acts[b].view /\ acts'[b].over = acts[b].over
        /\ acts'[b].phase # "idle" => acts[b].phase # "idle"
        /\ acts'[b].phase \in {"sent", "acted"} => views[acts[b].view].baseline = acts'[b].mark
  BY <1>1, <1>2 DEF ViewInv, AdmittedInv
<1> QED
  BY <1>5, <1>6, <1>7, ActsKeep DEF ViewInv

-----------------------------------------------------------------------------
(* Views: the theorems.                                                    *)

\* The invariant holds before anything is observed.
LEMMA ViewStart == ViewInit => ViewInv
<1> SUFFICES ASSUME ViewInit PROVE ViewInv
  OBVIOUS
<1> USE DEF ViewInit
<1>1. ViewTypeOK
  <2>1. Len(happened) = 0 /\ happened \in Seq(Targets \cup {Everything})
    BY EmptySeq
  <2>2. consumed \in 0..Len(happened) /\ watching \in BOOLEAN
    BY <2>1
  <2>3. /\ FreshRecord \in ViewRecord /\ [phase |-> "idle", mark |-> 0] \in Look
        /\ [phase |-> "idle", view |-> NoView, mark |-> 0, over |-> {}] \in Act
    BY ViewAssumption DEF FreshRecord, ViewRecord, Look, Act
  <2> QED
    BY <2>1, <2>2, <2>3 DEF ViewTypeOK, ViewRecord, Look, Act
<1>2. EventsInv
  BY ViewAssumption, EmptySeq DEF EventsInv, UsableViewsAreCurrent, FreshRecord
<1>3. RecordInv /\ HolderInv
  BY DEF RecordInv, HolderInv, FreshRecord
<1>4. AdmittedInv /\ NoActionOnAnOlderView
  BY DEF AdmittedInv, NoActionOnAnOlderView
<1> QED
  BY <1>1, <1>2, <1>3, <1>4 DEF ViewInv

\* Every step keeps it.
LEMMA ViewStep == ASSUME ViewInv, [ViewNext]_viewVars PROVE ViewInv'
<1>1. CASE ViewNext
  BY <1>1, HappenStep, HandleStep, FailureStep, ObserveStep, BeginStep, CapturedStep, CancelStep,
     CommitStep, RunStep, AskingStep, AdmitStep, EndStep DEF ViewNext
<1>2. CASE UNCHANGED viewVars
  <2>1. ViewTypeOK' /\ EventsInv' /\ RecordInv'
    BY <1>2 DEF viewVars, ViewInv, ViewTypeOK, EventsInv, UsableViewsAreCurrent, Relevant, RecordInv
  <2>2. HolderInv' /\ AdmittedInv' /\ NoActionOnAnOlderView'
    BY <1>2 DEF viewVars, ViewInv, HolderInv, AdmittedInv, NoActionOnAnOlderView, Shown
  <2> QED
    BY <2>1, <2>2 DEF ViewInv
<1> QED
  BY <1>1, <1>2

\* Records, holders and admissions agree.
THEOREM ViewsAreConsistent == ViewSpec => []ViewInv
<1> QED
  BY ViewStart, ViewStep, PTL DEF ViewSpec

\* Only the end of an action gives up a binding then, and only that of its view.
LEMMA EndSparesNewerViews ==
  ASSUME [ViewNext]_viewVars, ViewInv,
         NEW a \in AgentActions, NEW t \in Targets,
         acts[a].phase # "ended", acts'[a].phase = "ended", bound[t] # acts[a].view
  PROVE  bound'[t] = bound[t]
<1>1. acts' # acts
  OBVIOUS
<1>2. acts \in [AgentActions -> Act]
  BY DEF ViewInv, ViewTypeOK, Act
<1>3. \A b \in AgentActions : acts[b] \in Act
  BY <1>2
<1>4. CASE \E b \in AgentActions : EndRun(b)
  <2>1. PICK b \in AgentActions : EndRun(b)
    BY <1>4
  <2>2. a = b
    BY <2>1, ActAtIs DEF EndRun
  <2> QED
    BY <2>1, <2>2 DEF EndRun, Retired
<1>5. CASE ~\E b \in AgentActions : EndRun(b)
  <2>1. \E b \in AgentActions : \/ \E u \in Targets : Run(b, u)
                                \/ Authorize(b) \/ Admit(b) \/ Refused(b) \/ NativeAdmit(b)
                                \/ FirstDispatch(b) \/ NativeRefuses(b) \/ ActAt(b, "refused")
    BY <1>1, <1>5 DEF ViewNext, viewVars, Happen, HandleEvent, Terminal, SyncFails, ReleaseLineage,
       Observe, BeginObservation, Captured, CancelObservation, CommitObservation
  <2>2. PICK b \in AgentActions : \/ \E u \in Targets : Run(b, u)
                                  \/ Authorize(b) \/ Admit(b) \/ Refused(b) \/ NativeAdmit(b)
                                  \/ FirstDispatch(b) \/ NativeRefuses(b) \/ ActAt(b, "refused")
    BY <2>1
  <2>3. acts'[a].phase = acts[a].phase \/ acts'[a].phase \in {"bound", "admitting", "admitted", "sent", "acted", "refused"}
    BY <1>2, <1>3, <2>2 DEF Act, Run, Authorize, Admit, Refused, NativeAdmit, FirstDispatch,
       NativeRefuses, ActAt
  <2> QED
    BY <2>3
<1> QED
  BY <1>4, <1>5

\* What an action captured it alone acts on, as it saw it: the invariant, step by step.
LEMMA ServesOnce ==
  ViewInv => UsableViewsAreCurrent /\ OneActionPerView /\ ActsOnWhatWasSeen /\ NoActionOnAnOlderView
<1> SUFFICES ASSUME ViewInv
             PROVE  UsableViewsAreCurrent /\ OneActionPerView /\ ActsOnWhatWasSeen /\ NoActionOnAnOlderView
  OBVIOUS
<1>1. OneActionPerView
  BY DEF ViewInv, AdmittedInv, NoActionOnAnOlderView, OneActionPerView
<1>2. ActsOnWhatWasSeen
  BY DEF ViewInv, AdmittedInv, ActsOnWhatWasSeen
<1> QED
  BY <1>1, <1>2 DEF ViewInv, EventsInv

\* An action acts on what its view showed, no view serves two actions, and the end of an
\* action leaves a newer view of its target alone.
THEOREM ViewsServe == ViewSpec => ViewsServeOnce
<1> DEFINE Spares == \A a \in AgentActions, t \in Targets :
                       acts[a].phase # "ended" /\ acts'[a].phase = "ended" /\ bound[t] # acts[a].view
                         => bound'[t] = bound[t]
<1>1. ViewInv /\ [ViewNext]_viewVars => Spares
  BY EndSparesNewerViews
<1>2. ViewInv' => UsableViewsAreCurrent' /\ OneActionPerView' /\ ActsOnWhatWasSeen' /\ NoActionOnAnOlderView'
  BY ServesOnce, PTL
<1>3. ViewInv /\ ViewInv' /\ [ViewNext]_viewVars =>
        [/\ UsableViewsAreCurrent' /\ OneActionPerView' /\ ActsOnWhatWasSeen' /\ NoActionOnAnOlderView'
         /\ Spares]_viewVars
  BY <1>1, <1>2
<1> QED
  BY <1>3, ViewsAreConsistent, PTL DEF ViewSpec, ViewsServeOnce

-----------------------------------------------------------------------------
(* The hub of the observer.                                                *)

HubSpec == HubInit /\ [][HubNext]_hubVars

\* The numbers of a queue follow the number before it, and one another.
Consecutive(q, before) == \A i \in 1..Len(q) : q[i] = before + i

\* Frames on their way are of events that happened.
FramesInv ==
  /\ observed \in 0..MaxObserved /\ {overflowed, reading} \subseteq BOOLEAN
  /\ piped \in Seq(1..MaxObserved) /\ buffered \in Seq(1..MaxObserved)
  /\ Len(buffered) <= AdapterBuffer
  /\ \A i \in 1..Len(piped) : piped[i] <= observed
  /\ \A i \in 1..Len(buffered) : buffered[i] <= observed

\* The history is what was heard since the cursor before it, without a hole.
HistoryInv ==
  /\ history \in Seq(1..MaxObserved) /\ Len(history) <= HubHistory
  /\ beforeHistory \in Nat /\ heard = beforeHistory + Len(history) /\ heard <= observed
  /\ Consecutive(history, beforeHistory)
  /\ gap \in {"no", "gap", "closed"}

Subscription == [state : {"none", "open", "failed", "closed"}, queue : Seq(1..MaxObserved),
                 last : 0..MaxObserved]

\* What a subscriber that may still read finds follows what it was given; an open one
\* finds all that was heard.
HearsAll(r) ==
  /\ r.state \in {"open", "closed"} => Consecutive(r.queue, r.last)
  /\ r.state = "open" => r.last + Len(r.queue) = heard

SubscribersInv ==
  /\ subscribed \in [Subscribers -> Subscription]
  /\ \A s \in Subscribers : Len(subscribed[s].queue) <= SubscriberQueue /\ HearsAll(subscribed[s])

\* A watermark that was given out as reached was reached.
Query == [state : {"idle", "sent", "waiting", "ready", "unavailable"}, requested : 0..MaxObserved,
          mark : 0..MaxObserved]
QueryInv == query \in Query /\ (query.state = "ready" => query.mark <= heard)

HubInv == FramesInv /\ HistoryInv /\ SubscribersInv /\ QueryInv

-----------------------------------------------------------------------------
(* The hub: queues of numbers.                                             *)

\* The next number may be appended.
LEMMA ConsecutiveAppend ==
  ASSUME NEW q \in Seq(1..MaxObserved), NEW before \in Nat, Consecutive(q, before),
         NEW e \in 1..MaxObserved, e = before + Len(q) + 1
  PROVE  /\ Append(q, e) \in Seq(1..MaxObserved) /\ Len(Append(q, e)) = Len(q) + 1
         /\ Consecutive(Append(q, e), before)
<1>1. /\ Append(q, e) \in Seq(1..MaxObserved) /\ Len(Append(q, e)) = Len(q) + 1
      /\ \A i \in 1..Len(q) : Append(q, e)[i] = q[i]
      /\ Append(q, e)[Len(q) + 1] = e
  BY AppendProperties
<1>2. Len(q) \in Nat
  OBVIOUS
<1>3. ASSUME NEW i \in 1..Len(Append(q, e)) PROVE Append(q, e)[i] = before + i
  <2>1. i \in 1..Len(q) \/ i = Len(q) + 1
    BY <1>1, <1>2
  <2> QED
    BY <1>1, <1>2, <2>1 DEF Consecutive
<1> QED
  BY <1>1, <1>3 DEF Consecutive

\* The first number is the next one; the rest follows it.
LEMMA ConsecutiveTail ==
  ASSUME NEW q \in Seq(1..MaxObserved), q # <<>>, NEW before \in Nat, Consecutive(q, before)
  PROVE  /\ Tail(q) \in Seq(1..MaxObserved) /\ Len(Tail(q)) = Len(q) - 1
         /\ Head(q) = before + 1 /\ Head(q) \in 1..MaxObserved
         /\ Consecutive(Tail(q), before + 1)
<1>1. /\ Head(q) \in 1..MaxObserved /\ Tail(q) \in Seq(1..MaxObserved)
      /\ Len(Tail(q)) = Len(q) - 1
      /\ \A i \in 1..Len(Tail(q)) : Tail(q)[i] = q[i + 1]
  BY HeadTailProperties
<1>2. Head(q) = q[1] /\ Len(q) \in Nat \ {0}
  OBVIOUS
<1>3. Head(q) = before + 1
  BY <1>2 DEF Consecutive
<1>4. ASSUME NEW i \in 1..Len(Tail(q)) PROVE Tail(q)[i] = (before + 1) + i
  <2>1. i + 1 \in 1..Len(q)
    BY <1>1, <1>2
  <2>2. q[i + 1] = before + (i + 1)
    BY <2>1 DEF Consecutive
  <2> QED
    BY <1>1, <2>2
<1> QED
  BY <1>1, <1>3, <1>4 DEF Consecutive

\* So does what is left after any of them.
LEMMA ConsecutiveSubSeq ==
  ASSUME NEW q \in Seq(1..MaxObserved), NEW before \in Nat, Consecutive(q, before), NEW n \in 1..Len(q)
  PROVE  /\ SubSeq(q, n + 1, Len(q)) \in Seq(1..MaxObserved)
         /\ Len(SubSeq(q, n + 1, Len(q))) = Len(q) - n
         /\ Consecutive(SubSeq(q, n + 1, Len(q)), before + n)
<1> DEFINE rest == SubSeq(q, n + 1, Len(q))
<1>1. Len(q) \in Nat /\ n \in Nat /\ n <= Len(q)
  OBVIOUS
<1>2. \A i \in (n + 1)..Len(q) : q[i] \in 1..MaxObserved
  <2> SUFFICES ASSUME NEW i \in (n + 1)..Len(q) PROVE q[i] \in 1..MaxObserved
    OBVIOUS
  <2>1. i \in 1..Len(q)
    BY <1>1
  <2> QED
    BY <2>1, ElementOfSeq
<1>3. /\ rest \in Seq(1..MaxObserved)
      /\ Len(rest) = IF n + 1 <= Len(q) THEN Len(q) - (n + 1) + 1 ELSE 0
      /\ \A i \in 1..(Len(q) - (n + 1) + 1) : rest[i] = q[(n + 1) + i - 1]
  BY <1>1, <1>2, SubSeqProperties
<1> HIDE DEF rest
<1>4. Len(rest) = Len(q) - n
  BY <1>1, <1>3
<1>5. ASSUME NEW i \in 1..Len(rest) PROVE rest[i] = (before + n) + i
  <2>1. i \in 1..(Len(q) - (n + 1) + 1) /\ n + i \in 1..Len(q) /\ (n + 1) + i - 1 = n + i
    BY <1>1, <1>4
  <2>2. rest[i] = q[n + i]
    BY <1>3, <2>1
  <2>3. q[n + i] = before + (n + i)
    BY <2>1 DEF Consecutive
  <2> QED
    BY <1>1, <2>1, <2>2, <2>3
<1> QED
  BY <1>3, <1>4, <1>5 DEF Consecutive, rest

\* What a new subscriber finds is all that was heard since its cursor.
LEMMA HistoryAfterIs ==
  ASSUME HistoryInv, NEW after \in 0..MaxObserved, Replayable(after)
  PROVE  /\ HistoryAfter(after) \in Seq(1..MaxObserved)
         /\ Consecutive(HistoryAfter(after), after)
         /\ after + Len(HistoryAfter(after)) = heard
<1>0. Len(history) \in Nat /\ history \in Seq(1..MaxObserved) /\ beforeHistory \in Nat
  BY DEF HistoryInv
<1>1. CASE after = heard
  BY <1>0, <1>1 DEF HistoryInv, HistoryAfter, Consecutive
<1>2. CASE after # heard /\ after = beforeHistory
  BY <1>2 DEF HistoryInv, HistoryAfter
<1>3. CASE after # heard /\ after # beforeHistory
  <2>1. \E i \in 1..Len(history) : history[i] = after
    BY <1>3 DEF Replayable
  <2> DEFINE n == IndexOf(after)
  <2>2. n \in 1..Len(history) /\ history[n] = after
    BY <2>1 DEF IndexOf
  <2>3. HistoryAfter(after) = SubSeq(history, n + 1, Len(history))
    BY <1>3 DEF HistoryAfter
  <2> HIDE DEF n
  <2>4. after = beforeHistory + n
    BY <2>2 DEF HistoryInv, Consecutive
  <2>5. /\ HistoryAfter(after) \in Seq(1..MaxObserved)
        /\ Len(HistoryAfter(after)) = Len(history) - n
        /\ Consecutive(HistoryAfter(after), after)
    BY <1>0, <2>2, <2>3, <2>4, ConsecutiveSubSeq DEF HistoryInv
  <2> QED
    BY <1>0, <2>2, <2>4, <2>5 DEF HistoryInv
<1> QED
  BY <1>1, <1>2, <1>3

-----------------------------------------------------------------------------
(* The hub: steps.                                                         *)

\* A subscriber is given the next event of its queue, or none.
Delivers ==
  \A s \in Subscribers :
    subscribed'[s].last # subscribed[s].last /\ subscribed[s].state # "none"
      => subscribed'[s].last = subscribed[s].last + 1

\* After a gap, or a close, nobody is subscribed; no queue loses its order.
LEMMA MarkGapStep ==
  ASSUME HubInv, NEW why \in {"gap", "closed"}, MarkGap(why), heard' \in Nat, heard <= heard'
  PROVE  SubscribersInv' /\ QueryInv' /\ Delivers /\ gap' \in {"no", "gap", "closed"}
<1> USE DEF HubInv
<1>1. gap' = why
  BY DEF MarkGap
<1>2. QueryInv'
  <2>1. CASE query' = query
    BY <2>1 DEF QueryInv, Query, HistoryInv
  <2>2. CASE query' = [query EXCEPT !.state = "unavailable"]
    BY <2>2 DEF QueryInv, Query
  <2> QED
    BY <2>1, <2>2 DEF MarkGap
<1>3. ASSUME NEW s \in Subscribers
      PROVE  /\ subscribed'[s] \in Subscription
             /\ subscribed'[s].queue = subscribed[s].queue /\ subscribed'[s].last = subscribed[s].last
             /\ subscribed'[s].state # "open"
             /\ subscribed'[s].state = "closed" => subscribed[s].state \in {"open", "closed"}
  <2>1. subscribed[s] \in Subscription
    BY DEF SubscribersInv
  <2>2. subscribed'[s] = IF s \in Open
                         THEN [subscribed[s] EXCEPT !.state = IF why = "gap" THEN "failed" ELSE "closed"]
                         ELSE subscribed[s]
    BY DEF MarkGap
  <2>3. CASE s \in Open
    BY <2>1, <2>2, <2>3 DEF Subscription, Open
  <2>4. CASE s \notin Open
    BY <2>1, <2>2, <2>4 DEF Open
  <2> QED
    BY <2>3, <2>4
<1>4. ASSUME NEW s \in Subscribers
      PROVE  Len(subscribed'[s].queue) <= SubscriberQueue /\ HearsAll(subscribed[s])'
  BY <1>3 DEF SubscribersInv, HearsAll
<1>5. subscribed' = [s \in Subscribers |-> subscribed'[s]]
  BY DEF MarkGap
<1>6. SubscribersInv'
  BY <1>3, <1>4, <1>5 DEF SubscribersInv
<1>7. Delivers
  BY <1>3 DEF Delivers
<1> QED
  BY <1>1, <1>2, <1>6, <1>7

\* An event that the hub reads is the next one, or a gap.
LEMMA TakeInStep ==
  ASSUME HubInv, NEW e \in 1..MaxObserved, e <= observed, TakeIn(e), observed' = observed
  PROVE  HistoryInv' /\ SubscribersInv' /\ QueryInv' /\ Delivers
<1> USE DEF HubInv
<1>0. /\ heard \in Nat /\ beforeHistory \in Nat /\ history \in Seq(1..MaxObserved)
      /\ Len(history) \in Nat /\ HubHistory \in Nat \ {0}
  BY HubAssumption DEF HistoryInv
<1>1. CASE ~InOrder(e)
  <2>1. MarkGap("gap") /\ history' = history /\ beforeHistory' = beforeHistory /\ heard' = heard
    BY <1>1 DEF TakeIn
  <2>2. SubscribersInv' /\ QueryInv' /\ Delivers /\ gap' \in {"no", "gap", "closed"}
    BY <1>0, <2>1, MarkGapStep
  <2> QED
    BY <2>1, <2>2 DEF HistoryInv, Consecutive
<1>2. CASE InOrder(e)
  <2>1. e = heard + 1 /\ history' = NewHistory(e) /\ beforeHistory' = Before /\ heard' = e
    BY <1>2 DEF TakeIn, InOrder
  <2>2. /\ history' \in Seq(1..MaxObserved) /\ Len(history') <= HubHistory
        /\ beforeHistory' \in Nat /\ heard' = beforeHistory' + Len(history')
        /\ Consecutive(history', beforeHistory')
    <3>1. CASE Len(history) >= HubHistory
      <4>1. history # <<>>
        BY <1>0, <3>1
      <4>2. /\ Tail(history) \in Seq(1..MaxObserved) /\ Len(Tail(history)) = Len(history) - 1
            /\ Head(history) = beforeHistory + 1 /\ Consecutive(Tail(history), beforeHistory + 1)
        BY <1>0, <4>1, ConsecutiveTail DEF HistoryInv
      <4> DEFINE rest == Tail(history)
                 from == beforeHistory + 1
      <4>3. from \in Nat /\ e = from + Len(rest) + 1 /\ Len(rest) < HubHistory
        BY <1>0, <2>1, <4>2 DEF HistoryInv
      <4>4. history' = Append(rest, e) /\ beforeHistory' = from
        BY <2>1, <3>1, <4>2 DEF NewHistory, Before
      <4>5. rest \in Seq(1..MaxObserved) /\ Consecutive(rest, from) /\ Len(rest) \in Nat
        BY <4>2
      <4> HIDE DEF rest, from
      <4>6. /\ history' \in Seq(1..MaxObserved) /\ Len(history') = Len(rest) + 1
            /\ Consecutive(history', beforeHistory')
        BY <4>3, <4>4, <4>5, ConsecutiveAppend
      <4> QED
        BY <1>0, <2>1, <4>3, <4>4, <4>5, <4>6
    <3>2. CASE ~(Len(history) >= HubHistory)
      <4>1. history' = Append(history, e) /\ beforeHistory' = beforeHistory
        BY <2>1, <3>2 DEF NewHistory, Before
      <4>2. e = beforeHistory + Len(history) + 1
        BY <2>1 DEF HistoryInv
      <4>3. /\ Append(history, e) \in Seq(1..MaxObserved)
            /\ Len(Append(history, e)) = Len(history) + 1
            /\ Consecutive(Append(history, e), beforeHistory)
        BY <1>0, <4>2, ConsecutiveAppend DEF HistoryInv
      <4>4. Len(history) + 1 <= HubHistory
        BY <1>0, <3>2
      <4>5. heard' = beforeHistory' + Len(history')
        BY <1>0, <2>1, <4>1, <4>2, <4>3
      <4> QED
        BY <1>0, <4>1, <4>3, <4>4, <4>5
    <3> QED
      BY <3>1, <3>2
  <2>3. CASE MarkGap("gap")
    <3>1. SubscribersInv' /\ QueryInv' /\ Delivers /\ gap' \in {"no", "gap", "closed"}
      BY <1>0, <2>1, <2>3, MarkGapStep
    <3> QED
      BY <2>1, <2>2, <3>1 DEF HistoryInv
  <2>4. CASE /\ ~\E s \in Open : Full(s)
             /\ subscribed' = [s \in Subscribers |->
                  IF s \in Open THEN [subscribed[s] EXCEPT !.queue = Append(@, e)] ELSE subscribed[s]]
             /\ UNCHANGED <<gap, query>>
    <3>1. QueryInv'
      BY <1>0, <2>1, <2>4 DEF QueryInv, Query
    <3>2. HistoryInv'
      BY <2>1, <2>2, <2>4 DEF HistoryInv
    <3>3. ASSUME NEW s \in Subscribers
          PROVE  /\ subscribed'[s] \in Subscription /\ subscribed'[s].last = subscribed[s].last
                 /\ Len(subscribed'[s].queue) <= SubscriberQueue /\ HearsAll(subscribed[s])'
      <4> DEFINE q == subscribed[s].queue
      <4>0. /\ subscribed[s] \in Subscription /\ q \in Seq(1..MaxObserved) /\ Len(q) \in Nat
            /\ subscribed[s].last \in Nat /\ Len(q) <= SubscriberQueue /\ HearsAll(subscribed[s])
        BY DEF SubscribersInv, Subscription
      <4>1. CASE s \notin Open
        <5>1. subscribed'[s] = subscribed[s] /\ subscribed[s].state # "open"
          BY <2>4, <4>1 DEF Open
        <5> QED
          BY <4>0, <5>1 DEF HearsAll
      <4>2. CASE s \in Open
        <5>1. /\ subscribed'[s] = [subscribed[s] EXCEPT !.queue = Append(q, e)]
              /\ subscribed[s].state = "open" /\ ~Full(s)
          BY <2>4, <4>2 DEF Open
        <5>2. Consecutive(q, subscribed[s].last) /\ e = subscribed[s].last + Len(q) + 1
          BY <2>1, <4>0, <5>1 DEF HearsAll
        <5>3. /\ Append(q, e) \in Seq(1..MaxObserved) /\ Len(Append(q, e)) = Len(q) + 1
              /\ Consecutive(Append(q, e), subscribed[s].last)
          BY <4>0, <5>2, ConsecutiveAppend
        <5>4. /\ subscribed'[s] \in Subscription /\ subscribed'[s].queue = Append(q, e)
              /\ subscribed'[s].last = subscribed[s].last
          BY <4>0, <5>1, <5>3 DEF Subscription
        <5>5. Len(q) + 1 <= SubscriberQueue
          BY HubAssumption, <4>0, <5>1 DEF Full
        <5>6. subscribed'[s].last + Len(subscribed'[s].queue) = heard'
          <6>1. subscribed'[s].last = subscribed[s].last /\ Len(subscribed'[s].queue) = Len(q) + 1
            BY <5>3, <5>4
          <6>2. heard' = subscribed[s].last + Len(q) + 1
            BY <2>1, <5>2
          <6> DEFINE n == Len(q)
                     l == subscribed[s].last
          <6>3. l \in Nat /\ n \in Nat /\ heard' = l + n + 1
            BY <4>0, <6>2
          <6> HIDE DEF n, l
          <6>4. l + (n + 1) = heard'
            BY <6>3
          <6> QED
            BY <6>1, <6>4 DEF n, l
        <5> QED
          BY <5>3, <5>4, <5>5, <5>6 DEF HearsAll
      <4> QED
        BY <4>1, <4>2
    <3>4. subscribed' = [s \in Subscribers |-> subscribed'[s]]
      BY <2>4
    <3>5. SubscribersInv'
      BY <3>3, <3>4 DEF SubscribersInv
    <3>6. Delivers
      BY <3>3 DEF Delivers
    <3> QED
      BY <3>1, <3>2, <3>5, <3>6
  <2> QED
    BY <1>2, <2>3, <2>4 DEF TakeIn
<1> QED
  BY <1>1, <1>2

\* The helper produces, the adapter takes frames in, the hub reads them.
LEMMA StreamStep ==
  ASSUME HubInv, Produce \/ AcceptFrame \/ GapFrame \/ ReadNext \/ StreamEnds
  PROVE  HubInv' /\ Delivers
<1> USE DEF HubInv
<1>0. /\ observed \in Nat /\ MaxObserved \in Nat /\ AdapterBuffer \in Nat \ {0} /\ heard \in Nat
      /\ piped \in Seq(1..MaxObserved) /\ buffered \in Seq(1..MaxObserved) /\ observed <= MaxObserved
      /\ heard <= observed /\ Len(piped) \in Nat /\ Len(buffered) \in Nat
  BY HubAssumption DEF FramesInv, HistoryInv
<1>1. ASSUME piped # <<>>
      PROVE  /\ Head(piped) \in 1..MaxObserved /\ Head(piped) <= observed
             /\ Tail(piped) \in Seq(1..MaxObserved)
             /\ \A i \in 1..Len(Tail(piped)) : Tail(piped)[i] <= observed
  <2>1. /\ Head(piped) \in 1..MaxObserved /\ Tail(piped) \in Seq(1..MaxObserved)
        /\ Len(Tail(piped)) = Len(piped) - 1
        /\ \A i \in 1..Len(Tail(piped)) : Tail(piped)[i] = piped[i + 1]
    BY <1>0, <1>1, HeadTailProperties
  <2>2. Head(piped) = piped[1] /\ 1 \in 1..Len(piped)
    BY <1>0, <1>1
  <2>3. ASSUME NEW i \in 1..Len(Tail(piped)) PROVE Tail(piped)[i] <= observed
    <3>1. i + 1 \in 1..Len(piped)
      BY <1>0, <2>1
    <3> QED
      BY <2>1, <3>1 DEF FramesInv
  <2> QED
    BY <2>1, <2>2, <2>3 DEF FramesInv
<1>2. ASSUME buffered # <<>>
      PROVE  /\ Head(buffered) \in 1..MaxObserved /\ Head(buffered) <= observed
             /\ Tail(buffered) \in Seq(1..MaxObserved) /\ Len(Tail(buffered)) <= AdapterBuffer
             /\ \A i \in 1..Len(Tail(buffered)) : Tail(buffered)[i] <= observed
  <2>1. /\ Head(buffered) \in 1..MaxObserved /\ Tail(buffered) \in Seq(1..MaxObserved)
        /\ Len(Tail(buffered)) = Len(buffered) - 1
        /\ \A i \in 1..Len(Tail(buffered)) : Tail(buffered)[i] = buffered[i + 1]
    BY <1>0, <1>2, HeadTailProperties
  <2>2. Head(buffered) = buffered[1] /\ 1 \in 1..Len(buffered)
    BY <1>0, <1>2
  <2>3. ASSUME NEW i \in 1..Len(Tail(buffered)) PROVE Tail(buffered)[i] <= observed
    <3>1. i + 1 \in 1..Len(buffered)
      BY <1>0, <2>1
    <3> QED
      BY <2>1, <3>1 DEF FramesInv
  <2>4. Len(Tail(buffered)) <= AdapterBuffer
    BY <1>0, <2>1 DEF FramesInv
  <2> QED
    BY <2>1, <2>2, <2>3, <2>4 DEF FramesInv
<1>3. ASSUME UNCHANGED <<history, beforeHistory, heard, gap, subscribed, query>>, observed <= observed',
             observed' \in Nat
      PROVE  HistoryInv' /\ SubscribersInv' /\ QueryInv' /\ Delivers
  <2>1. HistoryInv'
    BY <1>0, <1>3 DEF HistoryInv, Consecutive
  <2>2. SubscribersInv' /\ Delivers
    BY <1>3 DEF SubscribersInv, HearsAll, Consecutive, Delivers
  <2>3. QueryInv'
    BY <1>3 DEF QueryInv, Query
  <2> QED
    BY <2>1, <2>2, <2>3
<1>4. ASSUME NEW why \in {"gap", "closed"}, MarkGap(why), observed' = observed,
             UNCHANGED <<history, beforeHistory, heard>>
      PROVE  HistoryInv' /\ SubscribersInv' /\ QueryInv' /\ Delivers
  <2>1. SubscribersInv' /\ QueryInv' /\ Delivers /\ gap' \in {"no", "gap", "closed"}
    BY <1>0, <1>4, MarkGapStep
  <2> QED
    BY <1>4, <2>1 DEF HistoryInv, Consecutive
<1>5. CASE Produce
  <2>1. /\ observed' = observed + 1 /\ observed' \in 0..MaxObserved
        /\ UNCHANGED <<buffered, overflowed, reading, history, beforeHistory, heard, gap, subscribed, query>>
        /\ piped' = Append(piped, observed + 1) \/ piped' = piped
    BY <1>0, <1>5 DEF Produce
  <2>2. piped' \in Seq(1..MaxObserved) /\ \A i \in 1..Len(piped') : piped'[i] <= observed'
    <3>1. CASE piped' = piped
      BY <1>0, <2>1, <3>1, ElementOfSeq DEF FramesInv
    <3>2. CASE piped' = Append(piped, observed + 1)
      <4>0. observed + 1 \in 1..MaxObserved
        BY <1>0, <2>1
      <4>1. /\ piped' \in Seq(1..MaxObserved) /\ Len(piped') = Len(piped) + 1
            /\ \A i \in 1..Len(piped) : piped'[i] = piped[i]
            /\ piped'[Len(piped) + 1] = observed + 1
        BY <1>0, <3>2, <4>0, AppendProperties
      <4>2. ASSUME NEW i \in 1..Len(piped') PROVE piped'[i] <= observed'
        <5>1. CASE i \in 1..Len(piped)
          <6>0. piped[i] \in 1..MaxObserved
            BY <1>0, <5>1, ElementOfSeq
          <6>1. piped[i] <= observed
            BY <5>1 DEF FramesInv
          <6>2. piped'[i] = piped[i]
            BY <4>1, <5>1
          <6> QED
            BY <1>0, <2>1, <6>0, <6>1, <6>2
        <5>2. CASE i = Len(piped) + 1
          BY <1>0, <2>1, <4>1, <5>2
        <5> QED
          BY <1>0, <4>1, <5>1, <5>2
      <4> QED
        BY <4>1, <4>2
    <3> QED
      BY <2>1, <3>1, <3>2
  <2>3. \A i \in 1..Len(buffered) : buffered[i] <= observed + 1
    BY <1>0, ElementOfSeq DEF FramesInv
  <2>4. FramesInv'
    BY <2>1, <2>2, <2>3 DEF FramesInv
  <2> QED
    BY <1>0, <1>3, <2>1, <2>4
<1>6. CASE AcceptFrame
  <2>0. piped # <<>> /\ piped' = Tail(piped) /\ observed' = observed
    BY <1>6 DEF AcceptFrame
  <2>1. CASE /\ reading /\ gap = "no" /\ TakeIn(Head(piped)) /\ reading' = FALSE
             /\ UNCHANGED <<buffered, overflowed>>
    <3>1. HistoryInv' /\ SubscribersInv' /\ QueryInv' /\ Delivers
      BY <1>1, <2>0, <2>1, TakeInStep
    <3>2. FramesInv'
      BY <1>1, <2>0, <2>1 DEF FramesInv
    <3> QED
      BY <3>1, <3>2
  <2>2. CASE /\ ~reading /\ ~NoRoom /\ buffered' = Append(buffered, Head(piped))
             /\ UNCHANGED <<overflowed, reading, history, beforeHistory, heard, gap, subscribed, query>>
    <3>1. /\ buffered' \in Seq(1..MaxObserved) /\ Len(buffered') = Len(buffered) + 1
          /\ \A i \in 1..Len(buffered) : buffered'[i] = buffered[i]
          /\ buffered'[Len(buffered) + 1] = Head(piped)
      BY <1>0, <1>1, <2>0, <2>2, AppendProperties
    <3>2. Len(buffered') <= AdapterBuffer
      BY <1>0, <2>2, <3>1 DEF NoRoom
    <3>3. ASSUME NEW i \in 1..Len(buffered') PROVE buffered'[i] <= observed
      <4>1. CASE i \in 1..Len(buffered)
        BY <3>1, <4>1 DEF FramesInv
      <4>2. CASE i = Len(buffered) + 1
        BY <1>1, <2>0, <3>1, <4>2
      <4> QED
        BY <1>0, <3>1, <4>1, <4>2
    <3>4. FramesInv'
      BY <1>1, <2>0, <2>2, <3>1, <3>2, <3>3 DEF FramesInv
    <3> QED
      BY <1>0, <1>3, <2>0, <2>2, <3>4
  <2>3. CASE /\ ~reading /\ NoRoom /\ buffered' = <<>> /\ overflowed' = TRUE
             /\ UNCHANGED <<reading, history, beforeHistory, heard, gap, subscribed, query>>
    <3>1. FramesInv'
      BY <1>0, <1>1, <2>0, <2>3 DEF FramesInv
    <3> QED
      BY <1>0, <1>3, <2>0, <2>3, <3>1
  <2> QED
    BY <1>6, <2>1, <2>2, <2>3 DEF AcceptFrame
<1>7. CASE GapFrame
  <2>1. FramesInv'
    <3>1. /\ buffered' = <<>> /\ overflowed' = TRUE /\ piped' = piped /\ observed' = observed
          /\ reading' = FALSE \/ reading' = reading
      BY <1>7 DEF GapFrame
    <3>2. <<>> \in Seq(1..MaxObserved) /\ Len(<<>>) = 0
      OBVIOUS
    <3>3. {overflowed', reading'} \subseteq BOOLEAN
      BY <3>1 DEF FramesInv
    <3>4. buffered' \in Seq(1..MaxObserved) /\ Len(buffered') <= AdapterBuffer
          /\ \A i \in 1..Len(buffered') : buffered'[i] <= observed'
      BY <1>0, <3>1, <3>2
    <3> QED
      BY <3>1, <3>3, <3>4 DEF FramesInv
  <2>2. CASE MarkGap("gap")
    BY <1>4, <1>7, <2>1, <2>2 DEF GapFrame
  <2>3. CASE UNCHANGED <<gap, subscribed, query, reading>>
    BY <1>0, <1>3, <1>7, <2>1, <2>3 DEF GapFrame
  <2> QED
    BY <1>7, <2>2, <2>3 DEF GapFrame
<1>8. CASE ReadNext
  <2>0. UNCHANGED <<observed, piped, overflowed>>
    BY <1>8 DEF ReadNext
  <2>1. CASE overflowed /\ MarkGap("gap") /\ UNCHANGED <<buffered, reading, history, beforeHistory, heard>>
    <3>1. FramesInv'
      BY <2>0, <2>1 DEF FramesInv
    <3> QED
      BY <1>4, <2>0, <2>1, <3>1
  <2>2. CASE /\ ~overflowed /\ buffered # <<>> /\ buffered' = Tail(buffered) /\ TakeIn(Head(buffered))
             /\ UNCHANGED reading
    <3>1. FramesInv'
      BY <1>2, <2>0, <2>2 DEF FramesInv
    <3>2. HistoryInv' /\ SubscribersInv' /\ QueryInv' /\ Delivers
      BY <1>2, <2>0, <2>2, TakeInStep
    <3> QED
      BY <3>1, <3>2
  <2>3. CASE /\ ~overflowed /\ buffered = <<>> /\ reading' = TRUE
             /\ UNCHANGED <<buffered, history, beforeHistory, heard, gap, subscribed, query>>
    <3>1. FramesInv'
      BY <2>0, <2>3 DEF FramesInv
    <3> QED
      BY <1>0, <1>3, <2>0, <2>3, <3>1
  <2> QED
    BY <1>8, <2>1, <2>2, <2>3 DEF ReadNext
<1>9. CASE StreamEnds
  <2>1. FramesInv'
    BY <1>9 DEF StreamEnds, FramesInv
  <2>2. PICK why \in {"gap", "closed"} : MarkGap(why)
    BY <1>9 DEF StreamEnds
  <2> QED
    BY <1>4, <1>9, <2>1, <2>2 DEF StreamEnds
<1> QED
  BY <1>5, <1>6, <1>7, <1>8, <1>9

\* A subscriber comes, reads or goes.
LEMMA SubscriberStep ==
  ASSUME HubInv, NEW s \in Subscribers,
         NextEvent(s) \/ Unsubscribe(s) \/ \E after \in 0..MaxObserved : Subscribe(s, after)
  PROVE  HubInv' /\ Delivers
<1> USE DEF HubInv
<1>1. /\ UNCHANGED <<observed, piped, buffered, overflowed, reading, history, beforeHistory, heard,
                     gap, query>>
  BY DEF NextEvent, Unsubscribe, Subscribe
<1>2. FramesInv'
  BY <1>1 DEF FramesInv
<1>3. HistoryInv' /\ QueryInv'
  BY <1>1 DEF HistoryInv, Consecutive, QueryInv, Query
<1>4. /\ subscribed[s] \in Subscription /\ HearsAll(subscribed[s])
      /\ subscribed[s].queue \in Seq(1..MaxObserved) /\ Len(subscribed[s].queue) \in Nat
      /\ subscribed[s].last \in 0..MaxObserved /\ Len(subscribed[s].queue) <= SubscriberQueue
      /\ MaxObserved \in Nat /\ heard \in Nat /\ SubscriberQueue \in Nat
  BY HubAssumption DEF SubscribersInv, Subscription, HistoryInv
<1>5. ASSUME NEW r, subscribed' = [subscribed EXCEPT ![s] = r], r \in Subscription,
             Len(r.queue) <= SubscriberQueue, HearsAll(r),
             \/ subscribed[s].state = "none"
             \/ r.last = subscribed[s].last
             \/ r.last = subscribed[s].last + 1
      PROVE  SubscribersInv' /\ Delivers
  <2>1. subscribed' \in [Subscribers -> Subscription]
    BY <1>5 DEF SubscribersInv
  <2>2. subscribed'[s] = r /\ \A q \in Subscribers \ {s} : subscribed'[q] = subscribed[q]
    BY <1>5 DEF SubscribersInv
  <2>3. \A q \in Subscribers : HearsAll(subscribed[q])' /\ Len(subscribed'[q].queue) <= SubscriberQueue
    BY <1>1, <1>5, <2>2 DEF SubscribersInv, HearsAll
  <2>4. Delivers
    BY <1>5, <2>2 DEF Delivers
  <2> QED
    BY <2>1, <2>3, <2>4 DEF SubscribersInv
<1>6. CASE NextEvent(s)
  <2> DEFINE q == subscribed[s].queue
             r == [subscribed[s] EXCEPT !.queue = Tail(q), !.last = Head(q)]
  <2>1. subscribed' = [subscribed EXCEPT ![s] = r] /\ q # <<>> /\ subscribed[s].state \in {"open", "closed"}
    BY <1>4, <1>6 DEF NextEvent, SubscribersInv, Subscription
  <2>2. /\ Tail(q) \in Seq(1..MaxObserved) /\ Len(Tail(q)) = Len(q) - 1
        /\ Head(q) = subscribed[s].last + 1 /\ Head(q) \in 1..MaxObserved
        /\ Consecutive(Tail(q), subscribed[s].last + 1)
    <3>1. q \in Seq(1..MaxObserved) /\ subscribed[s].last \in Nat /\ Consecutive(q, subscribed[s].last)
      BY <1>4, <2>1 DEF HearsAll
    <3> HIDE DEF q
    <3> QED
      BY <2>1, <3>1, ConsecutiveTail
  <2>3. /\ r \in Subscription /\ r.queue = Tail(q) /\ r.last = Head(q)
        /\ r.state = subscribed[s].state
    <3>1. Head(q) \in 0..MaxObserved
      BY <1>4, <2>2
    <3> QED
      BY <1>4, <2>2, <3>1 DEF Subscription
  <2> HIDE DEF r
  <2>4. HearsAll(r) /\ Len(r.queue) <= SubscriberQueue /\ r.last = subscribed[s].last + 1
    <3>1. Len(Tail(q)) <= SubscriberQueue
      BY <1>4, <2>2
    <3>2. subscribed[s].state = "open" => Head(q) + Len(Tail(q)) = heard
      <4>1. subscribed[s].state = "open" => subscribed[s].last + Len(q) = heard
        BY <1>4 DEF HearsAll
      <4>2. Head(q) = subscribed[s].last + 1 /\ Len(Tail(q)) = Len(q) - 1 /\ Len(q) \in Nat
        BY <1>4, <2>2
      <4> DEFINE n == Len(q)
                 l == subscribed[s].last
                 next == Head(q)
                 m == Len(Tail(q))
      <4>3. n \in Nat /\ l \in Nat /\ heard \in Nat /\ next = l + 1 /\ m = n - 1
        BY <1>4, <4>2
      <4>4. subscribed[s].state = "open" => l + n = heard
        BY <4>1
      <4> HIDE DEF n, l, next, m
      <4>5. subscribed[s].state = "open" => next + m = heard
        BY <4>3, <4>4
      <4> QED
        BY <4>5 DEF next, m
    <3> QED
      BY <2>2, <2>3, <3>1, <3>2 DEF HearsAll
  <2>5. SubscribersInv' /\ Delivers
    BY <1>5, <2>1, <2>3, <2>4
  <2> QED
    BY <1>2, <1>3, <2>5
<1>7. CASE Unsubscribe(s)
  <2> DEFINE r == [subscribed[s] EXCEPT !.state = "closed"]
  <2>1. subscribed' = [subscribed EXCEPT ![s] = r] /\ subscribed[s].state = "open"
    BY <1>4, <1>7 DEF Unsubscribe, SubscribersInv, Subscription, Open
  <2>2. /\ r \in Subscription /\ r.queue = subscribed[s].queue /\ r.last = subscribed[s].last
        /\ r.state = "closed"
    BY <1>4 DEF Subscription
  <2> HIDE DEF r
  <2>3. HearsAll(r) /\ Len(r.queue) <= SubscriberQueue
    BY <1>4, <2>1, <2>2 DEF HearsAll
  <2>4. SubscribersInv' /\ Delivers
    BY <1>5, <2>1, <2>2, <2>3
  <2> QED
    BY <1>2, <1>3, <2>4
<1>8. ASSUME NEW after \in 0..MaxObserved, Subscribe(s, after) PROVE HubInv' /\ Delivers
  <2> DEFINE r == [state |-> "open", queue |-> HistoryAfter(after), last |-> after]
  <2>1. /\ subscribed' = [subscribed EXCEPT ![s] = r] /\ subscribed[s].state = "none"
        /\ Replayable(after) /\ Len(HistoryAfter(after)) <= SubscriberQueue
    BY <1>8 DEF Subscribe
  <2>2. /\ HistoryAfter(after) \in Seq(1..MaxObserved)
        /\ Consecutive(HistoryAfter(after), after)
        /\ after + Len(HistoryAfter(after)) = heard
    BY <2>1, HistoryAfterIs
  <2>3. r \in Subscription
    BY <2>2 DEF Subscription
  <2>4. HearsAll(r) /\ Len(r.queue) <= SubscriberQueue
    BY <2>1, <2>2 DEF HearsAll
  <2> HIDE DEF r
  <2>5. SubscribersInv' /\ Delivers
    BY <1>5, <2>1, <2>3, <2>4
  <2> QED
    BY <1>2, <1>3, <2>5
<1> QED
  BY <1>6, <1>7, <1>8

\* A question for the coverage of the observer, and its answer.
LEMMA CoverageStep ==
  ASSUME HubInv, AskCoverage \/ CoverageReply \/ CoverageReady \/ CoverageTimeout
  PROVE  HubInv' /\ Delivers
<1> USE DEF HubInv
<1>1. UNCHANGED <<observed, piped, buffered, overflowed, reading, history, beforeHistory, heard, gap,
                  subscribed>>
  BY DEF AskCoverage, CoverageReply, CoverageReady, CoverageTimeout
<1>2. FramesInv'
  BY <1>1 DEF FramesInv
<1>3. HistoryInv'
  BY <1>1 DEF HistoryInv, Consecutive
<1>4. SubscribersInv' /\ Delivers
  BY <1>1 DEF SubscribersInv, HearsAll, Consecutive, Delivers
<1>5. heard \in 0..MaxObserved /\ observed \in 0..MaxObserved
  BY HubAssumption DEF HistoryInv, FramesInv
<1>6. QueryInv'
  <2>1. CASE AskCoverage
    <3>1. query' = [state |-> "sent", requested |-> heard, mark |-> 0] /\ 0 \in 0..MaxObserved
      BY HubAssumption, <2>1 DEF AskCoverage
    <3> QED
      BY <1>5, <3>1 DEF QueryInv, Query
  <2>2. CASE CoverageReply
    BY <1>5, <2>2 DEF QueryInv, Query, CoverageReply
  <2>3. CASE CoverageReady
    BY <1>1, <1>5, <2>3 DEF QueryInv, Query, CoverageReady, Arrived
  <2>4. CASE CoverageTimeout
    BY <2>4 DEF QueryInv, Query, CoverageTimeout
  <2> QED
    BY <2>1, <2>2, <2>3, <2>4
<1> QED
  BY <1>2, <1>3, <1>4, <1>6

\* Every step keeps the invariant, and delivers one event at a time.
LEMMA HubStep ==
  ASSUME HubInv, [HubNext]_hubVars PROVE HubInv' /\ Delivers
<1>1. CASE UNCHANGED hubVars
  <2>1. FramesInv'
    BY <1>1 DEF hubVars, HubInv, FramesInv
  <2>2. HistoryInv'
    BY <1>1 DEF hubVars, HubInv, HistoryInv, Consecutive
  <2>3. SubscribersInv' /\ Delivers
    BY <1>1 DEF hubVars, HubInv, SubscribersInv, HearsAll, Consecutive, Delivers
  <2>4. QueryInv'
    BY <1>1 DEF hubVars, HubInv, QueryInv, Query
  <2> QED
    BY <2>1, <2>2, <2>3, <2>4 DEF HubInv
<1>2. CASE HubNext
  BY <1>2, StreamStep, SubscriberStep, CoverageStep DEF HubNext
<1> QED
  BY <1>1, <1>2

\* The inductive invariant of the hub.
THEOREM HubIsConsistent == HubSpec => []HubInv
<1>1. HubInit => HubInv
  <2> SUFFICES ASSUME HubInit PROVE HubInv
    OBVIOUS
  <2>0. <<>> \in Seq(1..MaxObserved) /\ Len(<<>>) = 0 /\ 0 \in 0..MaxObserved /\ SubscriberQueue \in Nat
    BY HubAssumption
  <2>1. FramesInv
    <3>1. {overflowed, reading} \subseteq BOOLEAN
      BY DEF HubInit
    <3>2. AdapterBuffer \in Nat /\ MaxObserved \in Nat
      BY HubAssumption
    <3> QED
      BY <2>0, <3>1, <3>2 DEF HubInit, FramesInv
  <2>2. HistoryInv
    BY HubAssumption, <2>0 DEF HubInit, HistoryInv, Consecutive
  <2>3. NotSubscribed \in Subscription /\ Len(NotSubscribed.queue) = 0 /\ NotSubscribed.state = "none"
    BY <2>0 DEF NotSubscribed, Subscription
  <2>4. SubscribersInv
    BY <2>0, <2>3 DEF HubInit, SubscribersInv, HearsAll
  <2>5. QueryInv
    BY <2>0 DEF HubInit, QueryInv, Query, NotAsked
  <2> QED
    BY <2>1, <2>2, <2>4, <2>5 DEF HubInv
<1>2. HubInv /\ [HubNext]_hubVars => HubInv'
  BY HubStep
<1> QED
  BY <1>1, <1>2, PTL DEF HubSpec

\* The type invariant follows.
THEOREM HubTypes == HubSpec => []HubTypeOK
<1>1. HubInv => HubTypeOK
  BY DEF HubInv, FramesInv, HistoryInv, SubscribersInv, Subscription, QueryInv, Query, HubTypeOK
<1> QED
  BY <1>1, HubIsConsistent, PTL

\* What the invariant says of those who listen and those who ask.
LEMMA HubInvImplies ==
  ASSUME HubInv PROVE NoSilentHole /\ ReadyMeansHeard
<1>1. heard \in Nat
  BY DEF HubInv, HistoryInv
<1>2. NoSilentHole
  BY DEF HubInv, SubscribersInv, HearsAll, Consecutive, NoSilentHole, Open
<1>3. ReadyMeansHeard
  BY DEF HubInv, QueryInv, SubscribersInv, HearsAll, ReadyMeansHeard, Open
<1> QED
  BY <1>2, <1>3

\* Nothing is missing between what the hub heard and what an open subscriber has, nor
\* behind a watermark that was given out; events reach a subscriber one by one.
THEOREM EventsReachTheirSubscribers == HubSpec => EventsAreNotLost
<1> DEFINE Heard == NoSilentHole /\ ReadyMeansHeard
<1>1. HubInv => Heard
  BY HubInvImplies
<1>2. HubInv' => Heard'
  BY <1>1, PTL
<1>3. HubInv /\ [HubNext]_hubVars => Delivers
  BY HubStep
<1>4. HubInv /\ HubInv' /\ [HubNext]_hubVars =>
        [/\ NoSilentHole' /\ ReadyMeansHeard'
         /\ \A s \in Subscribers :
              subscribed'[s].last # subscribed[s].last /\ subscribed[s].state # "none"
                => subscribed'[s].last = subscribed[s].last + 1]_hubVars
  BY <1>2, <1>3 DEF Delivers
<1> QED
  BY <1>4, HubIsConsistent, PTL DEF HubSpec, EventsAreNotLost

-----------------------------------------------------------------------------
(* The life of the host: the inductive invariant.                          *)

USE DEF hostVars, runVars, recoveryVars, worldVars

\* Whoever gives up the runtime first aborts the preparation, and seals admission; nobody
\* takes the abort back, and nothing but a recovery opens admission again: whom it lets in
\* is late.
SealInv ==
  /\ prepAborted /\ ~reopened => admission = "sealed"
  /\ reopened \/ late = {}
  /\ drain \notin {"idle", "recording"} \/ restart # "idle" => prepAborted

\* What a drain and a restart have seen stays true of all but the late: no other operation
\* begins any more.
SeenInv ==
  /\ drain = "complete" => ActiveOps \cup QuarantinedOps \subseteq late
  /\ restart \in {"browsers", "stopping", "persist", "done"} =>
       ActiveOps \subseteq late /\ retained \ late = QuarantinedOps \ late
  /\ receipt <=> (restart = "done")
  /\ rotation \in {"running", "draining"} => restart = "idle"

\* A rotation restarts after a whole drain or with a receipt, and exits after a whole
\* close; the lock and the record follow the exit of the child.
ExitInv ==
  /\ rotation \in {"restarting", "exited"} => drain = "complete" \/ restart = "done"
  /\ rotation = "exited" => close = "done"
  /\ close = "done" => helper = "exited" /\ exitRecorded
  /\ ~lockHeld => helper = "exited"

HostInv == HostTypeOK /\ SealInv /\ SeenInv /\ ExitInv

-----------------------------------------------------------------------------
(* The host: steps.                                                        *)

\* An operation begins or ends.
LEMMA OpsStep ==
  ASSUME HostInv, NEW o \in HostOps, StartOp(o) \/ EndOp(o) PROVE HostInv'
<1> USE DEF HostInv
<1>1. UNCHANGED <<rotation, runVars, admission, preparation, prepAborted, draining, recovering, reopened,
                  helper, exitRecorded, retained, receipt, lockHeld, process>>
  BY DEF StartOp, EndOp
<1>2. late' = IF hostOps[o] = "new" /\ reopened THEN late \cup {o} ELSE late
  BY DEF StartOp, EndOp
<1>3. /\ hostOps \in [HostOps -> {"new", "active", "done", "quarantined"}]
      /\ \E s \in {"active", "done", "quarantined"} : hostOps' = [hostOps EXCEPT ![o] = s]
      /\ late \subseteq HostOps
  BY DEF StartOp, EndOp, HostTypeOK
<1>4. HostTypeOK'
  <2>1. hostOps' \in [HostOps -> {"new", "active", "done", "quarantined"}] /\ late' \subseteq HostOps
    BY <1>2, <1>3
  <2> QED
    BY <1>1, <2>1 DEF HostTypeOK
<1>5. /\ ActiveOps' \subseteq ActiveOps \cup {o}
      /\ QuarantinedOps \ {o} = QuarantinedOps' \ {o}
      /\ hostOps[o] # "new" => o \in ActiveOps
      /\ o \notin QuarantinedOps
  BY <1>3 DEF ActiveOps, QuarantinedOps, StartOp, EndOp
<1>6. hostOps[o] = "new" => admission = "open"
  BY DEF StartOp, EndOp
<1>7. (drain = "complete" \/ restart \in {"browsers", "stopping", "persist", "done"}) => o \in late'
  BY <1>2, <1>5, <1>6 DEF SealInv, SeenInv
<1>8. late \subseteq late'
  BY <1>2
<1>9. SeenInv'
  BY <1>1, <1>5, <1>7, <1>8 DEF SeenInv
<1>10. SealInv' /\ ExitInv'
  BY <1>1, <1>2 DEF SealInv, ExitInv
<1> QED
  BY <1>4, <1>9, <1>10

\* The preparation of the observer, a recovery of what the dead runtime left, the death of
\* the helper, and a check or a request that begins to give up the runtime.
LEMMA WorldStep ==
  ASSUME HostInv,
         \/ BeginPreparation \/ EndPreparation \/ HelperDies \/ Asked \/ Check
         \/ RecoveryBegins \/ RecoveryEnds \/ RecoverySeals
  PROVE  HostInv'
<1> USE DEF HostInv
<1>1. HostTypeOK'
  <2>1. CASE RecoveryBegins \/ RecoveryEnds \/ RecoverySeals
    <3>1. /\ admission' \in {"open", "sealed"}
          /\ recovering' \in BOOLEAN /\ reopened' \in BOOLEAN
      BY <2>1, Zenon DEF HostTypeOK, RecoveryBegins, RecoveryEnds, RecoverySeals, Unsealed
    <3>2. UNCHANGED <<rotation, runVars, preparation, prepAborted, draining, late, worldVars>>
      BY <2>1 DEF RecoveryBegins, RecoveryEnds, RecoverySeals
    <3> QED
      BY <3>1, <3>2 DEF HostTypeOK
  <2>2. CASE BeginPreparation \/ EndPreparation \/ HelperDies \/ Asked \/ Check
    BY <2>2 DEF HostTypeOK, BeginPreparation, EndPreparation, HelperDies, Asked, Check, StartDrain,
           StartClose, RotationMoves, Unsealed
  <2> QED
    BY <2>1, <2>2
<1>2. UNCHANGED <<hostOps, retained, receipt, restart, exitRecorded, lockHeld, late>>
  BY DEF BeginPreparation, EndPreparation, HelperDies, Asked, Check, StartDrain, StartClose,
         RecoveryBegins, RecoveryEnds, RecoverySeals
<1>3. ActiveOps' = ActiveOps /\ QuarantinedOps' = QuarantinedOps
  BY <1>2 DEF ActiveOps, QuarantinedOps
<1>4. CASE BeginPreparation \/ EndPreparation
  BY <1>1, <1>2, <1>3, <1>4 DEF BeginPreparation, EndPreparation, MayOpen, SealInv, SeenInv, ExitInv
<1>5. CASE HelperDies
  BY <1>1, <1>2, <1>3, <1>5 DEF HelperDies, SealInv, SeenInv, ExitInv
<1>6. CASE Asked \/ Check
  BY <1>1, <1>2, <1>3, <1>6 DEF Asked, StartDrain, StartClose, Check, RotationMoves, SealInv, SeenInv, ExitInv
<1>7. CASE RecoveryBegins \/ RecoverySeals
  BY <1>1, <1>2, <1>3, <1>7 DEF RecoveryBegins, RecoverySeals, SealInv, SeenInv, ExitInv
<1>8. CASE RecoveryEnds
  <2>1. UNCHANGED <<rotation, runVars, prepAborted, helper>>
    BY <1>8 DEF RecoveryEnds
  <2>2. reopened => reopened'
    BY <1>8 DEF RecoveryEnds
  <2>3. prepAborted' /\ ~reopened' => admission' = "sealed"
    BY <1>1, <1>8 DEF RecoveryEnds, GivenUp, SealInv, HostTypeOK
  <2> QED
    BY <1>1, <1>2, <1>3, <2>1, <2>2, <2>3 DEF SealInv, SeenInv, ExitInv
<1> QED
  BY <1>1, <1>4, <1>5, <1>6, <1>7, <1>8

\* Steps of a drain.
LEMMA DrainStep == ASSUME HostInv, HostDrain PROVE HostInv'
<1> USE DEF HostInv
<1>0. HostTypeOK'
  BY DEF HostTypeOK, HostDrain, SealForDrain, DrainOperations, DrainPreparation, DrainNative, DrainFails, DrainTo
<1>1. UNCHANGED <<rotation, restart, close, preparation, reopened, late, worldVars>>
  BY DEF HostDrain, SealForDrain, DrainOperations, DrainPreparation, DrainNative, DrainFails, DrainTo
<1>2. ActiveOps' = ActiveOps /\ QuarantinedOps' = QuarantinedOps
  BY <1>1 DEF ActiveOps, QuarantinedOps
<1>3. CASE SealForDrain \/ DrainFails
  BY <1>0, <1>1, <1>2, <1>3 DEF SealForDrain, DrainFails, SealInv, SeenInv, ExitInv
<1>4. CASE DrainOperations \/ DrainTo("browsers", "preparing") \/ DrainPreparation
           \/ DrainTo("observing", "draining")
  BY <1>0, <1>1, <1>2, <1>4 DEF DrainOperations, DrainPreparation, DrainTo, SealInv, SeenInv, ExitInv
<1>5. CASE DrainNative
  <2>1. ActiveOps = {} /\ QuarantinedOps = {}
    BY <1>5 DEF DrainNative
  <2> QED
    BY <1>0, <1>1, <1>2, <1>5, <2>1 DEF DrainNative, DrainTo, SealInv, SeenInv, ExitInv
<1> QED
  BY <1>3, <1>4, <1>5 DEF HostDrain

\* Steps of a quarantined restart.
LEMMA RestartStep == ASSUME HostInv, HostRestart PROVE HostInv'
<1> USE DEF HostInv, RestartTo
<1>0. HostTypeOK'
  BY DEF HostTypeOK, HostRestart, Retain, RestartBrowsers, StopOwnedNative, PersistExit, RestartFails, QuarantinedOps
<1>1. UNCHANGED <<rotation, drain, close, admission, preparation, prepAborted, reopened, late, hostOps, lockHeld,
                  process>>
  BY DEF HostRestart, Retain, RestartBrowsers, StopOwnedNative, PersistExit, RestartFails
<1>2. ActiveOps' = ActiveOps /\ QuarantinedOps' = QuarantinedOps
  BY <1>1 DEF ActiveOps, QuarantinedOps
<1>3. restart # "idle" /\ restart' # "idle"
  BY DEF HostRestart, Retain, RestartBrowsers, StopOwnedNative, PersistExit, RestartFails
<1>4. CASE Retain
  <2>1. QuarantinedOps \subseteq HostOps /\ ActiveOps = {}
    BY <1>4 DEF QuarantinedOps, Retain, NoOpsLeft
  <2> QED
    BY <1>0, <1>1, <1>2, <1>4, <2>1 DEF Retain, SealInv, SeenInv, ExitInv
<1>5. CASE RestartBrowsers \/ StopOwnedNative \/ PersistExit \/ RestartFails
  BY <1>0, <1>1, <1>2, <1>5 DEF RestartBrowsers, StopOwnedNative, PersistExit, RestartFails,
     SealInv, SeenInv, ExitInv
<1> QED
  BY <1>4, <1>5 DEF HostRestart

\* Steps of a close.
LEMMA CloseStep == ASSUME HostInv, HostClose PROVE HostInv'
<1> USE DEF HostInv
<1>0. HostTypeOK'
  BY DEF HostTypeOK, HostClose, CloseClients, CloseObserver, CloseChild, ReleaseLock
<1>1. UNCHANGED <<rotation, drain, restart, admission, preparation, prepAborted, reopened, late, hostOps,
                  retained, receipt, process>>
  BY DEF HostClose, CloseClients, CloseObserver, CloseChild, ReleaseLock
<1>2. ActiveOps' = ActiveOps /\ QuarantinedOps' = QuarantinedOps
  BY <1>1 DEF ActiveOps, QuarantinedOps
<1> QED
  BY <1>0, <1>1, <1>2 DEF HostClose, CloseClients, CloseObserver, CloseChild, ReleaseLock, ExitConfirmed,
     SealInv, SeenInv, ExitInv

\* Steps of a rotation.
LEMMA RotationStep == ASSUME HostInv, HostRotation PROVE HostInv'
<1> USE DEF HostInv, RotationMoves
<1>0. HostTypeOK'
  BY DEF HostTypeOK, HostRotation, Drained, FallBack, Recovered, Exit, Block, StartClosing
<1>1. UNCHANGED <<drain, preparation, reopened, late, hostOps, helper, exitRecorded, retained, receipt>>
  BY DEF HostRotation, Drained, FallBack, Recovered, Exit, Block
<1>2. ActiveOps' = ActiveOps /\ QuarantinedOps' = QuarantinedOps
  BY <1>1 DEF ActiveOps, QuarantinedOps
<1>3. CASE Drained \/ Recovered
  BY <1>0, <1>1, <1>2, <1>3 DEF Drained, Recovered, Receipt, StartClosing, SealInv, SeenInv, ExitInv
<1>4. CASE FallBack
  BY <1>0, <1>1, <1>2, <1>4 DEF FallBack, SealInv, SeenInv, ExitInv
<1>5. CASE Exit \/ Block
  BY <1>0, <1>1, <1>2, <1>5 DEF Exit, Block, SealInv, SeenInv, ExitInv
<1> QED
  BY <1>3, <1>4, <1>5 DEF HostRotation

-----------------------------------------------------------------------------
(* The host: the theorems.                                                 *)

\* The invariant holds of every reachable state.
THEOREM HostIsConsistent == HostSpec => []HostInv
<1>1. HostInit => HostInv
  BY DEF HostInit, HostInv, HostTypeOK, SealInv, SeenInv, ExitInv, ActiveOps, NotRetained
<1>2. HostInv /\ [HostNext]_hostVars => HostInv'
  <2> SUFFICES ASSUME HostInv, [HostNext]_hostVars PROVE HostInv'
    OBVIOUS
  <2>1. CASE HostNext
    BY <2>1, OpsStep, WorldStep, DrainStep, RestartStep, CloseStep, RotationStep DEF HostNext
  <2>2. CASE UNCHANGED hostVars
    BY <2>2 DEF HostInv, HostTypeOK, SealInv, SeenInv, ExitInv, ActiveOps, QuarantinedOps
  <2> QED
    BY <2>1, <2>2
<1> QED
  BY <1>1, <1>2, PTL DEF HostSpec

\* Whatever of rotation, drain, close, preparation and recovery overlaps, and whichever of
\* their timers fires: the lock outlives the helper; the runtime exits only with no active
\* operation and every quarantined one named by the durable receipt, and a drain that was
\* acknowledged admits nothing afterwards, but for what a recovery let in that opened
\* admission again (runtime/src/host.ts, rotation.ts, restart-quarantined.ts).
THEOREM RotationStaysSafe == HostSpec => []RotationIsSafe
<1>1. HostInv => RotationIsSafe
  <2> SUFFICES ASSUME HostInv PROVE RotationIsSafe
    OBVIOUS
  <2>1. RotationExitsSafely
    BY DEF HostInv, SeenInv, ExitInv, RotationExitsSafely
  <2>2. LockOutlivesHelper /\ DrainedMeansQuiet
    BY DEF HostInv, SealInv, SeenInv, ExitInv, LockOutlivesHelper, DrainedMeansQuiet
  <2> QED
    BY <2>1, <2>2 DEF RotationIsSafe
<1> QED
  BY <1>1, HostIsConsistent, PTL

-----------------------------------------------------------------------------
(* The permissions of the runtime's start.                                 *)

PermissionStates == {"checking", "requesting", "waiting", "ready", "restart-needed", "timed-out", "failed"}
Grants == {"missing", "restart", "impossible", "all"}
LookAnswer == [at : 0..MaxLooks, saw : Grants]
Permission == [state : PermissionStates, issued : BOOLEAN, notified : BOOLEAN, checkedAt : 0..MaxLooks]
Flow == [at : {"owner", "first", "request", "sleep", "status", "ended"}, answer : LookAnswer]
Looking == [at : {"unused", "status", "ended"}, answer : LookAnswer]
Gate == [opened : {"nobody", "preparation", "recovery"}, preparing : {"none", "asked", "checked", "failing", "done"}]
Told == {"nothing", "ready", "blocked"}

PermissionTypes ==
  /\ granted \in Grants /\ everGranted \in BOOLEAN /\ permission \in Permission
  /\ flow \in Flow /\ looking \in [Lookers -> Looking] /\ looksMade \in 0..MaxLooks
  /\ told \in Told /\ gate \in Gate

\* The system is asked once, by the flow's one request.
RequestInv ==
  /\ requests \in 0..1
  /\ flow.at \in {"owner", "first"} => requests = 0
  /\ flow.at = "request" /\ flow.answer = NoLookAnswer => requests = 0

\* Whoever saw all permissions, or relies on it, was right at some moment.
GrantInv ==
  /\ granted = "all" => everGranted
  /\ flow.answer.saw = "all" => everGranted
  /\ \A l \in Lookers : looking[l].answer.saw = "all" => everGranted
  /\ permission.state = "ready" => everGranted
  /\ gate.preparing = "checked" => everGranted
  /\ gate.opened = "preparation" => everGranted

\* Readiness was announced and not revoked.
AnnouncedInv ==
  /\ permission.state = "ready" => permission.notified
  /\ permission.notified => told = "ready"

PermissionInv == PermissionTypes /\ RequestInv /\ GrantInv /\ AnnouncedInv

\* The answer that says nothing.
LEMMA NoLookIs == NoLookAnswer \in LookAnswer /\ NoLookAnswer.saw = "missing"
  BY PermissionAssumption DEF NoLookAnswer, LookAnswer, Grants

\* What an answer does to state, owner and gate.
LEMMA AnswerTaken ==
  ASSUME PermissionInv, NEW answer \in LookAnswer, answer.saw = "all" => everGranted,
         NEW fallback \in PermissionStates \ {"ready"}, Announce(answer, fallback)
  PROVE  /\ Accepted(answer, fallback) \in Permission
         /\ Accepted(answer, fallback).state = "ready" => everGranted /\ Accepted(answer, fallback).notified
         /\ Accepted(answer, fallback).notified => told' = "ready"
         /\ Accepted(answer, fallback).checkedAt >= permission.checkedAt
         /\ told' \in Told /\ gate' \in Gate
         /\ gate'.preparing = "checked" => everGranted
         /\ gate'.opened = "preparation" => everGranted
<1>. DEFINE next == NextPermission(answer, fallback)
<1>1. /\ permission \in Permission /\ gate \in Gate /\ told \in Told
      /\ permission.state = "ready" => everGranted /\ permission.notified
      /\ permission.notified => told = "ready"
      /\ gate.preparing = "checked" => everGranted
      /\ gate.opened = "preparation" => everGranted
  BY DEF PermissionInv, PermissionTypes, GrantInv, AnnouncedInv
<1>2. CASE Dropped(answer)
  <2>1. Accepted(answer, fallback) = permission /\ UNCHANGED <<told, gate>>
    BY <1>2 DEF Accepted, Announce
  <2>2. permission.checkedAt >= permission.checkedAt
    BY <1>1, PermissionAssumption DEF Permission
  <2>. QED  BY <1>1, <2>1, <2>2
<1>3. CASE ~Dropped(answer)
  <2>1. next \in PermissionStates /\ (next = "ready" <=> answer.saw = "all")
    BY DEF NextPermission, PermissionStates, LookAnswer, Grants
  <2>2. Accepted(answer, fallback)
          = [permission EXCEPT !.state = next, !.checkedAt = answer.at, !.notified = NotifiedAfter(next)]
    BY <1>3 DEF Accepted
  <2>3. answer.at >= permission.checkedAt /\ answer.at \in 0..MaxLooks
    BY <1>1, <1>3, PermissionAssumption DEF Dropped, LookAnswer, Permission
  <2>4. NotifiedAfter(next) = (next = "ready")  BY DEF NotifiedAfter
  <2>5. /\ Accepted(answer, fallback) \in Permission
        /\ Accepted(answer, fallback).state = next /\ Accepted(answer, fallback).checkedAt = answer.at
        /\ Accepted(answer, fallback).notified = (next = "ready")
    BY <1>1, <2>1, <2>2, <2>3, <2>4 DEF Permission
  <2>6. /\ told' = IF next = "ready" /\ ~permission.notified THEN "ready"
                   ELSE IF next # "ready" THEN "blocked" ELSE told
        /\ gate' \in {[gate EXCEPT !.preparing = "asked"], gate,
                      [opened |-> "nobody", preparing |-> "none"], [opened |-> "nobody", preparing |-> gate.preparing]}
    BY <1>3 DEF Announce
  <2>7. gate' \in Gate /\ (gate'.preparing = "checked" => everGranted) /\ (gate'.opened = "preparation" => everGranted)
    <3>1. CASE gate' = gate  BY <1>1, <3>1
    <3>2. CASE gate' = [gate EXCEPT !.preparing = "asked"]
      <4>1. gate'.opened = gate.opened /\ gate'.preparing = "asked" /\ gate' \in Gate
        BY <1>1, <3>2 DEF Gate
      <4>. QED  BY <1>1, <4>1
    <3>3. CASE \E p \in {"none", gate.preparing} : gate' = [opened |-> "nobody", preparing |-> p]
      <4>1. gate'.opened = "nobody" /\ gate'.preparing \in {"none", gate.preparing} /\ gate' \in Gate
        BY <1>1, <3>3 DEF Gate
      <4>. QED  BY <1>1, <4>1
    <3>. QED  BY <2>6, <3>1, <3>2, <3>3
  <2>8. told' \in Told /\ (next = "ready" => told' = "ready")
    BY <1>1, <2>6 DEF Told
  <2>. QED  BY <1>1, <2>1, <2>3, <2>5, <2>7, <2>8
<1>. QED  BY <1>2, <1>3

\* A fallback never says ready by itself.
LEMMA FallbackIs ==
  ASSUME PermissionInv  PROVE RefreshFallback \in PermissionStates \ {"ready"}
  BY DEF PermissionInv, PermissionTypes, Permission, RefreshFallback, PermissionStates

\* The flow takes an answer.
LEMMA FlowTakes ==
  ASSUME PermissionInv, FirstStatus \/ LaterStatus
  PROVE  PermissionInv' /\ permission'.checkedAt >= permission.checkedAt
<1>1. /\ flow.answer \in LookAnswer /\ (flow.answer.saw = "all" => everGranted)
      /\ granted \in Grants /\ everGranted \in BOOLEAN /\ looking \in [Lookers -> Looking]
      /\ looksMade \in 0..MaxLooks /\ requests \in 0..1 /\ flow.at # "ended"
      /\ (granted = "all" => everGranted)
      /\ \A l \in Lookers : looking[l].answer.saw = "all" => everGranted
  BY DEF PermissionInv, PermissionTypes, Flow, GrantInv, RequestInv, FirstStatus, LaterStatus
<1>2. UNCHANGED <<granted, looking, looksMade, requests, everGranted>>
  BY DEF FirstStatus, LaterStatus
<1>3. PICK fallback \in {"checking", "waiting"} :
        /\ Announce(flow.answer, fallback)
        /\ LET after == Accepted(flow.answer, fallback) IN
             permission' \in {after, [after EXCEPT !.state = "requesting", !.issued = TRUE],
                              [after EXCEPT !.state = "timed-out"]}
        /\ flow' \in [at : {"ended", "request", "sleep"}, answer : {NoLookAnswer}]
        /\ flow'.at = "request" => flow.at = "first"
  BY DEF FirstStatus, LaterStatus
<1>. DEFINE after == Accepted(flow.answer, fallback)
<1>4. /\ after \in Permission /\ (after.state = "ready" => everGranted /\ after.notified)
      /\ (after.notified => told' = "ready") /\ after.checkedAt >= permission.checkedAt
      /\ told' \in Told /\ gate' \in Gate
      /\ (gate'.preparing = "checked" => everGranted) /\ (gate'.opened = "preparation" => everGranted)
  <2>1. fallback \in PermissionStates \ {"ready"}  BY DEF PermissionStates
  <2>. QED  BY <1>1, <1>3, <2>1, AnswerTaken
<1>. HIDE DEF after
<1>5. /\ permission' \in Permission /\ (permission'.state = "ready" => everGranted /\ permission'.notified)
      /\ (permission'.notified => told' = "ready") /\ permission'.checkedAt >= permission.checkedAt
  <2>1. permission' \in {after, [after EXCEPT !.state = "requesting", !.issued = TRUE],
                         [after EXCEPT !.state = "timed-out"]}
    BY <1>3 DEF after
  <2>2. /\ permission' \in Permission /\ permission'.notified = after.notified
        /\ permission'.checkedAt = after.checkedAt
        /\ (permission'.state = "ready" => after.state = "ready")
    BY <1>4, <2>1 DEF Permission, PermissionStates
  <2>. QED  BY <1>4, <2>2
<1>6. flow' \in Flow /\ flow'.answer = NoLookAnswer /\ flow'.at \notin {"owner", "first"}
  BY <1>3, NoLookIs DEF Flow
<1>7. flow'.at = "request" => requests = 0
  BY <1>3 DEF PermissionInv, RequestInv
<1>. QED
  BY <1>1, <1>2, <1>4, <1>5, <1>6, <1>7, NoLookIs
  DEF PermissionInv, PermissionTypes, RequestInv, GrantInv, AnnouncedInv

\* A look of system_health takes its answer.
LEMMA LookTakes ==
  ASSUME PermissionInv, NEW l \in Lookers, RefreshAnswered(l)
  PROVE  PermissionInv' /\ permission'.checkedAt >= permission.checkedAt
<1>1. looking \in [Lookers -> Looking] /\ looking[l].answer \in LookAnswer
  BY DEF PermissionInv, PermissionTypes, Looking
<1>2. /\ looking' = [looking EXCEPT ![l] = [at |-> "ended", answer |-> NoLookAnswer]]
      /\ permission' = Accepted(looking[l].answer, RefreshFallback)
      /\ Announce(looking[l].answer, RefreshFallback)
      /\ UNCHANGED <<granted, flow, looksMade, requests, everGranted>>
  BY DEF RefreshAnswered, LookerAt, AcceptAnswer
<1>3. looking[l].answer.saw = "all" => everGranted  BY DEF PermissionInv, GrantInv
<1>4. /\ permission' \in Permission /\ (permission'.state = "ready" => everGranted /\ permission'.notified)
      /\ (permission'.notified => told' = "ready") /\ permission'.checkedAt >= permission.checkedAt
      /\ told' \in Told /\ gate' \in Gate
      /\ (gate'.preparing = "checked" => everGranted) /\ (gate'.opened = "preparation" => everGranted)
  BY <1>1, <1>2, <1>3, FallbackIs, AnswerTaken
<1>5. /\ looking' \in [Lookers -> Looking]
      /\ \A k \in Lookers : looking'[k].answer.saw = "all" => looking[k].answer.saw = "all"
  BY <1>1, <1>2, NoLookIs DEF Looking
<1>. QED
  BY <1>2, <1>4, <1>5 DEF PermissionInv, PermissionTypes, RequestInv, GrantInv, AnnouncedInv

\* The helper looks at the system.
LEMMA HelperLooksKeeps ==
  ASSUME PermissionInv, NEW who \in Lookers \cup {"flow"}, HelperLooks(who)
  PROVE  PermissionInv'
<1>. DEFINE answer == [at |-> looksMade + 1, saw |-> granted]
<1>1. /\ answer \in LookAnswer /\ (answer.saw = "all" => everGranted) /\ looksMade' \in 0..MaxLooks
      /\ answer # NoLookAnswer
  BY PermissionAssumption
  DEF HelperLooks, PermissionInv, PermissionTypes, GrantInv, LookAnswer, NoLookAnswer
<1>2. UNCHANGED <<granted, permission, told, gate, everGranted>>  BY DEF HelperLooks
<1>3. CASE who = "flow" /\ flow.at \in {"first", "request", "status"} /\ flow.answer = NoLookAnswer
           /\ flow' = [flow EXCEPT !.answer = answer]
           /\ requests' = requests + (IF flow.at = "request" THEN 1 ELSE 0) /\ UNCHANGED looking
  <2>1. flow' \in Flow /\ flow'.at = flow.at /\ flow'.answer = answer
    BY <1>1, <1>3 DEF PermissionInv, PermissionTypes, Flow
  <2>2. requests' \in 0..1 /\ (flow.at # "request" => requests' = requests)
    BY <1>3 DEF PermissionInv, RequestInv
  <2>. HIDE DEF answer
  <2>. QED
    BY <1>1, <1>2, <1>3, <2>1, <2>2 DEF PermissionInv, PermissionTypes, RequestInv, GrantInv, AnnouncedInv
<1>4. CASE who \in Lookers /\ looking' = [looking EXCEPT ![who].answer = answer] /\ UNCHANGED <<flow, requests>>
  <2>1. /\ looking' \in [Lookers -> Looking]
        /\ \A k \in Lookers : looking'[k].answer \in {answer, looking[k].answer}
    BY <1>1, <1>4 DEF PermissionInv, PermissionTypes, Looking
  <2>. HIDE DEF answer
  <2>. QED
    BY <1>1, <1>2, <1>4, <2>1 DEF PermissionInv, PermissionTypes, RequestInv, GrantInv, AnnouncedInv
<1>. QED  BY <1>3, <1>4 DEF HelperLooks

\* The other steps of the flow and of the looks.
LEMMA FlowGoesOn ==
  ASSUME PermissionInv,
         \/ VerifyOwner \/ LookAgain \/ FlowFails
         \/ \E l \in Lookers : RefreshStatus(l) \/ RefreshFails(l)
  PROVE  PermissionInv' /\ permission'.checkedAt = permission.checkedAt
<1>1. CASE VerifyOwner \/ LookAgain
  <2>1. flow' \in Flow /\ flow'.answer = flow.answer /\ flow'.at \in {"first", "status"}
        /\ (flow'.at = "first" => flow.at = "owner")
    BY <1>1 DEF VerifyOwner, LookAgain, FlowAt, PermissionInv, PermissionTypes, Flow
  <2>2. UNCHANGED <<granted, permission, looking, looksMade, told, requests, gate, everGranted>>
    BY <1>1 DEF VerifyOwner, LookAgain
  <2>. QED
    BY <2>1, <2>2 DEF PermissionInv, PermissionTypes, RequestInv, GrantInv, AnnouncedInv
<1>2. CASE FlowFails
  <2>1. flow' \in Flow /\ flow'.answer = NoLookAnswer /\ flow'.at = "ended"
    BY <1>2, NoLookIs DEF FlowFails, Flow
  <2>2. /\ permission' \in Permission /\ permission'.state = "failed"
        /\ permission'.notified = permission.notified /\ permission'.checkedAt = permission.checkedAt
    BY <1>2 DEF FlowFails, PermissionInv, PermissionTypes, Permission, PermissionStates
  <2>3. UNCHANGED <<granted, looking, looksMade, told, requests, gate, everGranted>>
    BY <1>2 DEF FlowFails
  <2>. QED
    BY <2>1, <2>2, <2>3, NoLookIs DEF PermissionInv, PermissionTypes, RequestInv, GrantInv, AnnouncedInv
<1>3. ASSUME NEW l \in Lookers, RefreshStatus(l) \/ RefreshFails(l)
      PROVE  PermissionInv' /\ permission'.checkedAt = permission.checkedAt
  <2>1. PICK p \in {"status", "ended"} : looking' = [looking EXCEPT ![l] = [at |-> p, answer |-> NoLookAnswer]]
    BY <1>3 DEF RefreshStatus, RefreshFails, LookerAt
  <2>2. /\ looking' \in [Lookers -> Looking]
        /\ \A k \in Lookers : looking'[k].answer.saw = "all" => looking[k].answer.saw = "all"
    BY <2>1, NoLookIs DEF PermissionInv, PermissionTypes, Looking
  <2>3. UNCHANGED <<granted, permission, flow, looksMade, told, requests, gate, everGranted>>
    BY <1>3 DEF RefreshStatus, RefreshFails
  <2>. QED
    BY <2>2, <2>3 DEF PermissionInv, PermissionTypes, RequestInv, GrantInv, AnnouncedInv
<1>. QED  BY <1>1, <1>2, <1>3

\* The preparation of the backend, and the user.
LEMMA PreparationKeeps ==
  ASSUME PermissionInv,
         \/ HealthPrepares \/ PreparationChecks \/ PreparationFaults \/ PreparationEnds
         \/ StartupRecovered \/ UserDecides
  PROVE  PermissionInv' /\ permission'.checkedAt = permission.checkedAt
<1>1. CASE HealthPrepares \/ PreparationChecks \/ PreparationFaults \/ PreparationEnds \/ StartupRecovered
  <2>1. /\ gate \in Gate /\ granted \in Grants /\ (granted = "all" => everGranted)
        /\ (gate.preparing = "checked" => everGranted) /\ (gate.opened = "preparation" => everGranted)
        /\ (permission.state = "ready" => everGranted)
    BY DEF PermissionInv, PermissionTypes, GrantInv
  <2>2. gate' \in Gate /\ (gate'.preparing = "checked" => everGranted) /\ (gate'.opened = "preparation" => everGranted)
    <3>1. CASE \E p \in {"asked", "failing"} : gate' = [gate EXCEPT !.preparing = p]
      <4>1. gate' \in Gate /\ gate'.opened = gate.opened /\ gate'.preparing # "checked"
        BY <2>1, <3>1 DEF Gate
      <4>. QED  BY <2>1, <4>1
    <3>2. CASE PreparationChecks
      <4>1. /\ gate' \in Gate /\ gate'.opened = gate.opened
            /\ (gate'.preparing = "checked" => granted = "all")
        BY <2>1, <3>2 DEF PreparationChecks, Gate
      <4>. QED  BY <2>1, <4>1
    <3>3. CASE gate.preparing = "checked"
               /\ gate' = [opened |-> OpenedBy("preparation"), preparing |-> "done"]
      BY <2>1, <3>3 DEF Gate, OpenedBy
    <3>4. CASE gate' = [opened |-> IF OpensWithoutObserver THEN OpenedBy("preparation") ELSE gate.opened,
                        preparing |-> "none"]
      BY <2>1, <3>4 DEF Gate, OpenedBy, OpensWithoutObserver
    <3>5. CASE StartupRecovered
      <4>1. PICK who \in {OpenedBy("recovery"), "nobody"} : gate' = [gate EXCEPT !.opened = who]
        BY <3>5 DEF StartupRecovered
      <4>. QED  BY <2>1, <4>1 DEF Gate, OpenedBy
    <3>. QED
      BY <1>1, <3>1, <3>2, <3>3, <3>4, <3>5 DEF HealthPrepares, PreparationFaults, PreparationEnds
  <2>3. UNCHANGED <<granted, permission, flow, looking, looksMade, told, requests, everGranted>>
    BY <1>1 DEF HealthPrepares, PreparationChecks, PreparationFaults, PreparationEnds, StartupRecovered
  <2>. QED
    BY <2>2, <2>3 DEF PermissionInv, PermissionTypes, RequestInv, GrantInv, AnnouncedInv
<1>2. CASE UserDecides
  <2>1. /\ granted' \in Grants /\ everGranted' \in BOOLEAN /\ (granted' = "all" => everGranted')
        /\ (everGranted => everGranted')
    BY <1>2 DEF UserDecides, PermissionInv, PermissionTypes, GrantInv, Grants
  <2>2. UNCHANGED <<permission, flow, looking, looksMade, told, requests, gate>>
    BY <1>2 DEF UserDecides
  <2>. QED
    BY <2>1, <2>2 DEF PermissionInv, PermissionTypes, RequestInv, GrantInv, AnnouncedInv
<1>. QED  BY <1>1, <1>2

\* Every step.
LEMMA PermissionSteps ==
  ASSUME PermissionInv, [PermissionNext]_permissionVars
  PROVE  PermissionInv' /\ permission'.checkedAt >= permission.checkedAt
<1>0. permission.checkedAt \in Nat
  BY PermissionAssumption DEF PermissionInv, PermissionTypes, Permission
<1>1. CASE UNCHANGED permissionVars
  BY <1>0, <1>1 DEF permissionVars, PermissionInv, PermissionTypes, RequestInv, GrantInv, AnnouncedInv
<1>2. CASE FirstStatus \/ LaterStatus  BY <1>2, FlowTakes
<1>3. CASE \E l \in Lookers : RefreshAnswered(l)  BY <1>3, LookTakes
<1>4. CASE \E who \in Lookers \cup {"flow"} : HelperLooks(who)
  <2>1. permission' = permission  BY <1>4 DEF HelperLooks
  <2>. QED  BY <1>0, <1>4, <2>1, HelperLooksKeeps
<1>5. CASE \/ VerifyOwner \/ LookAgain \/ FlowFails
           \/ \E l \in Lookers : RefreshStatus(l) \/ RefreshFails(l)
  BY <1>0, <1>5, FlowGoesOn
<1>6. CASE \/ HealthPrepares \/ PreparationChecks \/ PreparationFaults \/ PreparationEnds
           \/ StartupRecovered \/ UserDecides
  BY <1>0, <1>6, PreparationKeeps
<1>. QED  BY <1>1, <1>2, <1>3, <1>4, <1>5, <1>6 DEF PermissionNext

\* Answers, announcements and the gate of admission agree, whatever order looks come in.
THEOREM PermissionsAreConsistent == PermissionSpec => []PermissionInv
<1>1. PermissionInit => PermissionInv
  <2>. SUFFICES ASSUME PermissionInit  PROVE PermissionInv
    OBVIOUS
  <2>1. /\ permission \in Permission /\ permission.state = "checking" /\ permission.notified = FALSE
    BY PermissionAssumption DEF PermissionInit, Permission, PermissionStates
  <2>2. flow \in Flow /\ flow.at = "owner" /\ flow.answer = NoLookAnswer
    BY NoLookIs DEF PermissionInit, Flow
  <2>3. looking \in [Lookers -> Looking] /\ \A l \in Lookers : looking[l].answer = NoLookAnswer
    BY NoLookIs DEF PermissionInit, Looking
  <2>4. gate \in Gate /\ gate.opened = "nobody" /\ gate.preparing = "none"
    BY DEF PermissionInit, Gate
  <2>5. granted \in Grants /\ looksMade \in 0..MaxLooks /\ told \in Told /\ requests = 0
    BY PermissionAssumption DEF PermissionInit, Grants, Told
  <2>6. everGranted \in BOOLEAN /\ (granted = "all" => everGranted)
    BY Zenon DEF PermissionInit
  <2>. QED
    BY NoLookIs, <2>1, <2>2, <2>3, <2>4, <2>5, <2>6
    DEF PermissionInv, PermissionTypes, RequestInv, GrantInv, AnnouncedInv
<1>2. PermissionInv /\ [PermissionNext]_permissionVars => PermissionInv'  BY PermissionSteps
<1>. QED  BY <1>1, <1>2, PTL DEF PermissionSpec

\* Every step guards admission, a step that changes nothing too.
LEMMA PermissionStepsGuard ==
  ASSUME PermissionInv, [PermissionNext]_permissionVars
  PROVE  GuardsAdmission
<1>1. PermissionInv' /\ permission'.checkedAt >= permission.checkedAt  BY PermissionSteps
<1>2. NothingBeforeTheGrant' /\ ReadyIsAnnounced'
  BY <1>1 DEF PermissionInv, GrantInv, AnnouncedInv, NothingBeforeTheGrant, ReadyIsAnnounced
<1>. QED  BY <1>1, <1>2 DEF GuardsAdmission

\* Admission and the owner hear the truth at every step (GuardsAdmission).
THEOREM PermissionsGuard == PermissionSpec => [][GuardsAdmission]_permissionVars
<1>1. PermissionInv /\ [PermissionNext]_permissionVars => [GuardsAdmission]_permissionVars
  BY PermissionStepsGuard
<1>. QED  BY <1>1, PermissionsAreConsistent, PTL DEF PermissionSpec

\* The variables keep their types (PermissionTypeOK).
LEMMA PermissionsHaveTypes == PermissionInv => PermissionTypeOK
<1>. SUFFICES ASSUME PermissionInv  PROVE PermissionTypeOK
  OBVIOUS
<1>1. permission \in Permission /\ flow \in Flow /\ gate \in Gate  BY DEF PermissionInv, PermissionTypes
<1>2. told \in Told /\ looksMade \in 0..MaxLooks /\ requests \in 0..1
  BY DEF PermissionInv, PermissionTypes, RequestInv
<1>. QED  BY <1>1, <1>2 DEF PermissionTypeOK, Permission, PermissionStates, Flow, Gate, Told

-----------------------------------------------------------------------------
(* The preparation of an observer.                                         *)

PreparationSpec == PreparationInit /\ [][PreparationNext]_preparationVars

PreparationTypes ==
  /\ preparing \in {"idle", "closing", "attempting", "waiting", "stopping", "covering", "ending"}
  /\ observerState \in {"unavailable", "preparing", "ready"}
  /\ {cleanupUnknown, nativeFailed} \subseteq BOOLEAN
  /\ asked \in {"none", "sent", "ok", "retry", "clean", "unknown"}
  /\ named \in Nat /\ lives \subseteq 1..named /\ binding \in 0..named /\ lateStop \in 0..named

\* Each attempt of each preparation names at most one observer.
AttemptsInv ==
  /\ begun \in 0..MaxPreparations /\ attempt \in 0..PrepareAttempts
  /\ begun = 0 => attempt = 0 /\ named = 0 /\ preparing = "idle"
  /\ begun # 0 => attempt # 0 /\ named <= (begun - 1) * PrepareAttempts + attempt
  /\ preparing \in {"attempting", "closing"} =>
       begun # 0 /\ named < (begun - 1) * PrepareAttempts + attempt
  /\ preparing \in {"waiting", "stopping"} \/ asked # "none" => named # 0

\* Once nobody knows what was left behind no preparation goes on; what was in the helper
\* is gone with it; an observer is ready between preparations only.
PlaceInv ==
  /\ cleanupUnknown => preparing \in {"idle", "ending"}
  /\ nativeFailed => lives = {} /\ lateStop = 0 /\ asked = "none" /\ observerState # "ready"
  /\ preparing \in {"attempting", "waiting", "stopping"} => binding = 0
  /\ preparing = "closing" => binding # 0
  /\ observerState = "ready" =>
       preparing = "idle" /\ ~cleanupUnknown /\ binding # 0 /\ lives = {binding}

\* Unless nobody knows, what lives is the observer that is bound or the one asked for.
LivesInv ==
  ~cleanupUnknown =>
    /\ lateStop = 0 /\ (asked # "none" => preparing = "waiting")
    /\ preparing \in {"idle", "closing", "ending"} => lives \subseteq {binding} \ {0}
    /\ preparing = "attempting" => lives = {}
    /\ preparing = "waiting" =>
         /\ lives \subseteq {named} /\ (asked \in {"sent", "retry", "clean"} => lives = {})
         /\ asked = "ok" => lives = {named}
    /\ preparing = "stopping" => lives \subseteq {named}
    /\ preparing = "covering" => binding # 0 /\ lives = IF nativeFailed THEN {} ELSE {binding}

PreparationInv == PreparationTypes /\ AttemptsInv /\ PlaceInv /\ LivesInv

\* The helper: it prepares an observer or not, it is lost, it stops the one of a late answer.
LEMMA HelperKeepsPreparation ==
  ASSUME PreparationInv,
         HelperPrepares \/ HelperIsLost \/ (\E yes \in BOOLEAN : LateStop(yes))
  PROVE  PreparationInv'
<1>1. CASE HelperPrepares
  <2>1. asked = "sent" /\ named # 0 /\ asked' \in {"ok", "retry", "clean", "unknown"}
    BY <1>1 DEF HelperPrepares, PreparationInv, AttemptsInv
  <2>2. \/ lives' = lives /\ asked' = "unknown"
        \/ lives = {} /\ lives' = {named} /\ asked' \in {"ok", "unknown"}
        \/ lives = {} /\ lives' = {} /\ asked' \in {"retry", "clean", "unknown"}
    BY <1>1 DEF HelperPrepares
  <2>3. UNCHANGED <<preparing, attempt, binding, observerState, cleanupUnknown, nativeFailed, lateStop,
                    begun, named>> /\ ~nativeFailed
    BY <1>1 DEF HelperPrepares
  <2>4. PreparationTypes'
    <3>1. named \in Nat /\ named # 0 => named \in 1..named
      OBVIOUS
    <3>2. lives' \subseteq lives \cup {named}
      BY <2>2
    <3>. QED  BY <2>1, <2>3, <3>1, <3>2 DEF PreparationInv, PreparationTypes
  <2>7. AttemptsInv'
    BY <2>1, <2>3 DEF PreparationInv, PreparationTypes, AttemptsInv
  <2>5. PlaceInv'
    BY <2>1, <2>2, <2>3 DEF PreparationInv, PlaceInv, LivesInv
  <2>6. LivesInv'
    BY <2>1, <2>2, <2>3 DEF PreparationInv, LivesInv
  <2>. QED  BY <2>4, <2>7, <2>5, <2>6 DEF PreparationInv
<1>2. CASE HelperIsLost
  BY <1>2 DEF HelperIsLost, PreparationInv, PreparationTypes, AttemptsInv, PlaceInv, LivesInv
<1>3. ASSUME NEW yes \in BOOLEAN, LateStop(yes)  PROVE PreparationInv'
  BY <1>3 DEF LateStop, PreparationInv, PreparationTypes, AttemptsInv, PlaceInv, LivesInv
<1>. QED  BY <1>1, <1>2, <1>3

\* A preparation begins, closes the binding before it, and sends its request.
LEMMA AttemptKeeps ==
  ASSUME PreparationInv,
         Begin \/ SendPrepare \/ AttemptRefused \/ (\E yes \in BOOLEAN : CloseBinding(yes))
  PROVE  PreparationInv'
<1>1. CASE Begin
  BY <1>1, PreparationAssumption
  DEF Begin, helperSide, PreparationInv, PreparationTypes, AttemptsInv, PlaceInv, LivesInv
<1>2. CASE SendPrepare
  BY <1>2, PreparationAssumption DEF SendPrepare, PreparationInv, PreparationTypes, AttemptsInv, PlaceInv, LivesInv
<1>3. CASE AttemptRefused
  BY <1>3 DEF AttemptRefused, helperSide, PreparationInv, PreparationTypes, AttemptsInv, PlaceInv, LivesInv
<1>4. ASSUME NEW yes \in BOOLEAN, CloseBinding(yes)  PROVE PreparationInv'
  BY <1>4
  DEF CloseBinding, StopOutcome, PreparationInv, PreparationTypes, AttemptsInv, PlaceInv, LivesInv
<1>. QED  BY <1>1, <1>2, <1>3, <1>4

\* The answer of the helper, in time, too late, or after an abort.
LEMMA AnswerKeeps ==
  ASSUME PreparationInv,
         \/ AnswerArrives \/ AnswerTooLate \/ LateAnswer \/ AbortedWithAnswer
         \/ \E yes \in BOOLEAN : StopAborted(yes)
  PROVE  PreparationInv'
<1>1. CASE AnswerArrives
  <2>1. /\ preparing = "waiting" /\ asked \notin {"none", "sent"} /\ asked' = "none"
        /\ UNCHANGED <<observerState, nativeFailed, lives, lateStop, begun, named>>
    BY <1>1 DEF AnswerArrives
  <2>2. CASE asked = "ok" /\ preparing' = "covering" /\ binding' = named /\ UNCHANGED <<attempt, cleanupUnknown>>
    BY <2>1, <2>2 DEF PreparationInv, PreparationTypes, AttemptsInv, PlaceInv, LivesInv
  <2>3. CASE asked = "retry" /\ preparing' = "attempting" /\ attempt < PrepareAttempts
             /\ attempt' = attempt + 1 /\ UNCHANGED <<binding, cleanupUnknown>>
    BY <2>1, <2>3, PreparationAssumption
    DEF PreparationInv, PreparationTypes, AttemptsInv, PlaceInv, LivesInv
  <2>4. CASE asked \in {"retry", "clean"} /\ preparing' = "ending" /\ cleanupUnknown' = cleanupUnknown
             /\ UNCHANGED <<attempt, binding>>
    BY <2>1, <2>4 DEF PreparationInv, PreparationTypes, AttemptsInv, PlaceInv, LivesInv
  <2>5. CASE preparing' = "ending" /\ cleanupUnknown' = TRUE /\ UNCHANGED <<attempt, binding>>
    BY <2>1, <2>5 DEF PreparationInv, PreparationTypes, AttemptsInv, PlaceInv, LivesInv
  <2>6. cleanupUnknown = FALSE  BY <2>1 DEF PreparationInv, PreparationTypes, PlaceInv
  <2>. QED  BY <1>1, <2>2, <2>3, <2>4, <2>5, <2>6 DEF AnswerArrives, Failed
<1>2. CASE AnswerTooLate
  BY <1>2
  DEF AnswerTooLate, Failed, helperSide, PreparationInv, PreparationTypes, AttemptsInv, PlaceInv, LivesInv
<1>3. CASE LateAnswer
  BY <1>3 DEF LateAnswer, PreparationInv, PreparationTypes, AttemptsInv, PlaceInv, LivesInv
<1>4. CASE AbortedWithAnswer
  BY <1>4 DEF AbortedWithAnswer, PreparationInv, PreparationTypes, AttemptsInv, PlaceInv, LivesInv
<1>5. ASSUME NEW yes \in BOOLEAN, StopAborted(yes)  PROVE PreparationInv'
  BY <1>5
  DEF StopAborted, StopOutcome, Failed, PreparationInv, PreparationTypes, AttemptsInv, PlaceInv, LivesInv
<1>. QED  BY <1>1, <1>2, <1>3, <1>4, <1>5

\* Coverage is confirmed or not, and a preparation that failed ends.
LEMMA EndKeepsPreparation ==
  ASSUME PreparationInv,
         \/ GapIsTold \/ CoverageConfirmed \/ CoverageRefused \/ LostWhilePreparing
         \/ \E yes \in BOOLEAN : Ending(yes)
  PROVE  PreparationInv'
<1>1. CASE GapIsTold
  BY <1>1 DEF GapIsTold, helperSide, PreparationInv, PreparationTypes, AttemptsInv, PlaceInv, LivesInv
<1>2. CASE CoverageConfirmed
  BY <1>2 DEF CoverageConfirmed, helperSide, PreparationInv, PreparationTypes, AttemptsInv, PlaceInv, LivesInv
<1>3. CASE CoverageRefused
  BY <1>3 DEF CoverageRefused, helperSide, PreparationInv, PreparationTypes, AttemptsInv, PlaceInv, LivesInv
<1>4. CASE LostWhilePreparing
  BY <1>4 DEF LostWhilePreparing, helperSide, PreparationInv, PreparationTypes, AttemptsInv, PlaceInv, LivesInv
<1>5. ASSUME NEW yes \in BOOLEAN, Ending(yes)  PROVE PreparationInv'
  <2>1. /\ preparing = "ending" /\ preparing' = "idle" /\ observerState' = "unavailable"
        /\ UNCHANGED <<attempt, cleanupUnknown, nativeFailed, asked, lateStop, begun, named>>
    BY <1>5 DEF Ending
  <2>2. /\ lives' \subseteq lives /\ (lives' \subseteq lives \ {binding} \/ binding' = binding)
        /\ binding' \in {0, binding}
    BY <1>5 DEF Ending, StopOutcome
  <2>3. PreparationTypes' /\ AttemptsInv'
    BY <2>1, <2>2 DEF PreparationInv, PreparationTypes, AttemptsInv
  <2>4. PlaceInv'  BY <2>1, <2>2 DEF PreparationInv, PlaceInv
  <2>5. LivesInv'  BY <2>1, <2>2 DEF PreparationInv, LivesInv
  <2>. QED  BY <2>3, <2>4, <2>5 DEF PreparationInv
<1>. QED  BY <1>1, <1>2, <1>3, <1>4, <1>5

\* Every step keeps it, and is what the preparation promises.
LEMMA PreparationSteps ==
  ASSUME PreparationInv, [PreparationNext]_preparationVars
  PROVE  PreparationInv' /\ (asked # "sent" /\ asked' = "sent" => lives = {} /\ lateStop = 0)
<1>1. CASE UNCHANGED preparationVars
  BY <1>1 DEF preparationVars, PreparationInv, PreparationTypes, AttemptsInv, PlaceInv, LivesInv
<1>2. CASE PreparationNext
  <2>1. PreparationInv'
    BY <1>2, HelperKeepsPreparation, AttemptKeeps, AnswerKeeps, EndKeepsPreparation DEF PreparationNext
  <2>2. asked' = "sent" /\ asked # "sent" => SendPrepare
    BY <1>2
    DEF PreparationNext, HelperPrepares, HelperIsLost, GapIsTold, Begin, AttemptRefused, AnswerArrives,
        AnswerTooLate, LateAnswer, AbortedWithAnswer, CoverageConfirmed, CoverageRefused,
        LostWhilePreparing, LateStop, CloseBinding, StopAborted, Ending, helperSide
  <2>3. SendPrepare => lives = {} /\ lateStop = 0
    BY DEF SendPrepare, PreparationInv, PlaceInv, LivesInv
  <2>. QED  BY <2>1, <2>2, <2>3
<1>. QED  BY <1>1, <1>2

\* What lives in the helper is known, or no preparation goes on.
THEOREM PreparationIsConsistent == PreparationSpec => []PreparationInv
<1>1. PreparationInit => PreparationInv
  <2>. SUFFICES ASSUME PreparationInit  PROVE PreparationInv
    OBVIOUS
  <2>1. PreparationTypes
    <3>1. {cleanupUnknown, nativeFailed} \subseteq BOOLEAN  BY DEF PreparationInit
    <3>2. named \in Nat /\ lives \subseteq 1..named /\ binding \in 0..named /\ lateStop \in 0..named
      BY DEF PreparationInit
    <3>. QED  BY <3>1, <3>2 DEF PreparationInit, PreparationTypes
  <2>2. AttemptsInv  BY PreparationAssumption DEF PreparationInit, AttemptsInv
  <2>3. PlaceInv /\ LivesInv  BY DEF PreparationInit, PlaceInv, LivesInv
  <2>. QED  BY <2>1, <2>2, <2>3 DEF PreparationInv
<1>2. PreparationInv /\ [PreparationNext]_preparationVars => PreparationInv'  BY PreparationSteps
<1>. QED  BY <1>1, <1>2, PTL DEF PreparationSpec

\* Every step prepares safely, a step that changes nothing too.
LEMMA PreparationStepsAreSafe ==
  ASSUME PreparationInv, [PreparationNext]_preparationVars
  PROVE  PreparesSafely
<1>1. PreparationInv' /\ (asked # "sent" /\ asked' = "sent" => lives = {} /\ lateStop = 0)
  BY PreparationSteps
<1>. QED  BY <1>1 DEF PreparationInv, PlaceInv, PreparesSafely

\* A prepare is sent when nothing lives, and a ready observer is the only one (PreparesSafely).
THEOREM PreparationIsSafe == PreparationSpec => [][PreparesSafely]_preparationVars
<1>1. PreparationInv /\ [PreparationNext]_preparationVars => [PreparesSafely]_preparationVars
  BY PreparationStepsAreSafe
<1>. QED  BY <1>1, PreparationIsConsistent, PTL DEF PreparationSpec

\* The variables keep their types (PreparationTypeOK).
LEMMA PreparationHasTypes == PreparationInv => PreparationTypeOK
<1>. SUFFICES ASSUME PreparationInv  PROVE PreparationTypeOK
  OBVIOUS
<1>1. named <= PrepareAttempts * MaxPreparations
  <2>1. CASE begun = 0
    BY <2>1, PreparationAssumption DEF PreparationInv, AttemptsInv
  <2>2. CASE begun # 0
    <3>1. named <= (begun - 1) * PrepareAttempts + PrepareAttempts
      BY <2>2, PreparationAssumption DEF PreparationInv, AttemptsInv, PreparationTypes
    <3>2. (begun - 1) * PrepareAttempts + PrepareAttempts = begun * PrepareAttempts
      BY <2>2, PreparationAssumption DEF PreparationInv, AttemptsInv
    <3>5. MaxPreparations - begun \in Nat /\ MaxPreparations = begun + (MaxPreparations - begun)
      BY PreparationAssumption DEF PreparationInv, AttemptsInv
    <3>3. PICK d \in Nat : MaxPreparations = begun + d
      BY <3>5
    <3>4. PrepareAttempts * MaxPreparations = begun * PrepareAttempts + d * PrepareAttempts
          /\ d * PrepareAttempts \in Nat /\ begun * PrepareAttempts \in Nat
      BY <3>3, PreparationAssumption DEF PreparationInv, AttemptsInv
    <3>. QED  BY <3>1, <3>2, <3>4 DEF PreparationInv, PreparationTypes
  <2>. QED  BY <2>1, <2>2
<1>2. 1..named \subseteq Observers
  BY <1>1, PreparationAssumption DEF Observers, PreparationInv, PreparationTypes
<1>. QED
  BY <1>2 DEF PreparationInv, PreparationTypes, AttemptsInv, PreparationTypeOK

-----------------------------------------------------------------------------
(* The installer's patience.                                               *)

DoctorSpec == DoctorInit /\ [][DoctorNext]_doctorVars

DoctorTypes ==
  /\ doctorNow \in Nat \ {0} /\ doctorResult \in {"polling", "expired", "failed", "ready"}
  /\ readinessDeadline \in Nat /\ permissionDeadline \in Nat /\ observerDeadline \in Nat
  /\ permissionDeadline = 0 => ~permissionPending
  /\ observerDeadline = 0 => ~observerActive

\* What each deadline can be, by which of the others are set.
DeadlinesInv ==
  /\ permissionDeadline = 0 => /\ readinessDeadline = 1 + ReadinessPolls
                               /\ observerDeadline <= ReadinessPolls + ObserverPolls
  /\ observerDeadline = 0 => /\ permissionDeadline <= ReadinessPolls + PermissionPolls
                             /\ readinessDeadline <= 2 * ReadinessPolls + PermissionPolls
  /\ permissionDeadline <= ReadinessPolls + ObserverPolls + PermissionPolls
  /\ observerDeadline <= 2 * ReadinessPolls + PermissionPolls + ObserverPolls
  /\ readinessDeadline <= 2 * ReadinessPolls + PermissionPolls + ObserverPolls

DoctorInv == DoctorTypes /\ DeadlinesInv /\ DoctorIsBounded

\* Every step keeps it.
LEMMA DoctorSteps ==
  ASSUME DoctorInv, [DoctorNext]_doctorVars
  PROVE  DoctorInv'
<1>. USE DoctorAssumption
<1>1. CASE UNCHANGED doctorVars
  BY <1>1 DEF doctorVars, DoctorInv, DoctorTypes, DeadlinesInv, DoctorIsBounded
<1>2. CASE DoctorExpires \/ DoctorSilent \/ DoctorRefused
  BY <1>2
  DEF DoctorExpires, DoctorSilent, DoctorRefused, Polling, PollAgain, Ends, Deadline, deadlineVars,
      DoctorInv, DoctorTypes, DeadlinesInv, DoctorIsBounded
<1>3. CASE PermissionsPending
  BY <1>3
  DEF PermissionsPending, Polling, PollAgain, Ends, Deadline, DoctorInv, DoctorTypes, DeadlinesInv, DoctorIsBounded
<1>4. CASE ObserverPreparing
  <2>1. /\ doctorNow < Deadline /\ doctorResult = "polling"
        /\ readinessDeadline' = IF permissionPending THEN doctorNow + ReadinessPolls ELSE readinessDeadline
        /\ permissionPending' = FALSE /\ permissionDeadline' = permissionDeadline /\ observerActive' = TRUE
    BY <1>4 DEF ObserverPreparing, PermissionsSettled, Polling
  <2>2. \/ observerDeadline # 0 /\ observerDeadline' = observerDeadline
        \/ observerDeadline = 0 /\ observerDeadline' \in Nat /\ observerDeadline' <= doctorNow + ObserverPolls
           /\ observerDeadline' # 0
    BY <1>4 DEF ObserverPreparing, DoctorInv, DoctorTypes, DeadlinesInv
  <2>3. /\ doctorNow' \in {doctorNow, doctorNow + 1}
        /\ doctorResult' \in {"polling", "expired"}
    BY <1>4, <2>1 DEF ObserverPreparing, Ends, PollAgain
  <2>4. doctorNow < readinessDeadline \/ doctorNow < permissionDeadline \/ doctorNow < observerDeadline
    BY <2>1 DEF Deadline
  <2>5. permissionPending => doctorNow < permissionDeadline
    BY <2>1 DEF Deadline
  <2>6. observerDeadline = 0 /\ ~permissionPending => doctorNow < readinessDeadline
    BY <2>1 DEF Deadline, DoctorInv, DoctorTypes, DeadlinesInv
  <2>7. DeadlinesInv'
    BY <2>1, <2>2, <2>3, <2>4, <2>5, <2>6 DEF DoctorInv, DoctorTypes, DeadlinesInv
  <2>9. DoctorTypes'  BY <2>1, <2>2, <2>3 DEF DoctorInv, DoctorTypes
  <2>8. DoctorIsBounded'
    BY <2>3, <2>4 DEF DoctorInv, DoctorTypes, DeadlinesInv, DoctorIsBounded
  <2>. QED  BY <2>7, <2>8, <2>9 DEF DoctorInv
<1>5. CASE ObserverNotReady \/ Ready
  <2>1. /\ doctorNow < Deadline /\ doctorResult = "polling"
        /\ readinessDeadline' = IF permissionPending THEN doctorNow + ReadinessPolls ELSE readinessDeadline
        /\ ~permissionPending' /\ permissionDeadline' = permissionDeadline
        /\ observerDeadline' = observerDeadline /\ (observerActive' => observerActive)
        /\ doctorNow' \in {doctorNow, doctorNow + 1} /\ doctorResult' \in {"polling", "failed", "ready"}
    BY <1>5 DEF ObserverNotReady, Ready, PermissionsSettled, Polling, Ends, PollAgain
  <2>2. doctorNow < readinessDeadline \/ doctorNow < permissionDeadline \/ doctorNow < observerDeadline
    BY <2>1 DEF Deadline
  <2>3. permissionPending => doctorNow < permissionDeadline
    BY <2>1 DEF Deadline
  <2>4. DeadlinesInv'
    BY <2>1, <2>2, <2>3 DEF DoctorInv, DoctorTypes, DeadlinesInv
  <2>6. DoctorTypes'  BY <2>1 DEF DoctorInv, DoctorTypes
  <2>5. DoctorIsBounded'
    BY <2>1, <2>2 DEF DoctorInv, DoctorTypes, DeadlinesInv, DoctorIsBounded
  <2>. QED  BY <2>4, <2>5, <2>6 DEF DoctorInv
<1>. QED  BY <1>1, <1>2, <1>3, <1>4, <1>5 DEF DoctorNext

\* The installer polls no longer than the three deadlines allow (DoctorIsBounded).
THEOREM DoctorStaysBounded == DoctorSpec => []DoctorInv
<1>1. ASSUME DoctorInit  PROVE DoctorInv
  <2>1. /\ readinessDeadline = 1 + ReadinessPolls /\ doctorNow = 1
        /\ observerDeadline = 0 /\ permissionDeadline = 0 /\ doctorResult = "polling"
        /\ permissionPending = FALSE /\ observerActive = FALSE
    BY <1>1 DEF DoctorInit
  <2>2. DeadlinesInv  BY <2>1, DoctorAssumption DEF DeadlinesInv
  <2>4. DoctorTypes  BY <2>1, DoctorAssumption DEF DoctorTypes
  <2>3. DoctorIsBounded  BY <2>1, DoctorAssumption DEF DoctorIsBounded
  <2>. QED  BY <2>2, <2>3, <2>4 DEF DoctorInv
<1>2. DoctorInv /\ [DoctorNext]_doctorVars => DoctorInv'  BY DoctorSteps
<1>. QED  BY <1>1, <1>2, PTL DEF DoctorSpec

-----------------------------------------------------------------------------
(* The services together.                                                  *)

\* A run of the services is a run of each of them.
LEMMA ServicesRunEach ==
  ServicesSpec => PermissionSpec /\ PreparationSpec /\ DoctorSpec /\ DeviceSpec /\ SessionSpec
<1>1. ServicesInit => PermissionInit /\ PreparationInit /\ DoctorInit /\ DeviceInit /\ SessionInit
  BY DEF ServicesInit
<1>2. ASSUME [ServicesNext]_servicesVars
      PROVE  /\ [PermissionNext]_permissionVars /\ [PreparationNext]_preparationVars
             /\ [DoctorNext]_doctorVars /\ [DeviceNext]_deviceVars /\ [SessionNext]_sessionVars
  BY <1>2 DEF ServicesNext, servicesVars
<1>. QED
  BY <1>1, <1>2, PTL DEF ServicesSpec, PermissionSpec, PreparationSpec, DoctorSpec, DeviceSpec, SessionSpec

\* A preparation opens admission only after a true grant, and calls ready only the one
\* observer the host is bound to, whatever fails, is late or is lost (AdmissionIsGuarded).
THEOREM AdmissionStaysGuarded == ServicesSpec => AdmissionIsGuarded
<1>1. ASSUME PermissionInv, [PermissionNext]_permissionVars,
             PreparationInv, [PreparationNext]_preparationVars
      PROVE  [/\ component = "permissions" => GuardsAdmission
              /\ component = "preparation" => PreparesSafely]_servicesVars
  BY <1>1, PermissionStepsGuard, PreparationStepsAreSafe
<1>. QED
  BY <1>1, ServicesRunEach, PermissionsAreConsistent, PreparationIsConsistent, PTL
  DEF PermissionSpec, PreparationSpec, AdmissionIsGuarded

\* Whoever drives a browser is told the truth about it: of the device's, where no forward
\* is forgotten and every effect is told; of a page session, whose answers, events and
\* navigations are those of its document (BrowserIsTold).
THEOREM BrowserStaysTold == ServicesSpec => []BrowserIsTold
<1>1. DeviceInv /\ SessionInv => BrowserIsTold
  BY DeviceTellsTheTruth, SessionTellsTheTruth DEF BrowserIsTold
<1>. QED  BY <1>1, ServicesRunEach, DeviceIsConsistent, PageIsConsistent, PTL
=============================================================================
