---------------------------- MODULE BrowserLifetime ----------------------------
(***************************************************************************)
(* Who owns a connected browser, and for how long                          *)
(* (runtime/src/reservations.ts, lifetime-state.ts): one browser, the      *)
(* operations on it, the place in memory, the record on disk and the        *)
(* deaths of the runtime between them.                                     *)
(*                                                                         *)
(* An operation runs as the core runs it: before, adapter, stage, commit;  *)
(* an aborted one ends at once and its write may still be queued.  A       *)
(* connect and a disconnect lease the browser, a child leases a tab of it, *)
(* recover and a shutdown lease nothing.                                   *)
(***************************************************************************)
EXTENDS Naturals, Sequences, FiniteSets

CONSTANTS
  LifeOps,         \* operations on the browser
  LifeKind,        \* "connect", "child", "disconnect", "recover" or "shutdown" of each
  LifeLineage,     \* the client lineage of each
  MaxLifeFaults,   \* bound: failing saves and aborted operations
  MaxLifeCrashes   \* bound: deaths of the runtime

ASSUME LifeAssumption ==
  /\ LifeKind \in [LifeOps -> {"connect", "child", "disconnect", "recover", "shutdown"}]
  /\ DOMAIN LifeLineage = LifeOps /\ "no" \notin LifeOps /\ {MaxLifeFaults, MaxLifeCrashes} \subseteq Nat

VARIABLES
  life,        \* where each operation is
  place,        \* the place of the browser in #slots, or NoSlot
  record,      \* the record on disk: its state and revision, and the lineage it is for
  known,       \* #durableByPhysical: the record as this process knows it
  saves,      \* the queue of the store
  leased,      \* operations that hold the lease of the browser
  browser,     \* what the driver is connected to: "on" or "off"
  lifeUp, lifeFaults, lifeCrashes

lifeVars == <<life, place, record, known, saves, leased, browser, lifeUp, lifeFaults, lifeCrashes>>
-----------------------------------------------------------------------------
NoSlot == [state |-> "none", lineage |-> "none", children |-> {}, ops |-> {}, taken |-> "no"]
NoRecord == [state |-> "none", revision |-> 0, lineage |-> "none"]
Held == {"connecting", "active", "quarantined"}
Exclusive(o) == LifeKind[o] \in {"connect", "disconnect"}
Cleans(o) == LifeKind[o] \in {"recover", "shutdown"}

LifeInit ==
  /\ life = [o \in LifeOps |-> "new"] /\ place = NoSlot /\ record = NoRecord /\ known = NoRecord
  /\ saves = <<>> /\ leased = {} /\ browser = "off" /\ lifeUp = TRUE
  /\ lifeFaults = 0 /\ lifeCrashes = 0

LifeTypeOK ==
  /\ life \in [LifeOps -> {"new", "saving", "admitted", "running", "staging", "staged", "condemned", "done", "refused", "unknown"}]
  /\ place.state \in Held \cup {"none", "released"}
  /\ place.children \cup place.ops \subseteq LifeOps
  /\ {record.state, known.state} \subseteq Held \cup {"none", "released"}
  /\ \A i \in 1..Len(saves) : saves[i].state \in Held \cup {"released"} /\ saves[i].revision \in Nat
  /\ leased \subseteq LifeOps /\ browser \in {"on", "off"}

LifeFault == lifeFaults < MaxLifeFaults /\ lifeFaults' = lifeFaults + 1
NoLifeFault == UNCHANGED lifeFaults
LifeMoved(o, at) == life' = [life EXCEPT ![o] = at]
Ended(o) == life[o] \in {"new", "refused", "done", "unknown"}
OthersRun == UNCHANGED <<record, lifeUp, lifeCrashes>>

\* #persistSlot: a live record keeps its lineage, the revision is the next one known.
Save(o, state) ==
  saves' = Append(saves, [by |-> o, state |-> state, revision |-> known.revision + 1,
                            lineage |-> IF known.state \in Held THEN known.lineage ELSE LifeLineage[o]])

\* An operation leaves the place, which keeps the given state.
Left(s, o, state) ==
  [s EXCEPT !.state = IF @ = "none" THEN @ ELSE state, !.children = @ \ {o}, !.taken = IF @ = o THEN "no" ELSE @]
-----------------------------------------------------------------------------
(* before: the admission. *)

MayConnect == known.state \notin Held /\ place.state \notin Held

ConnectBrowser(o) ==
  /\ LifeKind[o] = "connect" /\ leased = {} /\ life[o] = "new"
  /\ IF MayConnect THEN LifeMoved(o, "saving") /\ leased' = {o} /\ Save(o, "connecting")
     ELSE LifeMoved(o, "refused") /\ UNCHANGED <<leased, saves>>
  /\ UNCHANGED <<place, known, browser>> /\ NoLifeFault /\ OthersRun

\* Mutant: a disconnect does not look for running children.
NoDisconnect(o) == place.taken = "no"
SlotAdmits(o) ==
  /\ place.taken = "no"
  /\ LifeKind[o] = "disconnect" => place.children = {}

Use(o) ==
  /\ LifeKind[o] \in {"child", "disconnect"} /\ life[o] = "new" /\ (Exclusive(o) => leased = {})
  /\ IF place.state = "active" /\ place.lineage = LifeLineage[o] /\ SlotAdmits(o)
     THEN /\ place' = [place EXCEPT !.children = @ \cup {o}, !.ops = @ \cup {o},
                                  !.taken = IF Exclusive(o) THEN o ELSE @]
          /\ LifeMoved(o, "saving") /\ Save(o, "active")
          /\ leased' = IF Exclusive(o) THEN {o} ELSE leased
     ELSE LifeMoved(o, "refused") /\ UNCHANGED <<place, saves, leased>>
  /\ UNCHANGED <<known, browser>> /\ NoLifeFault /\ OthersRun

\* recover and shutdownLineage: a cleanup takes the whole place.  Those who call for
\* a shutdown, the grace of a client and the drain, have awaited the operations.
Clean(o) ==
  /\ Cleans(o) /\ life[o] = "new" /\ place.state # "none"
  /\ LifeKind[o] = "shutdown" => \A p \in LifeOps : Cleans(p) \/ Ended(p)
  /\ LET idle == place.children = {} /\ place.taken = "no"
         mine == place.lineage = LifeLineage[o] IN
     IF mine /\ idle /\ place.state \in {"quarantined"} \cup (IF LifeKind[o] = "shutdown" THEN {"active"} ELSE {})
     THEN place' = [place EXCEPT !.taken = o] /\ LifeMoved(o, "running")
     ELSE UNCHANGED place /\ LifeMoved(o, "refused")
  /\ UNCHANGED <<known, saves, leased, browser>> /\ NoLifeFault /\ OthersRun

-----------------------------------------------------------------------------
(* The store: one write at a time, refused when it is not a legal step. *)

Allowed(from) ==
  CASE from = "connecting"  -> {"connecting", "active", "quarantined"}
    [] from = "active"      -> {"active", "quarantined", "released"}
    [] from = "quarantined" -> {"quarantined", "released"}
    [] OTHER                -> Held \cup {"released"}

Legal(w) ==
  /\ w.revision > record.revision /\ w.state \in Allowed(record.state)
  /\ record.state \in Held => w.lineage = record.lineage

NewSlot(o) == [NoSlot EXCEPT !.state = "connecting", !.lineage = LifeLineage[o], !.ops = {o}]

\* What the end of a write means to the operation that waits for it.
Saved(o, state) ==
  CASE life[o] = "saving" ->
         /\ place' = IF LifeKind[o] = "connect" THEN NewSlot(o) ELSE place
         /\ LifeMoved(o, "admitted") /\ UNCHANGED leased
    [] life[o] = "staging" -> /\ LifeMoved(o, IF state = "quarantined" THEN "condemned" ELSE "staged")
                               /\ UNCHANGED <<place, leased>>
    [] OTHER -> UNCHANGED <<life, place, leased>>

\* failed: before the adapter ran nothing is known to have happened, later anything is.
LifeFailed(o) ==
  IF life[o] \in {"saving", "admitted"}
  THEN /\ place' = IF place.state = "connecting" /\ life[o] = "admitted" /\ LifeKind[o] = "connect"
                  THEN NoSlot ELSE Left(place, o, place.state)
       /\ LifeMoved(o, "refused") /\ leased' = leased \ {o}
  ELSE place' = Left(place, o, "quarantined") /\ LifeMoved(o, "unknown") /\ UNCHANGED leased

\* Mutant: the error of the store is swallowed.
SavedAnyway(o) == Saved(o, "any")
NotSaved(o) ==
  IF life[o] \in {"saving", "staging"} THEN LifeFailed(o) ELSE UNCHANGED <<life, place, leased>>

WriteEnds ==
  /\ saves # <<>> /\ saves' = Tail(saves)
  /\ LET w == Head(saves) IN
     \/ /\ Legal(w) /\ NoLifeFault
        /\ record' = [state |-> w.state, revision |-> w.revision, lineage |-> w.lineage]
        /\ known' = record' /\ Saved(w.by, w.state)
     \/ ~Legal(w) /\ NoLifeFault /\ NotSaved(w.by) /\ UNCHANGED <<record, known>>
     \/ Legal(w) /\ LifeFault /\ NotSaved(w.by) /\ UNCHANGED <<record, known>>
  /\ UNCHANGED <<browser, lifeUp, lifeCrashes>>

-----------------------------------------------------------------------------
(* The adapter and the stage. *)

Start(o) ==
  /\ life[o] = "admitted" /\ LifeMoved(o, "running")
  /\ UNCHANGED <<place, known, saves, leased, browser>> /\ NoLifeFault /\ OthersRun

\* What the driver did by the time it succeeds; until then it may be half done.
Done(o) == IF LifeKind[o] = "connect" THEN "on" ELSE IF LifeKind[o] = "child" THEN browser ELSE "off"

\* Mutant: a cleanup releases what it has asked to be removed and has not verified.
Unverified(o) == {"on", "off"}
Verified(o) == {Done(o)}

\* The adapter succeeds, the verifier agrees and the result is staged.  A cleanup
\* stages that of the operations before it too, which must have ended.
Succeed(o) ==
  /\ life[o] = "running" /\ browser' \in Verified(o)
  /\ Cleans(o) => \A p \in place.ops : Ended(p)
  /\ CASE LifeKind[o] = "child" -> LifeMoved(o, "done") /\ place' = Left(place, o, place.state) /\ UNCHANGED saves
       [] LifeKind[o] = "connect" -> LifeMoved(o, "staging") /\ Save(o, "active") /\ UNCHANGED place
       [] OTHER -> LifeMoved(o, "staging") /\ Save(o, "released") /\ UNCHANGED place
  /\ UNCHANGED <<known, leased>> /\ NoLifeFault /\ OthersRun

\* The adapter answers that it failed: the quarantine is staged.  A cleanup just
\* fails, also when an earlier operation has not ended.
AnswerFailure(o) ==
  /\ life[o] = "running" /\ browser' \in {browser, Done(o)} /\ OthersRun
  /\ IF Cleans(o) /\ ~\A p \in place.ops : Ended(p) THEN NoLifeFault ELSE LifeFault
  /\ IF Cleans(o) THEN LifeFailed(o) /\ UNCHANGED saves
     ELSE LifeMoved(o, "staging") /\ Save(o, "quarantined") /\ UNCHANGED <<place, leased>>
  /\ UNCHANGED known

\* A cancellation, a deadline or a failed write of the core's own record.
Abort(o) ==
  /\ life[o] \in {"admitted", "running", "staging", "staged", "condemned"} /\ LifeFault
  /\ browser' \in (IF life[o] = "running" THEN {browser, Done(o)} ELSE {browser})
  /\ LifeFailed(o) /\ UNCHANGED <<known, saves>> /\ OthersRun

\* The commit, in one step with the core's own.  Those recovered give up their leases.
Commit(o) ==
  /\ \/ life[o] = "condemned" /\ LifeMoved(o, "unknown") /\ place' = Left(place, o, "quarantined") /\ UNCHANGED leased
     \/ /\ life[o] = "staged" /\ LifeMoved(o, "done")
        /\ IF LifeKind[o] = "connect" THEN place' = Left(place, o, "active") /\ leased' = leased \ {o}
           ELSE place' = Left(place, o, "released") /\ leased' = leased \ (place.ops \cup {o})
  /\ UNCHANGED <<known, saves, browser>> /\ NoLifeFault /\ OthersRun

\* #expire, met by whoever asks for the reservation next.
Expire ==
  /\ place.state = "active" /\ place' = [place EXCEPT !.state = "quarantined"]
  /\ UNCHANGED <<life, known, saves, leased, browser>> /\ NoLifeFault /\ OthersRun

-----------------------------------------------------------------------------
LifeCrash ==
  /\ lifeUp /\ lifeCrashes < MaxLifeCrashes /\ lifeCrashes' = lifeCrashes + 1 /\ lifeUp' = FALSE
  /\ life' = [o \in LifeOps |-> IF life[o] = "new" THEN "new" ELSE "unknown"]
  /\ place' = NoSlot /\ known' = NoRecord /\ saves' = <<>> /\ leased' = {}
  /\ UNCHANGED <<record, browser>> /\ NoLifeFault

\* restorePersisted: whatever was held is quarantined, on disk first.
RestoreLifetime ==
  /\ ~lifeUp /\ lifeUp' = TRUE
  /\ IF record.state \in Held
     THEN /\ record' = [record EXCEPT !.state = "quarantined", !.revision = @ + 1] /\ known' = record'
          /\ place' = [NoSlot EXCEPT !.state = "quarantined", !.lineage = record.lineage]
     ELSE UNCHANGED <<record, place>> /\ known' = record
  /\ UNCHANGED <<life, saves, leased, browser, lifeCrashes>> /\ NoLifeFault

LifeNext ==
  \/ /\ lifeUp
     /\ \/ \E o \in LifeOps : \/ ConnectBrowser(o) \/ Use(o) \/ Clean(o) \/ Start(o)
                              \/ Succeed(o) \/ AnswerFailure(o) \/ Abort(o) \/ Commit(o)
        \/ WriteEnds \/ Expire
  \/ LifeCrash \/ RestoreLifetime

-----------------------------------------------------------------------------
(* Properties. *)

\* A browser that may be connected is on record as held: whenever the runtime
\* dies, the next one finds it and does not connect on top of it.
ConnectedIsOnRecord == browser = "on" => record.state \in Held

\* No disconnect is at work while a child operation of the browser is.
ChildrenKeepTheirBrowser ==
  \A o, c \in LifeOps : LifeKind[o] = "disconnect" /\ LifeKind[c] = "child" /\ life[o] = "running" => life[c] # "running"

\* A browser has one holder, on record, in memory and across a death of the
\* runtime; a connect reaches the adapter only when the browser was never connected
\* or its removal was verified, by this process or an earlier one.
BrowserIsHeldOnce ==
  [][/\ ConnectedIsOnRecord' /\ ChildrenKeepTheirBrowser'
     /\ \A o \in LifeOps :
          LifeKind[o] = "connect" /\ life[o] = "admitted" /\ life'[o] = "running"
            => browser = "off"]_lifeVars
=============================================================================
