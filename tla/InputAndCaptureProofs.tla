----------------------- MODULE InputAndCaptureProofs ------------------------
(***************************************************************************)
(* Proofs about the helper's two executors, for any constants: the capture *)
(* router, where nothing that is in use is freed and everything is freed   *)
(* once, and the input executor, whose held input is on record while it is *)
(* held, and ends released.                                                *)
(***************************************************************************)
EXTENDS CaptureRouter, NativeExecutor, FiniteSetTheorems, TLAPS

-----------------------------------------------------------------------------
(* The capture router.                                                     *)

RouterSpec == RouterInit /\ [][RouterNext]_routerVars

-----------------------------------------------------------------------------
(* The inductive invariant. *)

\* The action queue.
Owner == CHOOSE owner \in Callers :
           \A c \in Callers \ {owner} : CallerOps[c] \subseteq {"result", "tasks"}

\* Where a call of the router is while it holds its entry, and where a release has claimed it.
Indoors == {"starting", "settling", "inspecting", "composing", "holding", "leaving", "judging", "cancelling"}
Claimed == {"awaiting", "reading", "freeing", "unclaiming"}
Releasing == {"checking", "verifying", "judging", "claiming"} \cup Claimed
Inside(e) == {c \in Callers : On(c) = e /\ call[c].at \in Indoors}

Call == [op : RouterOps \cup {"none"},
         at : Indoors \cup Releasing \cup {"none", "entering"},
         on : Captures \cup {"none"}, by : Authorities \cup {"none"}, pinned : BOOLEAN]

TableInv == call \in [Callers -> Call] /\ DOMAIN native = Captures /\ DOMAIN picture = Captures

\* A call is where its operation can be, on a capture that was started; the queues that
\* take results do nothing else.
PlaceInv(c) ==
  /\ (call[c].op = "none" <=> At(c, "none")) /\ (call[c].op = "none" <=> On(c) = "none")
  /\ call[c].op = "start" <=> call[c].at \in {"starting", "settling"}
  /\ call[c].op = "cancel" <=> call[c].at = "cancelling"
  /\ call[c].at \in Releasing => call[c].op \in {"release", "authorized"}
  /\ call[c].by # "none" => call[c].op = "authorized"
  /\ c # Owner => call[c].op \in {"none", "result", "tasks"}
  /\ call[c].op # "none" => entry[On(c)] # "absent"

\* A call that holds its entry finds it listed.
InsideInv(c) ==
  /\ call[c].at \in Indoors => entry[On(c)] = "listed"
  /\ call[c].at = "cancelling" => call[c].pinned
  /\ call[c].at = "composing" => Layout(On(c))

\* What an entry has to do with its tasks and pictures: there are none before it is listed,
\* and none that is not freed once it is released.
EntryInv(e) ==
  /\ entry[e] = "absent" => /\ \A i \in Kids(e) : native[e][i] = "none" /\ picture[e][i] = "none"
                            /\ composed[e] = "none" /\ started[e] = "no"
  /\ entry[e] = "listed" => /\ \A i \in Kids(e) : /\ native[e][i] \in {"none", "running", "cancelled", "drained"}
                                                  /\ picture[e][i] \in {"none", "held"}
                            /\ composed[e] \in {"none", "composing", "held"}
  /\ entry[e] = "released" => /\ \A i \in Kids(e) : /\ native[e][i] \in {"none", "freed"}
                                                    /\ picture[e][i] \in {"none", "freed"}
                              /\ composed[e] \in {"none", "freed"}
  /\ \A i \in Kids(e) : native[e][i] = "none" => picture[e][i] = "none"
  /\ composed[e] = "composing" => \E c \in Callers : On(c) = e /\ At(c, "composing")
  /\ composed[e] # "none" => Layout(e)
  /\ receiptOf[e] # "none" => entry[e] = "released"

\* The calls in flight are counted.
CountInv(e) == inFlight[e] = Cardinality(Inside(e))

\* A start has its capture to itself until it returns, and a task left to start.
StartInv(c) ==
  /\ call[c].op = "start" => \A d \in Callers \ {c} : On(d) # On(c)
  /\ At(c, "starting") => started[On(c)] = "no" /\ Cardinality(StartedKids(On(c))) < Children[On(c)]

\* What is claimed is the action queue's, which finds nobody else inside before it frees.
ReleaseInv ==
  /\ \A e \in releasing : On(Owner) = e /\ call[Owner].at \in Claimed
  /\ call[Owner].at \in Claimed => On(Owner) \in releasing
  /\ call[Owner].at \in Releasing \ {"unclaiming"} => entry[On(Owner)] = "listed"
  /\ At(Owner, "unclaiming") => entry[On(Owner)] = "released"
  /\ call[Owner].at \in {"reading", "freeing"} => Inside(On(Owner)) = {}
  /\ call[Owner].by # "none" => receiptOf[On(Owner)] = "none"

\* What still runs of a capture to be stopped is about to be.
StopInv ==
  \A e \in Captures : \A i \in Kids(e) : native[e][i] = "running" =>
    /\ e \in cancelWanted => On(Owner) = e /\ At(Owner, "cancelling")
    /\ started[e] = "failed" => On(Owner) = e /\ At(Owner, "settling")

SealInv == sealedRouter = "ready" => \A e \in Captures : entry[e] # "listed" /\ CalledBack(e)

RouterInv ==
  /\ RouterTypeOK /\ TableInv
  /\ \A c \in Callers : PlaceInv(c) /\ InsideInv(c) /\ StartInv(c)
  /\ \A e \in Captures : EntryInv(e) /\ CountInv(e)
  /\ ReleaseInv /\ StopInv /\ SealInv /\ ActiveTasks <= MaxNative

-----------------------------------------------------------------------------
(* What steps have in common. *)

\* The action queue is the one that may do more than take results and list tasks.
LEMMA OwnerIs ==
  /\ Owner \in Callers
  /\ \A c \in Callers \ {Owner} : CallerOps[c] \subseteq {"result", "tasks"}
<1>1. \E owner \in Callers : \A c \in Callers \ {owner} : CallerOps[c] \subseteq {"result", "tasks"}
  BY RouterAssumption
<1> QED
  BY <1>1, Zenon DEF Owner

\* The other calls stay where they are.
AtRest(c) == \A d \in Callers \ {c} : call'[d] = call[d]
\* A call goes to a place, holding its entry or not, and is what it was otherwise.
CallGoes(c, where, pin) ==
  /\ call' \in [Callers -> Call] /\ AtRest(c)
  /\ call'[c].op = call[c].op /\ call'[c].at = where /\ call'[c].on = call[c].on
  /\ call'[c].by = call[c].by /\ call'[c].pinned = pin
\* A call begins on an entry, or ends.
Becomes(c, op, where, e, by, pin) ==
  /\ call' \in [Callers -> Call] /\ AtRest(c)
  /\ call'[c].op = op /\ call'[c].at = where /\ call'[c].on = e /\ call'[c].by = by /\ call'[c].pinned = pin

Places == Indoors \cup Releasing \cup {"none", "entering"}

\* What a call's record is after it went on.
LEMMA GoesTo ==
  ASSUME RouterInv, NEW c \in Callers, NEW where \in Places
  PROVE  /\ GoTo(c, where) => CallGoes(c, where, call[c].pinned)
         /\ \A pin \in BOOLEAN : Pinning(c, where, pin) => CallGoes(c, where, pin)
<1>1. call \in [Callers -> Call] /\ call[c] \in Call
  BY DEF RouterInv, TableInv
<1>2. GoTo(c, where) => CallGoes(c, where, call[c].pinned)
  <2> DEFINE r == [call[c] EXCEPT !.at = where]
  <2>1. r \in Call /\ r.op = call[c].op /\ r.at = where /\ r.on = call[c].on /\ r.by = call[c].by
        /\ r.pinned = call[c].pinned
    BY <1>1 DEF Call, Places
  <2>2. GoTo(c, where) => call' = [call EXCEPT ![c] = r]
    BY DEF GoTo
  <2> HIDE DEF r
  <2> QED
    BY <1>1, <2>1, <2>2 DEF CallGoes, AtRest
<1>3. ASSUME NEW pin \in BOOLEAN, Pinning(c, where, pin) PROVE CallGoes(c, where, pin)
  <2> DEFINE r == [call[c] EXCEPT !.at = where, !.pinned = pin]
  <2>1. r \in Call /\ r.op = call[c].op /\ r.at = where /\ r.on = call[c].on /\ r.by = call[c].by
        /\ r.pinned = pin
    BY <1>1 DEF Call, Places
  <2>2. call' = [call EXCEPT ![c] = r]
    BY <1>3 DEF Pinning
  <2> HIDE DEF r
  <2> QED
    BY <1>1, <2>1, <2>2 DEF CallGoes, AtRest
<1> QED
  BY <1>2, <1>3

\* What a call's record is after it returned, or began.
LEMMA BecomesNew ==
  ASSUME RouterInv, NEW c \in Callers
  PROVE  /\ Returns(c) => Becomes(c, "none", "none", "none", "none", FALSE)
         /\ \A r \in Call : call' = [call EXCEPT ![c] = r] => Becomes(c, r.op, r.at, r.on, r.by, r.pinned)
<1>1. call \in [Callers -> Call]
  BY DEF RouterInv, TableInv
<1>2. ASSUME NEW r \in Call, call' = [call EXCEPT ![c] = r] PROVE Becomes(c, r.op, r.at, r.on, r.by, r.pinned)
  BY <1>1, <1>2 DEF Becomes, AtRest
<1>3. NoCall \in Call /\ NoCall.op = "none" /\ NoCall.at = "none" /\ NoCall.on = "none" /\ NoCall.by = "none"
      /\ NoCall.pinned = FALSE
  BY DEF NoCall, Call
<1>4. Returns(c) => Becomes(c, NoCall.op, NoCall.at, NoCall.on, NoCall.by, NoCall.pinned)
  BY <1>2, <1>3 DEF Returns
<1> QED
  BY <1>2, <1>3, <1>4

\* A call that runs is on a capture; one that does not is on none.
LEMMA CallIs ==
  ASSUME RouterInv, NEW c \in Callers
  PROVE  /\ call[c] \in Call /\ PlaceInv(c) /\ InsideInv(c) /\ StartInv(c)
         /\ call[c].at # "none" => On(c) \in Captures /\ entry[On(c)] \in {"listed", "released"} /\ EntryInv(On(c))
         /\ "none" \notin Captures /\ call[c].by \in Authorities \cup {"none"}
<1>1. call[c] \in Call /\ PlaceInv(c) /\ InsideInv(c) /\ StartInv(c) /\ "none" \notin Captures
  BY RouterAssumption DEF RouterInv, TableInv
<1>2. On(c) \in Captures \cup {"none"} /\ call[c].by \in Authorities \cup {"none"}
  BY <1>1 DEF Call, On
<1>3. call[c].at # "none" => On(c) \in Captures /\ entry[On(c)] # "absent"
  BY <1>1, <1>2 DEF PlaceInv, At
<1> QED
  BY <1>1, <1>2, <1>3 DEF RouterInv, RouterTypeOK

\* The calls in flight on an entry, when one call enters it, leaves it, or does neither.
LEMMA CountStep ==
  ASSUME RouterInv, NEW c \in Callers, NEW e \in Captures, AtRest(c), CountInv(e),
         \/ c \notin Inside(e) /\ c \in Inside(e)' /\ inFlight'[e] = inFlight[e] + 1
         \/ c \in Inside(e) /\ c \notin Inside(e)' /\ inFlight'[e] = IF inFlight[e] > 0 THEN inFlight[e] - 1 ELSE 0
         \/ (c \in Inside(e) <=> c \in Inside(e)') /\ inFlight'[e] = inFlight[e]
  PROVE  CountInv(e)' /\ inFlight'[e] \in 0..Cardinality(Callers)
<1>1. IsFiniteSet(Inside(e)) /\ IsFiniteSet(Callers)
  BY RouterAssumption, FS_Subset DEF Inside
<1>2. Cardinality(Inside(e)) \in Nat /\ Cardinality(Callers) \in Nat
  BY <1>1, FS_CardinalityType
<1>3. \A d \in Callers \ {c} : d \in Inside(e)' <=> d \in Inside(e)
  BY DEF AtRest, Inside, On
<1>4. inFlight'[e] = Cardinality(Inside(e)')
  <2>1. CASE c \notin Inside(e) /\ c \in Inside(e)' /\ inFlight'[e] = inFlight[e] + 1
    <3>1. Inside(e)' = Inside(e) \cup {c}
      BY <1>3, <2>1 DEF Inside
    <3> QED
      BY <1>1, <2>1, <3>1, FS_AddElement DEF CountInv
  <2>2. CASE c \in Inside(e) /\ c \notin Inside(e)'
             /\ inFlight'[e] = IF inFlight[e] > 0 THEN inFlight[e] - 1 ELSE 0
    <3>1. Inside(e)' = Inside(e) \ {c}
      BY <1>3, <2>2 DEF Inside
    <3>2. Cardinality(Inside(e)') = Cardinality(Inside(e)) - 1
      BY <1>1, <2>2, <3>1, FS_RemoveElement
    <3>3. Cardinality(Inside(e)) > 0
      BY <1>1, <1>2, <2>2, FS_EmptySet
    <3> QED
      BY <1>2, <2>2, <3>2, <3>3 DEF CountInv
  <2>3. CASE (c \in Inside(e) <=> c \in Inside(e)') /\ inFlight'[e] = inFlight[e]
    <3>1. Inside(e)' = Inside(e)
      BY <1>3, <2>3 DEF Inside
    <3> QED
      BY <2>3, <3>1 DEF CountInv
  <2> QED
    BY <2>1, <2>2, <2>3
<1>5. Inside(e)' \subseteq Callers
  BY DEF Inside
<1>6. Cardinality(Inside(e)') \in Nat /\ Cardinality(Inside(e)') <= Cardinality(Callers)
  BY <1>1, <1>5, FS_Subset, FS_CardinalityType
<1> QED
  BY <1>2, <1>4, <1>6 DEF CountInv

\* An entry, and what hangs on it, stays as it is.
Kept(e) ==
  /\ entry'[e] = entry[e] /\ inFlight'[e] = inFlight[e] /\ started'[e] = started[e]
  /\ native'[e] = native[e] /\ picture'[e] = picture[e] /\ composed'[e] = composed[e]
  /\ receiptOf'[e] = receiptOf[e]

\* A call that changes one entry, its own, leaves what is said of the others alone.
LEMMA LocalStep ==
  ASSUME RouterInv, NEW c \in Callers, NEW e \in Captures, AtRest(c),
         \A f \in Captures \ {e} : Kept(f),
         On(c) \in {e, "none"}, call'[c].on \in {e, "none"},
         entry[e] = "absent" \/ entry'[e] # "absent",
         \A d \in Callers \ {c} : d \in Inside(e) => entry'[e] = "listed",
         On(c) = "none" => \A d \in Callers : On(d) = e => call[d].op # "start",
         PlaceInv(c)', InsideInv(c)', StartInv(c)', EntryInv(e)', CountInv(e)'
  PROVE  /\ \A d \in Callers : PlaceInv(d)' /\ InsideInv(d)' /\ StartInv(d)'
         /\ \A f \in Captures : EntryInv(f)' /\ CountInv(f)'
<1>1. ASSUME NEW d \in Callers \ {c} PROVE PlaceInv(d)' /\ InsideInv(d)' /\ StartInv(d)'
  <2>1. PlaceInv(d) /\ InsideInv(d) /\ StartInv(d) /\ call'[d] = call[d] /\ call[d] \in Call
        /\ On(d) \in Captures \cup {"none"} /\ (call[d].at # "none" => On(d) \in Captures)
    BY CallIs DEF AtRest, Call, On
  <2>2. PlaceInv(d)'
    <3>1. call[d].op # "none" => entry'[On(d)] # "absent"
      BY <2>1 DEF PlaceInv, Kept, At
    <3> QED
      BY <2>1, <3>1 DEF PlaceInv, At, On
  <2>3. InsideInv(d)'
    <3>1. call[d].at \in Indoors => On(d) \in Captures
      BY <2>1 DEF Indoors
    <3>2. call[d].at \in Indoors => entry'[On(d)] = "listed"
      BY <2>1, <3>1 DEF InsideInv, Kept, Inside
    <3> QED
      BY <2>1, <3>2 DEF InsideInv, On
  <2>4. StartInv(d)'
    <3>1. SUFFICES ASSUME call[d].op = "start" PROVE StartInv(d)'
      BY <2>1, <2>2 DEF PlaceInv, StartInv, At
    <3>2. On(d) \in Captures /\ \A b \in Callers \ {d} : On(b) # On(d)
      BY <2>1, <3>1 DEF StartInv, PlaceInv, At
    <3>3. On(d) # e
      BY <3>1, <3>2, RouterAssumption
    <3>4. Kept(On(d)) /\ call'[c].on # On(d)
      BY <3>2, <3>3, RouterAssumption
    <3>5. \A b \in Callers \ {d} : call'[b].on # On(d)
      BY <3>2, <3>4 DEF AtRest, On
    <3>6. StartedKids(On(d))' = StartedKids(On(d))
      BY <2>1, <3>4 DEF StartedKids, Kids, Kept, On
    <3> QED
      BY <2>1, <3>4, <3>5, <3>6 DEF StartInv, At, On, Kept
  <2> QED
    BY <2>2, <2>3, <2>4
<1>2. ASSUME NEW f \in Captures \ {e} PROVE EntryInv(f)' /\ CountInv(f)'
  <2>1. EntryInv(f) /\ CountInv(f) /\ Kept(f)
    BY DEF RouterInv
  <2>2. \A d \in Callers : call'[d].on = f \/ On(d) = f => d # c
    BY RouterAssumption
  <2>3. \A d \in Callers : (call'[d].on = f \/ On(d) = f) => call'[d] = call[d]
    BY <2>2 DEF AtRest
  <2>4. Inside(f)' = Inside(f)
    BY <2>3 DEF Inside, On
  <2>5. CountInv(f)'
    BY <2>1, <2>4 DEF CountInv, Kept
  <2>6. composed'[f] = "composing" => \E d \in Callers : call'[d].on = f /\ call'[d].at = "composing"
    BY <2>1, <2>3 DEF EntryInv, Kept, At, On
  <2>7. EntryInv(f)'
    BY <2>1, <2>6 DEF EntryInv, Kept, At, On, Kids
  <2> QED
    BY <2>5, <2>7
<1> QED
  BY <1>1, <1>2

\* A step of a call that claims nothing, and does not go inside what is claimed, leaves
\* the release under way alone.
LEMMA ReleaseKept ==
  ASSUME RouterInv, NEW c \in Callers, AtRest(c), UNCHANGED <<entry, releasing, receiptOf>>,
         call[c].at \notin Claimed, call'[c].at \notin Claimed,
         call'[c].at \in Releasing => entry[call'[c].on] = "listed",
         call'[c].by # "none" => receiptOf[call'[c].on] = "none",
         \A e \in Captures : c \in Inside(e)' => c \in Inside(e) \/ e \notin releasing
  PROVE  ReleaseInv'
<1>1. ReleaseInv /\ Owner \in Callers
  BY OwnerIs DEF RouterInv
<1>2. CASE c = Owner
  <2>1. releasing = {}
    BY <1>1, <1>2 DEF ReleaseInv
  <2> QED
    BY <1>1, <1>2, <2>1 DEF ReleaseInv, At, On, Claimed
<1>3. CASE c # Owner
  <2>1. call'[Owner] = call[Owner]
    BY <1>1, <1>3 DEF AtRest
  <2>2. call[Owner].at \in {"reading", "freeing"} => On(Owner) \in releasing \cap Captures
    BY <1>1, CallIs DEF ReleaseInv, Claimed
  <2>3. call[Owner].at \in {"reading", "freeing"} => Inside(On(Owner))' = {}
    <3>1. SUFFICES ASSUME call[Owner].at \in {"reading", "freeing"}, NEW d \in Callers, d \in Inside(On(Owner))'
                   PROVE  FALSE
      BY DEF Inside
    <3>2. On(Owner)' = On(Owner) /\ Inside(On(Owner)) = {}
      BY <1>1, <2>1, <3>1 DEF ReleaseInv, On
    <3>3. d # c
      BY <2>2, <3>1, <3>2 DEF Inside
    <3> QED
      BY <3>1, <3>2, <3>3 DEF AtRest, Inside, On
  <2> QED
    BY <1>1, <2>1, <2>3 DEF ReleaseInv, At, On
<1> QED
  BY <1>2, <1>3

\* One call counts in, counts out, or does neither.
Counted(c, e) ==
  /\ \E n \in Nat : inFlight' = [inFlight EXCEPT ![e] = n]
  /\ \/ c \notin Inside(e) /\ c \in Inside(e)' /\ inFlight'[e] = inFlight[e] + 1
     \/ c \in Inside(e) /\ c \notin Inside(e)' /\ inFlight'[e] = IF inFlight[e] > 0 THEN inFlight[e] - 1 ELSE 0
     \/ (c \in Inside(e) <=> c \in Inside(e)') /\ inFlight'[e] = inFlight[e]

\* The critical sections that enter or leave an entry count.
LEMMA CountsAre ==
  ASSUME RouterInv, NEW c \in Callers, NEW e \in Captures,
         \/ OneMore(e) /\ c \notin Inside(e) /\ c \in Inside(e)'
         \/ LessOne(e) /\ c \in Inside(e) /\ c \notin Inside(e)'
         \/ UNCHANGED inFlight /\ (c \in Inside(e) <=> c \in Inside(e)')
  PROVE  Counted(c, e)
<1>1. inFlight \in [Captures -> 0..Cardinality(Callers)] /\ inFlight[e] \in Nat
  BY DEF RouterInv, RouterTypeOK
<1>2. CASE OneMore(e) /\ c \notin Inside(e) /\ c \in Inside(e)'
  <2>1. inFlight[e] + 1 \in Nat /\ inFlight' = [inFlight EXCEPT ![e] = inFlight[e] + 1]
    BY <1>1, <1>2 DEF OneMore
  <2>2. inFlight'[e] = inFlight[e] + 1
    BY <1>1, <2>1
  <2> QED
    BY <1>2, <2>1, <2>2 DEF Counted
<1>3. CASE LessOne(e) /\ c \in Inside(e) /\ c \notin Inside(e)'
  <2> DEFINE n == IF inFlight[e] > 0 THEN inFlight[e] - 1 ELSE 0
  <2>1. n \in Nat /\ inFlight' = [inFlight EXCEPT ![e] = n]
    BY <1>1, <1>3 DEF LessOne
  <2>2. inFlight'[e] = n
    BY <1>1, <2>1
  <2> QED
    BY <1>3, <2>1, <2>2 DEF Counted
<1>4. CASE UNCHANGED inFlight /\ (c \in Inside(e) <=> c \in Inside(e)')
  <2>1. inFlight' = [inFlight EXCEPT ![e] = inFlight[e]]
    BY <1>1, <1>4
  <2> QED
    BY <1>1, <1>4, <2>1 DEF Counted
<1> QED
  BY <1>2, <1>3, <1>4

\* What these calls change, and what they leave alone.
Looking ==
  /\ entry' = entry /\ releasing' = releasing /\ cancelWanted' = cancelWanted /\ started' = started
  /\ native' = native /\ picture' = picture /\ receiptOf' = receiptOf /\ sealedRouter' = sealedRouter
  /\ pendingBy' \in [Captures -> Authorities \cup {"none"}]

\* A composition begins or ends, or does neither.
Composes(c, e) ==
  \/ composed' = composed /\ call[c].at # "composing"
  \/ composed' = [composed EXCEPT ![e] = "composing"] /\ c \in Inside(e)' /\ call'[c].at = "composing"
     /\ entry[e] = "listed" /\ Layout(e)
  \/ composed' = [composed EXCEPT ![e] = "held"] /\ entry[e] = "listed" /\ Layout(e)

\* A call moves without touching the table, except that it may count in or out and begin or
\* end a composition.
LEMMA WalkStep ==
  ASSUME RouterInv, NEW c \in Callers, NEW e \in Captures, call' \in [Callers -> Call], AtRest(c), Looking,
         entry[e] # "absent", call[c].at \notin {"cancelling", "settling"},
         On(c) \in {e, "none"}, call'[c].on \in {e, "none"},
         On(c) = "none" => \A d \in Callers : On(d) = e => call[d].op # "start",
         PlaceInv(c)', InsideInv(c)', StartInv(c)', ReleaseInv', Counted(c, e), Composes(c, e)
  PROVE  RouterInv'
<1>1. RouterTypeOK /\ TableInv /\ EntryInv(e) /\ CountInv(e) /\ StopInv /\ SealInv /\ ActiveTasks <= MaxNative
  BY DEF RouterInv
<1>2. CountInv(e)' /\ inFlight'[e] \in 0..Cardinality(Callers)
  BY <1>1, CountStep DEF Counted
<1>3. inFlight' \in [Captures -> 0..Cardinality(Callers)] /\ \A f \in Captures \ {e} : inFlight'[f] = inFlight[f]
  BY <1>1, <1>2 DEF RouterTypeOK, Counted
<1>4. /\ composed' \in [Captures -> {"none", "composing", "held", "freed"}]
      /\ \A f \in Captures \ {e} : composed'[f] = composed[f]
  BY <1>1 DEF RouterTypeOK, Composes
<1>5. RouterTypeOK' /\ TableInv'
  BY <1>1, <1>3, <1>4 DEF RouterTypeOK, TableInv, Kids, Looking
<1>6. EntryInv(e)'
  <2>1. entry[e] = "listed" => composed'[e] \in {"none", "composing", "held"}
    BY <1>1 DEF EntryInv, RouterTypeOK, Composes
  <2>2. entry[e] = "released" => composed'[e] \in {"none", "freed"}
    BY <1>1 DEF EntryInv, RouterTypeOK, Composes
  <2>3. composed'[e] = "composing" => \E d \in Callers : call'[d].on = e /\ call'[d].at = "composing"
    <3>1. CASE composed' = composed /\ call[c].at # "composing"
      BY <1>1, <3>1 DEF EntryInv, At, On, AtRest
    <3>2. CASE c \in Inside(e)' /\ call'[c].at = "composing"
      BY <3>2 DEF Inside, On
    <3>3. CASE composed' = [composed EXCEPT ![e] = "held"]
      BY <1>1, <3>3 DEF RouterTypeOK
    <3> QED
      BY <3>1, <3>2, <3>3 DEF Composes
  <2>4. composed'[e] # "none" => Layout(e)
    BY <1>1 DEF EntryInv, RouterTypeOK, Composes
  <2> QED
    BY <1>1, <2>1, <2>2, <2>3, <2>4 DEF EntryInv, Kids, At, On, Looking, Layout
<1>7. \A f \in Captures \ {e} : Kept(f)
  BY <1>3, <1>4 DEF Kept, Looking
<1>8. \A d \in Callers \ {c} : d \in Inside(e) => entry'[e] = "listed"
  BY CallIs DEF Inside, InsideInv, Looking
<1>9. /\ \A d \in Callers : PlaceInv(d)' /\ InsideInv(d)' /\ StartInv(d)'
      /\ \A f \in Captures : EntryInv(f)' /\ CountInv(f)'
  BY <1>2, <1>6, <1>7, <1>8, LocalStep DEF Looking
<1>10. StopInv'
  BY <1>1, OwnerIs DEF StopInv, At, On, AtRest, Kids, Looking
<1>11. SealInv' /\ (ActiveTasks <= MaxNative)'
  BY <1>1 DEF SealInv, CalledBack, StartedKids, ActiveTasks, Tasks, Kids, Looking
<1> QED
  BY <1>5, <1>9, <1>10, <1>11 DEF RouterInv

-----------------------------------------------------------------------------
(* The native tasks that entries may have.                                 *)

\* An entry has as many native tasks as it was asked for.
LEMMA KidsAreFinite ==
  ASSUME NEW e \in Captures
  PROVE  IsFiniteSet(Kids(e)) /\ Cardinality(Kids(e)) = Children[e] /\ Children[e] \in Nat \ {0}
<1>1. PICK n \in Nat \ {0} : n = Children[e]
  BY RouterAssumption
<1>2. n \in Int /\ 1 \in Int /\ ~(1 > n) /\ n - 1 + 1 = n
  OBVIOUS
<1>3. IsFiniteSet(1..n) /\ Cardinality(1..n) = IF 1 > n THEN 0 ELSE n - 1 + 1
  BY <1>2, FS_Interval, Zenon
<1> QED
  BY <1>1, <1>2, <1>3 DEF Kids

\* So many pairs of an entry and its task.
LEMMA TasksOfOne ==
  ASSUME NEW e \in Captures
  PROVE  IsFiniteSet({e} \X Kids(e)) /\ Cardinality({e} \X Kids(e)) = Children[e]
<1>1. PICK n \in Nat \ {0} : n = Children[e]
  BY RouterAssumption
<1>2. IsFiniteSet(Kids(e)) /\ Cardinality(Kids(e)) = n
  BY <1>1, KidsAreFinite
<1>3. IsFiniteSet({e}) /\ Cardinality({e}) = 1
  BY FS_Singleton
<1>4. Cardinality({e} \X Kids(e)) = 1 * n /\ IsFiniteSet({e} \X Kids(e))
  BY <1>2, <1>3, FS_Product
<1> QED
  BY <1>1, <1>4

\* Any captures have finitely many tasks.
LEMMA TasksAreFinite ==
  ASSUME NEW S \in SUBSET Captures
  PROVE  IsFiniteSet(Tasks(S)) /\ Cardinality(Tasks(S)) \in Nat
<1> DEFINE T == {{e} \X Kids(e) : e \in S}
           f == [e \in S |-> {e} \X Kids(e)]
<1>1. IsFiniteSet(S)
  BY RouterAssumption, FS_Subset
<1>2. f \in Surjection(S, T)
  BY DEF Surjection
<1>3. IsFiniteSet(T)
  BY <1>1, <1>2, FS_Surjection
<1>4. ASSUME NEW t \in T PROVE IsFiniteSet(t)
  <2>1. PICK e \in S : t = {e} \X Kids(e)
    OBVIOUS
  <2> QED
    BY <2>1, TasksOfOne
<1>5. IsFiniteSet(UNION T)
  BY <1>3, <1>4, FS_UNION
<1> QED
  BY <1>5, FS_CardinalityType DEF Tasks

\* As many tasks as listed entries have, and no more when entries are released.
LEMMA FewerTasks ==
  ASSUME RouterInv, {e \in Captures : entry'[e] = "listed"} \subseteq {e \in Captures : entry[e] = "listed"}
  PROVE  (ActiveTasks <= MaxNative)'
<1> DEFINE old == {e \in Captures : entry[e] = "listed"}
           new == {e \in Captures : entry'[e] = "listed"}
<1>1. IsFiniteSet(Tasks(old)) /\ Cardinality(Tasks(old)) \in Nat /\ Cardinality(Tasks(new)) \in Nat
  BY TasksAreFinite
<1>2. Tasks(new) \subseteq Tasks(old)
  BY DEF Tasks
<1>3. Cardinality(Tasks(new)) <= Cardinality(Tasks(old))
  BY <1>1, <1>2, FS_Subset
<1>4. ActiveTasks = Cardinality(Tasks(old)) /\ ActiveTasks' = Cardinality(Tasks(new))
  BY DEF ActiveTasks, Tasks, Kids
<1>5. ActiveTasks <= MaxNative
  BY DEF RouterInv
<1> QED
  BY <1>1, <1>3, <1>4, <1>5, RouterAssumption

-----------------------------------------------------------------------------
(* Calls that look at an entry. *)

Elsewhere == {"none", "starting", "settling", "cancelling"} \cup Claimed

\* A call that looks at an entry moves on, and may enter or leave it.
LEMMA LookGoesOn ==
  ASSUME RouterInv, NEW c \in Callers, NEW where \in Places \ Elsewhere, NEW pin \in BOOLEAN, CallGoes(c, where, pin),
         Looking, call[c].at \notin Elsewhere, PlaceInv(c)',
         where \in Indoors \cup Releasing => entry[On(c)] = "listed",
         \/ OneMore(On(c)) /\ call[c].at \notin Indoors /\ where \in Indoors /\ On(c) \notin releasing
         \/ LessOne(On(c)) /\ call[c].at \in Indoors /\ where \notin Indoors
         \/ UNCHANGED inFlight /\ (call[c].at \in Indoors <=> where \in Indoors),
         \/ UNCHANGED composed /\ call[c].at # "composing"
         \/ composed' = [composed EXCEPT ![On(c)] = "composing"] /\ where = "composing"
         \/ composed' = [composed EXCEPT ![On(c)] = "held"] /\ entry[On(c)] = "listed" /\ Layout(On(c)),
         where = "composing" => Layout(On(c))
  PROVE  RouterInv'
<1>0. On(c) \in Captures
  BY CallIs DEF Elsewhere
<1> PICK e \in Captures : e = On(c)
  BY <1>0
<1>1. /\ On(c) = e /\ entry[e] # "absent" /\ PlaceInv(c) /\ "none" \notin Captures
  BY CallIs DEF Elsewhere
<1>2. call'[c].on = e /\ call'[c].at = where /\ call'[c].by = call[c].by /\ call[c].on = e
  BY <1>1 DEF CallGoes, On
<1>3. InsideInv(c)' /\ StartInv(c)'
  BY <1>1, <1>2 DEF InsideInv, StartInv, At, On, Looking, CallGoes, PlaceInv, Claimed, Elsewhere, Layout
<1>4. (c \in Inside(e) <=> call[c].at \in Indoors) /\ (c \in Inside(e)' <=> where \in Indoors)
      /\ \A f \in Captures \ {e} : c \notin Inside(f)'
  BY <1>2 DEF Inside, On
<1>5. call[c].by # "none" => receiptOf[e] = "none"
  BY <1>1, OwnerIs DEF RouterInv, ReleaseInv, PlaceInv
<1>6. \A f \in Captures : c \in Inside(f)' => c \in Inside(f) \/ f \notin releasing
  <2>1. c \in Inside(e)' => c \in Inside(e) \/ e \notin releasing
    BY <1>1, <1>4
  <2> QED
    BY <1>4, <2>1
<1>7. ReleaseInv'
  BY <1>2, <1>5, <1>6, ReleaseKept DEF CallGoes, Looking, Elsewhere
<1>8. Counted(c, e)
  BY <1>1, <1>4, CountsAre
<1>9. Composes(c, e)
  <2>1. where = "composing" => c \in Inside(e)' /\ entry[e] = "listed" /\ Layout(e)
    BY <1>1, <1>4 DEF Indoors
  <2> QED
    BY <1>1, <1>2, <2>1 DEF Composes
<1>10. On(c) = e /\ call[c].at \notin {"cancelling", "settling"}
  BY <1>1 DEF Elsewhere
<1>11. On(c) \in {e, "none"} /\ call'[c].on \in {e, "none"} /\ On(c) # "none"
       /\ call' \in [Callers -> Call] /\ AtRest(c)
  BY <1>1, <1>2, <1>10 DEF CallGoes
<1> QED
  BY <1>1, <1>3, <1>7, <1>8, <1>9, <1>10, <1>11, WalkStep

\* A call that looked at an entry returns.
LEMMA LookEnds ==
  ASSUME RouterInv, NEW c \in Callers, Returns(c), Looking, call[c].at \notin Elsewhere \cup {"composing"},
         UNCHANGED composed,
         \/ LessOne(On(c)) /\ call[c].at \in Indoors
         \/ UNCHANGED inFlight /\ call[c].at \notin Indoors
  PROVE  RouterInv'
<1>0. On(c) \in Captures
  BY CallIs DEF Elsewhere
<1> PICK e \in Captures : e = On(c)
  BY <1>0
<1>1. /\ On(c) = e /\ entry[e] # "absent" /\ PlaceInv(c) /\ "none" \notin Captures
  BY CallIs DEF Elsewhere
<1>2. Becomes(c, "none", "none", "none", "none", FALSE) /\ call[c].on = e
  BY <1>1, BecomesNew DEF On
<1>3. PlaceInv(c)' /\ InsideInv(c)' /\ StartInv(c)'
  BY <1>2 DEF Becomes, PlaceInv, InsideInv, StartInv, At, On, Indoors, Releasing, Claimed
<1>4. (c \in Inside(e) <=> call[c].at \in Indoors) /\ \A f \in Captures : c \notin Inside(f)'
  <2>1. call'[c].at \notin Indoors
    BY <1>2 DEF Becomes, Indoors
  <2> QED
    BY <1>2, <2>1 DEF Inside, On
<1>5. ReleaseInv'
  BY <1>2, <1>4, ReleaseKept DEF Becomes, Looking, Claimed, Releasing, Elsewhere
<1>6. Counted(c, e)
  BY <1>1, <1>4, CountsAre
<1>7. Composes(c, e)
  BY DEF Composes
<1>8. On(c) = e /\ call[c].at \notin {"cancelling", "settling"}
  BY <1>1 DEF Elsewhere
<1>9. On(c) \in {e, "none"} /\ call'[c].on \in {e, "none"} /\ On(c) # "none"
      /\ call' \in [Callers -> Call] /\ AtRest(c)
  BY <1>1, <1>2, <1>8 DEF Becomes
<1> QED
  BY <1>1, <1>3, <1>5, <1>6, <1>7, <1>8, <1>9, WalkStep

\* A call begins by looking at an entry.
LEMMA LookBegins ==
  ASSUME RouterInv, NEW c \in Callers, NEW e \in Captures, NEW r \in Call, call[c] = NoCall,
         call' = [call EXCEPT ![c] = r], r.at \in {"entering", "checking", "verifying"}, r.on = e,
         Looking, UNCHANGED <<composed, inFlight>>, PlaceInv(c)', entry[e] # "absent",
         r.at # "entering" => entry[e] = "listed", r.by # "none" => receiptOf[e] = "none",
         \A d \in Callers : On(d) = e => call[d].op # "start"
  PROVE  RouterInv'
<1>1. Becomes(c, r.op, r.at, e, r.by, r.pinned)
  BY BecomesNew
<1>2. On(c) = "none" /\ call[c].at = "none" /\ "none" \notin Captures
  BY CallIs DEF On, NoCall
<1>3. InsideInv(c)' /\ StartInv(c)'
  BY <1>1 DEF Becomes, PlaceInv, InsideInv, StartInv, At, On, Indoors
<1>4. \A f \in Captures : c \notin Inside(f) /\ c \notin Inside(f)'
  BY <1>1, <1>2 DEF Becomes, Inside, Indoors
<1>5. ReleaseInv'
  BY <1>1, <1>2, <1>4, ReleaseKept DEF Becomes, Claimed, Releasing, Looking
<1>6. Counted(c, e) /\ Composes(c, e)
  BY <1>2, <1>4, CountsAre DEF Composes
<1> QED
  BY <1>1, <1>2, <1>3, <1>5, <1>6, WalkStep DEF Becomes

\* status, tasks and result begin with a reference their start returned.
LEMMA BeginCallStep ==
  ASSUME RouterInv, NEW c \in Callers, NEW op \in CallerOps[c], NEW e \in Captures,
         call[c] = NoCall, BeginCall(c, op, e)
  PROVE  RouterInv'
<1> DEFINE r == [NoCall EXCEPT !.op = op, !.at = "entering", !.on = e]
<1>1. /\ op \in {"status", "tasks", "result"} /\ Known(e) /\ UNCHANGED <<tableVars, inFlight, taskVars>>
      /\ call' = [call EXCEPT ![c] = r]
  BY DEF BeginCall
<1>2. r \in Call /\ r.op = op /\ r.at = "entering" /\ r.on = e /\ r.by = "none" /\ r.pinned = FALSE
  BY <1>1 DEF NoCall, Call, RouterOps
<1> HIDE DEF r
<1>3. Becomes(c, r.op, r.at, r.on, r.by, r.pinned)
  BY <1>1, <1>2, BecomesNew
<1>4. c # Owner => op \in {"result", "tasks"}
  BY OwnerIs
<1>5. entry[e] # "absent" /\ (\A d \in Callers : On(d) = e => call[d].op # "start") /\ "none" \notin Captures
  BY <1>1, CallIs DEF Known, On
<1>6. PlaceInv(c)'
  BY <1>1, <1>2, <1>3, <1>4, <1>5 DEF Becomes, PlaceInv, At, On, Indoors, Releasing, Claimed, tableVars
<1>7. Looking /\ UNCHANGED <<composed, inFlight>>
  BY <1>1 DEF RouterInv, RouterTypeOK, tableVars, taskVars, Looking
<1> QED
  BY <1>1, <1>2, <1>5, <1>6, <1>7, LookBegins

\* They enter what is listed and not claimed; status of what is claimed is never another queue's.
LEMMA EnterCallStep == ASSUME RouterInv, NEW c \in Callers, EnterCall(c) PROVE RouterInv'
<1> DEFINE e == On(c)
<1>0. At(c, "entering") /\ UNCHANGED <<tableVars, taskVars>>
  BY DEF EnterCall
<1>1. /\ e \in Captures /\ entry[e] \in {"listed", "released"} /\ PlaceInv(c)
      /\ pendingBy \in [Captures -> Authorities \cup {"none"}]
  BY <1>0, CallIs DEF At, RouterInv, RouterTypeOK
<1>2. Looking /\ call[c].at \notin Elsewhere
  BY <1>0, <1>1 DEF Looking, At, tableVars, taskVars, Claimed, Elsewhere
<1>3. CASE UNCHANGED inFlight /\ Returns(c)
  BY <1>0, <1>2, <1>3, LookEnds DEF At, taskVars, Indoors
<1>4. CASE OneMore(e) /\ Pinning(c, "inspecting", TRUE) /\ entry[e] = "listed" /\ e \notin releasing
  <2>1. "inspecting" \in Places \ Elsewhere /\ CallGoes(c, "inspecting", TRUE)
    BY <1>4, GoesTo DEF Places, Indoors, Elsewhere, Claimed
  <2>2. PlaceInv(c)'
    BY <1>0, <1>1, <2>1 DEF PlaceInv, CallGoes, At, On, Releasing, Claimed, tableVars
  <2> QED
    BY <1>0, <1>2, <1>4, <2>1, <2>2, LookGoesOn DEF At, Indoors, Claimed, Releasing, taskVars
<1>5. e \in releasing => call[c].op # "status"
  BY <1>0, <1>1, OwnerIs DEF RouterInv, ReleaseInv, PlaceInv, Claimed, At
<1> QED
  BY <1>1, <1>3, <1>4, <1>5 DEF EnterCall

\* A call that reads the status of its tasks, and may begin to compose their pictures.
LEMMA InspectStep == ASSUME RouterInv, NEW c \in Callers, Inspect(c) PROVE RouterInv'
<1>0. At(c, "inspecting") /\ UNCHANGED <<tableVars, inFlight, native, picture>>
  BY DEF Inspect
<1>1. PlaceInv(c) /\ InsideInv(c) /\ entry[On(c)] = "listed" /\ call[c].pinned \in BOOLEAN
      /\ call[c].op \in RouterOps \cup {"none"}
  BY <1>0, CallIs DEF At, InsideInv, Indoors, Call
<1>2. Looking /\ call[c].at = "inspecting" /\ call[c].at \notin Elsewhere
  BY <1>0 DEF Looking, At, tableVars, RouterInv, RouterTypeOK, Elsewhere, Claimed
<1>3. PICK where \in {"composing", "holding", "leaving", "judging"} :
        /\ GoTo(c, where) /\ where \in {"composing", AfterInspect(c)} /\ (where = "composing" => Layout(On(c)))
        /\ \/ UNCHANGED composed
           \/ composed' = [composed EXCEPT ![On(c)] = "composing"] /\ where = "composing"
  BY DEF Inspect, AfterInspect, ReadyToCompose
<1>4. where \in Places \ Elsewhere /\ where \in Indoors /\ CallGoes(c, where, call[c].pinned)
  BY <1>3, GoesTo DEF Places, Indoors, Elsewhere, Claimed
<1>5. PlaceInv(c)'
  BY <1>0, <1>1, <1>2, <1>3, <1>4 DEF PlaceInv, CallGoes, At, On, Releasing, Claimed, tableVars, AfterInspect, RouterOps
<1> QED
  BY <1>0, <1>1, <1>2, <1>3, <1>4, <1>5, LookGoesOn DEF Indoors

\* The composed picture of a layout is kept for its entry.
LEMMA ComposeStep == ASSUME RouterInv, NEW c \in Callers, Compose(c) PROVE RouterInv'
<1>0. At(c, "composing") /\ UNCHANGED <<tableVars, inFlight, native, picture>>
      /\ composed' = [composed EXCEPT ![On(c)] = "held"]
  BY DEF Compose
<1>1. PlaceInv(c) /\ InsideInv(c) /\ entry[On(c)] = "listed" /\ call[c].pinned \in BOOLEAN
      /\ call[c].op \in RouterOps \cup {"none"}
  BY <1>0, CallIs DEF At, InsideInv, Indoors, Call
<1>2. Looking /\ call[c].at = "composing" /\ call[c].at \notin Elsewhere
  BY <1>0 DEF Looking, At, tableVars, RouterInv, RouterTypeOK, Elsewhere, Claimed
<1>3. PICK where \in {"holding", "leaving", "judging"} :
        GoTo(c, where) /\ where = AfterInspect(c) /\ Layout(On(c))
  BY <1>0, <1>1 DEF Compose, AfterInspect, InsideInv, At
<1>4. where \in Places \ Elsewhere /\ where \in Indoors /\ CallGoes(c, where, call[c].pinned)
  BY <1>3, GoesTo DEF Places, Indoors, Elsewhere, Claimed
<1>5. PlaceInv(c)'
  BY <1>0, <1>1, <1>2, <1>3, <1>4 DEF PlaceInv, CallGoes, At, On, Releasing, Claimed, tableVars, AfterInspect, RouterOps
<1> QED
  BY <1>0, <1>1, <1>2, <1>3, <1>4, <1>5, LookGoesOn DEF Indoors

\* A caller gives back what it held.
LEMMA LeaveCallStep == ASSUME RouterInv, NEW c \in Callers, LeaveCall(c) PROVE RouterInv'
<1>1. call[c].at \in {"holding", "leaving"} /\ LessOne(On(c)) /\ Returns(c) /\ UNCHANGED <<tableVars, taskVars>>
  BY DEF LeaveCall
<1>2. Looking /\ call[c].at \notin Elsewhere \cup {"composing"} /\ call[c].at \in Indoors /\ UNCHANGED composed
  BY <1>1 DEF Looking, tableVars, taskVars, RouterInv, RouterTypeOK, Elsewhere, Claimed, Indoors
<1> QED
  BY <1>1, <1>2, LookEnds

-----------------------------------------------------------------------------
(* Releases. *)

\* Releases are the action queue's.  What it looks at is still listed, and not claimed.
LEMMA ReleaserIs ==
  ASSUME RouterInv, NEW c \in Callers, call[c].at \in Releasing
  PROVE  /\ c = Owner /\ On(c) \in Captures /\ PlaceInv(c) /\ ReleaseInv /\ call[c].pinned \in BOOLEAN
         /\ call[c].at # "unclaiming" => entry[On(c)] = "listed"
         /\ call[c].at \notin Claimed => On(c) \notin releasing
<1>1. call[c].at # "none" /\ ReleaseInv
  BY DEF Releasing, Claimed, RouterInv
<1>2. PlaceInv(c) /\ On(c) \in Captures /\ call[c].pinned \in BOOLEAN
  BY <1>1, CallIs DEF Call
<1> QED
  BY <1>1, <1>2 DEF PlaceInv, ReleaseInv

\* A release begins with a listed entry whose cancel was asked for.
LEMMA BeginReleaseStep ==
  ASSUME RouterInv, NEW c \in Callers, NEW e \in Captures, "release" \in CallerOps[c], call[c] = NoCall, BeginRelease(c, e)
  PROVE  RouterInv'
<1> DEFINE r == [NoCall EXCEPT !.op = "release", !.at = "checking", !.on = e]
<1>1. /\ entry[e] = "listed" /\ UNCHANGED <<tableVars, inFlight, taskVars>> /\ call' = [call EXCEPT ![c] = r]
  BY DEF BeginRelease
<1>2. r \in Call /\ r.op = "release" /\ r.at = "checking" /\ r.on = e /\ r.by = "none" /\ r.pinned = FALSE
  BY <1>1 DEF NoCall, Call, RouterOps, Releasing
<1> HIDE DEF r
<1>3. Becomes(c, r.op, r.at, r.on, r.by, r.pinned)
  BY <1>1, <1>2, BecomesNew
<1>4. c = Owner
  BY OwnerIs
<1>5. (\A d \in Callers : call[d].op # "start") /\ "none" \notin Captures
  BY <1>4, CallIs DEF PlaceInv, NoCall
<1>6. PlaceInv(c)'
  BY <1>1, <1>2, <1>3, <1>4, <1>5 DEF Becomes, PlaceInv, At, On, Indoors, Releasing, Claimed, tableVars
<1>7. Looking /\ UNCHANGED <<composed, inFlight>>
  BY <1>1 DEF RouterInv, RouterTypeOK, tableVars, taskVars, Looking
<1> QED
  BY <1>1, <1>2, <1>5, <1>6, <1>7, LookBegins

\* A release that needs the status enters the entry for it.
LEMMA VerifyStatusStep == ASSUME RouterInv, NEW c \in Callers, VerifyStatus(c) PROVE RouterInv'
<1>1. At(c, "verifying") /\ call[c].at \notin Claimed /\ call[c].at \in Releasing
  BY DEF VerifyStatus, At, Claimed, Releasing
<1>2. c = Owner /\ entry[On(c)] = "listed" /\ On(c) \notin releasing /\ PlaceInv(c)
  BY <1>1, ReleaserIs DEF At
<1>3. OneMore(On(c)) /\ Pinning(c, "inspecting", TRUE)
      /\ UNCHANGED <<entry, releasing, cancelWanted, started, sealedRouter, taskVars, pendingBy, receiptOf>>
  BY <1>2 DEF VerifyStatus
<1>4. "inspecting" \in Places \ Elsewhere /\ CallGoes(c, "inspecting", TRUE) /\ call[c].at \notin Elsewhere
  BY <1>1, <1>3, GoesTo DEF Places, Indoors, Elsewhere, Claimed, At
<1>5. Looking
  BY <1>3 DEF Looking, RouterInv, RouterTypeOK, taskVars
<1>6. PlaceInv(c)'
  BY <1>1, <1>2, <1>3, <1>4 DEF PlaceInv, CallGoes, At, On, Releasing, Claimed
<1> QED
  BY <1>1, <1>2, <1>3, <1>4, <1>5, <1>6, LookGoesOn DEF At, Indoors, taskVars

\* The end of a release without a receipt.
LEMMA FinishIs ==
  ASSUME RouterInv, NEW c \in Callers, Finish(c, FALSE)
  PROVE  Returns(c) /\ pendingBy' \in [Captures -> Authorities \cup {"none"}] /\ receiptOf' = receiptOf
  BY DEF Finish, RouterInv, RouterTypeOK

\* A release leaves the entry after the status, and goes on only if all is drained.
LEMMA JudgeStep == ASSUME RouterInv, NEW c \in Callers, Judge(c) PROVE RouterInv'
<1>1. /\ At(c, "judging") /\ call[c].at \notin Elsewhere \cup {"composing"} /\ call[c].at \in Releasing
      /\ call[c].at \in Indoors /\ LessOne(On(c))
      /\ UNCHANGED <<entry, releasing, cancelWanted, started, sealedRouter, taskVars>>
  BY DEF Judge, At, Claimed, Releasing, Elsewhere, Indoors
<1>2. c = Owner /\ entry[On(c)] = "listed" /\ PlaceInv(c)
  BY <1>1, ReleaserIs DEF At
<1>3. CASE Finish(c, FALSE)
  <2>1. Looking /\ Returns(c) /\ UNCHANGED composed
    BY <1>1, <1>3, FinishIs DEF Looking, taskVars
  <2> QED
    BY <1>1, <2>1, LookEnds
<1>4. CASE ~Finish(c, FALSE)
  <2>1. PICK where \in {"claiming", "checking"} : Pinning(c, where, FALSE) /\ UNCHANGED <<pendingBy, receiptOf>>
    BY <1>4 DEF Judge
  <2>2. where \in Places \ Elsewhere /\ where \in Releasing /\ where \notin Indoors /\ CallGoes(c, where, FALSE)
    BY <2>1, GoesTo DEF Places, Indoors, Elsewhere, Releasing, Claimed
  <2>3. Looking /\ UNCHANGED composed
    BY <1>1, <2>1 DEF Looking, RouterInv, RouterTypeOK, taskVars
  <2>4. PlaceInv(c)'
    BY <1>1, <1>2, <2>1, <2>2 DEF PlaceInv, CallGoes, At, On, Releasing, Claimed
  <2> QED
    BY <1>1, <1>2, <2>2, <2>3, <2>4, LookGoesOn DEF At
<1> QED
  BY <1>3, <1>4

\* A release looks whether the entry is still listed.
LEMMA CheckReleaseStep == ASSUME RouterInv, NEW c \in Callers, CheckRelease(c) PROVE RouterInv'
<1>1. /\ At(c, "checking") /\ call[c].at \notin Elsewhere \cup {"composing"} /\ call[c].at \in Releasing
      /\ call[c].at \notin Indoors
      /\ UNCHANGED <<entry, inFlight, releasing, cancelWanted, started, sealedRouter, taskVars>>
  BY DEF CheckRelease, At, Claimed, Releasing, Elsewhere, Indoors
<1>2. c = Owner /\ entry[On(c)] = "listed" /\ PlaceInv(c) /\ call[c].pinned \in BOOLEAN
  BY <1>1, ReleaserIs DEF At
<1>3. PICK where \in {"verifying", "claiming"} : GoTo(c, where) /\ UNCHANGED <<pendingBy, receiptOf>>
  BY <1>2 DEF CheckRelease
<1>4. where \in Places \ Elsewhere /\ where \in Releasing /\ where \notin Indoors /\ CallGoes(c, where, call[c].pinned)
  BY <1>3, GoesTo DEF Places, Indoors, Elsewhere, Releasing, Claimed
<1>5. Looking /\ UNCHANGED composed
  BY <1>1, <1>3 DEF Looking, RouterInv, RouterTypeOK, taskVars
<1>6. PlaceInv(c)'
  BY <1>1, <1>2, <1>3, <1>4 DEF PlaceInv, CallGoes, At, On, Releasing, Claimed
<1> QED
  BY <1>1, <1>2, <1>4, <1>5, <1>6, LookGoesOn DEF At

\* A release moves without touching the tasks; its own entry may get a receipt.
LEMMA ReleaseMoves ==
  ASSUME RouterInv, NEW c \in Callers, NEW e \in Captures, call[c].at \in {"claiming"} \cup Claimed, On(c) = e,
         call' \in [Callers -> Call], AtRest(c), call'[c].on \in {e, "none"}, call'[c].at \in {"none"} \cup Claimed,
         UNCHANGED <<entry, inFlight, cancelWanted, started, native, picture, composed, sealedRouter>>,
         pendingBy' \in [Captures -> Authorities \cup {"none"}],
         receiptOf' \in [Captures -> Authorities \cup {"none"}],
         \A f \in Captures : receiptOf'[f] # receiptOf[f] => f = e /\ entry[f] = "released",
         releasing' \subseteq Captures, PlaceInv(c)', ReleaseInv'
  PROVE  RouterInv'
<1>1. RouterTypeOK /\ TableInv /\ EntryInv(e) /\ CountInv(e) /\ StopInv /\ SealInv /\ ActiveTasks <= MaxNative
  BY DEF RouterInv
<1>2. c = Owner /\ entry[e] # "absent" /\ PlaceInv(c) /\ "none" \notin Captures
  BY ReleaserIs, CallIs DEF Releasing, Claimed, PlaceInv
<1>3. RouterTypeOK' /\ TableInv'
  BY <1>1 DEF RouterTypeOK, TableInv, Kids
<1>4. c \notin Inside(e) /\ c \notin Inside(e)'
  BY DEF Inside, Indoors, Claimed
<1>5. InsideInv(c)' /\ StartInv(c)'
  BY <1>2 DEF InsideInv, StartInv, PlaceInv, At, Indoors, Claimed
<1>6. EntryInv(e)'
  <2>1. composed[e] = "composing" => \E d \in Callers : call'[d].on = e /\ call'[d].at = "composing"
    BY <1>1 DEF EntryInv, At, On, AtRest, Claimed
  <2> QED
    BY <1>1, <2>1 DEF EntryInv, Kids, At, On
<1>7. CountInv(e)'
  BY <1>1, <1>4, CountStep
<1>8. (\A f \in Captures \ {e} : Kept(f)) /\ \A d \in Callers \ {c} : d \in Inside(e) => entry'[e] = "listed"
  BY CallIs DEF Kept, Inside, InsideInv
<1>9. /\ \A d \in Callers : PlaceInv(d)' /\ InsideInv(d)' /\ StartInv(d)'
      /\ \A f \in Captures : EntryInv(f)' /\ CountInv(f)'
  BY <1>2, <1>5, <1>6, <1>7, <1>8, LocalStep
<1>10. StopInv'
  BY <1>1, <1>2 DEF StopInv, At, Kids, Claimed
<1>11. SealInv' /\ (ActiveTasks <= MaxNative)'
  BY <1>1 DEF SealInv, CalledBack, StartedKids, ActiveTasks, Tasks, Kids
<1> QED
  BY <1>3, <1>9, <1>10, <1>11 DEF RouterInv

\* A release claims its entry, which nothing else has claimed.
LEMMA ClaimStep == ASSUME RouterInv, NEW c \in Callers, Claim(c) PROVE RouterInv'
<1>1. /\ At(c, "claiming") /\ call[c].at \in Releasing
      /\ UNCHANGED <<entry, inFlight, cancelWanted, started, sealedRouter, taskVars>>
  BY DEF Claim, At, Releasing
<1>2. /\ c = Owner /\ On(c) \in Captures /\ entry[On(c)] = "listed" /\ PlaceInv(c) /\ ReleaseInv
      /\ RouterTypeOK /\ On(c) \notin releasing
  BY <1>1, ReleaserIs DEF At, RouterInv, Claimed
<1> PICK e \in Captures : e = On(c)
  BY <1>2
<1>3. releasing' = releasing \cup {e} /\ UNCHANGED <<pendingBy, receiptOf>>
      /\ \E pin \in BOOLEAN : Pinning(c, "awaiting", pin)
  BY <1>2 DEF Claim
<1>4. PICK pin \in BOOLEAN : CallGoes(c, "awaiting", pin)
  BY <1>3, GoesTo DEF Places, Releasing, Claimed
<1>5. call'[c].on = e /\ call'[c].at = "awaiting" /\ call' \in [Callers -> Call] /\ AtRest(c) /\ call'[c].by = call[c].by
  BY <1>4 DEF CallGoes, On
<1>6. PlaceInv(c)'
  BY <1>1, <1>2, <1>4 DEF PlaceInv, CallGoes, At, On, Releasing, Claimed, Indoors
<1>7. releasing = {}
  BY <1>1, <1>2 DEF ReleaseInv, At, Claimed
<1>8. ReleaseInv'
  BY <1>1, <1>2, <1>3, <1>5, <1>7 DEF ReleaseInv, At, On, Claimed
<1> QED
  BY <1>1, <1>2, <1>3, <1>5, <1>6, <1>8, ReleaseMoves DEF At, Claimed, RouterTypeOK, taskVars

\* No call in flight means that nobody is inside.
LEMMA AwaitOthersStep == ASSUME RouterInv, NEW c \in Callers, AwaitOthers(c) PROVE RouterInv'
<1>1. /\ At(c, "awaiting") /\ call[c].at \in Releasing /\ NobodyInside(On(c)) /\ GoTo(c, "reading")
      /\ UNCHANGED <<tableVars, inFlight, taskVars>>
  BY DEF AwaitOthers, At, Releasing, Claimed
<1>2. /\ c = Owner /\ On(c) \in Captures /\ entry[On(c)] = "listed" /\ PlaceInv(c) /\ ReleaseInv /\ RouterTypeOK
      /\ call[c].pinned \in BOOLEAN
  BY <1>1, ReleaserIs DEF At, RouterInv
<1> PICK e \in Captures : e = On(c)
  BY <1>2
<1>3. CallGoes(c, "reading", call[c].pinned)
  BY <1>1, GoesTo DEF Places, Releasing, Claimed
<1>4. call'[c].on = e /\ call'[c].at = "reading" /\ call' \in [Callers -> Call] /\ AtRest(c) /\ call'[c].by = call[c].by
  BY <1>3 DEF CallGoes, On
<1>5. PlaceInv(c)'
  BY <1>1, <1>2, <1>3 DEF PlaceInv, CallGoes, At, On, Releasing, Claimed, Indoors, tableVars
<1>6. Inside(e) = {}
  <2>1. Cardinality(Inside(e)) = 0 /\ IsFiniteSet(Inside(e))
    BY <1>1, RouterAssumption, FS_Subset DEF NobodyInside, RouterInv, CountInv, Inside
  <2> QED
    BY <2>1, FS_EmptySet
<1>7. Inside(e)' = {}
  BY <1>4, <1>6 DEF Inside, AtRest, On, Indoors
<1>8. ReleaseInv'
  <2>1. Inside(On(Owner))' = {}
    BY <1>2, <1>4, <1>7 DEF Inside, On
  <2> QED
    BY <1>1, <1>2, <1>4, <2>1 DEF ReleaseInv, At, On, Claimed, tableVars
<1> QED
  BY <1>1, <1>2, <1>4, <1>5, <1>8, ReleaseMoves DEF At, Claimed, RouterTypeOK, taskVars, tableVars

\* A release goes on to free what is drained, or gives its claim up.
LEMMA ReadStatusStep == ASSUME RouterInv, NEW c \in Callers, ReadStatus(c) PROVE RouterInv'
<1>1. /\ At(c, "reading") /\ call[c].at \in Releasing
      /\ UNCHANGED <<entry, inFlight, cancelWanted, started, sealedRouter, taskVars>>
  BY DEF ReadStatus, At, Releasing, Claimed
<1>2. /\ c = Owner /\ On(c) \in Captures /\ entry[On(c)] = "listed" /\ PlaceInv(c) /\ ReleaseInv /\ RouterTypeOK
      /\ call[c].pinned \in BOOLEAN /\ "none" \notin Captures
  BY <1>1, ReleaserIs, CallIs DEF At, RouterInv
<1> PICK e \in Captures : e = On(c)
  BY <1>2
<1>3. CASE GoTo(c, "freeing") /\ UNCHANGED <<releasing, pendingBy, receiptOf>>
  <2>1. CallGoes(c, "freeing", call[c].pinned)
    BY <1>3, GoesTo DEF Places, Releasing, Claimed
  <2>2. call'[c].on = e /\ call'[c].at = "freeing" /\ call' \in [Callers -> Call] /\ AtRest(c) /\ call'[c].by = call[c].by
    BY <2>1 DEF CallGoes, On
  <2>3. PlaceInv(c)'
    BY <1>1, <1>2, <2>1 DEF PlaceInv, CallGoes, At, On, Releasing, Claimed, Indoors
  <2>4. Inside(e)' = {}
    BY <1>1, <1>2, <2>2 DEF ReleaseInv, At, Inside, AtRest, On, Indoors
  <2>5. ReleaseInv'
    <3>1. Inside(On(Owner))' = {}
      BY <1>2, <2>2, <2>4 DEF Inside, On
    <3> QED
      BY <1>1, <1>2, <1>3, <2>2, <3>1 DEF ReleaseInv, At, On, Claimed
  <2> QED
    BY <1>1, <1>2, <1>3, <2>2, <2>3, <2>5, ReleaseMoves DEF At, Claimed, RouterTypeOK, taskVars
<1>4. CASE releasing' = Unclaimed(e) /\ Finish(c, FALSE)
  <2>1. /\ Becomes(c, "none", "none", "none", "none", FALSE) /\ receiptOf' = receiptOf
        /\ pendingBy' \in [Captures -> Authorities \cup {"none"}]
    BY <1>4, FinishIs, BecomesNew
  <2>2. PlaceInv(c)'
    BY <2>1 DEF PlaceInv, Becomes, At, On, Releasing, Claimed, Indoors
  <2>3. releasing' = {}
    BY <1>2, <1>4 DEF ReleaseInv, Unclaimed
  <2>4. ReleaseInv'
    BY <1>2, <2>1, <2>3 DEF ReleaseInv, Becomes, At, On, Claimed, Releasing
  <2> QED
    BY <1>1, <1>2, <2>1, <2>2, <2>3, <2>4, ReleaseMoves DEF At, Claimed, RouterTypeOK, taskVars, Becomes
<1> QED
  BY <1>3, <1>4 DEF ReadStatus

\* The end of a release that leaves its receipt.
LEMMA UnclaimStep == ASSUME RouterInv, NEW c \in Callers, Unclaim(c) PROVE RouterInv'
<1>1. /\ At(c, "unclaiming") /\ call[c].at \in Releasing
      /\ UNCHANGED <<entry, inFlight, cancelWanted, started, sealedRouter, taskVars>>
      /\ releasing' = releasing \ {On(c)} /\ Finish(c, TRUE)
  BY DEF Unclaim, At, Releasing, Claimed
<1>2. /\ c = Owner /\ On(c) \in Captures /\ entry[On(c)] = "released" /\ PlaceInv(c) /\ ReleaseInv /\ RouterTypeOK
      /\ call[c].by \in Authorities \cup {"none"} /\ "none" \notin Captures
  BY <1>1, ReleaserIs, CallIs DEF At, RouterInv, ReleaseInv
<1> PICK e \in Captures : e = On(c)
  BY <1>2
<1>3. Becomes(c, "none", "none", "none", "none", FALSE)
  BY <1>1, BecomesNew DEF Finish
<1>4. /\ pendingBy' \in [Captures -> Authorities \cup {"none"}]
      /\ receiptOf' \in [Captures -> Authorities \cup {"none"}]
      /\ \A f \in Captures : receiptOf'[f] # receiptOf[f] => f = e
  BY <1>1, <1>2 DEF Finish, RouterTypeOK
<1>5. PlaceInv(c)'
  BY <1>3 DEF PlaceInv, Becomes, At, On, Releasing, Claimed, Indoors
<1>6. releasing' = {}
  BY <1>1, <1>2 DEF ReleaseInv
<1>7. ReleaseInv'
  BY <1>2, <1>3, <1>6 DEF ReleaseInv, Becomes, At, On, Claimed, Releasing
<1> QED
  BY <1>1, <1>2, <1>3, <1>4, <1>5, <1>6, <1>7, ReleaseMoves DEF At, Claimed, taskVars, Becomes

\* A released capture takes the receipt of an authority at once; a listed one its release.
LEMMA AuthorizeStep ==
  ASSUME RouterInv, NEW c \in Callers, NEW e \in Captures, NEW a \in Authorities, "authorized" \in CallerOps[c],
         call[c] = NoCall, Authorize(c, e, a)
  PROVE  RouterInv'
<1>1. /\ Known(e) /\ receiptOf[e] = "none"
      /\ UNCHANGED <<entry, inFlight, releasing, cancelWanted, started, sealedRouter, taskVars>>
  BY DEF Authorize, Binds
<1>2. c = Owner /\ "none" \notin Captures /\ RouterTypeOK /\ entry[e] \in {"listed", "released"}
  BY <1>1, OwnerIs, CallIs DEF RouterInv, RouterTypeOK, Known
<1>3. CASE entry[e] = "released"
  <2>1. receiptOf' = [receiptOf EXCEPT ![e] = a] /\ UNCHANGED <<pendingBy, call>>
    BY <1>3 DEF Authorize
  <2>2. RouterTypeOK' /\ TableInv'
    BY <1>1, <1>2, <2>1 DEF RouterTypeOK, RouterInv, TableInv, Kids, taskVars
  <2>3. ASSUME NEW d \in Callers PROVE PlaceInv(d)' /\ InsideInv(d)' /\ StartInv(d)'
    <3>1. PlaceInv(d) /\ InsideInv(d) /\ StartInv(d)
      BY DEF RouterInv
    <3>2. PlaceInv(d)' /\ InsideInv(d)'
      BY <1>1, <2>1, <3>1 DEF PlaceInv, InsideInv, At, On, Layout
    <3>3. StartInv(d)'
      BY <1>1, <2>1, <3>1 DEF StartInv, At, On, StartedKids, Kids, taskVars
    <3> QED
      BY <3>2, <3>3
  <2>4. \A f \in Captures : EntryInv(f)' /\ CountInv(f)'
    <3>1. \A f \in Captures : receiptOf'[f] # "none" => entry[f] = "released"
      BY <1>2, <1>3, <2>1 DEF RouterInv, EntryInv, RouterTypeOK
    <3> QED
      BY <1>1, <2>1, <3>1 DEF RouterInv, EntryInv, CountInv, Inside, At, On, Kids, Layout, taskVars
  <2>5. ReleaseInv'
    <3>1. call[Owner].by = "none" /\ ReleaseInv
      BY <1>2 DEF NoCall, RouterInv
    <3> QED
      BY <1>1, <2>1, <3>1 DEF ReleaseInv, At, On, Inside
  <2>6. StopInv' /\ SealInv' /\ (ActiveTasks <= MaxNative)'
    BY <1>1, <2>1 DEF RouterInv, StopInv, SealInv, CalledBack, StartedKids, ActiveTasks, Tasks, Kids, At, On, taskVars
  <2> QED
    BY <2>2, <2>3, <2>4, <2>5, <2>6 DEF RouterInv
<1>4. CASE entry[e] = "listed"
  <2> DEFINE r == [NoCall EXCEPT !.op = "authorized", !.at = "verifying", !.on = e, !.by = a]
  <2>1. call' = [call EXCEPT ![c] = r] /\ pendingBy' = [pendingBy EXCEPT ![e] = a] /\ UNCHANGED receiptOf
    BY <1>4 DEF Authorize
  <2>2. r \in Call /\ r.op = "authorized" /\ r.at = "verifying" /\ r.on = e /\ r.by = a /\ r.pinned = FALSE
    BY <1>1 DEF NoCall, Call, RouterOps, Releasing
  <2> HIDE DEF r
  <2>3. Becomes(c, r.op, r.at, r.on, r.by, r.pinned)
    BY <2>1, <2>2, BecomesNew
  <2>4. \A d \in Callers : call[d].op # "start"
    BY <1>2, CallIs DEF PlaceInv, NoCall
  <2>5. PlaceInv(c)'
    BY <1>1, <1>2, <1>4, <2>2, <2>3 DEF Becomes, PlaceInv, At, On, Indoors, Releasing, Claimed
  <2>6. Looking /\ UNCHANGED <<composed, inFlight>>
    BY <1>1, <1>2, <2>1 DEF RouterTypeOK, taskVars, Looking
  <2> QED
    BY <1>1, <1>4, <2>1, <2>2, <2>4, <2>5, <2>6, LookBegins
<1> QED
  BY <1>2, <1>3, <1>4

\* What is listed comes to an end with its tasks: nobody is inside.
LEMMA FreeEntryStep == ASSUME RouterInv, NEW c \in Callers, FreeEntry(c) PROVE RouterInv'
<1>1. /\ At(c, "freeing") /\ call[c].at \in Releasing
      /\ UNCHANGED <<inFlight, releasing, cancelWanted, started, sealedRouter>>
  BY DEF FreeEntry, At, Releasing, Claimed
<1>2. /\ c = Owner /\ On(c) \in Captures /\ entry[On(c)] = "listed" /\ PlaceInv(c) /\ ReleaseInv /\ RouterTypeOK
      /\ call[c].pinned \in BOOLEAN /\ "none" \notin Captures /\ TableInv
  BY <1>1, ReleaserIs, CallIs DEF At, RouterInv
<1> PICK e \in Captures : e = On(c)
  BY <1>2
<1>3. /\ entry' = [entry EXCEPT ![e] = "released"] /\ GoTo(c, "unclaiming")
      /\ native' = [native EXCEPT ![e] = [i \in Kids(e) |-> Free(native[e][i])]]
      /\ picture' = [picture EXCEPT ![e] = [i \in Kids(e) |-> IF picture[e][i] = "held" THEN "freed" ELSE picture[e][i]]]
      /\ composed' = [composed EXCEPT ![e] = IF composed[e] = "held" THEN "freed" ELSE composed[e]]
      /\ UNCHANGED <<pendingBy, receiptOf>>
  BY <1>2 DEF FreeEntry
<1>4. CallGoes(c, "unclaiming", call[c].pinned)
  BY <1>3, GoesTo DEF Places, Releasing, Claimed
<1>5. call'[c].on = e /\ call'[c].at = "unclaiming" /\ call' \in [Callers -> Call] /\ AtRest(c) /\ call'[c].by = call[c].by
  BY <1>4 DEF CallGoes, On
<1>6. Inside(e) = {} /\ EntryInv(e) /\ CountInv(e)
  BY <1>1, <1>2 DEF ReleaseInv, At, RouterInv
<1>7. /\ entry'[e] = "released" /\ composed'[e] = (IF composed[e] = "held" THEN "freed" ELSE composed[e])
      /\ \A i \in Kids(e) : /\ native'[e][i] = Free(native[e][i])
                            /\ picture'[e][i] = IF picture[e][i] = "held" THEN "freed" ELSE picture[e][i]
      /\ native'[e] = [i \in Kids(e) |-> Free(native[e][i])]
      /\ picture'[e] = [i \in Kids(e) |-> IF picture[e][i] = "held" THEN "freed" ELSE picture[e][i]]
      /\ DOMAIN native' = Captures /\ DOMAIN picture' = Captures
  BY <1>2, <1>3 DEF RouterTypeOK, TableInv
<1>8. \A f \in Captures \ {e} : Kept(f)
  BY <1>1, <1>2, <1>3 DEF Kept, RouterTypeOK, TableInv
<1>9. composed[e] # "composing"
  BY <1>6 DEF EntryInv, Inside, At, Indoors
<1>10. EntryInv(e)'
  <2>1. \A i \in Kids(e) : /\ native[e][i] \in {"none", "running", "cancelled", "drained"}
                           /\ picture[e][i] \in {"none", "held"}
                           /\ (native[e][i] = "none" => picture[e][i] = "none")
    BY <1>2, <1>6 DEF EntryInv
  <2>2. \A i \in Kids(e) : /\ native'[e][i] \in {"none", "freed"} /\ picture'[e][i] \in {"none", "freed"}
                           /\ (native'[e][i] = "none" => picture'[e][i] = "none")
    BY <1>7, <2>1 DEF Free
  <2>3. composed'[e] \in {"none", "freed"}
    BY <1>2, <1>6, <1>7, <1>9 DEF EntryInv
  <2>4. composed'[e] # "none" => Layout(e)
    BY <1>6, <1>7 DEF EntryInv
  <2>5. entry'[e] = "released" /\ composed'[e] # "composing" /\ Layout(e)' = Layout(e) /\ Kids(e)' = Kids(e)
    BY <1>7, <2>3 DEF Layout, Kids
  <2> QED
    BY <2>2, <2>3, <2>4, <2>5 DEF EntryInv
<1>11. RouterTypeOK'
  <2>1. entry' \in [Captures -> {"absent", "listed", "released"}]
        /\ composed' \in [Captures -> {"none", "composing", "held", "freed"}]
    BY <1>2, <1>3 DEF RouterTypeOK
  <2>2. ASSUME NEW f \in Captures
        PROVE  /\ native'[f] \in [Kids(f) -> {"none", "running", "cancelled", "drained", "freed", "twice"}]
               /\ picture'[f] \in [Kids(f) -> {"none", "held", "freed"}]
    <3>1. CASE f = e
      <4>1. \A i \in Kids(e) : native'[e][i] \in {"none", "freed"} /\ picture'[e][i] \in {"none", "freed"}
        BY <1>7, <1>10 DEF EntryInv, Kids
      <4> QED
        BY <1>7, <3>1, <4>1
    <3>2. CASE f # e
      BY <1>2, <1>8, <3>2 DEF RouterTypeOK, Kept
    <3> QED
      BY <3>1, <3>2
  <2> QED
    BY <1>1, <1>2, <1>3, <2>1, <2>2 DEF RouterTypeOK, Kids
<1>12. TableInv'
  BY <1>5, <1>7 DEF TableInv
<1>13. Inside(e)' = {} /\ c \notin Inside(e)'
  BY <1>5, <1>6 DEF Inside, AtRest, On, Indoors
<1>14. CountInv(e)'
  BY <1>1, <1>6, <1>13 DEF CountInv
<1>15. PlaceInv(c)' /\ InsideInv(c)' /\ StartInv(c)'
  BY <1>1, <1>2, <1>4, <1>7 DEF PlaceInv, InsideInv, StartInv, CallGoes, At, On, Releasing, Claimed, Indoors
<1>16. /\ \A d \in Callers : PlaceInv(d)' /\ InsideInv(d)' /\ StartInv(d)'
       /\ \A f \in Captures : EntryInv(f)' /\ CountInv(f)'
  BY <1>2, <1>5, <1>6, <1>7, <1>8, <1>10, <1>14, <1>15, LocalStep
<1>17. ReleaseInv'
  <2>1. /\ \A f \in releasing : f = e
        /\ e \in releasing /\ (call[c].by # "none" => receiptOf[e] = "none")
    BY <1>1, <1>2 DEF ReleaseInv, At, Claimed
  <2>2. On(Owner)' = e /\ call'[Owner].at = "unclaiming" /\ call'[Owner].by = call[c].by /\ entry'[e] = "released"
        /\ releasing' = releasing /\ receiptOf' = receiptOf
    BY <1>1, <1>2, <1>3, <1>5, <1>7 DEF On
  <2> QED
    BY <2>1, <2>2 DEF ReleaseInv, At, Claimed, Releasing
<1>18. StopInv'
  <2>1. StopInv
    BY DEF RouterInv
  <2>2. \A i \in Kids(e) : native'[e][i] # "running"
    BY <1>7, <1>10 DEF EntryInv, Kids
  <2> QED
    BY <1>1, <1>2, <1>8, <2>1, <2>2 DEF StopInv, Kept, At, On, Kids
<1>19. SealInv'
  BY <1>1, <1>2 DEF SealInv, RouterInv
<1>20. (ActiveTasks <= MaxNative)'
  <2>1. {f \in Captures : entry'[f] = "listed"} \subseteq {f \in Captures : entry[f] = "listed"}
    BY <1>7, <1>8 DEF Kept
  <2> QED
    BY <2>1, FewerTasks
<1> QED
  BY <1>11, <1>12, <1>16, <1>17, <1>18, <1>19, <1>20 DEF RouterInv

-----------------------------------------------------------------------------
(* What the action queue does to one entry. *)

NativeStates == {"none", "running", "cancelled", "drained", "freed", "twice"}

\* What still runs of an entry is about to be stopped.
StopOf(e) ==
  \A i \in Kids(e) : native[e][i] = "running" =>
    /\ e \in cancelWanted => On(Owner) = e /\ At(Owner, "cancelling")
    /\ started[e] = "failed" => On(Owner) = e /\ At(Owner, "settling")

\* An entry that the action queue lists, or finds listed, keeps to what tasks may be.
LEMMA ListedEntry ==
  ASSUME RouterInv, NEW e \in Captures, AtRest(Owner), call[Owner].at # "composing",
         UNCHANGED <<picture, composed, receiptOf>>, entry[e] \in {"absent", "listed"}, entry'[e] = "listed",
         \A i \in Kids(e) : /\ native'[e][i] \in {"none", "running", "cancelled", "drained"}
                            /\ native'[e][i] = "none" => native[e][i] = "none"
  PROVE  EntryInv(e)'
<1>1. EntryInv(e) /\ Kids(e)' = Kids(e) /\ Layout(e)' = Layout(e)
  BY DEF RouterInv, Kids, Layout
<1>2. composed[e] = "composing" => \E d \in Callers : On(d)' = e /\ At(d, "composing")'
  BY <1>1 DEF EntryInv, At, On, AtRest
<1>3. receiptOf[e] = "none" /\ composed[e] \in {"none", "composing", "held"}
  BY <1>1 DEF EntryInv
<1>4. \A i \in Kids(e) : picture[e][i] \in {"none", "held"} /\ (native[e][i] = "none" => picture[e][i] = "none")
  BY <1>1 DEF EntryInv
<1>5. composed[e] # "none" => Layout(e)
  BY <1>1 DEF EntryInv
<1> QED
  BY <1>1, <1>2, <1>3, <1>4, <1>5 DEF EntryInv

\* A step of the action queue on one entry, other than a release.
LEMMA OwnStep ==
  ASSUME RouterInv, NEW e \in Captures, call[Owner].at \notin Claimed, call' \in [Callers -> Call], AtRest(Owner),
         call'[Owner].at \notin Releasing, call'[Owner].by = "none",
         On(Owner) \in {e, "none"}, call'[Owner].on \in {e, "none"},
         UNCHANGED <<releasing, picture, composed, pendingBy, receiptOf, sealedRouter>>,
         cancelWanted' \in {cancelWanted, cancelWanted \cup {e}},
         entry' \in [Captures -> {"absent", "listed", "released"}], started' \in [Captures -> {"no", "settled", "failed"}],
         DOMAIN native' = Captures, native'[e] \in [Kids(e) -> NativeStates],
         \A f \in Captures \ {e} : entry'[f] = entry[f] /\ started'[f] = started[f] /\ native'[f] = native[f],
         entry[e] = "absent" \/ entry'[e] # "absent",
         \A d \in Callers \ {Owner} : d \in Inside(e) => entry'[e] = "listed",
         PlaceInv(Owner)', InsideInv(Owner)', StartInv(Owner)', EntryInv(e)', Counted(Owner, e),
         StopOf(e)', SealInv', (ActiveTasks <= MaxNative)'
  PROVE  RouterInv'
<1>1. RouterTypeOK /\ TableInv /\ EntryInv(e) /\ CountInv(e) /\ StopInv /\ ReleaseInv /\ Owner \in Callers
      /\ "none" \notin Captures
  BY OwnerIs, RouterAssumption DEF RouterInv
<1>2. CountInv(e)' /\ inFlight'[e] \in 0..Cardinality(Callers)
  BY <1>1, CountStep DEF Counted
<1>3. inFlight' \in [Captures -> 0..Cardinality(Callers)] /\ \A f \in Captures \ {e} : inFlight'[f] = inFlight[f]
  BY <1>1, <1>2 DEF RouterTypeOK, Counted
<1>4. RouterTypeOK' /\ TableInv'
  <2>1. \A f \in Captures : native'[f] \in [Kids(f) -> NativeStates]
    BY <1>1 DEF RouterTypeOK, NativeStates
  <2> QED
    BY <1>1, <1>3, <2>1 DEF RouterTypeOK, TableInv, Kids, NativeStates
<1>5. \A f \in Captures \ {e} : Kept(f)
  BY <1>3 DEF Kept
<1>6. On(Owner) = "none" => \A d \in Callers : On(d) = e => call[d].op # "start"
  BY <1>1, CallIs DEF PlaceInv
<1>7. /\ \A d \in Callers : PlaceInv(d)' /\ InsideInv(d)' /\ StartInv(d)'
      /\ \A f \in Captures : EntryInv(f)' /\ CountInv(f)'
  BY <1>1, <1>2, <1>5, <1>6, LocalStep
<1>8. ReleaseInv'
  <2>1. releasing = {}
    BY <1>1 DEF ReleaseInv
  <2> QED
    BY <2>1 DEF ReleaseInv, At, Releasing, Claimed
<1>9. StopInv'
  <2>1. ASSUME NEW f \in Captures \ {e}, NEW i \in Kids(f), native[f][i] = "running"
        PROVE  f \notin cancelWanted' /\ started'[f] # "failed"
    BY <1>1, <2>1 DEF StopInv
  <2>2. SUFFICES ASSUME NEW f \in Captures, NEW i \in Kids(f), native'[f][i] = "running"
                 PROVE  /\ f \in cancelWanted' => On(Owner)' = f /\ At(Owner, "cancelling")'
                        /\ started'[f] = "failed" => On(Owner)' = f /\ At(Owner, "settling")'
    BY DEF StopInv, Kids
  <2>3. CASE f = e
    BY <2>2, <2>3 DEF StopOf, Kids
  <2>4. CASE f # e
    BY <2>1, <2>2, <2>4
  <2> QED
    BY <2>3, <2>4
<1> QED
  BY <1>4, <1>7, <1>8, <1>9 DEF RouterInv

\* A capture is listed before its tasks are started, if there is room for them.
LEMMA StartCaptureStep ==
  ASSUME RouterInv, NEW c \in Callers, NEW e \in Captures, "start" \in CallerOps[c], call[c] = NoCall, StartCapture(c, e)
  PROVE  RouterInv'
<1> DEFINE r == [NoCall EXCEPT !.op = "start", !.at = "starting", !.on = e, !.pinned = TRUE]
<1>1. /\ entry[e] = "absent" /\ sealedRouter = "no" /\ Room(e) /\ OneMore(e)
      /\ entry' = [entry EXCEPT ![e] = "listed"] /\ call' = [call EXCEPT ![c] = r]
      /\ UNCHANGED <<releasing, cancelWanted, started, pendingBy, receiptOf, sealedRouter, native, picture, composed>>
  BY DEF StartCapture, taskVars
<1>2. r \in Call /\ r.op = "start" /\ r.at = "starting" /\ r.on = e /\ r.by = "none" /\ r.pinned = TRUE
  BY <1>1 DEF NoCall, Call, RouterOps, Indoors
<1> HIDE DEF r
<1>3. Becomes(c, "start", "starting", e, "none", TRUE)
  BY <1>1, <1>2, BecomesNew
<1>4. c = Owner /\ RouterTypeOK /\ TableInv /\ EntryInv(e) /\ "none" \notin Captures
      /\ On(c) = "none" /\ call[c].at = "none"
  BY OwnerIs, CallIs DEF RouterInv, NoCall, On
<1>5. /\ call' \in [Callers -> Call] /\ AtRest(c) /\ call'[c].op = "start" /\ call'[c].at = "starting"
      /\ call'[c].on = e /\ call'[c].by = "none" /\ call'[c].pinned = TRUE
  BY <1>3 DEF Becomes
<1>6. /\ entry' \in [Captures -> {"absent", "listed", "released"}] /\ entry'[e] = "listed"
      /\ \A f \in Captures \ {e} : entry'[f] = entry[f]
  BY <1>1, <1>4 DEF RouterTypeOK
<1>7. \A i \in Kids(e) : native[e][i] = "none"
  BY <1>1, <1>4 DEF EntryInv
<1>8. EntryInv(e)'
  BY <1>1, <1>4, <1>5, <1>6, <1>7, ListedEntry
<1>9. \A d \in Callers : On(d) # e
  BY <1>1, CallIs DEF PlaceInv, At
<1>10. PlaceInv(c)' /\ InsideInv(c)'
  BY <1>4, <1>5, <1>6 DEF PlaceInv, InsideInv, At, On, Indoors, Releasing, Claimed
<1>11. StartInv(c)'
  <2>1. \A d \in Callers \ {c} : On(d)' # e
    BY <1>5, <1>9 DEF AtRest, On
  <2>2. StartedKids(e)' = {}
    BY <1>1, <1>7 DEF StartedKids, Kids
  <2>3. Cardinality(StartedKids(e)') = 0 /\ Children[e] \in Nat \ {0}
    BY <2>2, FS_EmptySet, RouterAssumption
  <2>4. started'[e] = "no" /\ Cardinality(StartedKids(e))' < Children[e]
    BY <1>1, <1>4, <2>3 DEF EntryInv
  <2>5. On(c)' = e
    BY <1>5 DEF On
  <2> QED
    BY <2>1, <2>4, <2>5 DEF StartInv
<1>12. Counted(c, e)
  <2>1. c \notin Inside(e) /\ c \in Inside(e)'
    BY <1>4, <1>5 DEF Inside, On, Indoors
  <2> QED
    BY <1>1, <2>1, CountsAre
<1>13. StopOf(e)' /\ SealInv'
  BY <1>1, <1>7 DEF StopOf, SealInv, Kids
<1>14. (ActiveTasks <= MaxNative)'
  <2> DEFINE old == {f \in Captures : entry[f] = "listed"}
             new == {f \in Captures : entry'[f] = "listed"}
  <2>1. Tasks(new) = Tasks(old) \cup ({e} \X Kids(e))
    <3>1. new = old \cup {e}
      BY <1>6
    <3> HIDE DEF new, old
    <3> QED
      BY <3>1 DEF Tasks
  <2>2. /\ IsFiniteSet(Tasks(old)) /\ Cardinality(Tasks(old)) \in Nat /\ Cardinality(Tasks(new)) \in Nat
        /\ IsFiniteSet({e} \X Kids(e)) /\ Cardinality({e} \X Kids(e)) = Children[e] /\ Children[e] \in Nat
    BY TasksAreFinite, TasksOfOne, RouterAssumption
  <2>3. /\ IsFiniteSet(Tasks(old) \cap ({e} \X Kids(e)))
        /\ Cardinality(Tasks(old) \cap ({e} \X Kids(e))) \in Nat
    BY <2>2, FS_Intersection, FS_CardinalityType
  <2>4. Cardinality(Tasks(new))
          = Cardinality(Tasks(old)) + Cardinality({e} \X Kids(e)) - Cardinality(Tasks(old) \cap ({e} \X Kids(e)))
    BY <2>1, <2>2, FS_Union
  <2>5. ActiveTasks = Cardinality(Tasks(old)) /\ ActiveTasks' = Cardinality(Tasks(new))
    BY DEF ActiveTasks, Tasks, Kids
  <2>6. Cardinality(Tasks(old)) + Children[e] <= MaxNative
    BY <1>1, <2>5 DEF Room
  <2> HIDE DEF new, old
  <2>7. Cardinality(Tasks(new)) <= MaxNative
    BY <2>2, <2>3, <2>4, <2>6, RouterAssumption
  <2> QED
    BY <2>5, <2>7
<1>15. native[e] \in [Kids(e) -> NativeStates] /\ DOMAIN native = Captures /\ started \in [Captures -> {"no", "settled", "failed"}]
  BY <1>4 DEF RouterTypeOK, TableInv, NativeStates
<1> QED
  BY <1>1, <1>4, <1>5, <1>6, <1>8, <1>9, <1>10, <1>11, <1>12, <1>13, <1>14, <1>15, OwnStep DEF Claimed, Releasing, Inside

-----------------------------------------------------------------------------
\* The action queue's call that is not a release: where it is, its entry is listed and
\* nothing of it runs that is to be stopped.
LEMMA OwnerIsOn ==
  ASSUME RouterInv, NEW c \in Callers, call[c].at \in {"starting", "settling", "cancelling"}
  PROVE  /\ c = Owner /\ On(c) \in Captures /\ entry[On(c)] = "listed" /\ EntryInv(On(c)) /\ PlaceInv(c) /\ StartInv(c)
         /\ call[c].by = "none" /\ call[c].at \notin Claimed /\ c \in Inside(On(c)) /\ sealedRouter # "ready"
         /\ RouterTypeOK /\ TableInv /\ StopInv /\ "none" \notin Captures /\ call[c].pinned \in BOOLEAN
         /\ call[c].at = "cancelling" => call[c].pinned
<1>1. /\ call[c].at # "none" /\ call[c].at \in Indoors /\ call[c].at \notin Claimed
      /\ PlaceInv(c) /\ InsideInv(c) /\ StartInv(c) /\ call[c] \in Call /\ "none" \notin Captures
  BY CallIs DEF Indoors, Claimed
<1>2. call[c].op \in {"start", "cancel"} /\ On(c) \in Captures /\ EntryInv(On(c)) /\ entry[On(c)] = "listed"
  BY <1>1, CallIs DEF PlaceInv, InsideInv, At
<1>3. c = Owner /\ call[c].by = "none"
  BY <1>1, <1>2 DEF PlaceInv
<1>4. sealedRouter # "ready"
  BY <1>2 DEF RouterInv, SealInv
<1> QED
  BY <1>1, <1>2, <1>3, <1>4 DEF RouterInv, InsideInv, Inside, Call

\* An action queue's call returns, and leaves its entry listed.
LEMMA OwnReturns ==
  ASSUME RouterInv, NEW e \in Captures, call[Owner].at \in {"settling", "cancelling"}, On(Owner) = e,
         Returns(Owner), LessOne(e),
         UNCHANGED <<entry, releasing, cancelWanted, picture, composed, pendingBy, receiptOf, sealedRouter>>,
         started' \in [Captures -> {"no", "settled", "failed"}], \A f \in Captures \ {e} : started'[f] = started[f],
         DOMAIN native' = Captures, \A f \in Captures \ {e} : native'[f] = native[f], native'[e] \in [Kids(e) -> NativeStates],
         \A i \in Kids(e) : /\ native'[e][i] \in {"none", "running", "cancelled", "drained"}
                            /\ native'[e][i] = "none" => native[e][i] = "none",
         StopOf(e)'
  PROVE  RouterInv'
<1>1. /\ Owner \in Callers /\ entry[e] = "listed" /\ call[Owner].at \notin Claimed /\ Owner \in Inside(e)
      /\ sealedRouter # "ready" /\ RouterTypeOK /\ TableInv /\ "none" \notin Captures
  BY OwnerIs, OwnerIsOn
<1>2. /\ call' \in [Callers -> Call] /\ AtRest(Owner) /\ call'[Owner].op = "none" /\ call'[Owner].at = "none"
      /\ call'[Owner].on = "none" /\ call'[Owner].by = "none"
  BY <1>1, BecomesNew DEF Becomes
<1>3. EntryInv(e)'
  BY <1>1, <1>2, ListedEntry
<1>4. PlaceInv(Owner)' /\ InsideInv(Owner)' /\ StartInv(Owner)'
  BY <1>2 DEF PlaceInv, InsideInv, StartInv, At, On, Indoors, Releasing, Claimed
<1>5. Counted(Owner, e)
  <2>1. Owner \notin Inside(e)'
    BY <1>2 DEF Inside, Indoors
  <2> QED
    BY <1>1, <2>1, CountsAre
<1>6. SealInv' /\ (ActiveTasks <= MaxNative)'
  BY <1>1, FewerTasks DEF SealInv
<1>7. entry' \in [Captures -> {"absent", "listed", "released"}]
  BY <1>1 DEF RouterTypeOK
<1> QED
  BY <1>1, <1>2, <1>3, <1>4, <1>5, <1>6, <1>7, OwnStep DEF Releasing, Claimed

\* A cancel leaves no task running.
LEMMA CancelledIs ==
  ASSUME RouterInv, NEW e \in Captures, entry[e] = "listed", native' = [native EXCEPT ![e] = Cancelled(e)]
  PROVE  /\ DOMAIN native' = Captures /\ (\A f \in Captures \ {e} : native'[f] = native[f])
         /\ native'[e] \in [Kids(e) -> NativeStates]
         /\ \A i \in Kids(e) : /\ native'[e][i] \in {"none", "cancelled", "drained"}
                               /\ native'[e][i] = "none" => native[e][i] = "none"
<1>1. DOMAIN native = Captures /\ EntryInv(e)
  BY DEF RouterInv, TableInv
<1>2. native'[e] = Cancelled(e) /\ DOMAIN native' = Captures /\ \A f \in Captures \ {e} : native'[f] = native[f]
  BY <1>1
<1>3. \A i \in Kids(e) : native[e][i] \in {"none", "running", "cancelled", "drained"}
  BY <1>1 DEF EntryInv
<1>4. Cancelled(e) \in [Kids(e) -> NativeStates]
  BY <1>3 DEF Cancelled, NativeStates
<1> QED
  BY <1>2, <1>3, <1>4 DEF Cancelled

\* No task of a listed entry is freed.
LEMMA ListedIs ==
  ASSUME RouterInv, NEW e \in Captures, entry[e] = "listed"
  PROVE  /\ native[e] \in [Kids(e) -> NativeStates]
         /\ \A i \in Kids(e) : native[e][i] \in {"none", "running", "cancelled", "drained"}
         /\ DOMAIN native = Captures
  BY DEF RouterInv, RouterTypeOK, TableInv, EntryInv, NativeStates

\* A start returns; the tasks of a layout one of whose tasks did not start are cancelled.
LEMMA SettleStartStep == ASSUME RouterInv, NEW c \in Callers, SettleStart(c) PROVE RouterInv'
<1>1. /\ call[c].at = "settling" /\ LessOne(On(c)) /\ Returns(c)
      /\ UNCHANGED <<entry, releasing, cancelWanted, pendingBy, receiptOf, sealedRouter, picture, composed>>
      /\ native' = IF started[On(c)] = "failed" THEN [native EXCEPT ![On(c)] = Cancelled(On(c))] ELSE native
      /\ started' = [started EXCEPT ![On(c)] = IF started[On(c)] = "no" THEN "settled" ELSE started[On(c)]]
  BY DEF SettleStart, At
<1>2. c = Owner /\ On(c) \in Captures /\ entry[On(c)] = "listed" /\ RouterTypeOK /\ StopInv
  BY <1>1, OwnerIsOn
<1> PICK e \in Captures : e = On(c)
  BY <1>2
<1>3. /\ started' \in [Captures -> {"no", "settled", "failed"}] /\ \A f \in Captures \ {e} : started'[f] = started[f]
      /\ started'[e] = "failed" <=> started[e] = "failed"
  BY <1>1, <1>2 DEF RouterTypeOK
<1>4. /\ DOMAIN native' = Captures /\ (\A f \in Captures \ {e} : native'[f] = native[f])
      /\ native'[e] \in [Kids(e) -> NativeStates]
      /\ \A i \in Kids(e) : /\ native'[e][i] \in {"none", "running", "cancelled", "drained"}
                            /\ native'[e][i] = "none" => native[e][i] = "none"
      /\ started[e] = "failed" => \A i \in Kids(e) : native'[e][i] # "running"
      /\ started[e] # "failed" => native' = native
  <2>1. CASE started[e] = "failed"
    <3>1. native' = [native EXCEPT ![e] = Cancelled(e)] /\ entry[e] = "listed"
      BY <1>1, <1>2, <2>1
    <3>2. /\ DOMAIN native' = Captures /\ (\A f \in Captures \ {e} : native'[f] = native[f])
          /\ native'[e] \in [Kids(e) -> NativeStates]
          /\ \A i \in Kids(e) : /\ native'[e][i] \in {"none", "cancelled", "drained"}
                                /\ native'[e][i] = "none" => native[e][i] = "none"
      BY <3>1, CancelledIs
    <3> QED
      BY <2>1, <3>2
  <2>2. CASE started[e] # "failed"
    BY <1>1, <1>2, <2>2, ListedIs
  <2> QED
    BY <2>1, <2>2
<1>5. StopOf(e)'
  <2>1. ASSUME NEW i \in Kids(e), native'[e][i] = "running" PROVE started'[e] # "failed" /\ e \notin cancelWanted'
    <3>1. native[e][i] = "running" /\ started[e] # "failed"
      BY <1>4, <2>1
    <3> QED
      BY <1>1, <1>2, <1>3, <3>1 DEF StopInv, At
  <2> QED
    BY <2>1 DEF StopOf, Kids
<1> QED
  BY <1>1, <1>2, <1>3, <1>4, <1>5, OwnReturns

\* A cancel reaches every task that runs.
LEMMA EndCancelStep == ASSUME RouterInv, NEW c \in Callers, EndCancel(c) PROVE RouterInv'
<1>1. call[c].at = "cancelling" /\ LessOne(On(c)) /\ Returns(c) /\ UNCHANGED <<tableVars, picture, composed>>
  BY DEF EndCancel, At
<1>2. c = Owner /\ On(c) \in Captures /\ entry[On(c)] = "listed" /\ RouterTypeOK /\ call[c].pinned
  BY <1>1, OwnerIsOn
<1> PICK e \in Captures : e = On(c)
  BY <1>2
<1>3. /\ DOMAIN native' = Captures /\ (\A f \in Captures \ {e} : native'[f] = native[f])
      /\ native'[e] \in [Kids(e) -> NativeStates]
      /\ \A i \in Kids(e) : /\ native'[e][i] \in {"none", "cancelled", "drained"}
                            /\ native'[e][i] = "none" => native[e][i] = "none"
  BY <1>2, CancelledIs DEF EndCancel
<1>4. StopOf(e)'
  BY <1>3 DEF StopOf, Kids
<1>5. started' \in [Captures -> {"no", "settled", "failed"}]
  BY <1>1, <1>2 DEF RouterTypeOK, tableVars
<1> QED
  BY <1>1, <1>2, <1>3, <1>4, <1>5, OwnReturns DEF tableVars

\* A cancel holds the entry, which no release has claimed.
LEMMA BeginCancelStep ==
  ASSUME RouterInv, NEW c \in Callers, NEW e \in Captures, "cancel" \in CallerOps[c], call[c] = NoCall, BeginCancel(c, e)
  PROVE  RouterInv'
<1>1. /\ c = Owner /\ RouterTypeOK /\ TableInv /\ StopInv /\ SealInv /\ "none" \notin Captures
      /\ On(c) = "none" /\ call[c].at = "none"
  BY OwnerIs, CallIs DEF RouterInv, NoCall, On
<1>2. releasing = {}
  BY <1>1 DEF RouterInv, ReleaseInv, Claimed
<1> DEFINE r == [NoCall EXCEPT !.op = "cancel", !.at = "cancelling", !.on = e, !.pinned = TRUE]
<1>3. /\ entry[e] = "listed" /\ cancelWanted' = cancelWanted \cup {e} /\ OneMore(e) /\ call' = [call EXCEPT ![c] = r]
      /\ UNCHANGED <<entry, releasing, started, pendingBy, receiptOf, sealedRouter, native, picture, composed>>
  BY <1>2 DEF BeginCancel, OneMore, taskVars
<1>4. r \in Call /\ r.op = "cancel" /\ r.at = "cancelling" /\ r.on = e /\ r.by = "none" /\ r.pinned = TRUE
  BY <1>3 DEF NoCall, Call, RouterOps, Indoors
<1> HIDE DEF r
<1>5. Becomes(c, "cancel", "cancelling", e, "none", TRUE)
  BY <1>3, <1>4, BecomesNew
<1>6. /\ call' \in [Callers -> Call] /\ AtRest(c) /\ call'[c].op = "cancel" /\ call'[c].at = "cancelling"
      /\ call'[c].on = e /\ call'[c].by = "none" /\ call'[c].pinned = TRUE
  BY <1>5 DEF Becomes
<1>7. PlaceInv(c)' /\ InsideInv(c)' /\ StartInv(c)'
  BY <1>1, <1>3, <1>6 DEF PlaceInv, InsideInv, StartInv, At, On, Indoors, Releasing, Claimed
<1>8. EntryInv(e)' /\ native'[e] \in [Kids(e) -> NativeStates]
  BY <1>1, <1>3, <1>6, ListedEntry, ListedIs
<1>9. Counted(c, e)
  <2>1. c \notin Inside(e) /\ c \in Inside(e)'
    BY <1>1, <1>6 DEF Inside, On, Indoors
  <2> QED
    BY <1>3, <2>1, CountsAre
<1>10. StopOf(e)'
  <2>1. \A i \in Kids(e) : native'[e][i] = "running" => started'[e] # "failed"
    BY <1>1, <1>3 DEF StopInv
  <2> QED
    BY <1>1, <1>6, <2>1 DEF StopOf, Kids, At, On
<1>11. SealInv' /\ (ActiveTasks <= MaxNative)'
  BY <1>1, <1>3, FewerTasks DEF SealInv
<1>12. /\ entry' \in [Captures -> {"absent", "listed", "released"}] /\ DOMAIN native' = Captures
       /\ started' \in [Captures -> {"no", "settled", "failed"}]
  BY <1>1, <1>3 DEF RouterTypeOK, TableInv
<1> QED
  BY <1>1, <1>3, <1>6, <1>7, <1>8, <1>9, <1>10, <1>11, <1>12, OwnStep DEF Releasing, Claimed

\* A task is started, or is not: then the entry of a single capture goes, and the start of a
\* layout fails.
LEMMA StartTaskStep == ASSUME RouterInv, NEW c \in Callers, StartTask(c) PROVE RouterInv'
<1>1. /\ call[c].at = "starting"
      /\ UNCHANGED <<releasing, cancelWanted, pendingBy, receiptOf, sealedRouter, picture, composed>>
  BY DEF StartTask, At
<1>2. /\ c = Owner /\ On(c) \in Captures /\ entry[On(c)] = "listed" /\ EntryInv(On(c)) /\ PlaceInv(c) /\ StartInv(c)
      /\ call[c].by = "none" /\ c \in Inside(On(c)) /\ sealedRouter # "ready" /\ RouterTypeOK /\ TableInv
      /\ StopInv /\ "none" \notin Captures
  BY <1>1, OwnerIsOn
<1> PICK e \in Captures : e = On(c)
  BY <1>2
<1> PICK n \in Nat : n = Cardinality(StartedKids(e))
  <2>1. IsFiniteSet(Kids(e))
    BY KidsAreFinite
  <2> QED
    BY <2>1, FS_Subset, FS_CardinalityType DEF StartedKids
<1>3. n < Children[e] /\ Children[e] \in Nat \ {0} /\ started[e] = "no" /\ call[c].op = "start"
      /\ \A d \in Callers \ {c} : On(d) # e
  BY <1>1, <1>2, RouterAssumption DEF StartInv, PlaceInv, At
<1>4. n + 1 \in Kids(e)
  BY <1>3 DEF Kids
<1>5. /\ \A i \in Kids(e) : /\ native[e][i] \in {"none", "running", "cancelled", "drained"}
                            /\ e \in cancelWanted => native[e][i] # "running"
      /\ native[e] \in [Kids(e) -> NativeStates]
  BY <1>1, <1>2, ListedIs DEF StopInv, At
<1>6. SealInv'
  BY <1>1, <1>2 DEF SealInv
<1>7. ASSUME NEW where \in {"starting", "settling"}, GoTo(c, where)
      PROVE  /\ call' \in [Callers -> Call] /\ AtRest(c) /\ call'[c].op = "start" /\ call'[c].at = where
             /\ call'[c].on = e /\ call'[c].by = "none"
             /\ (\A d \in Callers \ {c} : On(d)' # e) /\ c \in Inside(e)'
  <2>1. CallGoes(c, where, call[c].pinned)
    BY <1>7, GoesTo DEF Places, Indoors
  <2> QED
    BY <1>2, <1>3, <2>1 DEF CallGoes, AtRest, On, Inside, Indoors
<1>8. ASSUME native' = [native EXCEPT ![e][n + 1] = FirstState(e)],
             GoTo(c, IF n + 1 = Children[e] THEN "settling" ELSE "starting"), UNCHANGED <<entry, started, inFlight>>
      PROVE  RouterInv'
  <2>1. PICK where \in {"starting", "settling"} : GoTo(c, where) /\ (where = "starting" => n + 1 # Children[e])
    BY <1>8
  <2>2. /\ call' \in [Callers -> Call] /\ AtRest(c) /\ call'[c].op = "start" /\ call'[c].at = where
        /\ call'[c].on = e /\ call'[c].by = "none" /\ (\A d \in Callers \ {c} : On(d)' # e) /\ c \in Inside(e)'
    BY <1>7, <2>1
  <2>3. /\ DOMAIN native' = Captures /\ (\A f \in Captures \ {e} : native'[f] = native[f])
        /\ native'[e] = [native[e] EXCEPT ![n + 1] = FirstState(e)]
    BY <1>2, <1>8 DEF TableInv
  <2>4. /\ native'[e] \in [Kids(e) -> NativeStates]
        /\ \A i \in Kids(e) : native'[e][i] = IF i = n + 1 THEN FirstState(e) ELSE native[e][i]
        /\ FirstState(e) \in {"running", "cancelled"}
    BY <1>4, <1>5, <2>3 DEF FirstState, NativeStates
  <2>5. EntryInv(e)'
    BY <1>1, <1>2, <1>5, <1>8, <2>2, <2>4, ListedEntry
  <2>6. PlaceInv(c)' /\ InsideInv(c)'
    BY <1>2, <1>8, <2>1, <2>2 DEF PlaceInv, InsideInv, At, On, Indoors, Releasing, Claimed
  <2>7. StartInv(c)'
    <3>1. StartedKids(e)' = StartedKids(e) \cup {n + 1} /\ IsFiniteSet(StartedKids(e))
      <4>1. IsFiniteSet(Kids(e))
        BY KidsAreFinite
      <4> QED
        BY <1>4, <2>4, <4>1, FS_Subset DEF StartedKids, Kids
    <3>2. Cardinality(StartedKids(e) \cup {n + 1}) \in {n, n + 1}
      <4>1. Cardinality(StartedKids(e) \cup {n + 1})
              = IF n + 1 \in StartedKids(e) THEN Cardinality(StartedKids(e)) ELSE Cardinality(StartedKids(e)) + 1
        BY <3>1, FS_AddElement
      <4> QED
        BY <4>1
    <3>3. where = "starting" => Cardinality(StartedKids(e)') < Children[e]
      BY <1>3, <2>1, <3>1, <3>2
    <3>4. where = "starting" => Cardinality(StartedKids(e))' < Children[e]
      BY <3>3
    <3>5. On(c)' = e /\ started'[e] = "no"
      BY <1>3, <1>8, <2>2 DEF On
    <3> QED
      BY <2>2, <3>4, <3>5 DEF StartInv, At
  <2>8. Counted(c, e)
    BY <1>2, <1>8, <2>2, CountsAre
  <2>9. StopOf(e)'
    <3>1. \A i \in Kids(e) : native'[e][i] = "running" => e \notin cancelWanted
      BY <1>5, <2>4 DEF FirstState
    <3> QED
      BY <1>1, <1>3, <1>8, <3>1 DEF StopOf, Kids
  <2>10. (ActiveTasks <= MaxNative)'
    BY <1>8, FewerTasks
  <2>11. entry' \in [Captures -> {"absent", "listed", "released"}] /\ started' \in [Captures -> {"no", "settled", "failed"}]
    BY <1>2, <1>8 DEF RouterTypeOK
  <2> QED
    BY <1>1, <1>2, <1>6, <1>8, <2>1, <2>2, <2>3, <2>4, <2>5, <2>6, <2>7, <2>8, <2>9, <2>10, <2>11, OwnStep
       DEF Releasing, Claimed
<1>9. ASSUME started' = [started EXCEPT ![e] = "failed"], GoTo(c, "settling"), UNCHANGED <<native, entry, inFlight>>
      PROVE  RouterInv'
  <2>1. /\ call' \in [Callers -> Call] /\ AtRest(c) /\ call'[c].op = "start" /\ call'[c].at = "settling"
        /\ call'[c].on = e /\ call'[c].by = "none" /\ (\A d \in Callers \ {c} : On(d)' # e) /\ c \in Inside(e)'
    BY <1>7, <1>9
  <2>2. /\ started' \in [Captures -> {"no", "settled", "failed"}] /\ \A f \in Captures \ {e} : started'[f] = started[f]
        /\ entry' \in [Captures -> {"absent", "listed", "released"}] /\ DOMAIN native' = Captures
    BY <1>2, <1>9 DEF RouterTypeOK, TableInv
  <2>3. EntryInv(e)'
    BY <1>1, <1>2, <1>5, <1>9, <2>1, ListedEntry
  <2>4. PlaceInv(c)' /\ InsideInv(c)' /\ StartInv(c)'
    BY <1>2, <1>9, <2>1 DEF PlaceInv, InsideInv, StartInv, At, On, Indoors, Releasing, Claimed
  <2>5. Counted(c, e)
    BY <1>2, <1>9, <2>1, CountsAre
  <2>6. StopOf(e)'
    <3>1. On(Owner)' = e /\ At(Owner, "settling")' /\ \A i \in Kids(e) : native'[e][i] = "running" => e \notin cancelWanted'
      BY <1>1, <1>2, <1>5, <1>9, <2>1 DEF On, At
    <3> QED
      BY <3>1 DEF StopOf, Kids
  <2>7. (ActiveTasks <= MaxNative)'
    BY <1>9, FewerTasks
  <2> QED
    BY <1>1, <1>2, <1>5, <1>6, <1>9, <2>1, <2>2, <2>3, <2>4, <2>5, <2>6, <2>7, OwnStep DEF Releasing, Claimed
<1>10. ASSUME ~Layout(e), entry' = [entry EXCEPT ![e] = "released"], inFlight' = [inFlight EXCEPT ![e] = 0], Returns(c),
              UNCHANGED <<native, started>>
       PROVE  RouterInv'
  <2>1. /\ call' \in [Callers -> Call] /\ AtRest(c) /\ call'[c].op = "none" /\ call'[c].at = "none"
        /\ call'[c].on = "none" /\ call'[c].by = "none"
    BY <1>10, BecomesNew DEF Becomes
  <2>2. /\ entry' \in [Captures -> {"absent", "listed", "released"}] /\ entry'[e] = "released"
        /\ \A f \in Captures \ {e} : entry'[f] = entry[f]
    BY <1>2, <1>10 DEF RouterTypeOK
  <2>3. \A i \in Kids(e) : native[e][i] = "none" /\ picture[e][i] = "none"
    <3>1. n = 0 /\ IsFiniteSet(Kids(e))
      BY <1>3, <1>10, KidsAreFinite DEF Layout
    <3>2. StartedKids(e) = {}
      BY <3>1, FS_Subset, FS_EmptySet DEF StartedKids
    <3> QED
      BY <1>2, <3>2 DEF StartedKids, EntryInv
  <2>4. EntryInv(e)'
    <3>1. composed[e] = "none"
      BY <1>2, <1>10 DEF EntryInv
    <3> QED
      BY <1>1, <1>10, <2>2, <2>3, <3>1 DEF EntryInv, Kids, Layout
  <2>5. PlaceInv(c)' /\ InsideInv(c)' /\ StartInv(c)'
    BY <2>1 DEF PlaceInv, InsideInv, StartInv, At, On, Indoors, Releasing, Claimed
  <2>6. Counted(c, e)
    <3>1. Inside(e) = {c} /\ c \notin Inside(e)'
      BY <1>2, <1>3, <2>1 DEF Inside, Indoors
    <3>2. inFlight[e] = 1
      BY <3>1, FS_Singleton DEF RouterInv, CountInv
    <3>3. LessOne(e)
      BY <1>10, <3>2 DEF LessOne
    <3> QED
      BY <1>2, <3>1, <3>3, CountsAre
  <2>7. StopOf(e)'
    BY <1>10, <2>3 DEF StopOf, Kids
  <2>8. (ActiveTasks <= MaxNative)'
    BY <2>2, FewerTasks
  <2>9. /\ native'[e] \in [Kids(e) -> NativeStates] /\ DOMAIN native' = Captures
        /\ started' \in [Captures -> {"no", "settled", "failed"}]
        /\ \A d \in Callers \ {Owner} : d \notin Inside(e)
    BY <1>2, <1>3, <1>5, <1>10 DEF RouterTypeOK, TableInv, Inside
  <2> QED
    BY <1>1, <1>2, <1>6, <1>10, <2>1, <2>2, <2>4, <2>5, <2>6, <2>7, <2>8, <2>9, OwnStep DEF Releasing, Claimed
<1> QED
  BY <1>2, <1>8, <1>9, <1>10 DEF StartTask

-----------------------------------------------------------------------------
(* The capture backend and the seal. *)

\* What an entry's tasks and pictures may be.
TasksInv(e) ==
  \A i \in Kids(e) :
    /\ entry[e] = "absent" => native[e][i] = "none" /\ picture[e][i] = "none"
    /\ entry[e] = "listed" => native[e][i] \in {"none", "running", "cancelled", "drained"} /\ picture[e][i] \in {"none", "held"}
    /\ entry[e] = "released" => native[e][i] \in {"none", "freed"} /\ picture[e][i] \in {"none", "freed"}
    /\ native[e][i] = "none" => picture[e][i] = "none"

\* The backend moves tasks and pictures without touching the table.
LEMMA TasksMove ==
  ASSUME RouterInv, NEW e \in Captures, UNCHANGED <<call, entry, composed, started, receiptOf>>, TasksInv(e)'
  PROVE  EntryInv(e)'
<1>1. EntryInv(e) /\ Kids(e)' = Kids(e) /\ Layout(e)' = Layout(e)
  BY DEF RouterInv, Kids, Layout
<1>2. composed'[e] = "composing" => \E c \in Callers : On(c)' = e /\ At(c, "composing")'
  BY <1>1 DEF EntryInv, At, On
<1>3. /\ entry[e] = "absent" => composed[e] = "none" /\ started[e] = "no"
      /\ entry[e] = "listed" => composed[e] \in {"none", "composing", "held"}
      /\ entry[e] = "released" => composed[e] \in {"none", "freed"}
      /\ composed[e] # "none" => Layout(e)
      /\ receiptOf[e] # "none" => entry[e] = "released"
  BY <1>1 DEF EntryInv
<1> QED
  BY <1>1, <1>2, <1>3 DEF EntryInv, TasksInv

\* The invariant says what they may be.
LEMMA TasksAre == ASSUME RouterInv, NEW e \in Captures PROVE TasksInv(e)
  BY DEF RouterInv, EntryInv, TasksInv

\* A task that lives has a listed entry; one that was started has not called back before it.
LEMMA DrainTaskStep ==
  ASSUME RouterInv, NEW e \in Captures, NEW i \in Kids(e), DrainTask(e, i)
  PROVE  RouterInv'
<1>1. /\ native[e][i] \in {"running", "cancelled"} /\ native' = [native EXCEPT ![e][i] = "drained"]
      /\ UNCHANGED <<tableVars, inFlight, picture, composed, call>>
  BY DEF DrainTask
<1>2. RouterTypeOK /\ TableInv /\ StopInv /\ SealInv /\ ReleaseInv /\ EntryInv(e)
  BY DEF RouterInv
<1>3. entry[e] = "listed"
  BY <1>1, <1>2 DEF EntryInv, RouterTypeOK
<1>4. /\ DOMAIN native' = Captures /\ (\A f \in Captures \ {e} : native'[f] = native[f])
      /\ native'[e] = [native[e] EXCEPT ![i] = "drained"]
  BY <1>1, <1>2 DEF TableInv
<1>5. native[e] \in [Kids(e) -> NativeStates]
  BY <1>3, ListedIs
<1>6. /\ native'[e] \in [Kids(e) -> NativeStates]
      /\ \A j \in Kids(e) : native'[e][j] = IF j = i THEN "drained" ELSE native[e][j]
  BY <1>4, <1>5 DEF NativeStates
<1>7. RouterTypeOK' /\ TableInv'
  <2>1. \A f \in Captures : native'[f] \in [Kids(f) -> NativeStates]
    BY <1>2, <1>4, <1>6 DEF RouterTypeOK, NativeStates
  <2> QED
    BY <1>1, <1>2, <1>4, <2>1 DEF RouterTypeOK, TableInv, NativeStates, Kids, tableVars
<1>8. \A f \in Captures : StartedKids(f)' = StartedKids(f)
  <2>1. StartedKids(e)' = StartedKids(e)
    BY <1>1, <1>6 DEF StartedKids, Kids
  <2>2. ASSUME NEW f \in Captures \ {e} PROVE StartedKids(f)' = StartedKids(f)
    BY <1>4 DEF StartedKids, Kids
  <2> QED
    BY <2>1, <2>2
<1>9. ASSUME NEW d \in Callers PROVE PlaceInv(d)' /\ InsideInv(d)' /\ StartInv(d)'
  <2>1. PlaceInv(d) /\ InsideInv(d) /\ StartInv(d)
    BY DEF RouterInv
  <2>2. PlaceInv(d)' /\ InsideInv(d)'
    BY <1>1, <2>1 DEF PlaceInv, InsideInv, At, On, Layout, tableVars
  <2>3. At(d, "starting") => On(d) \in Captures
    BY CallIs DEF At
  <2>4. StartInv(d)'
    BY <1>1, <1>8, <2>1, <2>3 DEF StartInv, At, On, tableVars
  <2> QED
    BY <2>2, <2>4
<1>10. ASSUME NEW f \in Captures PROVE EntryInv(f)' /\ CountInv(f)'
  <2>1. EntryInv(f) /\ CountInv(f)
    BY DEF RouterInv
  <2>2. CountInv(f)'
    BY <1>1, <2>1 DEF CountInv, Inside, On
  <2>3. TasksInv(f)'
    <3>1. CASE f = e
      BY <1>1, <1>2, <1>3, <1>6, <3>1, TasksAre DEF TasksInv, Kids, tableVars, EntryInv
    <3>2. CASE f # e
      BY <1>1, <1>4, <3>2, TasksAre DEF TasksInv, Kids, tableVars
    <3> QED
      BY <3>1, <3>2
  <2> QED
    BY <1>1, <2>2, <2>3, TasksMove DEF tableVars
<1>11. ReleaseInv'
  BY <1>1, <1>2 DEF ReleaseInv, At, On, Inside, tableVars
<1>12. StopInv'
  <2>1. ASSUME NEW f \in Captures, NEW j \in Kids(f), native'[f][j] = "running" PROVE native[f][j] = "running"
    BY <1>4, <1>6, <2>1
  <2> QED
    BY <1>1, <1>2, <2>1 DEF StopInv, At, On, Kids, tableVars
<1>13. SealInv' /\ (ActiveTasks <= MaxNative)'
  <2>1. SealInv'
    BY <1>1, <1>2, <1>8 DEF SealInv, CalledBack, tableVars
  <2> QED
    BY <1>1, <2>1, FewerTasks DEF tableVars
<1> QED
  BY <1>7, <1>9, <1>10, <1>11, <1>12, <1>13 DEF RouterInv

\* A picture is held for an entry that is listed, and freed at once for one that is released.
LEMMA CallbackStep ==
  ASSUME RouterInv, NEW e \in Captures, NEW i \in Kids(e), Callback(e, i)
  PROVE  RouterInv'
<1> DEFINE kept == IF Wanted(e) THEN "held" ELSE "freed"
<1>1. /\ native[e][i] # "none" /\ picture' = [picture EXCEPT ![e][i] = kept]
      /\ UNCHANGED <<tableVars, inFlight, native, composed, call>>
  BY DEF Callback
<1>2. RouterTypeOK /\ TableInv /\ StopInv /\ SealInv /\ ReleaseInv /\ EntryInv(e) /\ kept \in {"held", "freed"}
  BY DEF RouterInv
<1>3. entry[e] # "absent" /\ (entry[e] = "released" => kept = "freed") /\ (entry[e] = "listed" => kept = "held")
  BY <1>1, <1>2 DEF EntryInv, Wanted
<1> HIDE DEF kept
<1>4. /\ DOMAIN picture' = Captures /\ (\A f \in Captures \ {e} : picture'[f] = picture[f])
      /\ picture'[e] = [picture[e] EXCEPT ![i] = kept]
  BY <1>1, <1>2 DEF TableInv
<1>5. picture[e] \in [Kids(e) -> {"none", "held", "freed"}]
  BY <1>2 DEF RouterTypeOK
<1>6. /\ picture'[e] \in [Kids(e) -> {"none", "held", "freed"}]
      /\ \A j \in Kids(e) : picture'[e][j] = IF j = i THEN kept ELSE picture[e][j]
  BY <1>2, <1>4, <1>5
<1>7. RouterTypeOK' /\ TableInv'
  <2>1. \A f \in Captures : picture'[f] \in [Kids(f) -> {"none", "held", "freed"}]
    BY <1>2, <1>4, <1>6 DEF RouterTypeOK
  <2> QED
    BY <1>1, <1>2, <1>4, <2>1 DEF RouterTypeOK, TableInv, Kids, tableVars
<1>8. ASSUME NEW d \in Callers PROVE PlaceInv(d)' /\ InsideInv(d)' /\ StartInv(d)'
  <2>1. PlaceInv(d) /\ InsideInv(d) /\ StartInv(d)
    BY DEF RouterInv
  <2>2. PlaceInv(d)' /\ InsideInv(d)'
    BY <1>1, <2>1 DEF PlaceInv, InsideInv, At, On, Layout, tableVars
  <2>3. StartInv(d)'
    BY <1>1, <2>1 DEF StartInv, At, On, StartedKids, Kids, tableVars
  <2> QED
    BY <2>2, <2>3
<1>9. ASSUME NEW f \in Captures PROVE EntryInv(f)' /\ CountInv(f)'
  <2>1. EntryInv(f) /\ CountInv(f)
    BY DEF RouterInv
  <2>2. CountInv(f)'
    BY <1>1, <2>1 DEF CountInv, Inside, On
  <2>3. TasksInv(f)'
    <3>1. CASE f = e
      <4>1. TasksInv(e)
        BY TasksAre
      <4> QED
        BY <1>1, <1>3, <1>6, <3>1, <4>1 DEF TasksInv, Kids, tableVars
    <3>2. CASE f # e
      BY <1>1, <1>4, <3>2, TasksAre DEF TasksInv, Kids, tableVars
    <3> QED
      BY <3>1, <3>2
  <2> QED
    BY <1>1, <2>2, <2>3, TasksMove DEF tableVars
<1>10. ReleaseInv' /\ StopInv'
  BY <1>1, <1>2 DEF ReleaseInv, StopInv, At, On, Inside, Kids, tableVars
<1>11. SealInv' /\ (ActiveTasks <= MaxNative)'
  <2>1. \A f \in Captures : CalledBack(f) => CalledBack(f)'
    <3>1. CalledBack(e) => CalledBack(e)'
      BY <1>1, <1>2, <1>6 DEF CalledBack, StartedKids, Kids
    <3> QED
      BY <1>1, <1>4, <3>1 DEF CalledBack, StartedKids, Kids
  <2>2. SealInv'
    BY <1>1, <1>2, <2>1 DEF SealInv, tableVars
  <2> QED
    BY <1>1, <2>2, FewerTasks DEF tableVars
<1> QED
  BY <1>7, <1>8, <1>9, <1>10, <1>11 DEF RouterInv

\* The router seals only when every entry is released and every callback has come.
LEMMA SealRouterStep == ASSUME RouterInv, SealRouter PROVE RouterInv'
<1>1. /\ sealedRouter' \in {"ready", "pending"} /\ (sealedRouter' = "ready" => SealedReady)
      /\ UNCHANGED <<entry, inFlight, releasing, cancelWanted, started, pendingBy, receiptOf, taskVars, call>>
  BY DEF SealRouter
<1>2. RouterTypeOK' /\ TableInv'
  BY <1>1 DEF RouterInv, RouterTypeOK, TableInv, Kids, taskVars
<1>3. ASSUME NEW d \in Callers PROVE PlaceInv(d)' /\ InsideInv(d)' /\ StartInv(d)'
  <2>1. PlaceInv(d) /\ InsideInv(d) /\ StartInv(d)
    BY DEF RouterInv
  <2>2. PlaceInv(d)' /\ InsideInv(d)'
    BY <1>1, <2>1 DEF PlaceInv, InsideInv, At, On, Layout
  <2>3. StartInv(d)'
    BY <1>1, <2>1 DEF StartInv, At, On, StartedKids, Kids, taskVars
  <2> QED
    BY <2>2, <2>3
<1>4. ASSUME NEW f \in Captures PROVE EntryInv(f)' /\ CountInv(f)'
  <2>1. EntryInv(f) /\ CountInv(f)
    BY DEF RouterInv
  <2>2. EntryInv(f)'
    BY <1>1, <2>1 DEF EntryInv, Kids, Layout, At, On, taskVars
  <2>3. CountInv(f)'
    BY <1>1, <2>1 DEF CountInv, Inside, On
  <2> QED
    BY <2>2, <2>3
<1>5. ReleaseInv' /\ StopInv'
  <2>1. ReleaseInv /\ StopInv
    BY DEF RouterInv
  <2> QED
    BY <1>1, <2>1 DEF ReleaseInv, StopInv, At, On, Inside, Kids, taskVars
<1>6. SealInv'
  BY <1>1 DEF SealInv, SealedReady, CalledBack, StartedKids, Kids, taskVars
<1>7. (ActiveTasks <= MaxNative)'
  BY <1>1, FewerTasks
<1> QED
  BY <1>2, <1>3, <1>4, <1>5, <1>6, <1>7 DEF RouterInv

-----------------------------------------------------------------------------
(* The invariant. *)

\* The table is empty at first.
LEMMA RouterInitial == RouterInit => RouterInv
<1> SUFFICES ASSUME RouterInit PROVE RouterInv
  OBVIOUS
<1>1. /\ entry = [e \in Captures |-> "absent"] /\ inFlight = [e \in Captures |-> 0]
      /\ releasing = {} /\ cancelWanted = {} /\ started = [e \in Captures |-> "no"]
      /\ native = [e \in Captures |-> [i \in Kids(e) |-> "none"]]
      /\ picture = [e \in Captures |-> [i \in Kids(e) |-> "none"]]
      /\ composed = [e \in Captures |-> "none"]
      /\ pendingBy = [e \in Captures |-> "none"] /\ receiptOf = [e \in Captures |-> "none"]
      /\ sealedRouter = "no" /\ call = [c \in Callers |-> NoCall]
  BY DEF RouterInit
<1>2. NoCall \in Call /\ NoCall.op = "none" /\ NoCall.at = "none" /\ NoCall.on = "none" /\ NoCall.by = "none"
  BY DEF NoCall, Call
<1>3. \A c \in Callers : call[c] = NoCall /\ call[c].at = "none" /\ On(c) = "none"
  BY <1>1, <1>2 DEF On
<1>4. "none" \notin Captures /\ Owner \in Callers /\ IsFiniteSet(Callers) /\ MaxNative \in Nat
  BY OwnerIs, RouterAssumption
<1>5. RouterTypeOK
  <2>1. Cardinality(Callers) \in Nat
    BY <1>4, FS_CardinalityType
  <2>2. \A e \in Captures : /\ native[e] \in [Kids(e) -> {"none", "running", "cancelled", "drained", "freed", "twice"}]
                            /\ picture[e] \in [Kids(e) -> {"none", "held", "freed"}]
    BY <1>1
  <2>3. inFlight \in [Captures -> 0..Cardinality(Callers)]
    BY <1>1, <2>1
  <2> QED
    BY <1>1, <2>2, <2>3 DEF RouterTypeOK
<1>6. TableInv
  BY <1>1, <1>2 DEF TableInv
<1>7. \A c \in Callers : PlaceInv(c) /\ InsideInv(c) /\ StartInv(c)
  BY <1>2, <1>3 DEF PlaceInv, InsideInv, StartInv, At, Indoors, Releasing, Claimed
<1>8. \A e \in Captures : EntryInv(e) /\ CountInv(e)
  <2>1. \A e \in Captures : Inside(e) = {}
    BY <1>3, <1>4 DEF Inside
  <2>2. \A e \in Captures : CountInv(e)
    BY <1>1, <2>1, FS_EmptySet DEF CountInv
  <2> QED
    BY <1>1, <2>2 DEF EntryInv
<1>9. ReleaseInv /\ StopInv /\ SealInv
  BY <1>1, <1>2, <1>3, <1>4 DEF ReleaseInv, StopInv, SealInv, At, Claimed, Releasing
<1>10. ActiveTasks <= MaxNative
  <2>1. {e \in Captures : entry[e] = "listed"} = {}
    BY <1>1
  <2>2. Tasks({}) = {}
    BY DEF Tasks
  <2>3. ActiveTasks = 0
    BY <2>1, <2>2, FS_EmptySet DEF ActiveTasks
  <2> QED
    BY <1>4, <2>3
<1> QED
  BY <1>5, <1>6, <1>7, <1>8, <1>9, <1>10 DEF RouterInv

\* Every call that begins keeps the invariant,
LEMMA RouterCallStep ==
  ASSUME RouterInv, NEW c \in Callers, NEW e \in Captures, NEW op \in RouterOps, RouterCall(c, op, e)
  PROVE  RouterInv'
<1>1. call[c] = NoCall /\ op \in CallerOps[c]
  BY DEF RouterCall
<1>2. CASE op = "start" /\ StartCapture(c, e)
  BY <1>1, <1>2, StartCaptureStep
<1>3. CASE BeginCall(c, op, e)
  BY <1>1, <1>3, BeginCallStep
<1>4. CASE op = "cancel" /\ BeginCancel(c, e)
  BY <1>1, <1>4, BeginCancelStep
<1>5. CASE op = "release" /\ BeginRelease(c, e)
  BY <1>1, <1>5, BeginReleaseStep
<1>6. CASE op = "authorized" /\ \E a \in Authorities : Authorize(c, e, a)
  BY <1>1, <1>6, AuthorizeStep
<1> QED
  BY <1>2, <1>3, <1>4, <1>5, <1>6 DEF RouterCall

\* and every critical section of one that runs,
LEMMA RouterStepStep == ASSUME RouterInv, NEW c \in Callers, RouterStep(c) PROVE RouterInv'
  BY StartTaskStep, SettleStartStep, EnterCallStep, InspectStep, ComposeStep, LeaveCallStep, EndCancelStep,
     VerifyStatusStep, JudgeStep, CheckReleaseStep, ClaimStep, AwaitOthersStep, ReadStatusStep, FreeEntryStep,
     UnclaimStep, Zenon DEF RouterStep

\* and a step that changes nothing,
LEMMA RouterStutters == ASSUME RouterInv, UNCHANGED routerVars PROVE RouterInv'
<1>1. UNCHANGED <<entry, inFlight, releasing, cancelWanted, started, native, picture, composed, pendingBy, receiptOf,
                  sealedRouter, call>>
  BY DEF routerVars
<1>2. RouterTypeOK' /\ TableInv'
  BY <1>1 DEF RouterInv, RouterTypeOK, TableInv, Kids
<1>3. ASSUME NEW d \in Callers PROVE PlaceInv(d)' /\ InsideInv(d)' /\ StartInv(d)'
  <2>1. PlaceInv(d) /\ InsideInv(d) /\ StartInv(d)
    BY DEF RouterInv
  <2>2. PlaceInv(d)' /\ InsideInv(d)'
    BY <1>1, <2>1 DEF PlaceInv, InsideInv, At, On, Layout
  <2>3. StartInv(d)'
    BY <1>1, <2>1 DEF StartInv, At, On, StartedKids, Kids
  <2> QED
    BY <2>2, <2>3
<1>4. ASSUME NEW f \in Captures PROVE EntryInv(f)' /\ CountInv(f)'
  <2>1. EntryInv(f) /\ CountInv(f)
    BY DEF RouterInv
  <2>2. EntryInv(f)'
    BY <1>1, <2>1 DEF EntryInv, Kids, Layout, At, On
  <2>3. CountInv(f)'
    BY <1>1, <2>1 DEF CountInv, Inside, On
  <2> QED
    BY <2>2, <2>3
<1>5. ReleaseInv' /\ StopInv'
  BY <1>1 DEF RouterInv, ReleaseInv, StopInv, At, On, Inside, Kids
<1>6. SealInv' /\ (ActiveTasks <= MaxNative)'
  BY <1>1, FewerTasks DEF RouterInv, SealInv, CalledBack, StartedKids, Kids
<1> QED
  BY <1>2, <1>3, <1>4, <1>5, <1>6 DEF RouterInv

\* and so every step.
LEMMA RouterNextStep == ASSUME RouterInv, [RouterNext]_routerVars PROVE RouterInv'
<1>1. CASE \E e \in Captures : \E i \in Kids(e) : DrainTask(e, i) \/ Callback(e, i)
  BY <1>1, DrainTaskStep, CallbackStep
<1>2. CASE \E c \in Callers, e \in Captures, op \in RouterOps : RouterCall(c, op, e)
  BY <1>2, RouterCallStep
<1>3. CASE \E c \in Callers : RouterStep(c)
  BY <1>3, RouterStepStep
<1>4. CASE SealRouter
  BY <1>4, SealRouterStep
<1>5. CASE UNCHANGED routerVars
  BY <1>5, RouterStutters
<1> QED
  BY <1>1, <1>2, <1>3, <1>4, <1>5 DEF RouterNext

\* The calls in flight are counted, a start has its capture to itself, what is claimed is the
\* action queue's and found empty before it is freed, and the tasks of listed captures stay
\* within the bound, whatever the queues and ScreenCaptureKit do (capture_router.m).
THEOREM RouterIsConsistent == RouterSpec => []RouterInv
<1>1. RouterInit => RouterInv
  BY RouterInitial
<1>2. RouterInv /\ [RouterNext]_routerVars => RouterInv'
  BY RouterNextStep
<1> QED
  BY <1>1, <1>2, PTL DEF RouterSpec

-----------------------------------------------------------------------------
(* What follows. *)

\* Who is inside finds the entry listed, so nothing of it is freed.
LEMMA UsedAreAlive == RouterInv => InUseIsAlive
<1> SUFFICES ASSUME RouterInv, NEW c \in Callers,
                    call[c].at \in {"settling", "inspecting", "composing", "holding", "leaving", "judging", "cancelling", "reading"}
             PROVE  (\A i \in Kids(On(c)) : native[On(c)][i] \notin {"freed", "twice"}) /\ composed[On(c)] # "freed"
  BY DEF InUseIsAlive
<1>1. On(c) \in Captures /\ EntryInv(On(c)) /\ InsideInv(c)
  BY CallIs
<1>2. entry[On(c)] = "listed"
  <2>1. CASE call[c].at = "reading"
    BY <2>1, ReleaserIs DEF Releasing, Claimed
  <2>2. CASE call[c].at # "reading"
    BY <1>1, <2>2 DEF InsideInv, Indoors
  <2> QED
    BY <2>1, <2>2
<1> QED
  BY <1>1, <1>2 DEF EntryInv

\* No task is freed twice, and a released entry has none left.
LEMMA FreedAreFreedOnce == RouterInv => FreedOnce
<1> SUFFICES ASSUME RouterInv, NEW e \in Captures
             PROVE  /\ \A i \in Kids(e) : native[e][i] # "twice"
                    /\ entry[e] = "released" => /\ \A i \in Kids(e) : native[e][i] \in {"none", "freed"} /\ picture[e][i] # "held"
                                                /\ composed[e] \in {"none", "freed"}
  BY DEF FreedOnce
<1>1. EntryInv(e) /\ entry[e] \in {"absent", "listed", "released"}
  BY DEF RouterInv, RouterTypeOK
<1> QED
  BY <1>1 DEF EntryInv

\* What is claimed is the action queue's.
LEMMA ReleasesAreOwned == RouterInv => ReleasingHasOwner
<1> SUFFICES ASSUME RouterInv, NEW e \in releasing PROVE \E c \in Callers : On(c) = e /\ call[c].at \in Claimed
  BY DEF ReleasingHasOwner, Claimed
<1> QED
  BY OwnerIs DEF RouterInv, ReleaseInv

\* What is alive belongs to listed entries.
LEMMA TasksAreBounded == RouterInv => NativeTasksBounded
<1> SUFFICES ASSUME RouterInv PROVE NativeTasksBounded
  OBVIOUS
<1> DEFINE alive == {t \in Tasks(Captures) : native[t[1]][t[2]] \in {"running", "cancelled", "drained"}}
           listed == {e \in Captures : entry[e] = "listed"}
<1>1. alive \subseteq Tasks(listed)
  <2>1. SUFFICES ASSUME NEW t \in Tasks(Captures), native[t[1]][t[2]] \in {"running", "cancelled", "drained"}
                 PROVE  t \in Tasks(listed)
    OBVIOUS
  <2>2. PICK e \in Captures : t \in {e} \X Kids(e)
    BY DEF Tasks
  <2>3. PICK i \in Kids(e) : t = <<e, i>>
    BY <2>2
  <2>4. native[e][i] \in {"running", "cancelled", "drained"}
    BY <2>1, <2>3
  <2>5. entry[e] = "listed"
    BY <2>4 DEF RouterInv, RouterTypeOK, EntryInv
  <2> QED
    BY <2>2, <2>5 DEF Tasks
<1>2. IsFiniteSet(Tasks(listed)) /\ Cardinality(Tasks(listed)) \in Nat
  BY TasksAreFinite
<1>3. Cardinality(alive) \in Nat /\ Cardinality(alive) <= Cardinality(Tasks(listed))
  BY <1>1, <1>2, FS_Subset, FS_CardinalityType
<1>4. Cardinality(Tasks(listed)) <= MaxNative
  BY DEF RouterInv, ActiveTasks
<1> QED
  BY <1>2, <1>3, <1>4, RouterAssumption DEF NativeTasksBounded

\* What still runs of a capture to be stopped is about to be.
LEMMA StopsReach == RouterInv => StopReaches
<1> SUFFICES ASSUME RouterInv, NEW e \in Captures, e \in cancelWanted \/ started[e] = "failed",
                    \A c \in Callers : On(c) # e, NEW i \in Kids(e), native[e][i] = "running"
             PROVE  FALSE
  BY DEF StopReaches
<1> QED
  BY OwnerIs DEF RouterInv, StopInv

\* A sealed router has neither tasks nor pictures left.
LEMMA SealedAreEmpty == RouterInv => SealedIsEmpty
<1> SUFFICES ASSUME RouterInv, sealedRouter = "ready", NEW e \in Captures, NEW i \in Kids(e)
             PROVE  native[e][i] \in {"none", "freed"} /\ picture[e][i] # "held" /\ (native[e][i] # "none" => picture[e][i] = "freed")
  BY DEF SealedIsEmpty
<1>1. entry[e] \in {"absent", "released"} /\ CalledBack(e) /\ EntryInv(e)
  BY DEF RouterInv, RouterTypeOK, SealInv
<1>2. native[e][i] # "none" => picture[e][i] # "none"
  BY <1>1 DEF CalledBack, StartedKids
<1> QED
  BY <1>1, <1>2 DEF EntryInv

\* All of it together.
LEMMA CapturesAreOwned == RouterInv => OwnedAndSettled
  BY UsedAreAlive, FreedAreFreedOnce, ReleasesAreOwned, TasksAreBounded, StopsReach, SealedAreEmpty DEF OwnedAndSettled

\* Only a release whose authority has none yet leaves its receipt.
LEMMA FinishKeepsReceipts ==
  ASSUME RouterInv, NEW c \in Callers, NEW ok \in BOOLEAN, Finish(c, ok), call[c].at # "none",
         NEW e \in Captures, receiptOf[e] # "none"
  PROVE  receiptOf'[e] = receiptOf[e]
<1>1. call[c].by # "none" => receiptOf[On(c)] = "none"
  BY CallIs, OwnerIs DEF RouterInv, ReleaseInv, PlaceInv
<1>2. receiptOf' \in {receiptOf, [receiptOf EXCEPT ![On(c)] = call[c].by]} /\ (call[c].by = "none" => receiptOf' = receiptOf)
  BY DEF Finish
<1> QED
  BY <1>1, <1>2 DEF RouterInv, RouterTypeOK

\* No step changes a receipt that was given.
LEMMA ReceiptsStay ==
  ASSUME RouterInv, [RouterNext]_routerVars, NEW e \in Captures, receiptOf[e] # "none"
  PROVE  receiptOf'[e] = receiptOf[e]
<1>1. CASE UNCHANGED routerVars \/ SealRouter \/ \E f \in Captures : \E i \in Kids(f) : DrainTask(f, i) \/ Callback(f, i)
  BY <1>1 DEF routerVars, SealRouter, DrainTask, Callback, tableVars
<1>2. ASSUME NEW c \in Callers, NEW f \in Captures, NEW op \in RouterOps, RouterCall(c, op, f)
      PROVE  receiptOf'[e] = receiptOf[e]
  <2>1. CASE StartCapture(c, f) \/ BeginCall(c, op, f) \/ BeginCancel(c, f) \/ BeginRelease(c, f)
    BY <2>1 DEF StartCapture, BeginCall, BeginCancel, BeginRelease, tableVars
  <2>2. ASSUME NEW a \in Authorities, Authorize(c, f, a) PROVE receiptOf'[e] = receiptOf[e]
    <3>1. receiptOf[f] = "none" /\ receiptOf' \in {receiptOf, [receiptOf EXCEPT ![f] = a]}
      BY <2>2 DEF Authorize, Binds
    <3> QED
      BY <3>1 DEF RouterInv, RouterTypeOK
  <2> QED
    BY <1>2, <2>1, <2>2 DEF RouterCall
<1>3. ASSUME NEW c \in Callers, RouterStep(c) PROVE receiptOf'[e] = receiptOf[e]
  <2>1. CASE \/ StartTask(c) \/ SettleStart(c) \/ EnterCall(c) \/ Inspect(c) \/ Compose(c) \/ LeaveCall(c)
             \/ EndCancel(c) \/ AwaitOthers(c)
    BY <2>1 DEF StartTask, SettleStart, EnterCall, Inspect, Compose, LeaveCall, EndCancel, AwaitOthers, tableVars
  <2>2. CASE VerifyStatus(c) \/ Judge(c) \/ CheckRelease(c) \/ Claim(c) \/ ReadStatus(c) \/ FreeEntry(c) \/ Unclaim(c)
    <3>1. call[c].at # "none" /\ (receiptOf' = receiptOf \/ \E ok \in BOOLEAN : Finish(c, ok))
      BY <2>2 DEF VerifyStatus, Judge, CheckRelease, Claim, ReadStatus, FreeEntry, Unclaim, At
    <3> QED
      BY <3>1, FinishKeepsReceipts
  <2> QED
    BY <1>3, <2>1, <2>2 DEF RouterStep
<1> QED
  BY <1>1, <1>2, <1>3 DEF RouterNext

\* Nothing a call uses is freed under it, everything is freed once, a release is in a
\* caller's hands, what is to be stopped is stopped, a sealed router is empty, the native tasks
\* stay within their bound, and a receipt is given for a release and stays what it is.
THEOREM CapturesStayOwned == RouterSpec => CaptureOwnership
<1>1. RouterSpec => []RouterInv
  BY RouterIsConsistent
<1>2. RouterInv' => OwnedAndSettled'
  BY CapturesAreOwned, PTL
<1>3. RouterInv' => \A e \in Captures : receiptOf'[e] # "none" => entry'[e] = "released"
  BY DEF RouterInv, EntryInv
<1>4. RouterInv /\ RouterInv' /\ [RouterNext]_routerVars =>
        [/\ OwnedAndSettled'
         /\ \A e \in Captures : /\ receiptOf[e] # "none" => receiptOf'[e] = receiptOf[e]
                               /\ receiptOf'[e] # "none" => entry'[e] = "released"]_routerVars
  BY <1>2, <1>3, ReceiptsStay
<1> QED
  BY <1>1, <1>4, PTL DEF RouterSpec, CaptureOwnership

-----------------------------------------------------------------------------
(* The input executor.                                                     *)

ExecutorSpec == ExecutorInit /\ [][ExecutorNext]_executorVars

USE DEF execVars, storeVars, machine, faultVars, executorVars

-----------------------------------------------------------------------------
(* The inductive invariant. *)

\* A snapshot, on its way or stored.
File == [input : 0..MaxInputs, revision : Nat, entries : Seq([code : Codes, state : States])]

Status ==
  [active : BOOLEAN, quarantined : BOOLEAN, attempts : Nat, cleanup : {"complete", "unknown"},
   execution : {"idle", "dispatching", "cancelling", "stopped", "finished", "quarantined"},
   dispatch : {"none", "attempted", "partial", "finished", "unknown"}]

\* The types of all that is not a bound.
TypeInv ==
  /\ step \in StepNames /\ again \in BOOLEAN /\ cursor \in 0..Len(entries)
  /\ entries \in Seq(Entry) /\ revision \in Nat /\ unavailable \in BOOLEAN
  /\ status \in Status /\ inputs \in 0..MaxInputs
  /\ sealed \in {"no", "dirty", "clean"} /\ reply \in {"none", "waiting", "ok", "no"}
  /\ wire \in File /\ durable \in [1..MaxInputs -> File]
  /\ physical \subseteq Codes /\ downs \in [Codes -> Nat] /\ ups \in [Codes -> Nat]
  /\ entries # <<>> \/ step = "call" => inputs > 0

\* What is left of a plan while nothing is held, and while its last key is.
Closed ==
  Plans \cup {<<>>} \cup {<<Down(c), Event, Up(c)>> : c \in Codes}
        \cup {<<Down(c), Up(c), Down(c), Up(c)>> : c \in Codes}
Open ==
  {<<Up(c)>> : c \in Codes} \cup {<<Up(c), Down(d), Up(d)>> : c, d \in Codes}
  \cup {<<Event, Up(c)>> : c \in Codes}

LastEntry == entries[Current]

\* An entry that needs nothing any more, and one that needs its up.
Clean(e) == e.state = "released" /\ ~e.live /\ ~e.prepared /\ ~e.lost
Owed(e) == e.live /\ ~e.attempted /\ ~e.prepared
NoEntry == entries = <<>> \/ Clean(LastEntry)

\* The plan goes with what is held.
PlanInv ==
  /\ step = "call" => \/ NoEntry /\ calls \in Closed
                      \/ entries # <<>> /\ Owed(LastEntry) /\ ~LastEntry.lost /\ calls \in Open
  /\ step \in {"down_intent", "down_ready", "down_done"} =>
       calls \in Closed /\ calls # <<>> /\ Head(calls).call = "down"
  /\ step \in {"up_intent", "up_ready", "up_done"} =>
       calls \in Open /\ Head(calls).call = "up"

\* Only the last entry may need anything, and what it is depends on the step.
LedgerEntryInv ==
  /\ \A i \in 1..Len(entries) : i # Current => Clean(entries[i])
  /\ entries # <<>> => /\ LastEntry.live => ~LastEntry.prepared
                       /\ LastEntry.state = "released" => ~LastEntry.live /\ ~LastEntry.prepared
  /\ step \notin {"idle", "call", "release", "dead"} => entries # <<>>
  /\ step \in {"down_intent", "down_ready"} =>
       LastEntry.state = "pending-down" /\ ~LastEntry.live /\ ~LastEntry.attempted
  /\ step \in {"down_intent", "down_ready", "down_done", "up_intent", "up_ready", "up_done"} =>
       ~LastEntry.lost
  /\ step \in {"down_done", "up_intent", "up_ready", "cleanup_intent", "cleanup_ready"} => Owed(LastEntry)
  /\ step \in {"up_done", "close_done", "cleanup_done"} => LastEntry.state = "released"
  /\ step \in {"report", "cleanup_report"} => LastEntry.state = "uncertain"
  /\ step \in {"cleanup_intent", "cleanup_ready", "cleanup_done", "cleanup_report"} =>
       cursor = Current
  /\ step = "idle" /\ ~status.quarantined => NoEntry

\* The steps at which the worker waits for an answer.
Waits ==
  {"down_intent", "down_done", "up_intent", "up_done", "report", "close_done",
   "cleanup_intent", "cleanup_done", "cleanup_report"}

\* A snapshot says of the ledger what it is.
Shows(file, es) ==
  /\ Len(file.entries) = Len(es)
  /\ \A i \in 1..Len(es) : file.entries[i].code = es[i].code /\ file.entries[i].state = es[i].state

Synced == wire.revision = 0 /\ (inputs > 0 => Shows(durable[inputs], entries))

\* A snapshot on its way is one of the current operation, an acknowledged one is stored, and
\* while all is well the store shows a ledger that needs nothing.  Then the next operation
\* begins, so the ledgers of earlier ones are released.
WireInv ==
  /\ reply # "none" <=> step \in Waits
  /\ wire.revision > 0 => wire.input = inputs /\ inputs > 0
  /\ reply = "waiting" => wire.revision > 0 /\ Shows(wire, entries)
  /\ reply = "ok" => Synced
  /\ step = "down_ready" => Synced
  /\ reply = "none" /\ step # "dead" /\ ~status.quarantined /\ NoEntry => Synced
  /\ \A n \in 1..MaxInputs :
       /\ n < inputs => \A i \in 1..Len(durable[n].entries) : durable[n].entries[i].state = "released"
       /\ n > inputs => durable[n].entries = <<>>

\* The store keeps the last entry as one that may be held.
Covers(file, es) ==
  /\ Len(file.entries) = Len(es)
  /\ file.entries[Len(es)].code = es[Len(es)].code /\ file.entries[Len(es)].state # "released"

\* What is down is the code of the last entry, and neither the stored snapshot nor the one
\* on its way calls it released.
HeldInv ==
  /\ physical # {} => /\ entries # <<>> /\ physical = {LastEntry.code}
                      /\ LastEntry.state # "released" /\ ~LastEntry.prepared
                      /\ Covers(durable[inputs], entries)
                      /\ wire.revision > 0 => Covers(wire, entries)
  /\ step \in {"down_intent", "down_ready"} => physical = {}

\* An entry that still owes its up has a down to match.
PostsInv ==
  /\ \A c \in Codes : ups[c] <= downs[c]
  /\ entries # <<>> /\ Owed(LastEntry) => ups[LastEntry.code] < downs[LastEntry.code]

SealedInv ==
  /\ sealed # "no" => step \in {"idle", "dead"}
  /\ sealed = "clean" =>
       /\ physical = {} /\ wire.revision = 0
       /\ \A n \in 1..MaxInputs : Unreleased(durable[n].entries) = {}

ExecutorInv == TypeInv /\ PlanInv /\ LedgerEntryInv /\ WireInv /\ HeldInv /\ PostsInv /\ SealedInv

-----------------------------------------------------------------------------
(* Lemmas about plans, entries and snapshots. *)

\* The steps through a plan with nothing held.
LEMMA ClosedPlan ==
  ASSUME NEW cs \in Closed, cs # <<>>
  PROVE  /\ Head(cs).call \in {"down", "event"}
         /\ Head(cs).call = "event" => Tail(cs) \in Closed
         /\ Head(cs).call = "down" => Tail(cs) \in Open /\ Head(cs).code \in Codes
<1>1. CASE \E c \in Codes : cs = <<Down(c), Up(c)>>
  <2>1. PICK c \in Codes : cs = <<Down(c), Up(c)>>
    BY <1>1
  <2>2. Head(cs) = Down(c) /\ Tail(cs) = <<Up(c)>>
    BY <2>1
  <2> QED
    BY <2>2 DEF Down, Open
<1>2. CASE \E c, d \in Codes : cs = <<Down(c), Up(c), Down(d), Up(d)>>
  <2>1. PICK c \in Codes, d \in Codes : cs = <<Down(c), Up(c), Down(d), Up(d)>>
    BY <1>2
  <2>2. Head(cs) = Down(c) /\ Tail(cs) = <<Up(c), Down(d), Up(d)>>
    BY <2>1
  <2> QED
    BY <2>2 DEF Down, Open
<1>3. CASE cs = <<Event>> \/ cs = <<Event, Event>>
  <2>1. ASSUME cs = <<Event>> PROVE Head(cs) = Event /\ Tail(cs) = <<>>
    BY <2>1
  <2>2. ASSUME cs = <<Event, Event>> PROVE Head(cs) = Event /\ Tail(cs) = <<Event>>
    BY <2>2
  <2> QED
    BY <1>3, <2>1, <2>2 DEF Event, Closed, Plans, TextPlans
<1>4. CASE \E c \in Codes : cs = <<Event, Down(c), Up(c), Down(c), Up(c)>>
  <2>1. PICK c \in Codes : cs = <<Event, Down(c), Up(c), Down(c), Up(c)>>
    BY <1>4
  <2>2. Head(cs) = Event /\ Tail(cs) = <<Down(c), Up(c), Down(c), Up(c)>>
    BY <2>1
  <2> QED
    BY <2>2 DEF Event, Closed
<1>5. CASE \E c \in Codes : cs = <<Event, Down(c), Event, Up(c)>>
  <2>1. PICK c \in Codes : cs = <<Event, Down(c), Event, Up(c)>>
    BY <1>5
  <2>2. Head(cs) = Event /\ Tail(cs) = <<Down(c), Event, Up(c)>>
    BY <2>1
  <2> QED
    BY <2>2 DEF Event, Closed
<1>6. CASE \E c \in Codes : cs = <<Down(c), Event, Up(c)>>
  <2>1. PICK c \in Codes : cs = <<Down(c), Event, Up(c)>>
    BY <1>6
  <2>2. Head(cs) = Down(c) /\ Tail(cs) = <<Event, Up(c)>>
    BY <2>1
  <2> QED
    BY <2>2 DEF Down, Open
<1>7. CASE \E c \in Codes : cs = <<Down(c), Up(c), Down(c), Up(c)>>
  BY <1>2, <1>7
<1>8. ASSUME cs \in KeyPlans
      PROVE  (\E c \in Codes : cs = <<Down(c), Up(c)>>)
             \/ (\E c, d \in Codes : cs = <<Down(c), Up(c), Down(d), Up(d)>>)
  BY <1>8 DEF KeyPlans
<1>9. ASSUME cs \in PointerPlans \cup TextPlans
      PROVE  \/ cs = <<Event>> \/ cs = <<Event, Event>>
             \/ \E c \in Codes : cs = <<Event, Down(c), Up(c), Down(c), Up(c)>>
             \/ \E c \in Codes : cs = <<Event, Down(c), Event, Up(c)>>
  BY <1>9 DEF PointerPlans, TextPlans
<1>10. \/ cs \in KeyPlans \/ cs \in PointerPlans \cup TextPlans
       \/ \E c \in Codes : cs = <<Down(c), Event, Up(c)>>
       \/ \E c \in Codes : cs = <<Down(c), Up(c), Down(c), Up(c)>>
  BY DEF Closed, Plans
<1> QED
  BY <1>1, <1>2, <1>3, <1>4, <1>5, <1>6, <1>7, <1>8, <1>9, <1>10

\* The steps through a plan with a key held.
LEMMA OpenPlan ==
  ASSUME NEW cs \in Open
  PROVE  /\ cs # <<>> /\ Head(cs).call \in {"up", "event"}
         /\ Head(cs).call = "event" => Tail(cs) \in Open
         /\ Head(cs).call = "up" => Tail(cs) \in Closed
<1>1. CASE \E c \in Codes : cs = <<Up(c)>>
  <2>1. PICK c \in Codes : cs = <<Up(c)>>
    BY <1>1
  <2>2. Head(cs) = Up(c) /\ Tail(cs) = <<>> /\ cs # <<>>
    BY <2>1
  <2> QED
    BY <2>2 DEF Up, Closed
<1>2. CASE \E c, d \in Codes : cs = <<Up(c), Down(d), Up(d)>>
  <2>1. PICK c \in Codes, d \in Codes : cs = <<Up(c), Down(d), Up(d)>>
    BY <1>2
  <2>2. Head(cs) = Up(c) /\ Tail(cs) = <<Down(d), Up(d)>> /\ cs # <<>>
    BY <2>1
  <2> QED
    BY <2>2 DEF Up, Closed, Plans, KeyPlans
<1>3. CASE \E c \in Codes : cs = <<Event, Up(c)>>
  <2>1. PICK c \in Codes : cs = <<Event, Up(c)>>
    BY <1>3
  <2>2. Head(cs) = Event /\ Tail(cs) = <<Up(c)>> /\ cs # <<>>
    BY <2>1
  <2> QED
    BY <2>2 DEF Event, Open
<1> QED
  BY <1>1, <1>2, <1>3 DEF Open

\* What a changed entry keeps.
LEMMA WithIs ==
  ASSUME TypeInv, NEW i \in 1..Len(entries), NEW ch, Changed(entries[i], ch) \in Entry,
         entries' = With(i, ch)
  PROVE  /\ entries' \in Seq(Entry) /\ Len(entries') = Len(entries) /\ entries' # <<>>
         /\ Len(entries) \in Nat \ {0}
         /\ entries'[i] = Changed(entries[i], ch)
         /\ \A j \in 1..Len(entries) : j # i => entries'[j] = entries[j]
<1> DEFINE new == Changed(entries[i], ch)
<1>1. entries' = [entries EXCEPT ![i] = new]
  BY DEF With
<1>2. new \in Entry
  OBVIOUS
<1>3. entries \in Seq(Entry) /\ Len(entries) \in Nat
  BY DEF TypeInv
<1> HIDE DEF new
<1>4. entries' \in Seq(Entry) /\ Len(entries') = Len(entries)
  BY <1>1, <1>2, <1>3
<1>5. entries'[i] = new /\ \A j \in 1..Len(entries) : j # i => entries'[j] = entries[j]
  BY <1>1, <1>3
<1> QED
  BY <1>3, <1>4, <1>5 DEF new

\* What a snapshot says.
LEMMA SnapshotIs ==
  ASSUME TypeInv, NEW es \in Seq(Entry), NEW r \in Nat
  PROVE  /\ Snapshot(es, r) \in File
         /\ Snapshot(es, r).input = inputs /\ Snapshot(es, r).revision = r
         /\ Shows(Snapshot(es, r), es)
<1> DEFINE f == [i \in DOMAIN es |-> [code |-> es[i].code, state |-> es[i].state]]
<1>1. \A i \in DOMAIN es : es[i] \in Entry
  OBVIOUS
<1>2. \A i \in DOMAIN es : f[i] \in [code : Codes, state : States]
  BY <1>1 DEF Entry
<1>3. DOMAIN f = 1..Len(es) /\ Len(es) \in Nat
  OBVIOUS
<1>4. f \in Seq([code : Codes, state : States]) /\ Len(f) = Len(es)
  BY <1>2, <1>3
<1>5. \A i \in 1..Len(es) : f[i].code = es[i].code /\ f[i].state = es[i].state
  BY <1>3
<1>6. Snapshot(es, r) = [input |-> inputs, revision |-> r, entries |-> f]
  BY DEF Snapshot
<1> HIDE DEF f
<1> QED
  BY <1>4, <1>5, <1>6 DEF TypeInv, File, Shows

-----------------------------------------------------------------------------
(* Lemmas about the steps of the worker. *)

\* A change is handed to the store, or to nobody once durability is lost.
LEMMA PersistIs ==
  ASSUME ExecutorInv, inputs > 0, NEW es \in Seq(Entry), es # <<>>, NEW s \in Waits,
         Persist(es, s), UNCHANGED inputs
  PROVE  /\ entries' = es /\ step' = s /\ UNCHANGED <<revision, unavailable, durable>>
         /\ reply' \in {"waiting", "no"} /\ wire' \in File
         /\ wire' = wire \/ Shows(wire', es)
         /\ WireInv'
<1> USE DEF ExecutorInv
<1>1. /\ entries' = es /\ step' = s /\ UNCHANGED <<revision, unavailable, durable>>
      /\ reply' \in {"waiting", "no"}
      /\ \/ reply' = "no" /\ wire' = wire
         \/ reply' = "waiting" /\ wire' = Snapshot(es, revision + 1)
  BY DEF Persist
<1>2. /\ Snapshot(es, revision + 1) \in File /\ Snapshot(es, revision + 1).input = inputs
      /\ Snapshot(es, revision + 1).revision = revision + 1 /\ Shows(Snapshot(es, revision + 1), es)
  BY SnapshotIs DEF TypeInv
<1>3. revision + 1 > 0
  BY DEF TypeInv
<1>4. wire \in File
  BY DEF TypeInv
<1>5. WireInv'
  BY <1>1, <1>2, <1>3 DEF WireInv, Waits
<1> QED
  BY <1>1, <1>2, <1>4, <1>5

\* The store has acknowledged the snapshot, and the ledger is what it said.
LEMMA Acknowledged ==
  ASSUME ExecutorInv, Answered(TRUE), step' \notin Waits, UNCHANGED inputs, Len(entries') = Len(entries),
         \A i \in 1..Len(entries) : entries'[i].code = entries[i].code /\ entries'[i].state = entries[i].state
  PROVE  WireInv' /\ reply' = "none" /\ Synced
<1> USE DEF ExecutorInv
<1>1. reply = "ok" /\ reply' = "none" /\ UNCHANGED <<wire, durable>>
  BY DEF Answered
<1>2. Synced
  BY <1>1 DEF WireInv
<1>3. Synced'
  BY <1>1, <1>2 DEF Synced, Shows
<1> QED
  BY <1>1, <1>2, <1>3 DEF WireInv

\* The store has not, and the operation will not go on.
LEMMA Refused ==
  ASSUME ExecutorInv, Answered(FALSE), step' \notin Waits \cup {"down_ready"}, UNCHANGED inputs,
         status'.quarantined \/ ~NoEntry'
  PROVE  WireInv' /\ reply' = "none"
  BY DEF ExecutorInv, Answered, WireInv

\* The store is not concerned.
LEMMA NotAsked ==
  ASSUME ExecutorInv, Unasked, UNCHANGED inputs, step \notin Waits \cup {"dead"},
         step' \notin Waits \cup {"down_ready"},
         \/ status'.quarantined \/ ~NoEntry'
         \/ ~status.quarantined /\ NoEntry /\ entries' = entries
  PROVE  WireInv' /\ reply' = "none"
<1> USE DEF ExecutorInv
<1>1. reply = "none" /\ UNCHANGED <<wire, durable, reply>>
  BY DEF Unasked, WireInv, Waits
<1>2. CASE status'.quarantined \/ ~NoEntry'
  BY <1>1, <1>2 DEF WireInv
<1>3. CASE ~status.quarantined /\ NoEntry /\ entries' = entries
  <2>1. Synced'
    BY <1>1, <1>3 DEF WireInv, Synced
  <2> QED
    BY <1>1, <2>1 DEF WireInv
<1> QED
  BY <1>2, <1>3

\* What is down stays on record as long as its entry is not released.
LEMMA HeldKept ==
  ASSUME ExecutorInv, physical' \subseteq physical, Len(entries') = Len(entries),
         UNCHANGED <<inputs, durable>>,
         wire' = wire \/ Shows(wire', entries'),
         physical' # {} => /\ entries' # <<>> /\ LastEntry'.code = LastEntry.code
                           /\ LastEntry'.state # "released" /\ ~LastEntry'.prepared,
         step' \in {"down_intent", "down_ready"} => physical' = {}
  PROVE  HeldInv'
<1> USE DEF ExecutorInv
<1> SUFFICES ASSUME physical' # {}
             PROVE  /\ physical' = {LastEntry'.code} /\ Covers(durable'[inputs'], entries')
                    /\ wire'.revision > 0 => Covers(wire', entries')
  BY DEF HeldInv
<1>1. /\ entries # <<>> /\ physical' = {LastEntry.code} /\ Covers(durable[inputs], entries)
      /\ wire.revision > 0 => Covers(wire, entries)
  BY DEF HeldInv
<1>2. \A f : Covers(f, entries) => Covers(f, entries')
  BY DEF Covers, LastEntry, Current
<1>3. Len(entries') \in 1..Len(entries')
  BY <1>1 DEF TypeInv
<1>4. Shows(wire', entries') => Covers(wire', entries')
  BY <1>3 DEF Covers, Shows, LastEntry, Current
<1> QED
  BY <1>1, <1>2, <1>4

\* No event is posted, and no entry comes to owe its up.
LEMMA CountKept ==
  ASSUME ExecutorInv, UNCHANGED <<downs, ups>>,
         entries' # <<>> /\ Owed(LastEntry)' => entries # <<>> /\ Owed(LastEntry) /\ LastEntry'.code = LastEntry.code
  PROVE  PostsInv'
  BY DEF ExecutorInv, PostsInv

\* NoEntry has been sealed while the worker is at work.
LEMMA SealKept ==
  ASSUME ExecutorInv, step \notin {"idle", "dead"}, UNCHANGED sealed PROVE SealedInv'
  BY DEF ExecutorInv, SealedInv

-----------------------------------------------------------------------------
(* The calls of a plan. *)

\* The intention to press is handed to the store.
LEMMA AnnounceDownStep == ASSUME ExecutorInv, AnnounceDown PROVE ExecutorInv'
<1> USE DEF ExecutorInv
<1> DEFINE new == Fresh(Head(calls).code)
           es == Append(entries, new)
<1>0. /\ step = "call" /\ calls # <<>> /\ Head(calls).call = "down" /\ Persist(es, "down_intent")
      /\ UNCHANGED <<calls, again, cursor, status, inputs, sealed, machine>>
  BY DEF AnnounceDown
<1>1. /\ step = "call" /\ calls # <<>> /\ Head(calls).call = "down" /\ inputs > 0
      /\ Persist(es, "down_intent")
      /\ UNCHANGED <<calls, again, cursor, status, inputs, sealed, machine>>
  BY <1>0 DEF TypeInv
<1>2. NoEntry /\ calls \in Closed /\ Head(calls).code \in Codes
  BY <1>1, OpenPlan, ClosedPlan DEF PlanInv
<1>3. /\ new \in Entry /\ new.state = "pending-down" /\ ~new.live /\ ~new.attempted /\ ~new.lost
      /\ ~new.prepared
  BY <1>2 DEF Fresh, Entry, States
<1> HIDE DEF new
<1>4. /\ es \in Seq(Entry) /\ Len(es) = Len(entries) + 1 /\ Len(entries) \in Nat /\ es[Len(es)] = new
      /\ \A i \in 1..Len(entries) : es[i] = entries[i]
  BY <1>3 DEF TypeInv
<1>5. es # <<>> /\ "down_intent" \in Waits
  BY <1>4 DEF Waits
<1> HIDE DEF es
<1>6. /\ entries' = es /\ step' = "down_intent" /\ UNCHANGED <<revision, unavailable, durable>>
      /\ reply' \in {"waiting", "no"} /\ wire' \in File /\ WireInv'
  BY <1>1, <1>4, <1>5, PersistIs
<1>7. physical = {}
  BY <1>2 DEF HeldInv, NoEntry, Clean
<1>8. TypeInv'
  BY <1>1, <1>4, <1>6 DEF TypeInv, StepNames
<1>9. PlanInv'
  BY <1>1, <1>2, <1>6 DEF PlanInv
<1>10. LedgerEntryInv'
  <2>1. LastEntry' = new
    BY <1>4, <1>6 DEF LastEntry, Current
  <2>2. \A i \in 1..Len(entries) : Clean(entries[i])
    BY <1>2, <1>4 DEF LedgerEntryInv, NoEntry, LastEntry, Current
  <2>3. \A i \in 1..Len(entries') : i # Len(entries') => Clean(entries'[i])
    BY <1>4, <1>6, <2>2
  <2> QED
    BY <1>1, <1>3, <1>5, <1>6, <2>1, <2>3 DEF LedgerEntryInv, Current
<1>11. HeldInv'
  BY <1>1, <1>7 DEF HeldInv
<1>12. PostsInv'
  BY <1>1, <1>3, <1>4, <1>6 DEF PostsInv, Owed, LastEntry, Current
<1>13. SealedInv'
  BY <1>1, SealKept
<1> QED
  BY <1>6, <1>8, <1>9, <1>10, <1>11, <1>12, <1>13

\* What a change makes of the last entry, or of the one under the cursor.
LEMMA LastChanges ==
  ASSUME TypeInv, entries # <<>>, NEW ch, Changed(LastEntry, ch) \in Entry, entries' = With(Current, ch)
  PROVE  /\ entries' \in Seq(Entry) /\ Len(entries') = Len(entries) /\ entries' # <<>>
         /\ Len(entries) \in Nat \ {0}
         /\ LastEntry' = Changed(LastEntry, ch)
         /\ \A i \in 1..Len(entries) : i # Current => entries'[i] = entries[i]
<1>1. Current \in 1..Len(entries)
  BY DEF TypeInv, Current
<1>2. Changed(entries[Current], ch) \in Entry
  BY DEF LastEntry
<1> QED
  BY <1>1, <1>2, WithIs DEF LastEntry, Current

\* Durability is lost: the entry may be held, and the release begins.
LEMMA DurabilityLost ==
  ASSUME ExecutorInv, step \in {"down_intent", "down_done", "up_intent", "up_done"}, LoseDurability,
         \/ StartRelease /\ status' = status
         \/ Quarantine /\ cursor' = cursor,
         again' \in BOOLEAN, UNCHANGED <<inputs, sealed, machine>>
  PROVE  ExecutorInv'
<1> USE DEF ExecutorInv
<1> DEFINE ch == [state |-> "uncertain", lost |-> TRUE]
<1>1. entries # <<>> /\ LastEntry \in Entry
  BY DEF LedgerEntryInv, TypeInv, LastEntry, Current
<1>2. /\ Changed(LastEntry, ch) \in Entry /\ Changed(LastEntry, ch).state = "uncertain" /\ Changed(LastEntry, ch).lost
      /\ Changed(LastEntry, ch).code = LastEntry.code /\ Changed(LastEntry, ch).live = LastEntry.live
      /\ Changed(LastEntry, ch).prepared = LastEntry.prepared /\ Changed(LastEntry, ch).attempted = LastEntry.attempted
  BY <1>1 DEF Changed, Entry, States
<1>3. entries' = With(Current, ch)
  BY DEF LoseDurability
<1> HIDE DEF ch
<1>4. /\ entries' \in Seq(Entry) /\ Len(entries') = Len(entries) /\ entries' # <<>>
      /\ Len(entries) \in Nat \ {0} /\ LastEntry' = Changed(LastEntry, ch)
      /\ \A i \in 1..Len(entries) : i # Current => entries'[i] = entries[i]
  BY <1>1, <1>2, <1>3, LastChanges
<1>5. /\ Answered(FALSE) /\ UNCHANGED <<wire, durable>> /\ revision' = revision /\ unavailable' \in BOOLEAN
  BY DEF LoseDurability, Answered, TypeInv
<1>6. /\ step' \in {"release", "idle"} /\ cursor' \in 0..Len(entries') /\ status' \in Status
      /\ step' = "idle" => status'.quarantined
  <2>1. CASE StartRelease /\ status' = status
    BY <1>4, <2>1 DEF StartRelease, TypeInv
  <2>2. CASE Quarantine /\ cursor' = cursor
    BY <1>4, <2>2 DEF Quarantine, TypeInv, Status
  <2> QED
    BY <2>1, <2>2
<1>7. ~NoEntry'
  BY <1>2, <1>4 DEF NoEntry, Clean
<1>8. WireInv' /\ reply' = "none"
  BY <1>5, <1>6, <1>7, Refused DEF Waits
<1>9. TypeInv'
  BY <1>4, <1>5, <1>6, <1>8 DEF TypeInv, StepNames
<1>10. PlanInv'
  BY <1>6 DEF PlanInv
<1>11. LedgerEntryInv'
  BY <1>2, <1>4, <1>6 DEF LedgerEntryInv, Current
<1>12. HeldInv'
  <2>1. physical # {} => ~LastEntry.prepared
    BY DEF HeldInv
  <2> QED
    BY <1>2, <1>4, <1>5, <1>6, <2>1, HeldKept
<1>13. PostsInv'
  BY <1>1, <1>2, <1>4, CountKept DEF Owed
<1>14. SealedInv'
  BY SealKept
<1> QED
  BY <1>8, <1>9, <1>10, <1>11, <1>12, <1>13, <1>14

\* The answers to what post_down and post_up hand to the store.
LEMMA DownAnnouncedStep == ASSUME ExecutorInv, DownAnnounced PROVE ExecutorInv'
<1> USE DEF ExecutorInv
<1>1. step = "down_intent" /\ UNCHANGED <<calls, again, status, inputs, sealed, machine>>
  BY DEF DownAnnounced
<1>2. CASE LoseDurability /\ StartRelease
  BY <1>1, <1>2, DurabilityLost DEF TypeInv
<1>3. CASE Answered(TRUE) /\ step' = "down_ready" /\ cursor' = cursor
           /\ entries' = With(Current, [prepared |-> TRUE])
  <2> DEFINE ch == [prepared |-> TRUE]
  <2>1. entries # <<>> /\ LastEntry \in Entry
    BY <1>1 DEF LedgerEntryInv, TypeInv, LastEntry, Current
  <2>2. /\ Changed(LastEntry, ch) \in Entry /\ Changed(LastEntry, ch).state = LastEntry.state
        /\ Changed(LastEntry, ch).lost = LastEntry.lost /\ Changed(LastEntry, ch).code = LastEntry.code
        /\ Changed(LastEntry, ch).live = LastEntry.live /\ Changed(LastEntry, ch).attempted = LastEntry.attempted
    BY <2>1 DEF Changed, Entry, States
  <2> HIDE DEF ch
  <2>3. entries' = With(Current, ch)
    BY <1>3 DEF ch
  <2>4. /\ entries' \in Seq(Entry) /\ Len(entries') = Len(entries) /\ entries' # <<>>
        /\ Len(entries) \in Nat \ {0} /\ LastEntry' = Changed(LastEntry, ch)
        /\ \A i \in 1..Len(entries) : i # Current => entries'[i] = entries[i]
    BY <2>1, <2>2, <2>3, LastChanges
  <2>5. \A i \in 1..Len(entries) : entries'[i].code = entries[i].code /\ entries'[i].state = entries[i].state
    BY <2>2, <2>4 DEF LastEntry, Current
  <2>6. WireInv' /\ reply' = "none"
    BY <1>1, <1>3, <2>4, <2>5, Acknowledged DEF Waits
  <2>7. TypeInv'
    BY <1>1, <1>3, <2>4, <2>6 DEF TypeInv, StepNames, Answered
  <2>8. PlanInv'
    BY <1>1, <1>3 DEF PlanInv
  <2>9. LedgerEntryInv'
    BY <1>1, <1>3, <2>2, <2>4 DEF LedgerEntryInv, Current
  <2>10. HeldInv'
    BY <1>1 DEF HeldInv
  <2>11. PostsInv'
    BY <1>1, <2>1, <2>2, <2>4, CountKept DEF Owed, LedgerEntryInv
  <2>12. SealedInv'
    BY <1>1, SealKept
  <2> QED
    BY <2>6, <2>7, <2>8, <2>9, <2>10, <2>11, <2>12
<1> QED
  BY <1>2, <1>3 DEF DownAnnounced

\* The last entry changes and is handed to the store.
LEMMA LastPersisted ==
  ASSUME ExecutorInv, inputs > 0, entries # <<>>, NEW ch, NEW s \in Waits, Changed(LastEntry, ch) \in Entry,
         Persist(With(Current, ch), s), UNCHANGED inputs
  PROVE  /\ entries' \in Seq(Entry) /\ Len(entries') = Len(entries) /\ entries' # <<>>
         /\ Len(entries) \in Nat \ {0} /\ LastEntry' = Changed(LastEntry, ch)
         /\ \A i \in 1..Len(entries) : i # Current => entries'[i] = entries[i]
         /\ step' = s /\ UNCHANGED <<revision, unavailable, durable>>
         /\ reply' \in {"waiting", "no"} /\ wire' \in File
         /\ wire' = wire \/ Shows(wire', entries')
         /\ WireInv'
<1>1. entries' = With(Current, ch)
  BY DEF Persist
<1>2. /\ entries' \in Seq(Entry) /\ Len(entries') = Len(entries) /\ entries' # <<>>
      /\ Len(entries) \in Nat \ {0} /\ LastEntry' = Changed(LastEntry, ch)
      /\ \A i \in 1..Len(entries) : i # Current => entries'[i] = entries[i]
  BY <1>1, LastChanges DEF ExecutorInv
<1>3. With(Current, ch) \in Seq(Entry) /\ With(Current, ch) # <<>>
  BY <1>1, <1>2
<1>4. /\ step' = s /\ UNCHANGED <<revision, unavailable, durable>>
      /\ reply' \in {"waiting", "no"} /\ wire' \in File
      /\ wire' = wire \/ Shows(wire', entries')
      /\ WireInv'
  BY <1>1, <1>3, PersistIs
<1> QED
  BY <1>2, <1>4

\* A snapshot that shows an unreleased last entry covers it.
LEMMA ShowsCovers ==
  ASSUME TypeInv, entries # <<>>, NEW f, Shows(f, entries), LastEntry.state # "released"
  PROVE  Covers(f, entries)
<1>1. Len(entries) \in 1..Len(entries)
  BY DEF TypeInv
<1> QED
  BY <1>1 DEF Shows, Covers, LastEntry, Current

\* An event counts as an attempt.
LEMMA StatusPosts ==
  ASSUME TypeInv, NEW d \in {"none", "attempted", "partial"},
         status' = [status EXCEPT !.attempts = @ + 1, !.dispatch = d]
         \/ status' = [status EXCEPT !.attempts = @ + 1]
  PROVE  status' \in Status /\ status'.quarantined = status.quarantined
<1>1. status \in Status /\ status.attempts + 1 \in Nat
  BY DEF TypeInv, Status
<1> DEFINE n == status.attempts + 1
<1>2. status' = [status EXCEPT !.attempts = n, !.dispatch = d] \/ status' = [status EXCEPT !.attempts = n]
  OBVIOUS
<1> HIDE DEF n
<1>3. n \in Nat
  BY <1>1 DEF n
<1> QED
  BY <1>1, <1>2, <1>3 DEF Status

\* The down is posted.
LEMMA PostDownStep == ASSUME ExecutorInv, PostDown PROVE ExecutorInv'
<1> USE DEF ExecutorInv
<1> DEFINE c == LastEntry.code
<1>1. /\ step = "down_ready" /\ entries # <<>> /\ LastEntry \in Entry /\ inputs > 0 /\ c \in Codes
      /\ UNCHANGED <<calls, again, cursor, inputs, sealed>>
  <2>1. step = "down_ready" /\ UNCHANGED <<calls, again, cursor, inputs, sealed>>
    BY DEF PostDown, ReadyToPost
  <2>2. entries # <<>>
    BY <2>1 DEF LedgerEntryInv
  <2>3. LastEntry \in Entry /\ inputs > 0
    BY <2>2 DEF TypeInv, LastEntry, Current
  <2> QED
    BY <2>1, <2>2, <2>3 DEF Entry
<1>2. /\ LastEntry.state = "pending-down" /\ ~LastEntry.live /\ ~LastEntry.attempted /\ ~LastEntry.lost /\ Synced
      /\ physical = {}
  BY <1>1 DEF LedgerEntryInv, WireInv, HeldInv
<1>3. /\ downs' = [downs EXCEPT ![c] = @ + 1] /\ ups' = ups
      /\ status' = [status EXCEPT !.attempts = @ + 1, !.dispatch = "attempted"]
  BY DEF PostDown, LastEntry
<1>4. status' \in Status
  BY <1>3, StatusPosts
<1>5. downs' \in [Codes -> Nat] /\ downs'[c] = downs[c] + 1 /\ \A d \in Codes : d # c => downs'[d] = downs[d]
  BY <1>1, <1>3 DEF TypeInv
<1>6. Covers(durable[inputs], entries) /\ wire.revision = 0
  BY <1>1, <1>2, ShowsCovers DEF Synced
<1>7. ASSUME NEW ch, Changed(LastEntry, ch) \in Entry, NEW s \in {"down_done", "report"},
             Persist(With(Current, ch), s), physical' \in {{}, {c}}, Changed(LastEntry, ch).code = c,
             ~Changed(LastEntry, ch).prepared, Changed(LastEntry, ch).attempted = LastEntry.attempted,
             ~Changed(LastEntry, ch).lost,
             \/ s = "down_done" /\ Changed(LastEntry, ch).live /\ Changed(LastEntry, ch).state = "confirmed-down"
             \/ s = "report" /\ ~Changed(LastEntry, ch).live /\ Changed(LastEntry, ch).state = "uncertain"
      PROVE  ExecutorInv'
  <2> DEFINE new == Changed(LastEntry, ch)
  <2>1. s \in Waits
    BY <1>7 DEF Waits
  <2>2. /\ entries' \in Seq(Entry) /\ Len(entries') = Len(entries) /\ entries' # <<>>
        /\ Len(entries) \in Nat \ {0} /\ LastEntry' = new
        /\ \A i \in 1..Len(entries) : i # Current => entries'[i] = entries[i]
        /\ step' = s /\ UNCHANGED <<revision, unavailable, durable>>
        /\ reply' \in {"waiting", "no"} /\ wire' \in File
        /\ wire' = wire \/ Shows(wire', entries')
        /\ WireInv'
    BY <1>1, <1>7, <2>1, LastPersisted
  <2> HIDE DEF new
  <2>3. new.code = c /\ ~new.prepared /\ new.attempted = LastEntry.attempted /\ ~new.lost
        /\ \/ s = "down_done" /\ new.live /\ new.state = "confirmed-down"
           \/ s = "report" /\ ~new.live /\ new.state = "uncertain"
    BY <1>7 DEF new
  <2>4. TypeInv'
    BY <1>1, <1>3, <1>4, <1>5, <1>7, <2>2 DEF TypeInv, StepNames
  <2>5. PlanInv'
    BY <1>1, <1>7, <2>2 DEF PlanInv
  <2>6. LedgerEntryInv'
    BY <1>2, <1>7, <2>2, <2>3 DEF LedgerEntryInv, Current, Owed
  <2>7. HeldInv'
    <3>1. Covers(durable'[inputs'], entries')
      BY <1>1, <1>6, <2>2, <2>3 DEF Covers, LastEntry, Current
    <3>2. wire'.revision > 0 => Covers(wire', entries')
      <4>1. Shows(wire', entries') => Covers(wire', entries')
        <5>1. Len(entries') \in 1..Len(entries')
          BY <2>2
        <5> QED
          BY <2>2, <2>3, <5>1 DEF Shows, Covers, LastEntry, Current
      <4> QED
        BY <1>6, <2>2, <4>1
    <3> QED
      BY <1>7, <2>2, <2>3, <3>1, <3>2 DEF HeldInv
  <2>8. PostsInv'
    BY <1>1, <1>3, <1>5, <2>2, <2>3 DEF PostsInv, TypeInv
  <2>9. SealedInv'
    BY <1>1, SealKept
  <2> QED
    BY <2>2, <2>4, <2>5, <2>6, <2>7, <2>8, <2>9
<1>8. CASE physical' = physical \cup {c}
           /\ Persist(With(Current, [prepared |-> FALSE, live |-> TRUE,
                                     state |-> "confirmed-down"]), "down_done")
  <2> DEFINE ch == [prepared |-> FALSE, live |-> TRUE, state |-> "confirmed-down"]
  <2>1. /\ Changed(LastEntry, ch) \in Entry /\ Changed(LastEntry, ch).code = c /\ ~Changed(LastEntry, ch).prepared
        /\ Changed(LastEntry, ch).attempted = LastEntry.attempted /\ Changed(LastEntry, ch).lost = LastEntry.lost
        /\ Changed(LastEntry, ch).live /\ Changed(LastEntry, ch).state = "confirmed-down"
    BY <1>1 DEF Changed, Entry, States
  <2>2. Persist(With(Current, ch), "down_done") /\ physical' = {c}
    BY <1>2, <1>8
  <2> HIDE DEF ch
  <2> QED
    BY <1>2, <1>7, <2>1, <2>2
<1>9. CASE physical' \in {physical, physical \cup {c}}
           /\ Persist(With(Current, [prepared |-> FALSE, state |-> "uncertain"]), "report")
  <2> DEFINE ch == [prepared |-> FALSE, state |-> "uncertain"]
  <2>1. /\ Changed(LastEntry, ch) \in Entry /\ Changed(LastEntry, ch).code = c /\ ~Changed(LastEntry, ch).prepared
        /\ Changed(LastEntry, ch).attempted = LastEntry.attempted /\ Changed(LastEntry, ch).lost = LastEntry.lost
        /\ Changed(LastEntry, ch).live = LastEntry.live /\ Changed(LastEntry, ch).state = "uncertain"
    BY <1>1 DEF Changed, Entry, States
  <2>2. Persist(With(Current, ch), "report") /\ physical' \in {{}, {c}}
    BY <1>2, <1>9
  <2> HIDE DEF ch
  <2> QED
    BY <1>2, <1>7, <2>1, <2>2
<1> QED
  BY <1>8, <1>9 DEF PostDown, LastEntry

\* What the steps that only hand the last entry to the store have in common.
LEMMA HandsOver ==
  ASSUME ExecutorInv, step \notin {"idle", "dead"}, entries # <<>>, NEW ch, NEW s \in Waits \ {"down_intent"},
         Changed(LastEntry, ch) \in Entry, Persist(With(Current, ch), s),
         UNCHANGED <<again, cursor, inputs, sealed>>, status' \in Status,
         Changed(LastEntry, ch).code = LastEntry.code, ~Changed(LastEntry, ch).prepared
  PROVE  /\ entries' \in Seq(Entry) /\ Len(entries') = Len(entries) /\ entries' # <<>>
         /\ Len(entries) \in Nat \ {0} /\ LastEntry' = Changed(LastEntry, ch)
         /\ \A i \in 1..Len(entries) : i # Current => entries'[i] = entries[i]
         /\ step' = s /\ WireInv' /\ SealedInv'
         /\ physical' \subseteq Codes /\ downs' \in [Codes -> Nat] /\ ups' \in [Codes -> Nat] => TypeInv'
         /\ physical' \subseteq physical
            /\ (physical' = {} \/ Changed(LastEntry, ch).state # "released") => HeldInv'
<1> USE DEF ExecutorInv
<1> DEFINE new == Changed(LastEntry, ch)
<1>1. inputs > 0 /\ s \in Waits
  BY DEF TypeInv
<1>2. /\ entries' \in Seq(Entry) /\ Len(entries') = Len(entries) /\ entries' # <<>>
      /\ Len(entries) \in Nat \ {0} /\ LastEntry' = new
      /\ \A i \in 1..Len(entries) : i # Current => entries'[i] = entries[i]
      /\ step' = s /\ UNCHANGED <<revision, unavailable, durable>>
      /\ reply' \in {"waiting", "no"} /\ wire' \in File
      /\ wire' = wire \/ Shows(wire', entries')
      /\ WireInv'
  BY <1>1, LastPersisted
<1>3. SealedInv'
  BY SealKept
<1> HIDE DEF new
<1>4. physical' \subseteq Codes /\ downs' \in [Codes -> Nat] /\ ups' \in [Codes -> Nat] => TypeInv'
  BY <1>1, <1>2 DEF TypeInv, StepNames, Waits
<1>5. new.code = LastEntry.code /\ ~new.prepared
  BY DEF new
<1>6. physical' \subseteq physical /\ (physical' = {} \/ new.state # "released") => HeldInv'
  <2> SUFFICES ASSUME physical' \subseteq physical, physical' = {} \/ new.state # "released" PROVE HeldInv'
    OBVIOUS
  <2>1. s \notin {"down_intent", "down_ready"}
    BY DEF Waits
  <2> QED
    BY <1>2, <1>5, <2>1, HeldKept
<1> QED
  BY <1>2, <1>3, <1>4, <1>6 DEF new

\* The store answers, or is not asked, and the ledger stays as it is.
LEMMA LedgerStays ==
  ASSUME ExecutorInv, entries' = entries, step \notin {"idle", "dead"},
         step' \in {"idle", "call", "up_ready", "cleanup_ready", "release"},
         step' = "call" => inputs > 0, again' \in BOOLEAN, cursor' \in 0..Len(entries), status' \in Status,
         UNCHANGED <<inputs, sealed, machine>>,
         \/ Answered(TRUE)
         \/ Answered(FALSE) /\ (status'.quarantined \/ ~NoEntry)
         \/ Unasked /\ step \notin Waits /\ (status'.quarantined \/ status'.quarantined = status.quarantined)
  PROVE  TypeInv' /\ WireInv' /\ HeldInv' /\ PostsInv' /\ SealedInv'
<1> USE DEF ExecutorInv
<1>1. step' \notin Waits \cup {"down_intent", "down_ready"} /\ step' \in StepNames
  BY DEF Waits, StepNames
<1>2. UNCHANGED <<wire, durable>> /\ revision' \in Nat /\ unavailable' \in BOOLEAN
  <2>1. CASE Answered(TRUE) \/ Answered(FALSE)
    <3>1. UNCHANGED <<wire, durable>> /\ revision' \in {revision, revision + 1}
          /\ (unavailable' = unavailable \/ unavailable' = TRUE)
      BY <2>1 DEF Answered, TypeInv
    <3>2. revision' \in Nat
      BY <3>1 DEF TypeInv
    <3>3. unavailable' \in BOOLEAN
      BY <3>1, Zenon DEF TypeInv
    <3> QED
      BY <3>1, <3>2, <3>3
  <2>2. CASE Unasked
    BY <2>2 DEF Unasked, TypeInv
  <2> QED
    BY <2>1, <2>2
<1>3. WireInv' /\ reply' = "none"
  <2>1. CASE Answered(TRUE)
    BY <1>1, <2>1, Acknowledged
  <2>2. CASE Answered(FALSE) /\ (status'.quarantined \/ ~NoEntry)
    BY <1>1, <2>2, Refused DEF NoEntry, LastEntry, Current
  <2>3. CASE Unasked /\ step \notin Waits /\ (status'.quarantined \/ status'.quarantined = status.quarantined)
    BY <1>1, <2>3, NotAsked DEF NoEntry, LastEntry, Current
  <2> QED
    BY <2>1, <2>2, <2>3
<1>4. TypeInv'
  BY <1>1, <1>2, <1>3 DEF TypeInv
<1>5. HeldInv' /\ PostsInv'
  BY <1>1, <1>2 DEF HeldInv, PostsInv, LastEntry, Current
<1>6. SealedInv'
  BY SealKept
<1> QED
  BY <1>3, <1>4, <1>5, <1>6

\* A reason to stop is found at a checkpoint.
LEMMA StopIs ==
  ASSUME TypeInv, StopForReason
  PROVE  /\ status' \in Status /\ status'.quarantined = status.quarantined /\ again' \in BOOLEAN
         /\ step' = "release" /\ cursor' = Len(entries) /\ cursor' \in 0..Len(entries)
<1>1. Len(entries) \in 0..Len(entries)
  BY DEF TypeInv
<1>2. status' = [status EXCEPT !.execution = "cancelling"]
  BY DEF StopForReason
<1>3. status' \in Status /\ status'.quarantined = status.quarantined
  BY <1>2 DEF TypeInv, Status
<1> QED
  BY <1>1, <1>3 DEF StopForReason, StartRelease

\* The end in doubt.
LEMMA QuarantineIs ==
  ASSUME TypeInv, Quarantine
  PROVE  status' \in Status /\ status'.quarantined /\ step' = "idle"
  BY DEF Quarantine, TypeInv, Status

\* The operation is stopped between two calls, or right before an event is posted.
LEMMA StopStep == ASSUME ExecutorInv, StopAtCheckpoint PROVE ExecutorInv'
<1> USE DEF ExecutorInv
<1>1. /\ step \in {"call", "down_ready", "up_ready"} /\ StopForReason /\ Unasked
      /\ UNCHANGED <<calls, entries, inputs, sealed, machine>>
  BY DEF StopAtCheckpoint, Stopped
<1>2. /\ status' \in Status /\ status'.quarantined = status.quarantined /\ again' \in BOOLEAN
      /\ step' = "release" /\ cursor' = Len(entries) /\ cursor' \in 0..Len(entries)
  BY <1>1, StopIs
<1>3. TypeInv' /\ WireInv' /\ HeldInv' /\ PostsInv' /\ SealedInv'
  BY <1>1, <1>2, LedgerStays DEF Waits
<1>4. PlanInv' /\ LedgerEntryInv'
  BY <1>1, <1>2 DEF PlanInv, LedgerEntryInv, LastEntry, Current
<1> QED
  BY <1>3, <1>4

\* An event other than a key or a button.
LEMMA PostEventStep == ASSUME ExecutorInv, PostEvent PROVE ExecutorInv'
<1> USE DEF ExecutorInv
<1>1. /\ step = "call" /\ calls # <<>> /\ Head(calls).call = "event" /\ Unasked
      /\ UNCHANGED <<again, cursor, entries, inputs, sealed, machine>>
  BY DEF PostEvent
<1>2. CASE step' = "call" /\ calls' = Tail(calls)
           /\ status' = [status EXCEPT !.attempts = @ + 1, !.dispatch = "partial"]
  <2>1. status' \in Status /\ status'.quarantined = status.quarantined
    BY <1>2, StatusPosts
  <2>2. TypeInv' /\ WireInv' /\ HeldInv' /\ PostsInv' /\ SealedInv'
    BY <1>1, <1>2, <2>1, LedgerStays DEF Waits, TypeInv
  <2>3. PlanInv' /\ LedgerEntryInv'
    BY <1>1, <1>2, <2>1, ClosedPlan, OpenPlan DEF PlanInv, LedgerEntryInv, NoEntry, LastEntry, Current
  <2> QED
    BY <2>2, <2>3
<1>3. CASE Quarantine
  <2>1. status' \in Status /\ status'.quarantined /\ step' = "idle"
    BY <1>3, QuarantineIs
  <2>2. TypeInv' /\ WireInv' /\ HeldInv' /\ PostsInv' /\ SealedInv'
    BY <1>1, <2>1, LedgerStays DEF Waits, TypeInv
  <2>3. PlanInv' /\ LedgerEntryInv'
    BY <1>1, <2>1 DEF PlanInv, LedgerEntryInv, LastEntry, Current
  <2> QED
    BY <2>2, <2>3
<1> QED
  BY <1>2, <1>3 DEF PostEvent

\* The announced down is refused by the last check.
LEMMA RefuseDownStep == ASSUME ExecutorInv, RefuseDown PROVE ExecutorInv'
<1> USE DEF ExecutorInv
<1> DEFINE ch == [prepared |-> FALSE, state |-> "released"]
<1>1. /\ step = "down_ready" /\ Persist(With(Current, ch), "close_done")
      /\ UNCHANGED <<calls, again, cursor, status, inputs, sealed, machine>>
  BY DEF RefuseDown
<1>2. entries # <<>> /\ LastEntry \in Entry /\ ~LastEntry.live /\ physical = {}
  BY <1>1 DEF LedgerEntryInv, HeldInv, TypeInv, LastEntry, Current
<1>3. /\ Changed(LastEntry, ch) \in Entry /\ Changed(LastEntry, ch).code = LastEntry.code /\ ~Changed(LastEntry, ch).prepared
      /\ Changed(LastEntry, ch).live = LastEntry.live /\ Changed(LastEntry, ch).state = "released"
  BY <1>2 DEF Changed, Entry, States
<1>4. "close_done" \in Waits \ {"down_intent"} /\ status' \in Status
  BY <1>1 DEF Waits, TypeInv
<1> HIDE DEF ch
<1>5. /\ entries' \in Seq(Entry) /\ Len(entries') = Len(entries) /\ entries' # <<>>
      /\ Len(entries) \in Nat \ {0} /\ LastEntry' = Changed(LastEntry, ch)
      /\ \A i \in 1..Len(entries) : i # Current => entries'[i] = entries[i]
      /\ step' = "close_done" /\ WireInv' /\ SealedInv' /\ TypeInv' /\ HeldInv'
  BY <1>1, <1>2, <1>3, <1>4, HandsOver DEF TypeInv
<1>6. PlanInv' /\ LedgerEntryInv'
  BY <1>2, <1>3, <1>5 DEF PlanInv, LedgerEntryInv, Current
<1>7. PostsInv'
  BY <1>1, <1>2, <1>3, <1>5 DEF PostsInv, Owed
<1> QED
  BY <1>5, <1>6, <1>7

\* Its entry is closed on record, or in doubt.
LEMMA RefusedDownClosedStep == ASSUME ExecutorInv, RefusedDownClosed PROVE ExecutorInv'
<1> USE DEF ExecutorInv
<1>1. step = "close_done" /\ UNCHANGED <<calls, inputs, sealed, machine>> /\ entries' = entries
  BY DEF RefusedDownClosed
<1>2. CASE Answered(TRUE) /\ StopForReason
  <2>1. /\ status' \in Status /\ again' \in BOOLEAN /\ step' = "release" /\ cursor' \in 0..Len(entries)
    BY <1>2, StopIs
  <2>2. TypeInv' /\ WireInv' /\ HeldInv' /\ PostsInv' /\ SealedInv'
    BY <1>1, <1>2, <2>1, LedgerStays
  <2>3. PlanInv' /\ LedgerEntryInv'
    BY <1>1, <2>1 DEF PlanInv, LedgerEntryInv, LastEntry, Current
  <2> QED
    BY <2>2, <2>3
<1>3. CASE Answered(FALSE) /\ Quarantine /\ UNCHANGED <<cursor, again>>
  <2>1. status' \in Status /\ status'.quarantined /\ step' = "idle"
    BY <1>3, QuarantineIs
  <2>2. TypeInv' /\ WireInv' /\ HeldInv' /\ PostsInv' /\ SealedInv'
    BY <1>1, <1>3, <2>1, LedgerStays DEF TypeInv
  <2>3. PlanInv' /\ LedgerEntryInv'
    BY <1>1, <2>1 DEF PlanInv, LedgerEntryInv, LastEntry, Current
  <2> QED
    BY <2>2, <2>3
<1> QED
  BY <1>2, <1>3 DEF RefusedDownClosed

\* The posted down is on record.
LEMMA DownConfirmedStep == ASSUME ExecutorInv, DownConfirmed PROVE ExecutorInv'
<1> USE DEF ExecutorInv
<1>1. step = "down_done" /\ UNCHANGED <<again, status, inputs, sealed, machine>>
  BY DEF DownConfirmed
<1>2. CASE Answered(TRUE) /\ step' = "call" /\ calls' = Tail(calls) /\ UNCHANGED <<entries, cursor>>
  <2>1. inputs > 0
    BY <1>1 DEF LedgerEntryInv, TypeInv
  <2>2. TypeInv' /\ WireInv' /\ HeldInv' /\ PostsInv' /\ SealedInv'
    BY <1>1, <1>2, <2>1, LedgerStays DEF TypeInv
  <2>3. PlanInv' /\ LedgerEntryInv'
    BY <1>1, <1>2, ClosedPlan DEF PlanInv, LedgerEntryInv, LastEntry, Current
  <2> QED
    BY <2>2, <2>3
<1>3. CASE LoseDurability /\ StartRelease
  BY <1>1, <1>3, DurabilityLost DEF TypeInv
<1> QED
  BY <1>2, <1>3 DEF DownConfirmed

\* The intention to release is handed to the store.
LEMMA AnnounceUpStep == ASSUME ExecutorInv, AnnounceUp PROVE ExecutorInv'
<1> USE DEF ExecutorInv
<1> DEFINE ch == [state |-> "pending-up"]
<1>1. /\ step = "call" /\ calls # <<>> /\ Head(calls).call = "up" /\ Persist(With(Current, ch), "up_intent")
      /\ UNCHANGED <<calls, again, cursor, status, inputs, sealed, machine>>
  BY DEF AnnounceUp
<1>2. entries # <<>> /\ Owed(LastEntry) /\ calls \in Open
  BY <1>1, ClosedPlan DEF PlanInv
<1>11. ~LastEntry.lost
  BY <1>1, ClosedPlan DEF PlanInv
<1>3. LastEntry \in Entry
  BY <1>2 DEF TypeInv, LastEntry, Current
<1>4. /\ Changed(LastEntry, ch) \in Entry /\ Changed(LastEntry, ch).code = LastEntry.code
      /\ Changed(LastEntry, ch).prepared = LastEntry.prepared /\ Changed(LastEntry, ch).live = LastEntry.live
      /\ Changed(LastEntry, ch).attempted = LastEntry.attempted /\ Changed(LastEntry, ch).lost = LastEntry.lost
      /\ Changed(LastEntry, ch).state = "pending-up"
  BY <1>3 DEF Changed, Entry, States
<1>5. "up_intent" \in Waits \ {"down_intent"} /\ status' \in Status
  BY <1>1 DEF Waits, TypeInv
<1> HIDE DEF ch
<1>6. ~Changed(LastEntry, ch).prepared
  BY <1>2, <1>4 DEF Owed
<1>7. /\ entries' \in Seq(Entry) /\ Len(entries') = Len(entries) /\ entries' # <<>>
      /\ Len(entries) \in Nat \ {0} /\ LastEntry' = Changed(LastEntry, ch)
      /\ \A i \in 1..Len(entries) : i # Current => entries'[i] = entries[i]
      /\ step' = "up_intent" /\ WireInv' /\ SealedInv' /\ TypeInv' /\ HeldInv'
  BY <1>1, <1>2, <1>4, <1>5, <1>6, HandsOver DEF TypeInv
<1>8. PlanInv'
  BY <1>1, <1>2, <1>7 DEF PlanInv
<1>9. LedgerEntryInv'
  BY <1>2, <1>11, <1>4, <1>7 DEF LedgerEntryInv, Current, Owed
<1>10. PostsInv'
  BY <1>1, <1>2, <1>4, <1>7 DEF PostsInv, Owed
<1> QED
  BY <1>7, <1>8, <1>9, <1>10

\* The answer lets the up be posted.
LEMMA UpAnnouncedStep == ASSUME ExecutorInv, UpAnnounced PROVE ExecutorInv'
<1> USE DEF ExecutorInv
<1>1. step = "up_intent" /\ UNCHANGED <<calls, again, status, inputs, sealed, machine>>
  BY DEF UpAnnounced
<1>2. CASE Answered(TRUE) /\ step' = "up_ready" /\ UNCHANGED <<entries, cursor>>
  <2>1. TypeInv' /\ WireInv' /\ HeldInv' /\ PostsInv' /\ SealedInv'
    BY <1>1, <1>2, LedgerStays DEF TypeInv
  <2>2. PlanInv' /\ LedgerEntryInv'
    BY <1>1, <1>2 DEF PlanInv, LedgerEntryInv, LastEntry, Current
  <2> QED
    BY <2>1, <2>2
<1>3. CASE LoseDurability /\ StartRelease
  BY <1>1, <1>3, DurabilityLost DEF TypeInv
<1> QED
  BY <1>2, <1>3 DEF UpAnnounced

\* An up is posted for the last entry, which owes it.
LEMMA UpPosted ==
  ASSUME ExecutorInv, step \in {"up_ready", "cleanup_ready"}, NEW ch,
         NEW s \in {"up_done", "report", "cleanup_done", "cleanup_report"},
         Changed(LastEntry, ch) \in Entry, Persist(With(Current, ch), s),
         UNCHANGED <<calls, again, cursor, inputs, sealed, downs>>, status' \in Status,
         ups' = [ups EXCEPT ![LastEntry.code] = @ + 1], physical' \subseteq physical,
         s \in {"up_done", "report"} <=> step = "up_ready",
         Changed(LastEntry, ch).code = LastEntry.code, ~Changed(LastEntry, ch).prepared, Changed(LastEntry, ch).attempted,
         Changed(LastEntry, ch).lost = LastEntry.lost,
         \/ /\ physical' = {} /\ ~Changed(LastEntry, ch).live
            /\ \/ s \in {"up_done", "cleanup_done"} /\ Changed(LastEntry, ch).state = "released"
               \/ s = "cleanup_report" /\ Changed(LastEntry, ch).state = "uncertain"
         \/ s \in {"report", "cleanup_report"} /\ Changed(LastEntry, ch).state = "uncertain"
  PROVE  ExecutorInv'
<1> USE DEF ExecutorInv
<1> DEFINE new == Changed(LastEntry, ch)
<1>1. entries # <<>> /\ Owed(LastEntry)
  BY DEF LedgerEntryInv
<1>2. s \in Waits \ {"down_intent"} /\ step \notin {"idle", "dead"}
  BY DEF Waits
<1>3. LastEntry \in Entry /\ LastEntry.code \in Codes
  <2>1. LastEntry \in Entry
    BY <1>1 DEF TypeInv, LastEntry, Current
  <2> QED
    BY <2>1 DEF Entry
<1>4. /\ ups' \in [Codes -> Nat] /\ ups'[LastEntry.code] = ups[LastEntry.code] + 1
      /\ \A d \in Codes : d # LastEntry.code => ups'[d] = ups[d]
  BY <1>3 DEF TypeInv
<1>5. physical' = {} \/ new.state # "released"
  OBVIOUS
<1>6. physical' \subseteq Codes /\ downs' \in [Codes -> Nat]
  BY DEF TypeInv
<1>7. /\ entries' \in Seq(Entry) /\ Len(entries') = Len(entries) /\ entries' # <<>>
      /\ Len(entries) \in Nat \ {0} /\ LastEntry' = new
      /\ \A i \in 1..Len(entries) : i # Current => entries'[i] = entries[i]
      /\ step' = s /\ WireInv' /\ SealedInv' /\ TypeInv' /\ HeldInv'
  BY <1>1, <1>2, <1>4, <1>5, <1>6, HandsOver
<1>8. /\ new.code = LastEntry.code /\ ~new.prepared /\ new.attempted /\ new.lost = LastEntry.lost
      /\ new.state = "released" => ~new.live
      /\ s \in {"up_done", "cleanup_done"} => new.state = "released"
      /\ s \in {"report", "cleanup_report"} => new.state = "uncertain"
  OBVIOUS
<1> HIDE DEF new
<1>9. PlanInv'
  BY <1>7 DEF PlanInv
<1>10. LedgerEntryInv'
  BY <1>7, <1>8 DEF LedgerEntryInv, Current
<1>11. PostsInv'
  <2>1. ups[LastEntry.code] < downs[LastEntry.code] /\ \A c \in Codes : ups[c] <= downs[c]
    BY <1>1 DEF PostsInv
  <2>2. \A c \in Codes : ups'[c] <= downs'[c]
    BY <1>3, <1>4, <2>1 DEF TypeInv
  <2> QED
    BY <1>7, <1>8, <2>2 DEF PostsInv, Owed
<1> QED
  BY <1>7, <1>9, <1>10, <1>11

\* The up of an action.
LEMMA PostUpStep == ASSUME ExecutorInv, PostUp PROVE ExecutorInv'
<1> USE DEF ExecutorInv
<1>1. /\ step = "up_ready" /\ UNCHANGED <<calls, again, cursor, inputs, sealed, downs>>
      /\ ups' = [ups EXCEPT ![LastEntry.code] = @ + 1]
      /\ status' = [status EXCEPT !.attempts = @ + 1, !.dispatch = "partial"]
  BY DEF PostUp, LastEntry
<1>2. entries # <<>> /\ Owed(LastEntry)
  BY <1>1 DEF LedgerEntryInv
<1>3. LastEntry \in Entry /\ (physical = {} \/ physical = {LastEntry.code}) /\ status' \in Status
  BY <1>1, <1>2, StatusPosts DEF TypeInv, LastEntry, Current, HeldInv
<1>4. CASE /\ physical' = physical \ {LastEntry.code}
           /\ Persist(With(Current, [attempted |-> TRUE, live |-> FALSE, state |-> "released"]), "up_done")
  <2> DEFINE ch == [attempted |-> TRUE, live |-> FALSE, state |-> "released"]
  <2>1. /\ Changed(LastEntry, ch) \in Entry /\ Changed(LastEntry, ch).code = LastEntry.code
        /\ Changed(LastEntry, ch).prepared = LastEntry.prepared /\ Changed(LastEntry, ch).lost = LastEntry.lost
        /\ Changed(LastEntry, ch).attempted /\ ~Changed(LastEntry, ch).live /\ Changed(LastEntry, ch).state = "released"
    BY <1>3 DEF Changed, Entry, States
  <2>2. Persist(With(Current, ch), "up_done") /\ physical' = {}
    BY <1>3, <1>4
  <2> HIDE DEF ch
  <2> QED
    BY <1>1, <1>2, <1>3, <2>1, <2>2, UpPosted DEF Owed
<1>5. CASE /\ physical' \in {physical, physical \ {LastEntry.code}}
           /\ Persist(With(Current, [attempted |-> TRUE, state |-> "uncertain"]), "report")
  <2> DEFINE ch == [attempted |-> TRUE, state |-> "uncertain"]
  <2>1. /\ Changed(LastEntry, ch) \in Entry /\ Changed(LastEntry, ch).code = LastEntry.code
        /\ Changed(LastEntry, ch).prepared = LastEntry.prepared /\ Changed(LastEntry, ch).lost = LastEntry.lost
        /\ Changed(LastEntry, ch).attempted /\ Changed(LastEntry, ch).state = "uncertain"
    BY <1>3 DEF Changed, Entry, States
  <2>2. Persist(With(Current, ch), "report") /\ physical' \subseteq physical
    BY <1>5
  <2> HIDE DEF ch
  <2> QED
    BY <1>1, <1>2, <1>3, <2>1, <2>2, UpPosted DEF Owed
<1> QED
  BY <1>4, <1>5 DEF PostUp, LastEntry

\* The release is on record, or durability is lost.
LEMMA UpReleasedStep == ASSUME ExecutorInv, UpReleased PROVE ExecutorInv'
<1> USE DEF ExecutorInv
<1>1. step = "up_done" /\ UNCHANGED <<again, cursor, inputs, sealed, machine>>
  BY DEF UpReleased
<1>2. CASE Answered(TRUE) /\ step' = "call" /\ calls' = Tail(calls) /\ UNCHANGED <<entries, status>>
  <2>1. inputs > 0
    BY <1>1 DEF LedgerEntryInv, TypeInv
  <2>2. TypeInv' /\ WireInv' /\ HeldInv' /\ PostsInv' /\ SealedInv'
    BY <1>1, <1>2, <2>1, LedgerStays DEF TypeInv
  <2>3. PlanInv' /\ LedgerEntryInv'
    BY <1>1, <1>2, OpenPlan DEF PlanInv, LedgerEntryInv, NoEntry, Clean, LastEntry, Current
  <2> QED
    BY <2>2, <2>3
<1>3. CASE LoseDurability /\ Quarantine
  BY <1>1, <1>3, DurabilityLost DEF TypeInv
<1> QED
  BY <1>2, <1>3 DEF UpReleased

\* After an event of unknown outcome.
LEMMA ReportedStep == ASSUME ExecutorInv, Reported PROVE ExecutorInv'
<1> USE DEF ExecutorInv
<1>1. /\ step = "report" /\ Quarantine /\ UNCHANGED <<calls, again, cursor, entries, inputs, sealed, machine>>
      /\ Answered(TRUE) \/ Answered(FALSE)
  BY DEF Reported
<1>2. status' \in Status /\ status'.quarantined /\ step' = "idle"
  BY <1>1, QuarantineIs
<1>3. TypeInv' /\ WireInv' /\ HeldInv' /\ PostsInv' /\ SealedInv'
  BY <1>1, <1>2, LedgerStays DEF TypeInv
<1>4. PlanInv' /\ LedgerEntryInv'
  BY <1>1, <1>2 DEF PlanInv, LedgerEntryInv, LastEntry, Current
<1> QED
  BY <1>3, <1>4

\* The plan is done.
LEMMA FinishInputStep == ASSUME ExecutorInv, FinishInput PROVE ExecutorInv'
<1> USE DEF ExecutorInv
<1>1. /\ step = "call" /\ calls = <<>> /\ step' = "idle" /\ Unasked
      /\ UNCHANGED <<calls, again, cursor, entries, inputs, sealed, machine>>
  BY DEF FinishInput
<1>2. NoEntry
  BY <1>1, OpenPlan DEF PlanInv
<1>3. \E d \in {"none", "finished"} :
        status' = [status EXCEPT !.active = FALSE, !.execution = "finished",
                                 !.cleanup = "complete", !.dispatch = d]
  BY DEF FinishInput
<1>4. status' \in Status /\ status'.quarantined = status.quarantined
  BY <1>3 DEF TypeInv, Status
<1>5. TypeInv' /\ WireInv' /\ HeldInv' /\ PostsInv' /\ SealedInv'
  BY <1>1, <1>4, LedgerStays DEF TypeInv, Waits
<1>6. PlanInv' /\ LedgerEntryInv'
  BY <1>1, <1>2 DEF PlanInv, LedgerEntryInv, NoEntry, LastEntry, Current
<1> QED
  BY <1>5, <1>6

-----------------------------------------------------------------------------
(* The release of what may be held. *)

\* The visit has something to do only at the last entry.
LEMMA OnlyTheLast ==
  ASSUME ExecutorInv, step = "release", cursor > 0, ~Settled(entries[cursor])
  PROVE  cursor = Current /\ entries # <<>> /\ entries[cursor] = LastEntry /\ LastEntry \in Entry
<1>1. cursor \in 1..Len(entries)
  BY DEF ExecutorInv, TypeInv
<1>2. cursor = Current
  BY <1>1 DEF ExecutorInv, LedgerEntryInv, Clean, Settled
<1>3. entries # <<>> /\ entries[Current] \in Entry
  BY <1>1, <1>2 DEF ExecutorInv, TypeInv
<1> QED
  BY <1>2, <1>3 DEF LastEntry

\* An entry that cannot be released is given up, and the store keeps what it has.
LEMMA GivenUpStep ==
  ASSUME ExecutorInv, step = "release", cursor > 0, ~Settled(entries[cursor]),
         entries' = GivenUp(cursor), NextEntry, Unasked,
         UNCHANGED <<calls, again, status, inputs, sealed, machine>>
  PROVE  ExecutorInv'
<1> USE DEF ExecutorInv
<1> DEFINE st == IF LastEntry.live THEN "uncertain"
                 ELSE IF LastEntry.state = "released" THEN "released" ELSE "uncertain"
           ch == [state |-> st]
<1>1. cursor = Current /\ entries # <<>> /\ entries[cursor] = LastEntry /\ LastEntry \in Entry
  BY OnlyTheLast
<1>2. entries' = With(Current, ch)
  BY <1>1 DEF GivenUp
<1>3. /\ Changed(LastEntry, ch) \in Entry /\ Changed(LastEntry, ch).code = LastEntry.code
      /\ Changed(LastEntry, ch).live = LastEntry.live /\ Changed(LastEntry, ch).prepared = LastEntry.prepared
      /\ Changed(LastEntry, ch).attempted = LastEntry.attempted /\ Changed(LastEntry, ch).lost = LastEntry.lost
      /\ Changed(LastEntry, ch).state = st
  <2>1. st \in States
    BY DEF States
  <2> HIDE DEF st
  <2> QED
    BY <1>1, <2>1 DEF Changed, Entry
<1>4. LastEntry.live \in BOOLEAN /\ LastEntry.lost \in BOOLEAN
  BY <1>1 DEF Entry
<1> HIDE DEF ch
<1>5. /\ entries' \in Seq(Entry) /\ Len(entries') = Len(entries) /\ entries' # <<>>
      /\ Len(entries) \in Nat \ {0} /\ LastEntry' = Changed(LastEntry, ch)
      /\ \A i \in 1..Len(entries) : i # Current => entries'[i] = entries[i]
  BY <1>1, <1>2, <1>3, LastChanges
<1>6. /\ step' = "release" /\ cursor' \in 0..Len(entries')
      /\ UNCHANGED <<wire, durable, revision, unavailable>>
  BY <1>5 DEF NextEntry, Unasked, TypeInv
<1>7. LastEntry.live => ~LastEntry.prepared /\ LastEntry.state # "released"
  BY <1>1 DEF LedgerEntryInv
<1>8. st = "released" => ~LastEntry.live /\ LastEntry.state = "released"
  OBVIOUS
<1>9. ~NoEntry'
  <2>1. ~Settled(LastEntry)
    BY <1>1
  <2>2. st = "released" => LastEntry.lost
    BY <1>8, <2>1 DEF Settled
  <2> HIDE DEF st
  <2> QED
    BY <1>3, <1>5, <2>2 DEF NoEntry, Clean
<1> HIDE DEF st
<1>10. WireInv' /\ reply' = "none"
  BY <1>6, <1>9, NotAsked DEF Waits
<1>11. TypeInv'
  BY <1>5, <1>6, <1>10 DEF TypeInv, StepNames
<1>12. PlanInv'
  BY <1>6 DEF PlanInv
<1>13. LedgerEntryInv'
  BY <1>1, <1>3, <1>5, <1>6, <1>8 DEF LedgerEntryInv, Current
<1>14. HeldInv'
  <2>1. physical # {} => ~LastEntry.prepared /\ LastEntry.state # "released"
    BY DEF HeldInv
  <2> QED
    BY <1>3, <1>5, <1>6, <1>8, <2>1, HeldKept
<1>15. PostsInv'
  BY <1>1, <1>3, <1>5, CountKept DEF Owed
<1>16. SealedInv'
  BY SealKept
<1> QED
  BY <1>10, <1>11, <1>12, <1>13, <1>14, <1>15, <1>16

\* The entry under the cursor changes and is handed to the store.
LEMMA HandsOverVisited ==
  ASSUME ExecutorInv, step = "release", cursor > 0, ~Settled(entries[cursor]), NEW ch,
         NEW s \in {"cleanup_done", "cleanup_intent"}, Changed(LastEntry, ch) \in Entry,
         Persist(With(cursor, ch), s), UNCHANGED <<again, status, cursor, inputs, sealed, machine>>,
         Changed(LastEntry, ch).code = LastEntry.code, ~Changed(LastEntry, ch).prepared,
         \/ s = "cleanup_intent" /\ Changed(LastEntry, ch).state # "released"
            /\ Owed(Changed(LastEntry, ch)) /\ Owed(LastEntry)
         \/ s = "cleanup_done" /\ Changed(LastEntry, ch).state = "released"
            /\ ~Changed(LastEntry, ch).live /\ physical = {}
  PROVE  ExecutorInv'
<1> USE DEF ExecutorInv
<1> DEFINE new == Changed(LastEntry, ch)
<1>1. cursor = Current /\ entries # <<>> /\ LastEntry \in Entry
  BY OnlyTheLast
<1>2. s \in Waits \ {"down_intent"} /\ status' \in Status
  BY DEF Waits, TypeInv
<1>3. physical' \subseteq Codes /\ downs' \in [Codes -> Nat] /\ ups' \in [Codes -> Nat]
  BY DEF TypeInv
<1>4. Persist(With(Current, ch), s)
  BY <1>1
<1>5. physical' = {} \/ new.state # "released"
  OBVIOUS
<1>6. /\ entries' \in Seq(Entry) /\ Len(entries') = Len(entries) /\ entries' # <<>>
      /\ Len(entries) \in Nat \ {0} /\ LastEntry' = new
      /\ \A i \in 1..Len(entries) : i # Current => entries'[i] = entries[i]
      /\ step' = s /\ WireInv' /\ SealedInv' /\ TypeInv' /\ HeldInv'
  BY <1>1, <1>2, <1>3, <1>4, <1>5, HandsOver
<1>7. /\ ~new.prepared /\ new.code = LastEntry.code
      /\ \/ s = "cleanup_intent" /\ new.state # "released" /\ Owed(new) /\ Owed(LastEntry)
         \/ s = "cleanup_done" /\ new.state = "released" /\ ~new.live
  OBVIOUS
<1> HIDE DEF new
<1>8. PlanInv'
  BY <1>6 DEF PlanInv
<1>9. LedgerEntryInv'
  BY <1>1, <1>6, <1>7 DEF LedgerEntryInv, Current
<1>10. PostsInv'
  BY <1>1, <1>6, <1>7, CountKept DEF Owed
<1> QED
  BY <1>6, <1>8, <1>9, <1>10

\* The release visits one entry.
LEMMA VisitEntryStep == ASSUME ExecutorInv, VisitEntry PROVE ExecutorInv'
<1> USE DEF ExecutorInv
<1>1. step = "release" /\ cursor > 0 /\ UNCHANGED <<calls, again, status, inputs, sealed, machine>>
  BY DEF VisitEntry
<1>2. CASE NextEntry /\ UNCHANGED entries /\ Unasked
  <2>1. step' = "release" /\ cursor' \in 0..Len(entries) /\ status' \in Status /\ again' \in BOOLEAN
    BY <1>1, <1>2 DEF NextEntry, TypeInv
  <2>2. TypeInv' /\ WireInv' /\ HeldInv' /\ PostsInv' /\ SealedInv'
    BY <1>1, <1>2, <2>1, LedgerStays DEF Waits
  <2>3. PlanInv' /\ LedgerEntryInv'
    BY <1>1, <1>2, <2>1 DEF PlanInv, LedgerEntryInv, LastEntry, Current
  <2> QED
    BY <2>2, <2>3
<1>3. CASE /\ entries[cursor].prepared /\ ~entries[cursor].live /\ UNCHANGED cursor
           /\ Persist(With(cursor, [prepared |-> FALSE, state |-> "released"]), "cleanup_done")
  <2> DEFINE ch == [prepared |-> FALSE, state |-> "released"]
  <2>1. ~Settled(entries[cursor])
    <3>1. cursor \in 1..Len(entries)
      BY <1>1 DEF TypeInv
    <3>2. CASE cursor = Current
      BY <1>3, <3>1, <3>2 DEF LedgerEntryInv, Settled, LastEntry, Current
    <3>3. CASE cursor # Current
      BY <1>3, <3>1, <3>3 DEF LedgerEntryInv, Clean
    <3> QED
      BY <3>2, <3>3
  <2>2. cursor = Current /\ entries[cursor] = LastEntry /\ LastEntry \in Entry
    BY <1>1, <2>1, OnlyTheLast
  <2>3. physical = {}
    BY <1>3, <2>2 DEF HeldInv
  <2>4. /\ Changed(LastEntry, ch) \in Entry /\ Changed(LastEntry, ch).code = LastEntry.code
        /\ ~Changed(LastEntry, ch).prepared /\ Changed(LastEntry, ch).live = LastEntry.live
        /\ Changed(LastEntry, ch).state = "released"
    BY <2>2 DEF Changed, Entry, States
  <2>5. Persist(With(cursor, ch), "cleanup_done") /\ ~LastEntry.live /\ cursor' = cursor
    BY <1>3, <2>2
  <2> HIDE DEF ch
  <2> QED
    BY <1>1, <2>1, <2>3, <2>4, <2>5, HandsOverVisited
<1>4. CASE ~Settled(entries[cursor]) /\ entries' = GivenUp(cursor) /\ NextEntry /\ Unasked
  BY <1>1, <1>4, GivenUpStep
<1>5. CASE /\ entries[cursor].live /\ ~entries[cursor].attempted /\ UNCHANGED cursor
           /\ Persist(With(cursor, [state |-> "pending-up"]), "cleanup_intent")
  <2> DEFINE ch == [state |-> "pending-up"]
  <2>1. ~Settled(entries[cursor])
    BY <1>5 DEF Settled
  <2>2. cursor = Current /\ entries # <<>> /\ entries[cursor] = LastEntry /\ LastEntry \in Entry
    BY <1>1, <2>1, OnlyTheLast
  <2>3. Owed(LastEntry)
    BY <1>5, <2>2 DEF LedgerEntryInv, Owed
  <2>4. /\ Changed(LastEntry, ch) \in Entry /\ Changed(LastEntry, ch).code = LastEntry.code
        /\ Changed(LastEntry, ch).prepared = LastEntry.prepared /\ Changed(LastEntry, ch).live = LastEntry.live
        /\ Changed(LastEntry, ch).attempted = LastEntry.attempted
        /\ Changed(LastEntry, ch).state = "pending-up"
    BY <2>2 DEF Changed, Entry, States
  <2>5. Persist(With(cursor, ch), "cleanup_intent") /\ cursor' = cursor
    BY <1>5
  <2> HIDE DEF ch
  <2>6. Owed(Changed(LastEntry, ch)) /\ ~Changed(LastEntry, ch).prepared
    BY <2>3, <2>4 DEF Owed
  <2> QED
    BY <1>1, <2>1, <2>3, <2>4, <2>5, <2>6, HandsOverVisited
<1>6. entries[cursor].live => ~Settled(entries[cursor])
  BY DEF Settled
<1> QED
  BY <1>2, <1>3, <1>4, <1>5, <1>6 DEF VisitEntry

\* The store does not acknowledge what the release hands it: the entry is in doubt.
LEMMA CleanupLost ==
  ASSUME ExecutorInv, step \in {"cleanup_intent", "cleanup_done"}, Answered(FALSE),
         entries' = With(cursor, [lost |-> TRUE, state |-> "uncertain"]),
         \/ step = "cleanup_intent" /\ step' = "cleanup_ready" /\ cursor' = cursor
         \/ NextEntry,
         UNCHANGED <<again, status, inputs, sealed, machine>>
  PROVE  ExecutorInv'
<1> USE DEF ExecutorInv
<1> DEFINE ch == [lost |-> TRUE, state |-> "uncertain"]
<1>1. entries # <<>> /\ cursor = Current
  BY DEF LedgerEntryInv
<1>2. LastEntry \in Entry
  BY <1>1 DEF TypeInv, LastEntry, Current
<1>3. /\ Changed(LastEntry, ch) \in Entry /\ Changed(LastEntry, ch).code = LastEntry.code
      /\ Changed(LastEntry, ch).live = LastEntry.live /\ Changed(LastEntry, ch).prepared = LastEntry.prepared
      /\ Changed(LastEntry, ch).attempted = LastEntry.attempted /\ Changed(LastEntry, ch).lost
      /\ Changed(LastEntry, ch).state = "uncertain"
  BY <1>2 DEF Changed, Entry, States
<1>4. entries' = With(Current, ch)
  BY <1>1
<1> HIDE DEF ch
<1>5. /\ entries' \in Seq(Entry) /\ Len(entries') = Len(entries) /\ entries' # <<>>
      /\ Len(entries) \in Nat \ {0} /\ LastEntry' = Changed(LastEntry, ch)
      /\ \A i \in 1..Len(entries) : i # Current => entries'[i] = entries[i]
  BY <1>1, <1>3, <1>4, LastChanges
<1>6. /\ UNCHANGED <<wire, durable>> /\ revision' = revision /\ unavailable' \in BOOLEAN
      /\ step' \in {"cleanup_ready", "release"} /\ cursor' \in 0..Len(entries')
  BY <1>1, <1>5 DEF Answered, TypeInv, NextEntry, Current
<1>7. ~NoEntry'
  BY <1>3, <1>5 DEF NoEntry, Clean
<1>8. WireInv' /\ reply' = "none"
  BY <1>6, <1>7, Refused DEF Waits
<1>9. TypeInv'
  BY <1>5, <1>6, <1>8 DEF TypeInv, StepNames
<1>10. PlanInv'
  BY <1>6 DEF PlanInv
<1>11. LedgerEntryInv'
  <2>1. step' = "cleanup_ready" => Owed(LastEntry) /\ cursor' = cursor
    BY DEF LedgerEntryInv, NextEntry
  <2> QED
    BY <1>1, <1>3, <1>5, <1>6, <2>1 DEF LedgerEntryInv, Current, Owed
<1>12. HeldInv'
  <2>1. physical # {} => ~LastEntry.prepared
    BY DEF HeldInv
  <2> QED
    BY <1>3, <1>5, <1>6, <2>1, HeldKept
<1>13. PostsInv'
  BY <1>1, <1>3, <1>5, CountKept DEF Owed
<1>14. SealedInv'
  BY SealKept
<1> QED
  BY <1>8, <1>9, <1>10, <1>11, <1>12, <1>13, <1>14

\* The up is announced, or the store has lost sight of it.
LEMMA CleanupAnnouncedStep == ASSUME ExecutorInv, CleanupAnnounced PROVE ExecutorInv'
<1> USE DEF ExecutorInv
<1>1. /\ step = "cleanup_intent" /\ step' = "cleanup_ready"
      /\ UNCHANGED <<calls, again, cursor, status, inputs, sealed, machine>>
  BY DEF CleanupAnnounced
<1>2. CASE Answered(TRUE) /\ UNCHANGED entries
  <2>1. TypeInv' /\ WireInv' /\ HeldInv' /\ PostsInv' /\ SealedInv'
    BY <1>1, <1>2, LedgerStays DEF TypeInv
  <2>2. PlanInv' /\ LedgerEntryInv'
    BY <1>1, <1>2 DEF PlanInv, LedgerEntryInv, LastEntry, Current
  <2> QED
    BY <2>1, <2>2
<1>3. CASE Answered(FALSE) /\ entries' = With(cursor, [lost |-> TRUE, state |-> "uncertain"])
  BY <1>1, <1>3, CleanupLost
<1> QED
  BY <1>2, <1>3 DEF CleanupAnnounced

\* The up of the release.
LEMMA PostCleanupUpStep == ASSUME ExecutorInv, PostCleanupUp PROVE ExecutorInv'
<1> USE DEF ExecutorInv
<1>1. step = "cleanup_ready" /\ cursor = Current /\ entries # <<>> /\ Owed(LastEntry)
  <2>1. step = "cleanup_ready"
    BY DEF PostCleanupUp
  <2> QED
    BY <2>1 DEF LedgerEntryInv
<1>2. /\ UNCHANGED <<calls, again, cursor, inputs, sealed, downs>>
      /\ ups' = [ups EXCEPT ![LastEntry.code] = @ + 1] /\ status' = [status EXCEPT !.attempts = @ + 1]
  BY <1>1 DEF PostCleanupUp, LastEntry
<1>3. LastEntry \in Entry /\ (physical = {} \/ physical = {LastEntry.code})
  BY <1>1 DEF TypeInv, LastEntry, Current, HeldInv
<1>4. status' \in Status
  BY <1>2, StatusPosts
<1>5. CASE /\ physical' = physical \ {LastEntry.code}
           /\ Persist(With(Current, [attempted |-> TRUE, live |-> FALSE,
                                     state |-> IF LastEntry.lost THEN "uncertain" ELSE "released"]),
                      IF LastEntry.lost THEN "cleanup_report" ELSE "cleanup_done")
  <2> DEFINE st == IF LastEntry.lost THEN "uncertain" ELSE "released"
             s == IF LastEntry.lost THEN "cleanup_report" ELSE "cleanup_done"
             ch == [attempted |-> TRUE, live |-> FALSE, state |-> st]
  <2>1. /\ st \in States
        /\ (s = "cleanup_report" /\ st = "uncertain") \/ (s = "cleanup_done" /\ st = "released")
    BY DEF States
  <2>2. Persist(With(Current, ch), s) /\ physical' = {}
    BY <1>3, <1>5
  <2> HIDE DEF st, s
  <2>3. /\ Changed(LastEntry, ch) \in Entry /\ Changed(LastEntry, ch).code = LastEntry.code
        /\ Changed(LastEntry, ch).prepared = LastEntry.prepared /\ Changed(LastEntry, ch).lost = LastEntry.lost
        /\ Changed(LastEntry, ch).attempted /\ ~Changed(LastEntry, ch).live /\ Changed(LastEntry, ch).state = st
    BY <1>3, <2>1 DEF Changed, Entry
  <2>4. s \in {"up_done", "report", "cleanup_done", "cleanup_report"}
        /\ (s \in {"up_done", "report"} <=> step = "up_ready")
    BY <1>1, <2>1
  <2> HIDE DEF ch
  <2> QED
    BY <1>1, <1>2, <1>3, <1>4, <2>1, <2>2, <2>3, <2>4, UpPosted DEF Owed
<1>6. CASE /\ physical' \in {physical, physical \ {LastEntry.code}}
           /\ Persist(With(Current, [attempted |-> UpAttempted(FALSE), state |-> "uncertain"]),
                      "cleanup_report")
  <2> DEFINE ch == [attempted |-> TRUE, state |-> "uncertain"]
  <2>1. /\ Changed(LastEntry, ch) \in Entry /\ Changed(LastEntry, ch).code = LastEntry.code
        /\ Changed(LastEntry, ch).prepared = LastEntry.prepared /\ Changed(LastEntry, ch).lost = LastEntry.lost
        /\ Changed(LastEntry, ch).attempted /\ Changed(LastEntry, ch).state = "uncertain"
    BY <1>3 DEF Changed, Entry, States
  <2>2. Persist(With(Current, ch), "cleanup_report") /\ physical' \subseteq physical
    BY <1>6 DEF UpAttempted
  <2> HIDE DEF ch
  <2> QED
    BY <1>1, <1>2, <1>3, <1>4, <2>1, <2>2, UpPosted DEF Owed
<1> QED
  BY <1>1, <1>5, <1>6 DEF PostCleanupUp, LastEntry

\* The release of an entry is on record, or the entry is in doubt.
LEMMA CleanupReleasedStep == ASSUME ExecutorInv, CleanupReleased PROVE ExecutorInv'
<1> USE DEF ExecutorInv
<1>1. /\ step = "cleanup_done" /\ NextEntry /\ step' = "release"
      /\ UNCHANGED <<calls, again, status, inputs, sealed, machine>>
  BY DEF CleanupReleased, NextEntry
<1>2. CASE Answered(TRUE) /\ UNCHANGED entries
  <2>1. cursor' \in 0..Len(entries) /\ again' \in BOOLEAN /\ status' \in Status
    <3>1. cursor = Len(entries) /\ entries # <<>> /\ entries \in Seq(Entry)
      BY <1>1 DEF LedgerEntryInv, Current, TypeInv
    <3>2. cursor' \in 0..Len(entries)
      BY <1>1, <3>1 DEF NextEntry
    <3> QED
      BY <1>1, <3>2 DEF TypeInv
  <2>2. TypeInv' /\ WireInv' /\ HeldInv' /\ PostsInv' /\ SealedInv'
    BY <1>1, <1>2, <2>1, LedgerStays
  <2>3. PlanInv' /\ LedgerEntryInv'
    BY <1>1, <1>2 DEF PlanInv, LedgerEntryInv, LastEntry, Current
  <2> QED
    BY <2>2, <2>3
<1>3. CASE Answered(FALSE) /\ entries' = With(cursor, [lost |-> TRUE, state |-> "uncertain"])
  BY <1>1, <1>3, CleanupLost
<1> QED
  BY <1>2, <1>3 DEF CleanupReleased

\* After an up of unknown outcome the release goes on.
LEMMA CleanupReportedStep == ASSUME ExecutorInv, CleanupReported PROVE ExecutorInv'
<1> USE DEF ExecutorInv
<1>1. /\ step = "cleanup_report" /\ NextEntry /\ step' = "release" /\ entries' = entries
      /\ UNCHANGED <<calls, again, status, inputs, sealed, machine>>
      /\ Answered(TRUE) \/ Answered(FALSE)
  BY DEF CleanupReported, NextEntry
<1>2. cursor = Len(entries) /\ entries # <<>> /\ LastEntry.state = "uncertain"
  BY <1>1 DEF LedgerEntryInv, Current
<1>3. cursor' \in 0..Len(entries) /\ again' \in BOOLEAN /\ status' \in Status /\ ~NoEntry
  <2>1. cursor' \in 0..Len(entries)
    BY <1>1, <1>2 DEF NextEntry, TypeInv
  <2> QED
    BY <1>1, <1>2, <2>1 DEF TypeInv, NoEntry, Clean
<1>4. TypeInv' /\ WireInv' /\ HeldInv' /\ PostsInv' /\ SealedInv'
  BY <1>1, <1>3, LedgerStays
<1>5. PlanInv' /\ LedgerEntryInv'
  BY <1>1 DEF PlanInv, LedgerEntryInv, LastEntry, Current
<1> QED
  BY <1>4, <1>5

\* The release ends, clean or in doubt, or starts once more for the observer's stop.
LEMMA EndReleaseStep == ASSUME ExecutorInv, EndRelease PROVE ExecutorInv'
<1> USE DEF ExecutorInv
<1>1. /\ step = "release" /\ cursor = 0 /\ Unasked
      /\ UNCHANGED <<calls, entries, inputs, sealed, machine>>
  BY DEF EndRelease
<1>2. /\ step' \in {"idle", "release"} /\ status' \in Status /\ again' \in BOOLEAN
      /\ cursor' \in 0..Len(entries)
      /\ \/ status'.quarantined
         \/ CleanupComplete /\ status'.quarantined = status.quarantined
  <2>1. Len(entries) \in 0..Len(entries) /\ 0 \in 0..Len(entries)
    BY DEF TypeInv
  <2>2. /\ step' \in {"idle", "release"} /\ again' \in BOOLEAN /\ cursor' \in 0..Len(entries)
    BY <1>1, <2>1 DEF EndRelease, StartRelease, Quarantine, TypeInv
  <2>3. CASE CleanupComplete /\ status' = [status EXCEPT !.execution = "stopped", !.cleanup = "complete",
                                    !.active = FALSE, !.dispatch = IF @ = "none" THEN "none" ELSE "partial"]
    BY <2>2, <2>3 DEF TypeInv, Status
  <2>4. CASE status' = [status EXCEPT !.execution = "cancelling", !.dispatch = "unknown",
                           !.cleanup = "unknown", !.quarantined = TRUE, !.active = FALSE]
    BY <2>2, <2>4 DEF TypeInv, Status
  <2>5. CASE Quarantine
    BY <2>2, <2>5, QuarantineIs
  <2> QED
    BY <2>3, <2>4, <2>5 DEF EndRelease
<1>3. CleanupComplete => NoEntry
  <2>1. Current \in 1..Len(entries) <=> entries # <<>>
    BY DEF TypeInv, Current
  <2>2. ASSUME CleanupComplete, entries # <<>> PROVE LastEntry.state = "released" /\ ~LastEntry.lost
    BY <2>1, <2>2 DEF CleanupComplete, HeldCount, Unreleased, LastEntry, TypeInv
  <2> QED
    BY <2>2 DEF NoEntry, Clean, LedgerEntryInv
<1>4. TypeInv' /\ WireInv' /\ HeldInv' /\ PostsInv' /\ SealedInv'
  BY <1>1, <1>2, LedgerStays DEF Waits
<1>5. PlanInv' /\ LedgerEntryInv'
  BY <1>1, <1>2, <1>3 DEF PlanInv, LedgerEntryInv, NoEntry, LastEntry, Current
<1> QED
  BY <1>4, <1>5

-----------------------------------------------------------------------------
(* The rest of the world, and the theorems. *)

\* The release starts over only when it has ended, so an operation begins with no visit open.
CursorInv ==
  step \notin {"release", "cleanup_intent", "cleanup_ready", "cleanup_done", "cleanup_report", "dead"} =>
    cursor = 0

\* No snapshot is a snapshot of nothing.
LEMMA NothingSent == NoSnapshot \in File /\ NoSnapshot.revision = 0
<1>1. <<>> \in Seq([code : Codes, state : States]) /\ 0 \in 0..MaxInputs
  BY ExecutorAssumption
<1> QED
  BY <1>1 DEF NoSnapshot, File

\* Ledgers that need nothing are stored as released.
LEMMA StoredReleased ==
  ASSUME ExecutorInv, reply = "none", step # "dead", ~status.quarantined, NoEntry
  PROVE  /\ wire.revision = 0
         /\ \A n \in 1..MaxInputs : n <= inputs =>
              \A i \in 1..Len(durable[n].entries) : durable[n].entries[i].state = "released"
<1>1. Synced
  BY DEF ExecutorInv, WireInv
<1>2. \A i \in 1..Len(entries) : entries[i].state = "released"
  BY DEF ExecutorInv, LedgerEntryInv, NoEntry, Clean, LastEntry, Current
<1>3. inputs > 0 => \A i \in 1..Len(durable[inputs].entries) : durable[inputs].entries[i].state = "released"
  BY <1>1, <1>2 DEF Synced, Shows
<1>4. \A n \in 1..MaxInputs : n < inputs =>
        \A i \in 1..Len(durable[n].entries) : durable[n].entries[i].state = "released"
  BY DEF ExecutorInv, WireInv
<1>5. \A n \in 1..MaxInputs : n <= inputs => n < inputs \/ (n = inputs /\ inputs > 0)
  BY DEF ExecutorInv, TypeInv
<1> QED
  BY <1>1, <1>3, <1>4, <1>5 DEF Synced

\* The next operation begins on a ledger that needs nothing.
LEMMA BeginStep == ASSUME ExecutorInv, CursorInv, Begin PROVE ExecutorInv'
<1> USE DEF ExecutorInv
<1>1. /\ step = "idle" /\ sealed = "no" /\ ~status.quarantined
      /\ inputs < MaxInputs /\ inputs' = inputs + 1
      /\ entries' = <<>> /\ revision' = 0 /\ unavailable' = FALSE
      /\ UNCHANGED <<again, cursor, sealed, storeVars, machine>>
  BY DEF Begin
<1>2. \/ /\ calls' \in Plans /\ step' = "call"
         /\ status' = [Idle EXCEPT !.active = TRUE, !.execution = "dispatching"]
      \/ step' = "idle" /\ status' = [Idle EXCEPT !.execution = "stopped"]
  BY DEF Begin
<1>3. status' \in Status
  <2>1. CASE status' = [Idle EXCEPT !.active = TRUE, !.execution = "dispatching"]
    BY <2>1 DEF Idle, Status
  <2>2. CASE status' = [Idle EXCEPT !.execution = "stopped"]
    BY <2>2 DEF Idle, Status
  <2> QED
    BY <1>2, <2>1, <2>2
<1>4. reply = "none" /\ NoEntry /\ cursor = 0
  BY <1>1 DEF LedgerEntryInv, WireInv, Waits, CursorInv
<1>5. /\ wire.revision = 0
      /\ \A n \in 1..MaxInputs : n <= inputs =>
           \A i \in 1..Len(durable[n].entries) : durable[n].entries[i].state = "released"
  BY <1>1, <1>4, StoredReleased
<1>6. inputs \in Nat /\ inputs' \in 1..MaxInputs
  BY <1>1, ExecutorAssumption DEF TypeInv
<1>7. NoEntry' /\ entries' \in Seq(Entry) /\ Len(entries') = 0
  BY <1>1 DEF NoEntry
<1>8. TypeInv'
  <2>1. step' \in StepNames /\ cursor' \in 0..Len(entries')
    BY <1>1, <1>2, <1>4, <1>7 DEF StepNames
  <2>2. /\ again' \in BOOLEAN /\ unavailable' \in BOOLEAN /\ sealed' \in {"no", "dirty", "clean"}
        /\ reply' \in {"none", "waiting", "ok", "no"}
    BY <1>1, Zenon DEF TypeInv
  <2>3. wire' \in File /\ durable' \in [1..MaxInputs -> File] /\ revision' \in Nat
    BY <1>1 DEF TypeInv
  <2>4. physical' \subseteq Codes /\ downs' \in [Codes -> Nat] /\ ups' \in [Codes -> Nat]
    BY <1>1 DEF TypeInv
  <2>5. inputs' \in 0..MaxInputs /\ inputs' > 0
    BY <1>6, ExecutorAssumption
  <2> QED
    BY <1>3, <1>7, <2>1, <2>2, <2>3, <2>4, <2>5 DEF TypeInv
<1>9. PlanInv'
  BY <1>2, <1>7 DEF PlanInv, Closed
<1>10. LedgerEntryInv'
  BY <1>1, <1>2, <1>7 DEF LedgerEntryInv, Current
<1>11. WireInv'
  <2>1. durable[inputs + 1].entries = <<>>
    BY <1>1, <1>6 DEF WireInv
  <2>2. Synced'
    BY <1>1, <1>5, <2>1 DEF Synced, Shows
  <2>3. \A n \in 1..MaxInputs :
          /\ n < inputs' => n <= inputs
          /\ n > inputs' => n > inputs
    BY <1>1, <1>6
  <2>4. \A n \in 1..MaxInputs :
       /\ n < inputs' => \A i \in 1..Len(durable'[n].entries) : durable'[n].entries[i].state = "released"
       /\ n > inputs' => durable'[n].entries = <<>>
    BY <1>1, <1>5, <2>3 DEF WireInv
  <2> QED
    BY <1>1, <1>2, <1>4, <1>5, <2>2, <2>4 DEF WireInv, Waits
<1>12. HeldInv'
  <2>1. physical = {}
    BY <1>4 DEF HeldInv, NoEntry, Clean
  <2> QED
    BY <1>1, <2>1 DEF HeldInv
<1>13. PostsInv'
  BY <1>1 DEF PostsInv
<1>14. SealedInv'
  BY <1>1 DEF SealedInv
<1> QED
  BY <1>8, <1>9, <1>10, <1>11, <1>12, <1>13, <1>14

\* The store takes a snapshot, or refuses it; nothing is on its way then.
LEMMA StoreSnapshotStep == ASSUME ExecutorInv, StoreSnapshot PROVE ExecutorInv'
<1> USE DEF ExecutorInv
<1>1. /\ wire.revision > 0 /\ wire' = NoSnapshot /\ UNCHANGED <<execVars, machine, faultVars>>
      /\ \/ durable' = [durable EXCEPT ![wire.input] = wire] /\ Tell("ok")
         \/ durable' = durable /\ Tell("no")
  BY DEF StoreSnapshot
<1>2. wire'.revision = 0 /\ wire' \in File
  BY <1>1, NothingSent
<1>3. wire.input = inputs /\ inputs > 0 /\ inputs \in 1..MaxInputs
  BY <1>1 DEF WireInv, TypeInv
<1>4. step # "down_ready" /\ reply # "ok" /\ sealed # "clean"
  BY <1>1 DEF WireInv, Synced, SealedInv
<1>5. ~(reply = "none" /\ step # "dead" /\ ~status.quarantined /\ NoEntry)
  BY <1>1 DEF WireInv, Synced
<1>6. /\ durable' \in [1..MaxInputs -> File]
      /\ \A n \in 1..MaxInputs : n # inputs => durable'[n] = durable[n]
      /\ durable'[inputs] \in {wire, durable[inputs]}
      /\ Tell("ok") => durable'[inputs] = wire \/ reply # "waiting" \/ Tell("no")
  BY <1>1, <1>3 DEF TypeInv
<1>7. /\ reply = "waiting" => /\ reply' \in {"ok", "no"}
                              /\ reply' = "ok" => durable'[inputs] = wire
      /\ reply # "waiting" => reply' = reply
  <2>1. CASE durable' = [durable EXCEPT ![wire.input] = wire] /\ Tell("ok")
    BY <1>3, <2>1 DEF Tell, TypeInv
  <2>2. CASE durable' = durable /\ Tell("no")
    BY <2>2 DEF Tell
  <2> QED
    BY <1>1, <2>1, <2>2
<1>8. TypeInv'
  BY <1>1, <1>2, <1>6, <1>7 DEF TypeInv
<1>9. WireInv'
  <2>1. reply' # "waiting"
    BY <1>7
  <2>2. reply' = "ok" => Synced'
    BY <1>1, <1>2, <1>4, <1>7 DEF WireInv, Synced, Shows
  <2>3. reply' = "none" => reply = "none"
    BY <1>7
  <2>4. NoEntry' = NoEntry
    BY <1>1 DEF NoEntry, LastEntry, Current
  <2>5. \A n \in 1..MaxInputs :
       /\ n < inputs' => \A i \in 1..Len(durable'[n].entries) : durable'[n].entries[i].state = "released"
       /\ n > inputs' => durable'[n].entries = <<>>
    BY <1>1, <1>3, <1>6 DEF WireInv
  <2>6. reply' # "none" <=> step' \in Waits
    BY <1>1, <1>7 DEF WireInv
  <2> QED
    BY <1>1, <1>2, <1>4, <1>5, <2>1, <2>2, <2>3, <2>4, <2>5, <2>6 DEF WireInv
<1>10. HeldInv'
  BY <1>1, <1>2, <1>6 DEF HeldInv, Covers, LastEntry, Current
<1>11. PlanInv' /\ LedgerEntryInv' /\ PostsInv'
  BY <1>1 DEF PlanInv, LedgerEntryInv, PostsInv, NoEntry, LastEntry, Current
<1>12. SealedInv'
  BY <1>1, <1>4 DEF SealedInv
<1> QED
  BY <1>8, <1>9, <1>10, <1>11, <1>12

\* The worker waits no longer, and the snapshot may still arrive.
LEMMA StopWaitingStep == ASSUME ExecutorInv, StopWaiting PROVE ExecutorInv'
<1> USE DEF ExecutorInv
<1>1. /\ reply = "waiting" /\ reply' = "no" /\ wire' \in {wire, NoSnapshot}
      /\ UNCHANGED <<execVars, durable, machine>>
  BY DEF StopWaiting
<1>2. wire' \in File /\ (wire' = wire \/ wire'.revision = 0)
  <2>1. wire \in File
    BY DEF TypeInv
  <2> QED
    BY <1>1, <2>1, NothingSent
<1>3. step \in Waits /\ sealed # "clean"
  BY <1>1 DEF WireInv, SealedInv, Waits
<1>4. TypeInv'
  BY <1>1, <1>2 DEF TypeInv
<1>5. WireInv'
  BY <1>1, <1>2, <1>3 DEF WireInv, Waits
<1>6. PlanInv' /\ LedgerEntryInv' /\ PostsInv'
  BY <1>1 DEF PlanInv, LedgerEntryInv, PostsInv, NoEntry, LastEntry, Current
<1>7. HeldInv'
  BY <1>1, <1>2 DEF HeldInv, Covers, LastEntry, Current
<1>8. SealedInv'
  BY <1>1, <1>3 DEF SealedInv
<1> QED
  BY <1>4, <1>5, <1>6, <1>7, <1>8

\* A clean seal: no operation is in progress or in doubt, and its ledger is released.
LEMMA SealStep == ASSUME ExecutorInv, Seal PROVE ExecutorInv'
<1> USE DEF ExecutorInv
<1>1. /\ step = "idle" /\ sealed' = IF CleanForRotation THEN "clean" ELSE "dirty"
      /\ UNCHANGED <<step, calls, again, cursor, entries, revision, unavailable, status, inputs,
                     storeVars, machine, faultVars>>
  BY DEF Seal
<1>2. sealed' \in {"dirty", "clean"} /\ (sealed' = "clean" => ~status.quarantined)
  BY <1>1 DEF CleanForRotation
<1>3. TypeInv'
  BY <1>1, <1>2 DEF TypeInv
<1>4. PlanInv' /\ LedgerEntryInv' /\ PostsInv' /\ HeldInv'
  BY <1>1 DEF PlanInv, LedgerEntryInv, PostsInv, HeldInv, NoEntry, Covers, LastEntry, Current
<1>5. WireInv'
  BY <1>1 DEF WireInv, Synced, NoEntry, LastEntry, Current
<1>6. SealedInv'
  <2> SUFFICES ASSUME sealed' = "clean"
               PROVE  /\ physical = {} /\ wire.revision = 0
                      /\ \A n \in 1..MaxInputs : Unreleased(durable[n].entries) = {}
    BY <1>1 DEF SealedInv
  <2>1. reply = "none" /\ NoEntry
    BY <1>1, <1>2 DEF LedgerEntryInv, WireInv, Waits
  <2>2. physical = {}
    BY <2>1 DEF HeldInv, NoEntry, Clean
  <2>3. /\ wire.revision = 0
        /\ \A n \in 1..MaxInputs : n <= inputs =>
             \A i \in 1..Len(durable[n].entries) : durable[n].entries[i].state = "released"
    BY <1>1, <1>2, <2>1, StoredReleased
  <2>4. \A n \in 1..MaxInputs : n > inputs => durable[n].entries = <<>>
    BY DEF WireInv
  <2>5. \A n \in 1..MaxInputs : durable[n].entries \in Seq([code : Codes, state : States])
    BY DEF TypeInv, File
  <2>6. ASSUME NEW n \in 1..MaxInputs PROVE Unreleased(durable[n].entries) = {}
    <3>1. CASE n <= inputs
      BY <2>3, <2>5, <3>1 DEF Unreleased
    <3>2. CASE n > inputs
      BY <2>4, <3>2 DEF Unreleased
    <3> QED
      BY <3>1, <3>2 DEF TypeInv
  <2> QED
    BY <2>2, <2>3, <2>6
<1> QED
  BY <1>3, <1>4, <1>5, <1>6

\* The helper dies, and what it sent may still be stored.
LEMMA HelperDiesStep == ASSUME ExecutorInv, HelperDies PROVE ExecutorInv'
<1> USE DEF ExecutorInv
<1>1. /\ step' = "dead" /\ reply' = "none" /\ wire' \in {wire, NoSnapshot}
      /\ UNCHANGED <<calls, again, cursor, entries, revision, unavailable, status, inputs, sealed,
                     durable, machine, faultVars>>
  BY DEF HelperDies
<1>2. wire' \in File /\ (wire' = wire \/ wire'.revision = 0)
  <2>1. wire \in File
    BY DEF TypeInv
  <2> QED
    BY <1>1, <2>1, NothingSent
<1>3. TypeInv'
  BY <1>1, <1>2 DEF TypeInv, StepNames
<1>4. WireInv'
  BY <1>1, <1>2 DEF WireInv, Waits
<1>5. PlanInv' /\ LedgerEntryInv' /\ PostsInv'
  BY <1>1 DEF PlanInv, LedgerEntryInv, PostsInv, NoEntry, LastEntry, Current
<1>6. HeldInv'
  BY <1>1, <1>2 DEF HeldInv, Covers, LastEntry, Current
<1>7. SealedInv'
  BY <1>1, <1>2 DEF SealedInv
<1> QED
  BY <1>3, <1>4, <1>5, <1>6, <1>7

\* The cursor moves only within a release.
LEMMA CursorStep == ASSUME CursorInv, ExecutorNext \/ UNCHANGED executorVars PROVE CursorInv'
<1> USE DEF CursorInv
<1>1. CASE Begin
  BY <1>1 DEF Begin
<1>2. CASE StopAtCheckpoint \/ RefusedDownClosed \/ DownAnnounced \/ DownConfirmed \/ UpAnnounced
           \/ UpReleased \/ Reported \/ PostEvent
  BY <1>2 DEF StopAtCheckpoint, Stopped, StopForReason, StartRelease, RefusedDownClosed, Quarantine,
              DownAnnounced, DownConfirmed, UpAnnounced, UpReleased, Reported, PostEvent
<1>3. CASE AnnounceDown \/ PostDown \/ RefuseDown \/ AnnounceUp \/ PostUp \/ FinishInput
  BY <1>3 DEF AnnounceDown, PostDown, ReadyToPost, RefuseDown, AnnounceUp, PostUp, FinishInput, Persist
<1>4. CASE VisitEntry \/ CleanupAnnounced \/ PostCleanupUp \/ CleanupReleased \/ CleanupReported \/ EndRelease
  BY <1>4 DEF VisitEntry, CleanupAnnounced, PostCleanupUp, CleanupReleased, CleanupReported, EndRelease,
              NextEntry, Persist, Quarantine, StartRelease
<1>5. CASE StoreSnapshot \/ StopWaiting \/ Seal \/ HelperDies \/ UNCHANGED executorVars
  BY <1>5 DEF StoreSnapshot, StopWaiting, Seal, HelperDies
<1> QED
  BY <1>1, <1>2, <1>3, <1>4, <1>5 DEF ExecutorNext, Worker

\* The invariant holds at the start.
LEMMA ExecutorStarts == ExecutorInit => ExecutorInv /\ CursorInv
<1> SUFFICES ASSUME ExecutorInit PROVE ExecutorInv /\ CursorInv
  OBVIOUS
<1>1. /\ step = "idle" /\ calls = <<>> /\ again = FALSE /\ cursor = 0
      /\ entries = <<>> /\ revision = 0 /\ unavailable = FALSE /\ status = Idle
      /\ inputs = 0 /\ sealed = "no" /\ wire = NoSnapshot /\ reply = "none"
      /\ durable = [n \in 1..MaxInputs |-> NoSnapshot]
      /\ physical = {} /\ downs = [c \in Codes |-> 0] /\ ups = [c \in Codes |-> 0]
  BY DEF ExecutorInit
<1>2. inputs \in 0..MaxInputs /\ NoSnapshot \in File
  BY <1>1, NothingSent, ExecutorAssumption
<1>3. status \in Status /\ entries \in Seq(Entry) /\ Len(entries) = 0
  BY <1>1 DEF Idle, Status
<1>4. TypeInv
  <2>1. step \in StepNames /\ cursor \in 0..Len(entries) /\ ~(entries # <<>> \/ step = "call")
    BY <1>1, <1>3 DEF StepNames
  <2>2. again \in BOOLEAN /\ unavailable \in BOOLEAN
    BY <1>1, Zenon
  <2>3. wire \in File /\ durable \in [1..MaxInputs -> File] /\ revision \in Nat
    BY <1>1, <1>2
  <2>4. physical \subseteq Codes /\ downs \in [Codes -> Nat] /\ ups \in [Codes -> Nat]
    BY <1>1
  <2> QED
    BY <1>1, <1>2, <1>3, <2>1, <2>2, <2>3, <2>4 DEF TypeInv
<1>5. WireInv
  BY <1>1 DEF WireInv, Waits, Synced, NoSnapshot
<1>6. PlanInv /\ LedgerEntryInv /\ HeldInv /\ PostsInv /\ SealedInv /\ CursorInv
  BY <1>1, <1>3 DEF PlanInv, LedgerEntryInv, HeldInv, PostsInv, SealedInv, CursorInv, NoEntry
<1> QED
  BY <1>4, <1>5, <1>6 DEF ExecutorInv

\* Every step keeps it.
LEMMA ExecutorStep ==
  ASSUME ExecutorInv, CursorInv, ExecutorNext \/ UNCHANGED executorVars
  PROVE  ExecutorInv' /\ CursorInv'
<1>1. CursorInv'
  BY CursorStep
<1>2. CASE UNCHANGED executorVars
  <2>1. TypeInv' /\ HeldInv' /\ PostsInv' /\ SealedInv'
    <3>1. TypeInv'
      BY <1>2 DEF ExecutorInv, TypeInv
    <3>2. HeldInv' /\ PostsInv' /\ SealedInv'
      BY <1>2 DEF ExecutorInv, HeldInv, Covers, PostsInv, SealedInv, LastEntry, Current
    <3> QED
      BY <3>1, <3>2
  <2>2. PlanInv' /\ LedgerEntryInv' /\ WireInv'
    BY <1>2 DEF ExecutorInv, PlanInv, LedgerEntryInv, WireInv, Synced, NoEntry, LastEntry, Current
  <2> QED
    BY <1>1, <2>1, <2>2 DEF ExecutorInv
<1>3. CASE Begin \/ StoreSnapshot \/ StopWaiting \/ Seal \/ HelperDies
  BY <1>1, <1>3, BeginStep, StoreSnapshotStep, StopWaitingStep, SealStep, HelperDiesStep, Zenon
<1>4. CASE Worker
  <2>1. CASE StopAtCheckpoint \/ PostEvent \/ AnnounceDown \/ DownAnnounced \/ PostDown \/ RefuseDown
             \/ RefusedDownClosed \/ DownConfirmed \/ AnnounceUp \/ UpAnnounced
    BY <1>1, <2>1, StopStep, PostEventStep, AnnounceDownStep, DownAnnouncedStep, PostDownStep,
       RefuseDownStep, RefusedDownClosedStep, DownConfirmedStep, AnnounceUpStep, UpAnnouncedStep, Zenon
  <2>2. CASE PostUp \/ UpReleased \/ Reported \/ FinishInput \/ VisitEntry \/ CleanupAnnounced
             \/ PostCleanupUp \/ CleanupReleased \/ CleanupReported \/ EndRelease
    BY <1>1, <2>2, PostUpStep, UpReleasedStep, ReportedStep, FinishInputStep, VisitEntryStep,
       CleanupAnnouncedStep, PostCleanupUpStep, CleanupReleasedStep, CleanupReportedStep,
       EndReleaseStep, Zenon
  <2> QED
    BY <1>4, <2>1, <2>2 DEF Worker
<1> QED
  BY <1>1, <1>2, <1>3, <1>4 DEF ExecutorNext

\* The executor, its ledger on the way and in the store, and what is down on the
\* machine agree in every state of every execution.
THEOREM ExecutorIsConsistent == ExecutorSpec => []ExecutorInv
<1>1. ExecutorInit => ExecutorInv /\ CursorInv
  BY ExecutorStarts
<1>2. ExecutorInv /\ CursorInv /\ [ExecutorNext]_executorVars => (ExecutorInv /\ CursorInv)'
  BY ExecutorStep
<1> QED
  BY <1>1, <1>2, PTL DEF ExecutorSpec

\* Every variable of the executor keeps its type.
THEOREM ExecutorKeepsItsTypes == ExecutorSpec => []ExecutorTypeOK
<1>1. ExecutorInv => ExecutorTypeOK
  <2> SUFFICES ASSUME ExecutorInv PROVE ExecutorTypeOK
    OBVIOUS
  <2>1. status \in Status /\ \A i \in DOMAIN entries : entries[i] \in Entry
    BY DEF ExecutorInv, TypeInv
  <2> QED
    BY <2>1 DEF ExecutorInv, TypeInv, Status, ExecutorTypeOK
<1> QED
  BY <1>1, ExecutorIsConsistent, PTL

\* Input that is down on the machine is on record as held, no code gets more ups
\* than downs, an idle helper that is not quarantined holds nothing, and neither
\* does the store of one that sealed clean.
THEOREM HeldInputStaysSafe == ExecutorSpec => []HeldInputIsSafe
<1>1. ExecutorInv => HeldInputIsSafe
  <2> SUFFICES ASSUME ExecutorInv PROVE HeldInputIsSafe
    OBVIOUS
  <2> USE DEF ExecutorInv
  <2>1. HeldInputIsDurable
    <3> SUFFICES ASSUME NEW c \in physical
                 PROVE  \E n \in 1..MaxInputs : \E i \in Unreleased(durable[n].entries) :
                          durable[n].entries[i].code = c
      BY DEF HeldInputIsDurable
    <3>1. entries # <<>> /\ c = LastEntry.code /\ Covers(durable[inputs], entries)
      BY DEF HeldInv
    <3>2. inputs \in 1..MaxInputs /\ Len(entries) \in Nat \ {0}
      BY <3>1 DEF TypeInv
    <3>3. Len(entries) \in DOMAIN durable[inputs].entries
      BY <3>1, <3>2 DEF Covers, TypeInv, File
    <3>4. Len(entries) \in Unreleased(durable[inputs].entries)
          /\ durable[inputs].entries[Len(entries)].code = c
      BY <3>1, <3>3 DEF Covers, Unreleased, LastEntry, Current
    <3> QED
      BY <3>2, <3>4
  <2>2. UpsMatchDowns
    BY DEF PostsInv, UpsMatchDowns
  <2>3. IdleMeansReleased
    BY DEF IdleMeansReleased, LedgerEntryInv, HeldInv, NoEntry, Clean
  <2>4. RotationHandsOverNothing
    BY DEF SealedInv, RotationHandsOverNothing
  <2> QED
    BY <2>1, <2>2, <2>3, <2>4 DEF HeldInputIsSafe, InputEndsReleased
<1> QED
  BY <1>1, ExecutorIsConsistent, PTL

HIDE DEF execVars, storeVars, machine, faultVars, executorVars
=============================================================================
