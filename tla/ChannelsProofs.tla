---------------------------- MODULE ChannelsProofs ----------------------------
(***************************************************************************)
(* Proofs about what stands between the runtime and its helper, for any    *)
(* calls, operations and captures and any number of faults: the heartbeat  *)
(* and the session on the side of the runtime, the command loop and a       *)
(* capture on that of the helper.                                          *)
(***************************************************************************)
EXTENDS Heartbeat, NativeSession, NativeCommandLoop, CaptureTask, SequenceTheorems, TLAPS

-----------------------------------------------------------------------------
(* The heartbeat.                                                          *)

Beat == [epoch : 0..MaxActivities, outcome : {"none", "waiting", "ok", "refused", "late", "aborted"}]
Heart == [active : BOOLEAN, epoch : 1..MaxActivities, stopped : BOOLEAN]

\* What is in progress is watched, and only a beat that was sent has an outcome.
HeartInv ==
  /\ heart \in Heart /\ beat \in Beat /\ beats \in 0..MaxBeats
  /\ {beatTimer, kicked} \subseteq BOOLEAN
  /\ beat.outcome = "none" => ~Pending
  /\ ActiveIsWatched

\* A kick of an active heart leaves a beat in flight, or the bound is reached.
LEMMA KickIs ==
  ASSUME HeartInv, NEW h \in Heart, Kick(h)
  PROVE  /\ beat' \in Beat /\ beats' \in 0..MaxBeats
         /\ beat'.outcome = "none" => ~Pending'
         /\ h.active /\ ~h.stopped /\ beats' < MaxBeats => Pending'
<1>1. beats \in Nat /\ beats <= MaxBeats /\ MaxBeats \in Nat
  BY HeartAssumption DEF HeartInv
<1>2. h.epoch \in 0..MaxActivities
  BY HeartAssumption DEF Heart
<1>3. CASE ~h.stopped /\ h.active /\ ~Pending /\ beats < MaxBeats
  <2>1. beat' = [epoch |-> h.epoch, outcome |-> "waiting"] /\ beats' = beats + 1
    BY <1>3 DEF Kick
  <2>2. beat' \in Beat /\ beat'.outcome = "waiting" /\ Pending'
    BY <1>2, <2>1 DEF Beat, Pending, NoBeat
  <2> QED
    BY <1>1, <1>3, <2>1, <2>2
<1>4. CASE ~(~h.stopped /\ h.active /\ ~Pending /\ beats < MaxBeats)
  <2>1. beat' = beat /\ beats' = beats
    BY <1>4 DEF Kick
  <2> QED
    BY <1>4, <2>1 DEF HeartInv, Pending
<1> QED
  BY <1>3, <1>4

\* A beat that is aborted was in flight and still has to be continued.
LEMMA AbortBeatIs ==
  ASSUME HeartInv, AbortBeat
  PROVE  /\ beat' \in Beat /\ beats' = beats
         /\ beat'.outcome = "none" => ~Pending'
<1>1. CASE beat.outcome = "waiting"
  <2>1. beat' = [beat EXCEPT !.outcome = "aborted"] /\ beats' = beats
    BY <1>1 DEF AbortBeat
  <2> QED
    BY <2>1 DEF HeartInv, Beat
<1>2. CASE beat.outcome # "waiting"
  <2>1. beat' = beat /\ beats' = beats
    BY <1>2 DEF AbortBeat
  <2> QED
    BY <2>1 DEF HeartInv, Pending
<1> QED
  BY <1>1, <1>2

\* The continuation of a beat arranges the next one while the activity lasts.
LEMMA ContinueKeeps == ASSUME HeartInv, BeatContinues PROVE HeartInv'
<1> DEFINE own == ItsOwnError
<1>0. heart \in Heart /\ beat \in Beat /\ beats \in 0..MaxBeats /\ {beatTimer, kicked} \subseteq BOOLEAN
  BY DEF HeartInv
<1>1. own \in BOOLEAN
  BY DEF ItsOwnError
<1>2. heart' = [heart EXCEPT !.stopped = @ \/ own] /\ beat' = NoBeat /\ beats' = beats
  BY DEF BeatContinues
<1> DEFINE again == ~heart'.stopped /\ heart.active
<1>3. kicked' = (kicked \/ (again /\ Stale)) /\ beatTimer' = (beatTimer \/ (again /\ beat.epoch = heart.epoch))
  BY DEF BeatContinues
<1>4. {beatTimer', kicked'} \subseteq BOOLEAN
  BY <1>0, <1>3
<1> HIDE DEF own
<1>5. heart' \in Heart /\ heart'.active = heart.active
  BY <1>0, <1>1, <1>2 DEF Heart
<1>6. beat' \in Beat /\ ~Pending'
  BY <1>2, HeartAssumption DEF Beat, NoBeat, Pending
<1>7. ActiveIsWatched'
  <2> SUFFICES ASSUME heart'.active, ~heart'.stopped PROVE beatTimer' \/ kicked'
    BY DEF ActiveIsWatched
  <2>1. again
    BY <1>5
  <2>2. Stale \/ beat.epoch = heart.epoch
    BY DEF Stale
  <2> QED
    BY <1>3, <2>1, <2>2
<1> QED
  BY <1>0, <1>2, <1>4, <1>5, <1>6, <1>7 DEF HeartInv

\* A microtask or the timer sends the next beat.
LEMMA KicksKeep == ASSUME HeartInv, KickRuns \/ BeatTimerFires PROVE HeartInv'
<1>1. heart' = heart /\ Kick(heart) /\ heart \in Heart
  BY DEF KickRuns, BeatTimerFires, HeartInv
<1>2. {beatTimer', kicked'} \subseteq BOOLEAN
  BY DEF HeartInv, KickRuns, BeatTimerFires
<1>3. /\ beat' \in Beat /\ beats' \in 0..MaxBeats
      /\ beat'.outcome = "none" => ~Pending'
      /\ heart.active /\ ~heart.stopped /\ beats' < MaxBeats => Pending'
  BY <1>1, KickIs
<1>4. ActiveIsWatched'
  BY <1>1, <1>3 DEF ActiveIsWatched
<1> QED
  BY <1>1, <1>2, <1>3, <1>4 DEF HeartInv

\* The activity begins with a kick, and its end leaves nothing to watch.
LEMMA ActivityKeeps == ASSUME HeartInv, SetActive \/ HeartStops PROVE HeartInv'
<1>0. heart \in Heart /\ beats \in 0..MaxBeats /\ {beatTimer, kicked} \subseteq BOOLEAN
  BY DEF HeartInv
<1>1. beatTimer' = FALSE /\ kicked' = kicked
  BY DEF SetActive, HeartStops
<1>2. heart' \in Heart
  <2>1. CASE SetActive
    <3>1. heart.epoch + 1 \in 1..MaxActivities
      BY <1>0, <2>1, HeartAssumption DEF SetActive, Heart
    <3>2. (~heart.active) \in BOOLEAN
      OBVIOUS
    <3>3. heart' = [heart EXCEPT !.active = ~@, !.epoch = @ + 1]
      BY <2>1 DEF SetActive
    <3> QED
      BY <1>0, <3>1, <3>2, <3>3 DEF Heart
  <2>2. CASE HeartStops
    BY <1>0, <2>2 DEF HeartStops, Heart
  <2> QED
    BY <2>1, <2>2
<1>3. CASE SetActive /\ heart'.active
  <2>1. Kick(heart')
    BY <1>3 DEF SetActive
  <2> DEFINE h == heart'
  <2>2. h \in Heart /\ Kick(h)
    BY <1>2, <2>1
  <2>3. /\ beat' \in Beat /\ beats' \in 0..MaxBeats
        /\ beat'.outcome = "none" => ~Pending'
        /\ h.active /\ ~h.stopped /\ beats' < MaxBeats => Pending'
    <3> HIDE DEF h
    <3> QED
      BY <2>2, KickIs
  <2>4. ActiveIsWatched'
    BY <2>3 DEF ActiveIsWatched
  <2> QED
    BY <1>0, <1>1, <1>2, <2>3, <2>4 DEF HeartInv
<1>4. CASE (SetActive /\ ~heart'.active) \/ HeartStops
  <2>1. AbortBeat
    BY <1>4 DEF SetActive, HeartStops
  <2>2. beat' \in Beat /\ beats' = beats /\ (beat'.outcome = "none" => ~Pending')
    BY <2>1, AbortBeatIs
  <2>3. ~heart'.active \/ heart'.stopped
    BY <1>0, <1>4 DEF HeartStops, Heart
  <2>4. ActiveIsWatched'
    BY <2>3 DEF ActiveIsWatched
  <2> QED
    BY <1>0, <1>1, <1>2, <2>2, <2>4 DEF HeartInv
<1> QED
  BY <1>3, <1>4

\* What is in progress is watched, whatever the order of activities, beats and answers.
THEOREM HeartIsConsistent == HeartSpec => []HeartInv
<1>1. HeartInit => HeartInv
  <2> SUFFICES ASSUME HeartInit PROVE HeartInv
    OBVIOUS
  <2>1. heart \in Heart /\ heart.active = FALSE
    BY HeartAssumption DEF HeartInit, Heart
  <2>2. beat \in Beat /\ beats \in 0..MaxBeats /\ ~Pending
    BY HeartAssumption DEF HeartInit, Beat, NoBeat, Pending
  <2>3. {beatTimer, kicked} \subseteq BOOLEAN
    BY DEF HeartInit
  <2> QED
    BY <2>1, <2>2, <2>3 DEF HeartInv, ActiveIsWatched
<1>2. HeartInv /\ [HeartNext]_heartVars => HeartInv'
  <2> SUFFICES ASSUME HeartInv, [HeartNext]_heartVars PROVE HeartInv'
    OBVIOUS
  <2>1. ASSUME NEW outcome \in {"ok", "refused", "late"}, BeatSettles(outcome) PROVE HeartInv'
    <3>1. beat' = [beat EXCEPT !.outcome = outcome] /\ UNCHANGED <<heart, beatTimer, kicked, beats>>
      BY <2>1 DEF BeatSettles
    <3>2. beat' \in Beat /\ beat'.outcome = outcome
      BY <3>1 DEF HeartInv, Beat
    <3>3. Pending'
      BY <3>2 DEF Pending, NoBeat
    <3> QED
      BY <3>1, <3>2, <3>3 DEF HeartInv, ActiveIsWatched
  <2>2. CASE UNCHANGED heartVars
    BY <2>2 DEF heartVars, HeartInv, ActiveIsWatched, Pending
  <2> QED
    BY <2>1, <2>2, ContinueKeeps, KicksKeep, ActivityKeeps DEF HeartNext
<1> QED
  BY <1>1, <1>2, PTL DEF HeartSpec

\* The heartbeat watches what is in progress, and blames the runtime for no beat but one
\* sent for the operation in progress.
THEOREM HeartbeatWatches == HeartSpec => HeartbeatIsTrue
<1>1. HeartInv' => ActiveIsWatched'
  BY DEF HeartInv
<1>2. ASSUME HeartInv, HeartInv', [HeartNext]_heartVars
      PROVE  [ /\ ActiveIsWatched'
               /\ blamed' # blamed => heart.active /\ blamed'.epoch = heart.epoch ]_heartVars
  <2>1. ASSUME blamed' # blamed PROVE heart.active /\ blamed'.epoch = heart.epoch
    <3>1. BeatContinues
      BY <1>2, <2>1 DEF HeartNext, BeatSettles, KickRuns, BeatTimerFires, SetActive, HeartStops, heartVars
    <3>2. ItsOwnError /\ blamed' = beat
      BY <2>1, <3>1 DEF BeatContinues
    <3> QED
      BY <3>2 DEF ItsOwnError
  <2> QED
    BY <1>1, <1>2, <2>1
<1> QED
  BY <1>2, HeartIsConsistent, PTL DEF HeartSpec, HeartbeatIsTrue

-----------------------------------------------------------------------------
(* The session with the helper.                                            *)

CallStages == Waiting \cup {"done", "failed", "new", "granted", "admitted", "pending", "stopping"}

\* The helper has no call that the session has forgotten, unless something failed.
NothingForgotten ==
  \A e \in atHelper : session.closed \/ exchanges[e] = "pending" \/ e \in tombstones \/ sessionFaults > 0

\* A rotation that closes has closed the session, and has seen the exit when it goes on.
RotationInv ==
  /\ rotating = "closing" => session.closed
  /\ rotating = "replacing" \/ replaced => child = "exited"

SessionInv ==
  /\ SessionTypeOK /\ sessionFaults \in Nat
  /\ NothingMutatesAfterSeal /\ LateAnswersAreHarmless /\ NothingForgotten /\ RotationInv

\* A call moves: one that is sent may be sent, and what the helper keeps is not forgotten.
LEMMA CallMoves ==
  ASSUME SessionInv, NEW e \in Exchanges, NEW at \in CallStages, Moved(e, at),
         UNCHANGED <<ledgerWrites, session, child, rotateVars>>,
         sessionFaults' = sessionFaults \/ sessionFaults' = sessionFaults + 1,
         authorizing' \cup tombstones' \cup orphans' \subseteq Exchanges,
         at = "pending" /\ session.sealed => ExchangeKind[e] # "mutation",
         atHelper' \subseteq atHelper \cup {e},
         tombstones \ {e} \subseteq tombstones',
         e \in atHelper' => session.closed \/ at = "pending" \/ e \in tombstones' \/ sessionFaults' > 0
  PROVE  SessionInv'
<1>0. /\ exchanges \in [Exchanges -> CallStages] /\ atHelper \subseteq Exchanges /\ sessionFaults \in Nat
  BY DEF SessionInv, SessionTypeOK, CallStages
<1>1. /\ exchanges' \in [Exchanges -> CallStages] /\ exchanges'[e] = at
      /\ \A x \in Exchanges \ {e} : exchanges'[x] = exchanges[x]
  BY <1>0 DEF Moved
<1>2. sessionFaults' \in Nat /\ (sessionFaults > 0 => sessionFaults' > 0)
  BY <1>0
<1>3. atHelper' \subseteq Exchanges
  BY <1>0
<1>4. SessionTypeOK'
  BY <1>1, <1>3 DEF SessionInv, SessionTypeOK, CallStages, rotateVars
<1>5. NothingMutatesAfterSeal'
  BY <1>1 DEF SessionInv, NothingMutatesAfterSeal
<1>6. LateAnswersAreHarmless'
  BY <1>2 DEF SessionInv, LateAnswersAreHarmless
<1>7. NothingForgotten'
  <2> SUFFICES ASSUME NEW x \in atHelper', x # e
               PROVE  session.closed \/ exchanges[x] = "pending" \/ x \in tombstones' \/ sessionFaults' > 0
    BY <1>1, <1>3 DEF NothingForgotten
  <2> QED
    BY <1>2 DEF SessionInv, NothingForgotten
<1>8. RotationInv'
  BY DEF SessionInv, RotationInv, rotateVars
<1> QED
  BY <1>2, <1>4, <1>5, <1>6, <1>7, <1>8 DEF SessionInv

\* A session that ends keeps what was promised: nothing is pending in it that was not.
LEMMA SessionEnds ==
  ASSUME SessionInv, exchanges' \in [Exchanges -> CallStages],
         \A x \in Exchanges : exchanges'[x] = "pending" => exchanges[x] = "pending",
         session' \in [closed : BOOLEAN, sealed : BOOLEAN, poisoned : BOOLEAN],
         session'.closed, session'.sealed = session.sealed,
         session'.poisoned => session.poisoned \/ sessionFaults' > 0,
         sessionFaults' = sessionFaults \/ sessionFaults' = sessionFaults + 1,
         child' \in {"running", "closing", "exited", "stuck"}, child = "exited" => child' = "exited",
         authorizing' \cup atHelper' \cup tombstones' \cup orphans' \subseteq Exchanges, ledgerWrites' \in 0..1,
         UNCHANGED rotateVars
  PROVE  SessionInv'
<1>0. sessionFaults \in Nat
  BY DEF SessionInv
<1>1. sessionFaults' \in Nat /\ (sessionFaults > 0 => sessionFaults' > 0)
  BY <1>0
<1>2. SessionTypeOK'
  BY DEF SessionInv, SessionTypeOK, CallStages, rotateVars
<1>3. NothingMutatesAfterSeal' /\ NothingForgotten'
  BY DEF SessionInv, NothingMutatesAfterSeal, NothingForgotten
<1>4. LateAnswersAreHarmless' /\ RotationInv'
  BY <1>1 DEF SessionInv, LateAnswersAreHarmless, RotationInv, rotateVars
<1> QED
  BY <1>1, <1>2, <1>3, <1>4 DEF SessionInv

\* A poison ends the session, unless it has ended already.
LEMMA PoisonIs ==
  ASSUME SessionInv, NEW calls \in [Exchanges -> CallStages], Poison(calls),
         \A x \in Exchanges : calls[x] = "pending" => exchanges[x] = "pending"
  PROVE  /\ exchanges' \in [Exchanges -> CallStages]
         /\ \A x \in Exchanges : exchanges'[x] = "pending" => exchanges[x] = "pending"
         /\ session' \in [closed : BOOLEAN, sealed : BOOLEAN, poisoned : BOOLEAN]
         /\ session'.closed /\ session'.sealed = session.sealed
         /\ session.closed => session'.poisoned = session.poisoned
         /\ child' \in {"running", "closing", "exited", "stuck"} /\ (child = "exited" => child' = "exited")
<1>0. /\ session \in [closed : BOOLEAN, sealed : BOOLEAN, poisoned : BOOLEAN]
      /\ child \in {"running", "closing", "exited", "stuck"}
  BY DEF SessionInv, SessionTypeOK
<1>1. CASE session.closed
  <2>1. exchanges' = calls /\ UNCHANGED <<session, child>>
    BY <1>1 DEF Poison
  <2> QED
    BY <1>0, <1>1, <2>1
<1>2. CASE ~session.closed
  <2>1. /\ exchanges' = Rejected(calls)
        /\ session' = [session EXCEPT !.closed = TRUE, !.poisoned = TRUE]
        /\ child' = IF child = "running" THEN "closing" ELSE child
    BY <1>2 DEF Poison
  <2>2. Rejected(calls) \in [Exchanges -> CallStages] /\ \A x \in Exchanges : Rejected(calls)[x] # "pending"
    BY DEF Rejected, CallStages
  <2>3. /\ session' \in [closed : BOOLEAN, sealed : BOOLEAN, poisoned : BOOLEAN]
        /\ session'.closed /\ session'.sealed = session.sealed
    BY <1>0, <2>1
  <2> QED
    BY <1>0, <1>2, <2>1, <2>2, <2>3
<1> QED
  BY <1>1, <1>2

\* An answer: to a call that is awaited, to one given up, or to none that is known,
\* which takes a failure before it.
LEMMA AnswerKeeps ==
  ASSUME SessionInv, NEW e \in Exchanges, Answer(e)
  PROVE  SessionInv'
<1>0. /\ e \in atHelper /\ atHelper' = atHelper \ {e} /\ sessionFaults' = sessionFaults
      /\ UNCHANGED <<authorizing, ledgerWrites, rotateVars>>
  BY DEF Answer, NoSessionFault
<1>1. /\ exchanges \in [Exchanges -> CallStages] /\ sessionFaults \in Nat /\ ledgerWrites \in 0..1
      /\ authorizing \cup atHelper \cup tombstones \cup orphans \subseteq Exchanges
      /\ session \in [closed : BOOLEAN, sealed : BOOLEAN, poisoned : BOOLEAN]
      /\ child \in {"running", "closing", "exited", "stuck"}
  BY DEF SessionInv, SessionTypeOK, CallStages
<1>2. CASE session.closed
  <2>1. UNCHANGED <<exchanges, tombstones, orphans, session, child>>
    BY <1>2 DEF Answer
  <2> QED
    BY <1>0, <1>1, <1>2, <2>1, SessionEnds
<1>3. CASE ~session.closed /\ exchanges[e] = "pending"
  <2>1. PICK at \in {"done", "stopping"} : Moved(e, at)
    BY <1>3 DEF Answer
  <2>2. orphans' \in {orphans \cup {e}, orphans} /\ UNCHANGED <<tombstones, session, child>>
    BY <1>3 DEF Answer
  <2>3. authorizing' \cup tombstones' \cup orphans' \subseteq Exchanges
    BY <1>0, <1>1, <2>2
  <2>4. at \in CallStages /\ at # "pending"
    BY DEF CallStages
  <2> QED
    BY <1>0, <2>1, <2>2, <2>3, <2>4, CallMoves
<1>4. CASE ~session.closed /\ exchanges[e] # "pending" /\ e \in tombstones
  <2>1. /\ tombstones' = tombstones \ {e} /\ orphans' \in {orphans \cup {e}, orphans}
        /\ UNCHANGED <<exchanges, session, child>>
    BY <1>4 DEF Answer
  <2>2. authorizing' \cup tombstones' \cup orphans' \subseteq Exchanges
    BY <1>0, <1>1, <2>1
  <2> DEFINE at == exchanges[e]
  <2>3. at \in CallStages /\ at # "pending" /\ Moved(e, at)
    BY <1>1, <1>4, <2>1 DEF Moved
  <2> HIDE DEF at
  <2> QED
    BY <1>0, <2>1, <2>2, <2>3, CallMoves
<1>5. CASE ~session.closed /\ exchanges[e] # "pending" /\ e \notin tombstones
  <2>1. Poison(exchanges) /\ UNCHANGED <<tombstones, orphans>>
    BY <1>5 DEF Answer
  <2>2. sessionFaults' > 0
    BY <1>0, <1>5 DEF SessionInv, NothingForgotten
  <2>3. /\ exchanges' \in [Exchanges -> CallStages]
        /\ \A x \in Exchanges : exchanges'[x] = "pending" => exchanges[x] = "pending"
        /\ session' \in [closed : BOOLEAN, sealed : BOOLEAN, poisoned : BOOLEAN]
        /\ session'.closed /\ session'.sealed = session.sealed
        /\ child' \in {"running", "closing", "exited", "stuck"} /\ (child = "exited" => child' = "exited")
    BY <1>1, <2>1, PoisonIs
  <2>4. authorizing' \cup atHelper' \cup tombstones' \cup orphans' \subseteq Exchanges
    BY <1>0, <1>1, <2>1
  <2> QED
    BY <1>0, <1>1, <2>2, <2>3, <2>4, SessionEnds
<1> QED
  BY <1>2, <1>3, <1>4, <1>5

\* An observer that nobody knows is stopped, or the session ends.
LEMMA UndoKeeps ==
  ASSUME SessionInv, NEW e \in Exchanges, Undo(e)
  PROVE  SessionInv'
<1> DEFINE told == [exchanges EXCEPT ![e] = IF @ = "stopping" THEN "failed" ELSE @]
<1>0. e \in orphans /\ UNCHANGED <<authorizing, atHelper, tombstones, ledgerWrites, rotateVars>>
  BY DEF Undo
<1>1. /\ exchanges \in [Exchanges -> CallStages] /\ sessionFaults \in Nat /\ ledgerWrites \in 0..1
      /\ authorizing \cup atHelper \cup tombstones \cup orphans \subseteq Exchanges
  BY DEF SessionInv, SessionTypeOK, CallStages
<1>2. /\ told \in [Exchanges -> CallStages]
      /\ \A x \in Exchanges : told[x] = "pending" <=> exchanges[x] = "pending"
  BY <1>1 DEF CallStages
<1>3. CASE /\ exchanges' = told /\ orphans' \in {orphans, orphans \ {e}}
           /\ UNCHANGED <<session, child>> /\ NoSessionFault
  <2>1. authorizing' \cup tombstones' \cup orphans' \subseteq Exchanges
    BY <1>0, <1>1, <1>3
  <2> DEFINE at == IF exchanges[e] = "stopping" THEN "failed" ELSE exchanges[e]
  <2>2. at \in CallStages /\ Moved(e, at) /\ (at = "pending" <=> exchanges[e] = "pending")
    BY <1>1, <1>3 DEF Moved, CallStages
  <2>3. at = "pending" /\ session.sealed => ExchangeKind[e] # "mutation"
    BY <2>2 DEF SessionInv, NothingMutatesAfterSeal
  <2>4. e \in atHelper' => session.closed \/ at = "pending" \/ e \in tombstones' \/ sessionFaults' > 0
    BY <1>0, <1>3, <2>2 DEF SessionInv, NothingForgotten, NoSessionFault
  <2> HIDE DEF at
  <2> QED
    BY <1>0, <1>3, <2>1, <2>2, <2>3, <2>4, CallMoves DEF NoSessionFault
<1>4. CASE SessionFault /\ Poison(told) /\ UNCHANGED orphans
  <2> HIDE DEF told
  <2>1. sessionFaults' = sessionFaults + 1 /\ sessionFaults' > 0
    BY <1>1, <1>4 DEF SessionFault
  <2>2. /\ exchanges' \in [Exchanges -> CallStages]
        /\ \A x \in Exchanges : exchanges'[x] = "pending" => exchanges[x] = "pending"
        /\ session' \in [closed : BOOLEAN, sealed : BOOLEAN, poisoned : BOOLEAN]
        /\ session'.closed /\ session'.sealed = session.sealed
        /\ child' \in {"running", "closing", "exited", "stuck"} /\ (child = "exited" => child' = "exited")
    BY <1>2, <1>4, PoisonIs
  <2>3. authorizing' \cup atHelper' \cup tombstones' \cup orphans' \subseteq Exchanges
    BY <1>0, <1>1, <1>4
  <2> QED
    BY <1>0, <1>1, <2>1, <2>2, <2>3, SessionEnds
<1>5. \/ exchanges' = told /\ orphans' = orphans \ {e} /\ UNCHANGED <<session, child>> /\ NoSessionFault
      \/ exchanges' = told /\ UNCHANGED <<orphans, session, child>> /\ NoSessionFault
      \/ SessionFault /\ Poison(told) /\ UNCHANGED orphans
  BY DEF Undo, StopOrphan
<1> QED
  BY <1>3, <1>4, <1>5

\* A call is made, authorized, sent or given up.
LEMMA CallsKeep ==
  ASSUME SessionInv, NEW e \in Exchanges,
         Call(e) \/ Authorized(e) \/ AskView(e) \/ Exchange(e) \/ SendFails(e) \/ GiveUp(e)
  PROVE  SessionInv'
<1>0. /\ exchanges \in [Exchanges -> CallStages] /\ sessionFaults \in Nat
      /\ authorizing \cup atHelper \cup tombstones \cup orphans \subseteq Exchanges
  BY DEF SessionInv, SessionTypeOK, CallStages
<1>1. UNCHANGED <<ledgerWrites, session, child, rotateVars>>
  BY DEF Call, Authorized, AskView, Exchange, SendFails, GiveUp
<1>2. e \in atHelper => session.closed \/ exchanges[e] = "pending" \/ e \in tombstones \/ sessionFaults > 0
  BY DEF SessionInv, NothingForgotten
<1>3. CASE Call(e)
  <2>1. PICK at \in {"admitted", "granting", "failed"} : Moved(e, at)
    BY <1>3 DEF Call
  <2>2. at \in CallStages /\ at # "pending" /\ exchanges[e] = "new"
    BY <1>3 DEF CallStages, Waiting, Call
  <2>3. UNCHANGED <<atHelper, tombstones, orphans, sessionFaults>> /\ authorizing' \in {authorizing, authorizing \cup {e}}
    BY <1>3 DEF Call, NoSessionFault
  <2>4. authorizing' \cup tombstones' \cup orphans' \subseteq Exchanges
    BY <1>0, <2>3
  <2> QED
    BY <1>1, <1>2, <2>1, <2>2, <2>3, <2>4, CallMoves
<1>4. CASE Authorized(e)
  <2>1. PICK at \in {"failed", "granted", "admitted", exchanges[e]} : Moved(e, at)
    <3>1. exchanges' = exchanges => Moved(e, exchanges[e])
      BY <1>0 DEF Moved
    <3> QED
      BY <1>4, <3>1 DEF Authorized
  <2>2. at \in CallStages
    BY <1>0 DEF CallStages
  <2>3. UNCHANGED <<atHelper, tombstones, orphans, sessionFaults>> /\ authorizing' = authorizing \ {e}
    BY <1>4 DEF Authorized, NoSessionFault
  <2>4. authorizing' \cup tombstones' \cup orphans' \subseteq Exchanges
    BY <1>0, <2>3
  <2>5. at # exchanges[e] => exchanges[e] # "pending"
    BY <1>4, <1>0, <2>1 DEF Authorized, Waiting, Moved
  <2>6. at = "pending" => exchanges[e] = "pending"
    BY <2>1
  <2>7. at = "pending" /\ session.sealed => ExchangeKind[e] # "mutation"
    BY <2>6 DEF SessionInv, NothingMutatesAfterSeal
  <2>8. e \in atHelper' => session.closed \/ at = "pending" \/ e \in tombstones' \/ sessionFaults' > 0
    BY <1>2, <2>3, <2>5
  <2> QED
    BY <1>1, <2>1, <2>2, <2>3, <2>4, <2>7, <2>8, CallMoves
<1>5. CASE AskView(e)
  <2>1. PICK at \in {"failed", "viewing", "admitted"} : Moved(e, at)
    BY <1>5 DEF AskView
  <2>2. at \in CallStages /\ at # "pending" /\ exchanges[e] = "granted"
    BY <1>5 DEF CallStages, Waiting, AskView
  <2>3. UNCHANGED <<atHelper, tombstones, orphans, sessionFaults>> /\ authorizing' \in {authorizing, authorizing \cup {e}}
    BY <1>5 DEF AskView, NoSessionFault
  <2>4. authorizing' \cup tombstones' \cup orphans' \subseteq Exchanges
    BY <1>0, <2>3
  <2> QED
    BY <1>1, <1>2, <2>1, <2>2, <2>3, <2>4, CallMoves
<1>6. CASE Exchange(e)
  <2>0. UNCHANGED <<authorizing, tombstones, orphans, sessionFaults>> /\ exchanges[e] = "admitted"
    BY <1>6 DEF Exchange, NoSessionFault
  <2>1. authorizing' \cup tombstones' \cup orphans' \subseteq Exchanges
    BY <1>0, <2>0
  <2>2. CASE MaySend(e)
    <3>1. Moved(e, "pending") /\ atHelper' = atHelper \cup {e} /\ (session.sealed => ExchangeKind[e] = "control")
      BY <1>6, <2>2 DEF Exchange, MaySend
    <3>2. "pending" \in CallStages
      BY DEF CallStages
    <3> QED
      BY <1>1, <2>0, <2>1, <3>1, <3>2, CallMoves
  <2>3. CASE ~MaySend(e)
    <3>1. Moved(e, "failed") /\ atHelper' = atHelper
      BY <1>6, <2>3 DEF Exchange
    <3>2. "failed" \in CallStages
      BY DEF CallStages
    <3> QED
      BY <1>1, <1>2, <2>0, <2>1, <3>1, <3>2, CallMoves
  <2> QED
    BY <2>2, <2>3
<1>7. CASE SendFails(e)
  <2>1. /\ Moved(e, "failed") /\ atHelper' \in {atHelper, atHelper \ {e}} /\ "failed" \in CallStages
        /\ UNCHANGED <<authorizing, tombstones, orphans>> /\ sessionFaults' = sessionFaults + 1
    BY <1>7 DEF SendFails, SessionFault, CallStages
  <2>2. sessionFaults' > 0
    BY <1>0, <2>1
  <2>3. authorizing' \cup tombstones' \cup orphans' \subseteq Exchanges /\ atHelper' \subseteq atHelper
    BY <1>0, <2>1
  <2> QED
    BY <1>1, <2>1, <2>2, <2>3, CallMoves
<1>8. CASE GiveUp(e)
  <2>1. /\ Moved(e, "failed") /\ UNCHANGED <<authorizing, atHelper, orphans, sessionFaults>> /\ "failed" \in CallStages
        /\ tombstones' \in {tombstones, tombstones \cup {e}}
    BY <1>8 DEF GiveUp, NoSessionFault, Entomb, CallStages
  <2>2. exchanges[e] = "pending" => e \in tombstones'
    BY <1>8 DEF GiveUp, Entomb
  <2>3. authorizing' \cup tombstones' \cup orphans' \subseteq Exchanges
    BY <1>0, <2>1
  <2>4. e \in atHelper' => session.closed \/ e \in tombstones' \/ sessionFaults' > 0
    BY <1>2, <2>1, <2>2
  <2> QED
    BY <1>1, <2>1, <2>3, <2>4, CallMoves
<1> QED
  BY <1>3, <1>4, <1>5, <1>6, <1>7, <1>8

\* What the helper asks and how it ends.
LEMMA HelperKeeps ==
  ASSUME SessionInv, PersistAsked \/ PersistEnds \/ ChildLost \/ ChildCloses
  PROVE  SessionInv'
<1>1. /\ exchanges \in [Exchanges -> CallStages] /\ sessionFaults \in Nat /\ ledgerWrites \in 0..1
      /\ authorizing \cup atHelper \cup tombstones \cup orphans \subseteq Exchanges
      /\ session \in [closed : BOOLEAN, sealed : BOOLEAN, poisoned : BOOLEAN]
  BY DEF SessionInv, SessionTypeOK, CallStages
<1>2. CASE UNCHANGED <<exchanges, authorizing, atHelper, tombstones, orphans, session, rotateVars>>
           /\ sessionFaults' \in {sessionFaults, sessionFaults + 1} /\ ledgerWrites' \in 0..1
           /\ child' \in {"running", "closing", "exited", "stuck"} /\ (child = "exited" => child' = "exited")
  <2>1. sessionFaults' \in Nat /\ (sessionFaults > 0 => sessionFaults' > 0)
    BY <1>1, <1>2
  <2>2. SessionTypeOK'
    BY <1>2 DEF SessionInv, SessionTypeOK, rotateVars
  <2>3. NothingMutatesAfterSeal' /\ LateAnswersAreHarmless' /\ RotationInv'
    BY <1>2, <2>1 DEF SessionInv, NothingMutatesAfterSeal, LateAnswersAreHarmless, RotationInv, rotateVars
  <2>4. NothingForgotten'
    BY <1>2, <2>1 DEF SessionInv, NothingForgotten
  <2> QED
    BY <2>1, <2>2, <2>3, <2>4 DEF SessionInv
<1>3. CASE PersistAsked
  BY <1>2, <1>3 DEF PersistAsked, callVars, NoSessionFault
<1>4. CASE PersistEnds
  <2>0. ledgerWrites' = 0 /\ UNCHANGED <<authorizing, atHelper, tombstones, orphans, rotateVars>>
    BY <1>4 DEF PersistEnds
  <2>1. CASE UNCHANGED <<exchanges, session, child>> /\ NoSessionFault
    BY <1>2, <2>0, <2>1 DEF SessionInv, SessionTypeOK, NoSessionFault
  <2>2. CASE SessionFault /\ Poison(exchanges)
    <3>1. sessionFaults' = sessionFaults + 1 /\ sessionFaults' > 0
      BY <1>1, <2>2 DEF SessionFault
    <3>2. /\ exchanges' \in [Exchanges -> CallStages]
          /\ \A x \in Exchanges : exchanges'[x] = "pending" => exchanges[x] = "pending"
          /\ session' \in [closed : BOOLEAN, sealed : BOOLEAN, poisoned : BOOLEAN]
          /\ session'.closed /\ session'.sealed = session.sealed
          /\ child' \in {"running", "closing", "exited", "stuck"} /\ (child = "exited" => child' = "exited")
      BY <1>1, <2>2, PoisonIs
    <3>3. authorizing' \cup atHelper' \cup tombstones' \cup orphans' \subseteq Exchanges
      BY <1>1, <2>0
    <3> QED
      BY <2>0, <3>1, <3>2, <3>3, SessionEnds
  <2> QED
    BY <1>4, <2>1, <2>2 DEF PersistEnds
<1>5. CASE ChildLost
  <2>1. /\ exchanges' = Rejected(exchanges) /\ child' = "exited"
        /\ session' = [session EXCEPT !.closed = TRUE, !.poisoned = TRUE]
        /\ sessionFaults' = sessionFaults + 1
        /\ UNCHANGED <<authorizing, atHelper, tombstones, orphans, ledgerWrites, rotateVars>>
    BY <1>5 DEF ChildLost, SessionFault
  <2>2. Rejected(exchanges) \in [Exchanges -> CallStages] /\ \A x \in Exchanges : Rejected(exchanges)[x] # "pending"
    BY <1>1 DEF Rejected, CallStages
  <2>3. /\ session' \in [closed : BOOLEAN, sealed : BOOLEAN, poisoned : BOOLEAN]
        /\ session'.closed /\ session'.sealed = session.sealed
    BY <1>1, <2>1
  <2>4. sessionFaults' > 0
    BY <1>1, <2>1
  <2> QED
    BY <1>1, <2>1, <2>2, <2>3, <2>4, SessionEnds
<1>6. CASE ChildCloses
  <2>1. sessionFaults' \in {sessionFaults, sessionFaults + 1} /\ child' \in {"exited", "stuck"}
    BY <1>6 DEF ChildCloses, NoSessionFault, SessionFault
  <2> QED
    BY <1>1, <1>2, <1>6, <2>1 DEF ChildCloses, callVars
<1> QED
  BY <1>3, <1>4, <1>5, <1>6

\* A rotation seals what is at rest, and goes on when the helper is gone.
LEMMA RotationKeeps == ASSUME SessionInv, Rotation PROVE SessionInv'
<1>1. /\ exchanges \in [Exchanges -> CallStages] /\ sessionFaults \in Nat
      /\ session \in [closed : BOOLEAN, sealed : BOOLEAN, poisoned : BOOLEAN]
      /\ child \in {"running", "closing", "exited", "stuck"} /\ {drained, replaced} \subseteq BOOLEAN
  BY DEF SessionInv, SessionTypeOK, CallStages
<1>2. UNCHANGED <<authorizing, atHelper, tombstones, orphans, ledgerWrites>>
  BY DEF Rotation, Rotate, Seal, Drain, Retain, CloseOld, Closed, Replace, callVars
<1>3. sessionFaults' \in {sessionFaults, sessionFaults + 1}
  BY DEF Rotation, Rotate, Seal, Drain, Retain, CloseOld, Closed, Replace, NoSessionFault, SessionFault
<1>4. sessionFaults' \in Nat /\ (sessionFaults > 0 => sessionFaults' > 0)
  BY <1>1, <1>3
<1>5. rotating' \in Resting \cup {"prepared", "sealed", "drained", "retained", "closing", "replacing"}
  BY DEF Rotation, Rotate, Seal, Drain, Retain, CloseOld, Closed, Replace, Resting, Quarantined
<1>6. {drained', replaced'} \subseteq BOOLEAN
  BY <1>1 DEF Rotation, Rotate, Seal, Drain, Retain, CloseOld, Closed, Replace, Quarantined
<1>7. exchanges' \in [Exchanges -> CallStages]
      /\ \A x \in Exchanges : exchanges'[x] = "pending" => exchanges[x] = "pending"
  <2>1. exchanges' \in {exchanges, Rejected(exchanges)}
    BY DEF Rotation, Rotate, Seal, Drain, Retain, CloseOld, Closed, Replace, callVars
  <2>2. Rejected(exchanges) \in [Exchanges -> CallStages] /\ \A x \in Exchanges : Rejected(exchanges)[x] # "pending"
    BY <1>1 DEF Rejected, CallStages
  <2> QED
    BY <1>1, <2>1, <2>2
<1>8. /\ session' \in [closed : BOOLEAN, sealed : BOOLEAN, poisoned : BOOLEAN]
      /\ session.closed => session'.closed
      /\ session'.poisoned = session.poisoned
      /\ session'.sealed => session.sealed \/ PendingCalls = {}
  <2>1. \/ session' = session
        \/ session' = [session EXCEPT !.closed = TRUE]
        \/ session' = [session EXCEPT !.sealed = TRUE] /\ Quiescent
    BY DEF Rotation, Rotate, Seal, Drain, Retain, CloseOld, Closed, Replace
  <2> QED
    BY <1>1, <2>1 DEF Quiescent
<1>9. child' \in {"running", "closing", "exited", "stuck"} /\ (child = "exited" => child' = "exited")
  BY <1>1 DEF Rotation, Rotate, Seal, Drain, Retain, CloseOld, Closed, Replace
<1>10. SessionTypeOK'
  BY <1>2, <1>5, <1>6, <1>7, <1>8, <1>9 DEF SessionInv, SessionTypeOK, CallStages
<1>11. NothingMutatesAfterSeal'
  BY <1>7, <1>8 DEF SessionInv, NothingMutatesAfterSeal, PendingCalls
<1>12. LateAnswersAreHarmless'
  BY <1>4, <1>8 DEF SessionInv, LateAnswersAreHarmless
<1>13. NothingForgotten'
  <2>1. exchanges' = exchanges \/ session.closed
    BY DEF Rotation, Rotate, Seal, Drain, Retain, CloseOld, Closed, Replace, callVars, SessionInv, RotationInv
  <2> QED
    BY <1>2, <1>4, <1>8, <2>1 DEF SessionInv, NothingForgotten
<1>14. RotationInv'
  <2>1. rotating' = "closing" => session'.closed
    BY <1>1 DEF Rotation, Rotate, Seal, Drain, Retain, CloseOld, Closed, Replace, Quarantined
  <2>2. rotating' = "replacing" => child = "exited"
    BY DEF Rotation, Rotate, Seal, Drain, Retain, CloseOld, Closed, Replace, Quarantined, OldIsGone
  <2>3. replaced' => replaced \/ rotating = "replacing"
    BY DEF Rotation, Rotate, Seal, Drain, Retain, CloseOld, Closed, Replace, Quarantined
  <2> QED
    BY <1>9, <2>1, <2>2, <2>3 DEF SessionInv, RotationInv
<1> QED
  BY <1>4, <1>10, <1>11, <1>12, <1>13, <1>14 DEF SessionInv

\* The session forgets no call of the helper and a rotation no helper, for any calls and
\* any number of failures.
THEOREM SessionIsConsistent == SessionSpec => []SessionInv
<1>1. SessionInit => SessionInv
  <2> SUFFICES ASSUME SessionInit PROVE SessionInv
    OBVIOUS
  <2>1. session \in [closed : BOOLEAN, sealed : BOOLEAN, poisoned : BOOLEAN]
    BY DEF SessionInit
  <2>2. exchanges \in [Exchanges -> CallStages]
    BY DEF SessionInit, CallStages
  <2>3. SessionTypeOK
    <3>1. {drained, replaced} \subseteq BOOLEAN
      BY DEF SessionInit
    <3>2. authorizing \cup atHelper \cup tombstones \cup orphans \subseteq Exchanges
      BY DEF SessionInit
    <3> QED
      BY <2>1, <2>2, <3>1, <3>2 DEF SessionInit, SessionTypeOK, CallStages, Resting
  <2> QED
    BY <2>3 DEF SessionInit, SessionInv, NothingMutatesAfterSeal, LateAnswersAreHarmless, NothingForgotten, RotationInv
<1>2. SessionInv /\ [SessionNext]_sessionVars => SessionInv'
  <2> SUFFICES ASSUME SessionInv, [SessionNext]_sessionVars PROVE SessionInv'
    OBVIOUS
  <2>1. ASSUME NEW e \in Exchanges,
               Call(e) \/ Authorized(e) \/ AskView(e) \/ Exchange(e) \/ SendFails(e)
                 \/ GiveUp(e) \/ Answer(e) \/ Undo(e)
        PROVE  SessionInv'
    BY <2>1, CallsKeep, AnswerKeeps, UndoKeeps
  <2>2. CASE UNCHANGED sessionVars
    <3>1. SessionTypeOK'
      BY <2>2 DEF SessionInv, SessionTypeOK, sessionVars, callVars, rotateVars
    <3> QED
      BY <2>2, <3>1 DEF SessionInv, NothingMutatesAfterSeal, LateAnswersAreHarmless, NothingForgotten,
                        RotationInv, sessionVars, callVars, rotateVars
  <2> QED
    BY <2>1, <2>2, HelperKeeps, RotationKeeps DEF SessionNext
<1> QED
  BY <1>1, <1>2, PTL DEF SessionSpec

\* A sealed session stays still, a late answer costs nothing, there is one helper at a
\* time, and a rotation closes the session only when nothing is pending.
THEOREM SessionStaysAligned == SessionSpec => SessionIsAligned
<1>1. SessionInv => NothingMutatesAfterSeal /\ LateAnswersAreHarmless /\ OneHelper
  BY DEF SessionInv, RotationInv, OneHelper
<1>2. SessionInv' => (NothingMutatesAfterSeal /\ LateAnswersAreHarmless /\ OneHelper)'
  BY <1>1, PTL
<1>3. CloseOld /\ rotating' = "closing" => PendingCalls = {} /\ ledgerWrites = 0
  BY DEF CloseOld, StillQuiescent, Quiescent, Quarantined
<1>4. SessionInv /\ SessionInv' /\ [SessionNext]_sessionVars
        => [/\ NothingMutatesAfterSeal' /\ LateAnswersAreHarmless' /\ OneHelper'
            /\ (CloseOld /\ rotating' = "closing" => PendingCalls = {} /\ ledgerWrites = 0)]_sessionVars
  BY <1>2, <1>3
<1> QED
  BY <1>4, SessionIsConsistent, PTL DEF SessionSpec, SessionIsAligned

-----------------------------------------------------------------------------
(* The command loop of the helper.                                         *)

Work == Actions \cup {"work"}
Frame == [kind : {"action", "cancel"}, op : Actions] \cup [kind : {"drain", "maintenance"}]
EndOfWork == [item : Work, result : {"done", "failed"}]
Worker == [at : {"idle", "checked", "verified", "done"}, item : Work \cup {"none"}]

LoopStateOK ==
  /\ frames \in Seq(Frame) /\ queue \in Seq(Work) /\ ends \in Seq(EndOfWork) /\ worker \in Worker
  /\ {busy, job} \subseteq Actions \cup {"none"}
  /\ published \in Statuses /\ receipts \in [Actions -> Statuses] /\ stoppedAcks \subseteq Actions
  /\ worker.at = "idle" <=> worker.item = "none"
  /\ worker.at \in {"checked", "verified"} => worker.item \in Actions

\* Where an action can be between its acceptance and its end.
InQueue == \E i \in 1..Len(queue) : queue[i] \in Actions
InWorker == worker.item \in Actions
InEnds == \E i \in 1..Len(ends) : ends[i].item \in Actions

\* One action at a time, in one place, and it is the busy one.
OneAction ==
  /\ \A i, j \in 1..Len(queue) : queue[i] \in Actions /\ queue[j] \in Actions => i = j
  /\ \A i, j \in 1..Len(ends) : ends[i].item \in Actions /\ ends[j].item \in Actions => i = j
  /\ InQueue => ~InWorker /\ ~InEnds
  /\ InWorker => ~InEnds
BusyInv ==
  /\ \A i \in 1..Len(queue) : queue[i] \in Actions => queue[i] = busy
  /\ InWorker => worker.item = busy
  /\ \A i \in 1..Len(ends) : ends[i].item \in Actions => ends[i].item = busy
  /\ busy # "none" => job = busy

Over == published \in {"ended", "quarantined"}

\* A request is new to the helper: asked once, with no job and no receipt before it.
FrameInv ==
  /\ \A i \in 1..Len(frames) : frames[i].kind = "action" =>
       /\ frames[i].op \in asked /\ frames[i].op # job /\ frames[i].op \notin stoppedAcks
       /\ receipts[frames[i].op] = "none"
       /\ \A j \in 1..Len(frames) : frames[j].kind = "action" /\ frames[j].op = frames[i].op => i = j
  /\ \A a \in Actions \ asked : a # job /\ a \notin stoppedAcks /\ receipts[a] = "none"

\* What is over is over; a helper that is ready has sealed with nothing in progress.
WordInv ==
  /\ Over => ~InQueue /\ ~InWorker
  /\ job \in stoppedAcks => Over
  /\ drainAck = "ready" => loopSealed /\ busy = "none"

LoopInv == LoopStateOK /\ OneAction /\ BusyInv /\ FrameInv /\ WordInv

\* The work of the helper is not touched.
Idle == UNCHANGED <<queue, ends, worker, busy, job, published>>

\* Steps that leave the work alone keep what is said of it.
LEMMA IdleKeeps ==
  ASSUME LoopInv, Idle
  PROVE  OneAction' /\ BusyInv' /\ (InQueue <=> InQueue') /\ (InWorker <=> InWorker') /\ (Over <=> Over')
<1>1. (InQueue <=> InQueue') /\ (InWorker <=> InWorker') /\ (InEnds <=> InEnds')
  BY DEF Idle, InQueue, InWorker, InEnds
<1>2. OneAction'
  BY <1>1 DEF LoopInv, OneAction, Idle
<1>3. BusyInv'
  BY <1>1 DEF LoopInv, BusyInv, Idle
<1> QED
  BY <1>1, <1>2, <1>3 DEF Over, Idle

\* The frame that is handled leaves; the requests behind it are others.
LEMMA FrameTaken ==
  ASSUME LoopInv, frames # <<>>, frames' = Tail(frames), asked' = asked
  PROVE  /\ frames' \in Seq(Frame) /\ Head(frames) \in Frame
         /\ \A i \in 1..Len(frames') : frames'[i].kind = "action" =>
              /\ frames'[i].op \in asked /\ frames'[i].op # job /\ frames'[i].op \notin stoppedAcks
              /\ receipts[frames'[i].op] = "none"
              /\ Head(frames).kind = "action" => frames'[i].op # Head(frames).op
              /\ \A j \in 1..Len(frames') :
                   frames'[j].kind = "action" /\ frames'[j].op = frames'[i].op => i = j
<1> DEFINE n == Len(frames)
<1>1. frames \in Seq(Frame) /\ n \in Nat \ {0} /\ Head(frames) = frames[1]
  BY DEF LoopInv, LoopStateOK
<1>2. /\ frames' \in Seq(Frame) /\ Head(frames) \in Frame /\ Len(frames') = n - 1
      /\ \A i \in 1..Len(frames') : frames'[i] = frames[i + 1]
  BY <1>1, HeadTailProperties
<1>3. \A i \in 1..Len(frames') : i + 1 \in 1..n /\ i \in Nat /\ i + 1 # 1
  BY <1>1, <1>2
<1>4. 1 \in 1..n
  BY <1>1
<1>5. FrameInv
  BY DEF LoopInv
<1> SUFFICES ASSUME NEW i \in 1..Len(frames'), frames'[i].kind = "action"
             PROVE  /\ frames'[i].op \in asked /\ frames'[i].op # job /\ frames'[i].op \notin stoppedAcks
                    /\ receipts[frames'[i].op] = "none"
                    /\ Head(frames).kind = "action" => frames'[i].op # Head(frames).op
                    /\ \A j \in 1..Len(frames') :
                         frames'[j].kind = "action" /\ frames'[j].op = frames'[i].op => i = j
  BY <1>2
<1>6. frames'[i] = frames[i + 1] /\ i + 1 \in 1..n /\ i + 1 # 1
  BY <1>2, <1>3
<1>7. /\ frames'[i].op \in asked /\ frames'[i].op # job /\ frames'[i].op \notin stoppedAcks
      /\ receipts[frames'[i].op] = "none"
  BY <1>5, <1>6 DEF FrameInv
<1>8. Head(frames).kind = "action" => frames'[i].op # Head(frames).op
  BY <1>1, <1>4, <1>5, <1>6 DEF FrameInv
<1>9. ASSUME NEW j \in 1..Len(frames'), frames'[j].kind = "action", frames'[j].op = frames'[i].op
      PROVE  i = j
  <2>1. frames'[j] = frames[j + 1] /\ j + 1 \in 1..n
    BY <1>2, <1>3
  <2>2. i + 1 = j + 1
    BY <1>5, <1>6, <1>9, <2>1 DEF FrameInv
  <2> QED
    BY <1>3, <2>2
<1> QED
  BY <1>7, <1>8, <1>9

\* A frame joins those on their way; a request is one that was not asked before.
LEMMA FrameSent ==
  ASSUME LoopInv, NEW f \in Frame, frames' = Append(frames, f),
         UNCHANGED <<job, receipts, stoppedAcks>>,
         IF f.kind = "action" THEN f.op \notin asked /\ asked' = asked \cup {f.op} ELSE asked' = asked
  PROVE  frames' \in Seq(Frame) /\ FrameInv'
<1> DEFINE n == Len(frames)
<1>1. frames \in Seq(Frame) /\ n \in Nat
  BY DEF LoopInv, LoopStateOK
<1>2. /\ frames' \in Seq(Frame) /\ Len(frames') = n + 1 /\ frames'[n + 1] = f
      /\ \A i \in 1..n : frames'[i] = frames[i]
  BY <1>1, AppendProperties
<1>3. \A i \in 1..Len(frames') : i \in 1..n \/ i = n + 1
  BY <1>1, <1>2
<1>4. FrameInv
  BY DEF LoopInv
<1>5. asked \subseteq asked'
  OBVIOUS
<1>6. f.kind = "action" => f.op \in Actions
  BY DEF Frame
<1>7. ASSUME NEW i \in 1..Len(frames'), frames'[i].kind = "action"
      PROVE  /\ frames'[i].op \in asked' /\ frames'[i].op # job /\ frames'[i].op \notin stoppedAcks
             /\ receipts[frames'[i].op] = "none"
  BY <1>2, <1>3, <1>4, <1>5, <1>6, <1>7 DEF FrameInv
<1>8. ASSUME NEW i \in 1..Len(frames'), frames'[i].kind = "action",
             NEW j \in 1..Len(frames'), frames'[j].kind = "action", frames'[j].op = frames'[i].op
      PROVE  i = j
  <2>1. CASE i \in 1..n /\ j \in 1..n
    BY <1>2, <1>4, <1>8, <2>1 DEF FrameInv
  <2>2. CASE i = n + 1 /\ j = n + 1
    BY <2>2
  <2>3. CASE i \in 1..n /\ j = n + 1
    BY <1>2, <1>4, <1>8, <2>3 DEF FrameInv
  <2>4. CASE i = n + 1 /\ j \in 1..n
    BY <1>2, <1>4, <1>8, <2>4 DEF FrameInv
  <2> QED
    BY <1>3, <2>1, <2>2, <2>3, <2>4
<1>9. \A a \in Actions \ asked' : a # job /\ a \notin stoppedAcks /\ receipts[a] = "none"
  BY <1>4, <1>5 DEF FrameInv
<1>10. FrameInv'
  BY <1>7, <1>8, <1>9 DEF FrameInv
<1> QED
  BY <1>2, <1>10

\* Work that is not an action joins the queue.
LEMMA WorkQueued ==
  ASSUME LoopInv, queue' = Append(queue, "work"), UNCHANGED <<ends, worker, busy, job, published>>
  PROVE  /\ queue' \in Seq(Work) /\ OneAction' /\ BusyInv'
         /\ (InQueue <=> InQueue') /\ (InWorker <=> InWorker') /\ (Over <=> Over')
<1> DEFINE n == Len(queue)
<1>1. queue \in Seq(Work) /\ n \in Nat /\ "work" \in Work /\ "work" \notin Actions
  BY LoopAssumption DEF LoopInv, LoopStateOK, Work
<1>2. /\ queue' \in Seq(Work) /\ Len(queue') = n + 1 /\ queue'[n + 1] = "work"
      /\ \A i \in 1..n : queue'[i] = queue[i]
  BY <1>1, AppendProperties
<1>3. \A i \in 1..Len(queue') : queue'[i] \in Actions => i \in 1..n /\ queue'[i] = queue[i]
  BY <1>1, <1>2
<1>4. \A i \in 1..n : i \in 1..Len(queue')
  BY <1>1, <1>2
<1>5. InQueue <=> InQueue'
  BY <1>2, <1>3, <1>4 DEF InQueue
<1>6. (InWorker <=> InWorker') /\ (InEnds <=> InEnds')
  BY DEF InWorker, InEnds
<1>7. OneAction'
  BY <1>3, <1>5, <1>6 DEF LoopInv, OneAction
<1>8. BusyInv'
  BY <1>3, <1>6 DEF LoopInv, BusyInv
<1> QED
  BY <1>2, <1>5, <1>6, <1>7, <1>8 DEF Over

\* Steps that leave the work and what is promised alone: frames may come, a seal stays.
LEMMA QuietKeeps ==
  ASSUME LoopInv, Idle, frames' \in Seq(Frame), FrameInv',
         receipts' = receipts, stoppedAcks' = stoppedAcks, drainAck' = drainAck, loopSealed => loopSealed'
  PROVE  LoopInv'
<1>1. OneAction' /\ BusyInv' /\ (InQueue <=> InQueue') /\ (InWorker <=> InWorker') /\ (Over <=> Over')
  BY IdleKeeps
<1>2. LoopStateOK'
  BY DEF LoopInv, LoopStateOK, Idle
<1>3. WordInv'
  BY <1>1 DEF LoopInv, WordInv, Idle
<1> QED
  BY <1>1, <1>2, <1>3 DEF LoopInv

\* The runtime asks, cancels, drains or orders maintenance.
LEMMA RuntimeKeeps == ASSUME LoopInv, Runtime PROVE LoopInv'
<1>0. UNCHANGED <<loopSealed, busy, job, receipts, drainAck, stoppedAcks, queue, worker, ends, published>>
  BY DEF Runtime, controlVars, workVars
<1>1. PICK f \in Frame :
        /\ frames' = Append(frames, f)
        /\ IF f.kind = "action" THEN f.op \notin asked /\ asked' = asked \cup {f.op} ELSE asked' = asked
  <2>1. ASSUME NEW a \in Actions, SendAction(a)
        PROVE  \E f \in Frame :
                 /\ frames' = Append(frames, f)
                 /\ IF f.kind = "action" THEN f.op \notin asked /\ asked' = asked \cup {f.op} ELSE asked' = asked
    <3> DEFINE f == [kind |-> "action", op |-> a]
    <3>1. f \in Frame /\ f.kind = "action" /\ f.op = a
      BY DEF Frame
    <3>2. frames' = Append(frames, f) /\ a \notin asked /\ asked' = asked \cup {a}
      BY <2>1 DEF SendAction, Send
    <3> HIDE DEF f
    <3> QED
      BY <3>1, <3>2
  <2>2. ASSUME NEW a \in Actions, SendCancel(a)
        PROVE  \E f \in Frame : frames' = Append(frames, f) /\ f.kind # "action" /\ asked' = asked
    <3> DEFINE f == [kind |-> "cancel", op |-> a]
    <3>1. f \in Frame /\ f.kind # "action"
      BY DEF Frame
    <3>2. frames' = Append(frames, f) /\ asked' = asked
      BY <2>2 DEF SendCancel, Send
    <3> HIDE DEF f
    <3> QED
      BY <3>1, <3>2
  <2>3. ASSUME SendDrain
        PROVE  \E f \in Frame : frames' = Append(frames, f) /\ f.kind # "action" /\ asked' = asked
    <3> DEFINE f == [kind |-> "drain"]
    <3>1. f \in Frame /\ f.kind # "action"
      BY DEF Frame
    <3>2. frames' = Append(frames, f) /\ asked' = asked
      BY <2>3 DEF SendDrain, Send
    <3> HIDE DEF f
    <3> QED
      BY <3>1, <3>2
  <2>4. ASSUME SendMaintenance
        PROVE  \E f \in Frame : frames' = Append(frames, f) /\ f.kind # "action" /\ asked' = asked
    <3> DEFINE f == [kind |-> "maintenance"]
    <3>1. f \in Frame /\ f.kind # "action"
      BY DEF Frame
    <3>2. frames' = Append(frames, f) /\ asked' = asked
      BY <2>4 DEF SendMaintenance, Send
    <3> HIDE DEF f
    <3> QED
      BY <3>1, <3>2
  <2> QED
    BY <2>1, <2>2, <2>3, <2>4 DEF Runtime
<1>2. frames' \in Seq(Frame) /\ FrameInv'
  BY <1>0, <1>1, FrameSent
<1> QED
  BY <1>0, <1>2, QuietKeeps DEF Idle

\* The seals of the control queue, and what follows a failure.
LEMMA SealKeeps ==
  ASSUME LoopInv, MissHeartbeat \/ LateHeartbeat \/ ChannelFails \/ ForceExit
  PROVE  LoopInv'
<1>1. UNCHANGED <<frames, asked, busy, job, receipts, drainAck, stoppedAcks, queue, worker, ends, published>>
  BY DEF MissHeartbeat, LateHeartbeat, ChannelFails, ForceExit, runtimeVars, controlVars, workVars
<1>2. loopSealed => loopSealed'
  BY DEF MissHeartbeat, LateHeartbeat, ChannelFails, ForceExit, controlVars, Shutdown
<1>3. frames' \in Seq(Frame)
  BY <1>1 DEF LoopInv, LoopStateOK
<1>4. FrameInv'
  BY <1>1 DEF LoopInv, FrameInv
<1> QED
  BY <1>1, <1>2, <1>3, <1>4, QuietKeeps DEF Idle

\* A request is refused, or becomes the one action in progress.
LEMMA HandleActionKeeps == ASSUME LoopInv, HandleAction PROVE LoopInv'
<1> DEFINE a == Head(frames).op
<1>0. /\ frames # <<>> /\ frames' = Tail(frames) /\ asked' = asked /\ Head(frames).kind = "action"
      /\ UNCHANGED <<loopSealed, receipts, drainAck, stoppedAcks, worker, ends>>
  BY DEF HandleAction, Next1, Is
<1>1. /\ frames' \in Seq(Frame) /\ Head(frames) \in Frame
      /\ \A i \in 1..Len(frames') : frames'[i].kind = "action" =>
           /\ frames'[i].op \in asked /\ frames'[i].op # job /\ frames'[i].op \notin stoppedAcks
           /\ receipts[frames'[i].op] = "none"
           /\ frames'[i].op # a
           /\ \A j \in 1..Len(frames') :
                frames'[j].kind = "action" /\ frames'[j].op = frames'[i].op => i = j
  BY <1>0, FrameTaken
<1>2. a \in Actions
  BY <1>0, <1>1 DEF Frame
<1>3. CASE UNCHANGED <<busy, job, published, queue>>
  <2>1. FrameInv'
    BY <1>0, <1>1, <1>3 DEF LoopInv, FrameInv
  <2> QED
    BY <1>0, <1>1, <1>3, <2>1, QuietKeeps DEF Idle
<1>4. CASE /\ ~loopSealed /\ busy = "none" /\ busy' = a /\ job' = a /\ published' = "none"
           /\ queue' = Append(queue, a)
  <2> DEFINE n == Len(queue)
  <2>1. queue \in Seq(Work) /\ n \in Nat /\ a \in Work /\ a # "none" /\ "none" \notin Actions
    BY <1>2, LoopAssumption DEF LoopInv, LoopStateOK, Work
  <2>2. frames # <<>> /\ frames \in Seq(Frame) /\ Head(frames) = frames[1] /\ 1 \in 1..Len(frames)
    BY <1>0 DEF LoopInv, LoopStateOK
  <2>3. a \notin stoppedAcks /\ receipts[a] = "none" /\ a \in asked
    BY <1>0, <2>2 DEF LoopInv, FrameInv
  <2> HIDE DEF a
  <2>4. /\ queue' \in Seq(Work) /\ Len(queue') = n + 1 /\ queue'[n + 1] = a
        /\ \A i \in 1..n : queue'[i] = queue[i]
    BY <1>4, <2>1, AppendProperties
  <2>5. ~InQueue /\ ~InWorker /\ ~InEnds
    BY <1>4, <2>1 DEF LoopInv, BusyInv, InQueue, InWorker, InEnds
  <2>6. \A i \in 1..Len(queue') : queue'[i] \in Actions => i = n + 1 /\ queue'[i] = a
    <3>1. \A i \in 1..Len(queue') : i \in 1..n \/ i = n + 1
      BY <2>1, <2>4
    <3> QED
      BY <2>4, <2>5, <3>1 DEF InQueue
  <2>7. ~InWorker' /\ ~InEnds'
    BY <1>0, <2>5 DEF InWorker, InEnds
  <2>8. OneAction'
    BY <2>6, <2>7 DEF OneAction, InEnds
  <2>9. BusyInv'
    BY <1>4, <2>6, <2>7 DEF BusyInv, InEnds
  <2>10. LoopStateOK'
    <3>1. published' \in Statuses
      BY <1>4 DEF Statuses
    <3> QED
      BY <1>0, <1>1, <1>2, <1>4, <2>4, <3>1 DEF LoopInv, LoopStateOK
  <2>11. FrameInv'
    BY <1>0, <1>1, <1>4, <2>3 DEF LoopInv, FrameInv
  <2>12. WordInv'
    BY <1>0, <1>4, <2>3 DEF LoopInv, WordInv, Over
  <2> QED
    BY <2>8, <2>9, <2>10, <2>11, <2>12 DEF LoopInv
<1> QED
  BY <1>3, <1>4 DEF HandleAction

\* A cancel queues its work and may answer that the operation has stopped.
LEMMA HandleCancelKeeps == ASSUME LoopInv, HandleCancel PROVE LoopInv'
<1> DEFINE a == Head(frames).op
<1>0. /\ frames # <<>> /\ frames' = Tail(frames) /\ asked' = asked /\ Head(frames).kind = "cancel"
      /\ UNCHANGED <<busy, job, receipts, drainAck, worker, ends, published>>
  BY DEF HandleCancel, Next1, Is
<1>1. /\ frames' \in Seq(Frame) /\ Head(frames) \in Frame
      /\ \A i \in 1..Len(frames') : frames'[i].kind = "action" =>
           /\ frames'[i].op \in asked /\ frames'[i].op # job /\ frames'[i].op \notin stoppedAcks
           /\ receipts[frames'[i].op] = "none"
           /\ \A j \in 1..Len(frames') :
                frames'[j].kind = "action" /\ frames'[j].op = frames'[i].op => i = j
  BY <1>0, FrameTaken
<1>2. a \in Actions
  BY <1>0, <1>1 DEF Frame
<1>3. CASE a # job /\ receipts[a] = "none"
  <2>1. UNCHANGED <<queue, stoppedAcks>> /\ loopSealed' = TRUE
    BY <1>3 DEF HandleCancel, Shutdown
  <2>2. FrameInv'
    BY <1>0, <1>1, <2>1 DEF LoopInv, FrameInv
  <2> QED
    BY <1>0, <1>1, <2>1, <2>2, QuietKeeps DEF Idle
<1>4. CASE a = job \/ receipts[a] # "none"
  <2>1. /\ queue' = Append(queue, "work") /\ loopSealed' = loopSealed
        /\ stoppedAcks' = IF SaysStopped(a) THEN stoppedAcks \cup {a} ELSE stoppedAcks
    BY <1>4 DEF HandleCancel
  <2>2. /\ queue' \in Seq(Work) /\ OneAction' /\ BusyInv'
        /\ (InQueue <=> InQueue') /\ (InWorker <=> InWorker') /\ (Over <=> Over')
    BY <1>0, <2>1, WorkQueued
  <2>3. SaysStopped(a) /\ a = job => Over
    BY DEF SaysStopped, StatusOf, Over
  <2>4. a \in asked
    BY <1>2, <1>4 DEF LoopInv, FrameInv
  <2> HIDE DEF a
  <2>5. stoppedAcks' \subseteq stoppedAcks \cup {a}
    BY <2>1
  <2>6. LoopStateOK'
    BY <1>0, <1>1, <1>2, <2>2, <2>5 DEF LoopInv, LoopStateOK
  <2>7. FrameInv'
    <3>1. \A i \in 1..Len(frames') : frames'[i].kind = "action" => frames'[i].op # a
      BY <1>1, <1>4
    <3>2. \A i \in 1..Len(frames') : frames'[i].kind = "action" =>
            /\ frames'[i].op \in asked' /\ frames'[i].op # job' /\ frames'[i].op \notin stoppedAcks'
            /\ receipts'[frames'[i].op] = "none"
            /\ \A j \in 1..Len(frames') : frames'[j].kind = "action" /\ frames'[j].op = frames'[i].op => i = j
      BY <1>0, <1>1, <2>5, <3>1
    <3>3. \A b \in Actions \ asked' : b # job' /\ b \notin stoppedAcks' /\ receipts'[b] = "none"
      BY <1>0, <2>4, <2>5 DEF LoopInv, FrameInv
    <3> QED
      BY <3>2, <3>3 DEF FrameInv
  <2>8. WordInv'
    <3>1. job' \in stoppedAcks' => Over'
      BY <1>0, <2>1, <2>2, <2>3 DEF LoopInv, WordInv
    <3> QED
      BY <1>0, <2>1, <2>2, <3>1 DEF LoopInv, WordInv
  <2> QED
    BY <2>2, <2>6, <2>7, <2>8 DEF LoopInv
<1> QED
  BY <1>3, <1>4

\* A drain seals, and is told "ready" only when nothing is in progress.
LEMMA HandleDrainKeeps == ASSUME LoopInv, HandleDrain PROVE LoopInv'
<1>0. /\ frames # <<>> /\ frames' = Tail(frames) /\ asked' = asked /\ loopSealed' = TRUE
      /\ UNCHANGED <<busy, job, receipts, stoppedAcks, queue, worker, ends, published>>
      /\ drainAck' = "ready" => busy = "none"
  BY DEF HandleDrain, Next1, Is, workVars, NothingPending
<1>1. /\ frames' \in Seq(Frame)
      /\ \A i \in 1..Len(frames') : frames'[i].kind = "action" =>
           /\ frames'[i].op \in asked /\ frames'[i].op # job /\ frames'[i].op \notin stoppedAcks
           /\ receipts[frames'[i].op] = "none"
           /\ \A j \in 1..Len(frames') :
                frames'[j].kind = "action" /\ frames'[j].op = frames'[i].op => i = j
  BY <1>0, FrameTaken
<1>2. OneAction' /\ BusyInv' /\ (InQueue <=> InQueue') /\ (InWorker <=> InWorker') /\ (Over <=> Over')
  BY <1>0, IdleKeeps DEF Idle
<1>3. LoopStateOK'
  BY <1>0, <1>1 DEF LoopInv, LoopStateOK
<1>4. FrameInv'
  BY <1>0, <1>1 DEF LoopInv, FrameInv
<1>5. WordInv'
  BY <1>0, <1>2 DEF LoopInv, WordInv
<1> QED
  BY <1>2, <1>3, <1>4, <1>5 DEF LoopInv

\* Maintenance is queued.
LEMMA HandleMaintenanceKeeps == ASSUME LoopInv, HandleMaintenance PROVE LoopInv'
<1>0. /\ frames # <<>> /\ frames' = Tail(frames) /\ asked' = asked /\ queue' = Append(queue, "work")
      /\ UNCHANGED <<loopSealed, busy, job, receipts, drainAck, stoppedAcks, worker, ends, published>>
  BY DEF HandleMaintenance, Next1, Is
<1>1. /\ frames' \in Seq(Frame)
      /\ \A i \in 1..Len(frames') : frames'[i].kind = "action" =>
           /\ frames'[i].op \in asked /\ frames'[i].op # job /\ frames'[i].op \notin stoppedAcks
           /\ receipts[frames'[i].op] = "none"
           /\ \A j \in 1..Len(frames') :
                frames'[j].kind = "action" /\ frames'[j].op = frames'[i].op => i = j
  BY <1>0, FrameTaken
<1>2. /\ queue' \in Seq(Work) /\ OneAction' /\ BusyInv'
      /\ (InQueue <=> InQueue') /\ (InWorker <=> InWorker') /\ (Over <=> Over')
  BY <1>0, WorkQueued
<1>3. LoopStateOK'
  BY <1>0, <1>1, <1>2 DEF LoopInv, LoopStateOK
<1>4. FrameInv'
  BY <1>0, <1>1 DEF LoopInv, FrameInv
<1>5. WordInv'
  BY <1>0, <1>2 DEF LoopInv, WordInv
<1> QED
  BY <1>2, <1>3, <1>4, <1>5 DEF LoopInv

\* The end of work that is handled leaves the queue of ends.
LEMMA EndTaken ==
  ASSUME LoopInv, ends # <<>>, ends' = Tail(ends)
  PROVE  /\ ends' \in Seq(EndOfWork) /\ Head(ends) \in EndOfWork
         /\ Head(ends) = ends[1] /\ 1 \in 1..Len(ends)
         /\ \A i \in 1..Len(ends') : ends'[i] = ends[i + 1] /\ i + 1 \in 1..Len(ends) /\ i + 1 # 1
         /\ \A i, j \in 1..Len(ends') : i + 1 = j + 1 => i = j
<1>1. ends \in Seq(EndOfWork) /\ Len(ends) \in Nat \ {0}
  BY DEF LoopInv, LoopStateOK
<1>2. /\ ends' \in Seq(EndOfWork) /\ Head(ends) \in EndOfWork /\ Len(ends') = Len(ends) - 1
      /\ \A i \in 1..Len(ends') : ends'[i] = ends[i + 1]
  BY <1>1, HeadTailProperties
<1>3. \A i \in 1..Len(ends') : i + 1 \in 1..Len(ends) /\ i + 1 # 1 /\ i \in Nat
  BY <1>1, <1>2
<1>4. \A i, j \in 1..Len(ends') : i + 1 = j + 1 => i = j
  BY <1>3
<1> QED
  BY <1>1, <1>2, <1>3, <1>4

\* The end of an action: nothing is in progress any more, and its receipt is of the job.
LEMMA ActionEndsKeeps == ASSUME LoopInv, ActionEnds PROVE LoopInv'
<1>0. /\ ends # <<>> /\ ends' = Tail(ends) /\ Head(ends).item \in Actions /\ busy' = "none"
      /\ UNCHANGED <<frames, asked, job, drainAck, stoppedAcks, queue, worker, published>>
      /\ loopSealed => loopSealed'
  BY DEF ActionEnds, runtimeVars
<1>1. /\ ends' \in Seq(EndOfWork) /\ Head(ends) = ends[1] /\ 1 \in 1..Len(ends)
      /\ \A i \in 1..Len(ends') : ends'[i] = ends[i + 1] /\ i + 1 \in 1..Len(ends) /\ i + 1 # 1
  BY <1>0, EndTaken
<1>2. InEnds /\ ~InQueue /\ ~InWorker /\ Head(ends).item = busy /\ busy = job
  <2>1. InEnds /\ Head(ends).item = busy
    BY <1>0, <1>1 DEF LoopInv, BusyInv, InEnds
  <2>2. busy # "none"
    BY <1>0, <2>1, LoopAssumption
  <2> QED
    BY <2>1, <2>2 DEF LoopInv, OneAction, BusyInv
<1>3. ~InEnds'
  BY <1>0, <1>1 DEF LoopInv, OneAction, InEnds
<1>4. ~InQueue' /\ ~InWorker'
  BY <1>0, <1>2 DEF InQueue, InWorker
<1>5. OneAction' /\ BusyInv'
  BY <1>0, <1>3, <1>4 DEF OneAction, BusyInv, InQueue, InWorker, InEnds
<1>6. /\ receipts' \in [Actions -> Statuses]
      /\ \A b \in Actions : b # job => receipts'[b] = receipts[b]
  BY <1>2 DEF ActionEnds, LoopInv, LoopStateOK
<1>7. LoopStateOK'
  BY <1>0, <1>1, <1>6 DEF LoopInv, LoopStateOK
<1>8. FrameInv'
  <2>1. \A i \in 1..Len(frames) : frames[i].kind = "action" => frames[i].op \in Actions
    BY DEF LoopInv, LoopStateOK, Frame
  <2> QED
    BY <1>0, <1>6, <2>1 DEF LoopInv, FrameInv
<1>9. WordInv'
  BY <1>0, <1>4 DEF LoopInv, WordInv, Over
<1> QED
  BY <1>5, <1>7, <1>8, <1>9 DEF LoopInv

\* The end of other work.
LEMMA WorkEndsKeeps == ASSUME LoopInv, WorkEnds PROVE LoopInv'
<1>0. /\ ends # <<>> /\ ends' = Tail(ends) /\ Head(ends).item = "work"
      /\ UNCHANGED <<frames, asked, loopSealed, busy, job, receipts, drainAck, stoppedAcks, queue, worker, published>>
  BY DEF WorkEnds, runtimeVars
<1>1. /\ ends' \in Seq(EndOfWork) /\ Head(ends) = ends[1] /\ 1 \in 1..Len(ends)
      /\ \A i \in 1..Len(ends') : ends'[i] = ends[i + 1] /\ i + 1 \in 1..Len(ends) /\ i + 1 # 1
      /\ \A i, j \in 1..Len(ends') : i + 1 = j + 1 => i = j
  BY <1>0, EndTaken
<1>2. (InQueue <=> InQueue') /\ (InWorker <=> InWorker') /\ (InEnds' => InEnds) /\ (Over <=> Over')
  BY <1>0, <1>1 DEF InQueue, InWorker, InEnds, Over
<1>3. OneAction'
  BY <1>0, <1>1, <1>2 DEF LoopInv, OneAction
<1>4. BusyInv'
  BY <1>0, <1>1, <1>2 DEF LoopInv, BusyInv
<1>5. LoopStateOK'
  BY <1>0, <1>1 DEF LoopInv, LoopStateOK
<1>6. FrameInv' /\ WordInv'
  BY <1>0, <1>2 DEF LoopInv, FrameInv, WordInv
<1> QED
  BY <1>3, <1>4, <1>5, <1>6 DEF LoopInv

\* The actions queue takes the oldest work.
LEMMA TakeNextKeeps == ASSUME LoopInv, TakeNext PROVE LoopInv'
<1> DEFINE x == Head(queue)
<1>0. /\ worker.at = "idle" /\ queue # <<>> /\ queue' = Tail(queue)
      /\ worker' = [at |-> IF x \in Actions /\ StillAllowed THEN "checked" ELSE "done", item |-> x]
      /\ UNCHANGED <<frames, asked, loopSealed, busy, job, receipts, drainAck, stoppedAcks, ends, published>>
  BY DEF TakeNext, runtimeVars, controlVars
<1>1. queue \in Seq(Work) /\ Len(queue) \in Nat \ {0} /\ x = queue[1] /\ 1 \in 1..Len(queue)
  BY <1>0 DEF LoopInv, LoopStateOK
<1>2. /\ queue' \in Seq(Work) /\ x \in Work /\ Len(queue') = Len(queue) - 1
      /\ \A i \in 1..Len(queue') : queue'[i] = queue[i + 1]
  BY <1>0, <1>1, HeadTailProperties
<1>3. /\ \A i \in 1..Len(queue') : i + 1 \in 1..Len(queue) /\ i + 1 # 1
      /\ \A i, j \in 1..Len(queue') : i + 1 = j + 1 => i = j
  BY <1>1, <1>2
<1>4. ~InWorker /\ "none" \notin Work
  BY <1>0, LoopAssumption DEF LoopInv, LoopStateOK, InWorker, Work
<1>5. /\ worker' \in Worker /\ worker'.item = x
      /\ worker'.at \in {"checked", "done"} /\ (worker'.at = "checked" => x \in Actions)
  BY <1>0, <1>2 DEF Worker
<1> HIDE DEF x
<1>6. InEnds <=> InEnds'
  BY <1>0 DEF InEnds
<1>7. x \in Actions => InQueue /\ x = busy /\ ~InQueue' /\ InWorker'
  BY <1>1, <1>2, <1>3, <1>5 DEF LoopInv, OneAction, BusyInv, InQueue, InWorker
<1>8. x \notin Actions => ~InWorker' /\ (InQueue' => InQueue)
  BY <1>2, <1>3, <1>5 DEF InQueue, InWorker
<1>9. OneAction'
  BY <1>0, <1>2, <1>3, <1>6, <1>7, <1>8 DEF LoopInv, OneAction
<1>10. BusyInv'
  <2>1. InWorker' => worker'.item = busy
    BY <1>5, <1>7, <1>8
  <2> QED
    BY <1>0, <1>2, <1>3, <1>6, <2>1 DEF LoopInv, BusyInv
<1>11. LoopStateOK'
  BY <1>0, <1>2, <1>4, <1>5 DEF LoopInv, LoopStateOK
<1>12. FrameInv'
  BY <1>0 DEF LoopInv, FrameInv
<1>13. WordInv'
  <2>1. Over' => ~InQueue' /\ ~InWorker'
    BY <1>0, <1>7, <1>8 DEF LoopInv, WordInv, Over
  <2> QED
    BY <1>0, <2>1 DEF LoopInv, WordInv, Over
<1> QED
  BY <1>9, <1>10, <1>11, <1>12, <1>13 DEF LoopInv

\* Work ends and is handed to the control queue; what is published of an action is its end.
LEMMA EndKeeps ==
  ASSUME LoopInv, worker.at # "idle", NEW result \in {"done", "failed"}, End(result),
         UNCHANGED <<runtimeVars, controlVars, queue>>, published' \in Statuses,
         published' = published \/ (InWorker /\ published' \in {"ended", "quarantined"})
  PROVE  LoopInv'
<1> DEFINE n == Len(ends)
           e == [item |-> worker.item, result |-> result]
<1>0. /\ worker' = [at |-> "idle", item |-> "none"] /\ ends' = Append(ends, e)
      /\ UNCHANGED <<frames, asked, loopSealed, busy, job, receipts, drainAck, stoppedAcks, queue>>
  BY DEF End, runtimeVars, controlVars
<1>1. ends \in Seq(EndOfWork) /\ n \in Nat /\ e \in EndOfWork /\ e.item = worker.item
  BY DEF LoopInv, LoopStateOK, EndOfWork, Worker
<1> HIDE DEF e
<1>2. /\ ends' \in Seq(EndOfWork) /\ Len(ends') = n + 1 /\ ends'[n + 1] = e
      /\ \A i \in 1..n : ends'[i] = ends[i]
  BY <1>0, <1>1, AppendProperties
<1>3. /\ \A i \in 1..Len(ends') : i \in 1..n \/ i = n + 1
      /\ n + 1 \in 1..Len(ends') /\ n + 1 \notin 1..n
  BY <1>1, <1>2
<1>4. worker' \in Worker /\ worker'.at = "idle" /\ worker'.item = "none" /\ "none" \notin Actions
  BY <1>0, LoopAssumption DEF Worker
<1>5. ~InWorker' /\ (InQueue <=> InQueue')
  BY <1>0, <1>4 DEF InWorker, InQueue
<1>6. CASE InWorker
  <2>1. ~InEnds /\ ~InQueue /\ e.item = busy /\ e.item \in Actions
    BY <1>1, <1>6 DEF LoopInv, OneAction, BusyInv, InWorker
  <2>2. \A i \in 1..Len(ends') : ends'[i].item \in Actions => i = n + 1
    BY <1>2, <1>3, <2>1 DEF InEnds
  <2>3. OneAction'
    BY <1>0, <1>5, <2>1, <2>2 DEF LoopInv, OneAction, InQueue
  <2>4. BusyInv'
    BY <1>0, <1>2, <1>5, <2>1, <2>2 DEF LoopInv, BusyInv
  <2> QED
    <3>1. LoopStateOK'
      BY <1>0, <1>2, <1>4 DEF LoopInv, LoopStateOK
    <3>2. FrameInv'
      BY <1>0 DEF LoopInv, FrameInv
    <3>3. WordInv'
      BY <1>0, <1>5, <2>1 DEF LoopInv, WordInv, Over
    <3> QED
      BY <2>3, <2>4, <3>1, <3>2, <3>3 DEF LoopInv
<1>7. CASE ~InWorker
  <2>1. e.item \notin Actions /\ published' = published
    BY <1>1, <1>7 DEF InWorker
  <2>2. \A i \in 1..Len(ends') : ends'[i].item \in Actions => i \in 1..n /\ ends'[i] = ends[i]
    BY <1>2, <1>3, <2>1
  <2>3. InEnds' => InEnds
    BY <2>2 DEF InEnds
  <2>4. OneAction'
    BY <1>0, <1>5, <2>2, <2>3 DEF LoopInv, OneAction
  <2>5. BusyInv'
    BY <1>0, <1>5, <2>2 DEF LoopInv, BusyInv
  <2> QED
    <3>1. LoopStateOK'
      BY <1>0, <1>2, <1>4 DEF LoopInv, LoopStateOK
    <3>2. FrameInv'
      BY <1>0 DEF LoopInv, FrameInv
    <3>3. WordInv'
      BY <1>0, <1>5, <1>7, <2>1 DEF LoopInv, WordInv, Over
    <3> QED
      BY <2>4, <2>5, <3>1, <3>2, <3>3 DEF LoopInv
<1> QED
  BY <1>6, <1>7

\* A checkpoint and the event after it.
LEMMA CheckpointKeeps == ASSUME LoopInv, Checkpoint \/ PostAfterCheckpoint PROVE LoopInv'
<1>0. InWorker /\ worker.at \in {"checked", "verified"} /\ UNCHANGED <<runtimeVars, controlVars, queue>>
  BY DEF Checkpoint, PostAfterCheckpoint, LoopInv, LoopStateOK, InWorker
<1>1. CASE /\ worker' \in {[worker EXCEPT !.at = "verified"], [worker EXCEPT !.at = "checked"]}
           /\ published' \in {published, "dispatching"} /\ UNCHANGED ends
  <2>1. worker' \in Worker /\ worker'.at \in {"checked", "verified"} /\ worker'.item = worker.item
    BY <1>1 DEF LoopInv, LoopStateOK, Worker
  <2>2. UNCHANGED <<frames, asked, loopSealed, busy, job, receipts, drainAck, stoppedAcks, queue, ends>>
    BY <1>0, <1>1 DEF runtimeVars, controlVars
  <2>3. InWorker' /\ (InQueue <=> InQueue') /\ (InEnds <=> InEnds')
    BY <1>0, <2>1, <2>2 DEF InWorker, InQueue, InEnds
  <2>4. OneAction'
    BY <1>0, <2>2, <2>3 DEF LoopInv, OneAction
  <2>5. BusyInv'
    BY <1>0, <2>1, <2>2, <2>3 DEF LoopInv, BusyInv
  <2>6. LoopStateOK'
    <3>1. published' \in Statuses /\ worker.item # "none" /\ worker.item \in Actions
      BY <1>0, <1>1, LoopAssumption DEF LoopInv, LoopStateOK, Statuses, InWorker
    <3> QED
      BY <2>1, <2>2, <3>1 DEF LoopInv, LoopStateOK
  <2>7. FrameInv'
    BY <2>2 DEF LoopInv, FrameInv
  <2>8. WordInv'
    <3>1. ~Over /\ ~Over'
      BY <1>0, <1>1 DEF LoopInv, WordInv, Over
    <3> QED
      BY <2>2, <3>1 DEF LoopInv, WordInv
  <2> QED
    BY <2>4, <2>5, <2>6, <2>7, <2>8 DEF LoopInv
<1>2. CASE Checkpoint
  <2>1. CASE worker' = [worker EXCEPT !.at = "verified"] /\ published' = "dispatching" /\ UNCHANGED ends
    BY <1>1, <2>1
  <2>2. CASE published' \in {"ended", "quarantined"} /\ (End("failed") \/ End("done"))
    <3>1. published' \in Statuses
      BY <2>2 DEF Statuses
    <3> QED
      BY <1>0, <2>2, <3>1, EndKeeps
  <2> QED
    BY <1>2, <2>1, <2>2 DEF Checkpoint
<1>3. CASE PostAfterCheckpoint
  BY <1>1, <1>3 DEF PostAfterCheckpoint
<1> QED
  BY <1>2, <1>3

\* Work that does nothing ends.
LEMMA DoNothingKeeps == ASSUME LoopInv, DoNothing PROVE LoopInv'
<1>1. worker.at # "idle" /\ End("failed") /\ UNCHANGED <<runtimeVars, controlVars, queue, published>>
  BY DEF DoNothing
<1>2. published' \in Statuses
  BY <1>1 DEF LoopInv, LoopStateOK
<1> QED
  BY <1>1, <1>2, EndKeeps

\* One action is in progress at a time, and what the helper has said of it stays true,
\* for any requests and any number of frames and failures.
THEOREM LoopIsConsistent == LoopSpec => []LoopInv
<1>1. LoopInit => LoopInv
  <2> SUFFICES ASSUME LoopInit PROVE LoopInv
    OBVIOUS
  <2>1. frames = <<>> /\ queue = <<>> /\ ends = <<>> /\ Len(<<>>) = 0
    BY EmptySeq DEF LoopInit
  <2>2. worker \in Worker /\ worker.at = "idle" /\ worker.item = "none" /\ "none" \notin Actions
    BY LoopAssumption DEF LoopInit, Worker
  <2>3. ~InQueue /\ ~InWorker /\ ~InEnds
    BY <2>1, <2>2 DEF InQueue, InWorker, InEnds
  <2>4. LoopStateOK
    <3>1. published \in Statuses /\ receipts \in [Actions -> Statuses] /\ stoppedAcks = {}
          /\ busy = "none" /\ job = "none"
      BY DEF LoopInit, Statuses
    <3> QED
      BY <2>1, <2>2, <3>1, EmptySeq DEF LoopStateOK
  <2>5. OneAction
    BY <2>3 DEF OneAction, InQueue, InEnds
  <2>6. BusyInv
    BY <2>3 DEF LoopInit, BusyInv, InQueue, InEnds
  <2>7. FrameInv
    BY <2>1, <2>2 DEF LoopInit, FrameInv
  <2>8. WordInv
    BY <2>3 DEF LoopInit, WordInv
  <2> QED
    BY <2>4, <2>5, <2>6, <2>7, <2>8 DEF LoopInv
<1>2. LoopInv /\ [LoopNext]_loopVars => LoopInv'
  <2> SUFFICES ASSUME LoopInv, [LoopNext]_loopVars PROVE LoopInv'
    OBVIOUS
  <2>1. CASE Control
    BY <2>1, HandleActionKeeps, HandleCancelKeeps, HandleDrainKeeps, HandleMaintenanceKeeps, SealKeeps,
       ActionEndsKeeps, WorkEndsKeeps DEF Control
  <2>2. CASE ActionsQueue
    BY <2>2, TakeNextKeeps, CheckpointKeeps, DoNothingKeeps DEF ActionsQueue
  <2>3. CASE UNCHANGED loopVars
    <3>1. /\ UNCHANGED <<queue, ends, worker, busy, job, published>>
          /\ UNCHANGED <<frames, asked, receipts, stoppedAcks, drainAck, loopSealed>>
      BY <2>3 DEF loopVars, runtimeVars, controlVars, workVars
    <3>2. frames' \in Seq(Frame) /\ FrameInv'
      BY <3>1 DEF LoopInv, LoopStateOK, FrameInv
    <3> QED
      BY <3>1, <3>2, QuietKeeps DEF Idle
  <2> QED
    BY <2>1, <2>2, <2>3, RuntimeKeeps, SealKeeps DEF LoopNext
<1> QED
  BY <1>1, <1>2, PTL DEF LoopSpec

\* Neither "ready" nor "stopped" leaves work behind.
LEMMA WordsAreTrue == ASSUME LoopInv PROVE ReadyHelperIsQuiet /\ StoppedIsFinal
<1>1. queue \in Seq(Work) /\ DOMAIN queue = 1..Len(queue) /\ "none" \notin Actions
  BY LoopAssumption DEF LoopInv, LoopStateOK
<1>2. ReadyHelperIsQuiet
  BY <1>1 DEF LoopInv, WordInv, BusyInv, InWorker, ReadyHelperIsQuiet
<1>3. ASSUME NEW a \in stoppedAcks PROVE worker.item # a /\ \A i \in DOMAIN queue : queue[i] # a
  <2>1. a \in Actions
    BY DEF LoopInv, LoopStateOK
  <2>2. CASE a = job
    BY <1>1, <2>1, <2>2 DEF LoopInv, WordInv, InQueue, InWorker
  <2>3. CASE a # job
    BY <1>1, <2>1, <2>3 DEF LoopInv, BusyInv, InWorker
  <2> QED
    BY <2>2, <2>3
<1> QED
  BY <1>2, <1>3 DEF StoppedIsFinal

\* What waits in a sealed helper is not begun.
LEMMA SealedBeginsNothing ==
  ASSUME LoopInv, [LoopNext]_loopVars, NEW a \in Actions, loopSealed, NEW i \in DOMAIN queue, queue[i] = a
  PROVE  ~(worker'.item = a /\ worker'.at \in {"checked", "verified"})
<1>1. queue \in Seq(Work) /\ DOMAIN queue = 1..Len(queue) /\ "none" \notin Actions
  BY LoopAssumption DEF LoopInv, LoopStateOK
<1>2. ~InWorker
  BY <1>1 DEF LoopInv, OneAction, InQueue
<1>3. CASE worker' = worker
  BY <1>2, <1>3 DEF InWorker
<1>4. CASE TakeNext
  BY <1>4 DEF TakeNext, StillAllowed
<1>5. CASE Checkpoint \/ PostAfterCheckpoint \/ DoNothing
  <2>1. ~(Checkpoint \/ PostAfterCheckpoint)
    BY <1>2 DEF Checkpoint, PostAfterCheckpoint, LoopInv, LoopStateOK, InWorker
  <2> QED
    BY <1>1, <1>5, <2>1 DEF DoNothing, End
<1>6. worker' = worker \/ TakeNext \/ Checkpoint \/ PostAfterCheckpoint \/ DoNothing
  BY DEF LoopNext, Runtime, Control, ActionsQueue, HandleAction, HandleCancel, HandleDrain, HandleMaintenance,
         LateHeartbeat, ActionEnds, WorkEnds, MissHeartbeat, ChannelFails, ForceExit, loopVars, workVars
<1> QED
  BY <1>3, <1>4, <1>5, <1>6

\* The helper's words are true: "ready" and "stopped" leave nothing behind, and what
\* still waits when the helper has sealed is never begun.
THEOREM LoopWordsHold == LoopSpec => LoopKeepsItsWord
<1>1. LoopInv' => (ReadyHelperIsQuiet /\ StoppedIsFinal)'
  BY WordsAreTrue, PTL
<1>2. LoopInv /\ LoopInv' /\ [LoopNext]_loopVars
        => [/\ ReadyHelperIsQuiet' /\ StoppedIsFinal'
            /\ \A a \in Actions :
                 loopSealed /\ (\E i \in DOMAIN queue : queue[i] = a) =>
                   ~(worker'.item = a /\ worker'.at \in {"checked", "verified"})]_loopVars
  BY <1>1, SealedBeginsNothing
<1> QED
  BY <1>2, LoopIsConsistent, PTL DEF LoopSpec, LoopKeepsItsWord

-----------------------------------------------------------------------------
(* A capture: the inductive invariant.                                     *)

ShotRecord ==
  [begun : BOOLEAN, contentAsked : BOOLEAN, stream : BOOLEAN, started : BOOLEAN,
   stopped : BOOLEAN, stopRequested : BOOLEAN, stopInFlight : BOOLEAN, attempts : 0..2,
   accepted : BOOLEAN, encoding : BOOLEAN, png : BOOLEAN, cancelled : BOOLEAN,
   retained : BOOLEAN, delivered : BOOLEAN, outcome : Outcomes,
   cleanup : {"pending", "complete", "unknown"}, picture : BOOLEAN, answers : 0..1,
   timers : SUBSET {"capture", "stop"}, active : BOOLEAN, drained : BOOLEAN]

MayRun == {"starting", "running"}

\* What the session knows of a stream of the system that is at k: one that may run is
\* its own, and one that it made and gave up was asked to stop; before it begins there
\* is nothing to stop.
KnowsItsStream(s, k) ==
  /\ k \in MayRun => s.stream /\ ~s.stopped
  /\ k = "none" => ~s.stream /\ ~s.encoding /\ s.attempts = 0
  /\ ~s.stream /\ ~s.stopRequested => k = "none"
  /\ s.contentAsked /\ ~s.stopRequested => k = "none"
  /\ ~s.begun => k = "none" /\ ~s.stopRequested /\ ~s.contentAsked /\ s.timers = {}

\* Whatever ends a task asks for the stop of its stream, first or together with the end.
EndsByStop(s) ==
  s.stopped \/ s.delivered \/ "stop" \in s.timers \/ s.outcome # "none" \/ s.attempts > 0
    => s.stopRequested

\* A success has an encoded frame and was not cancelled before.
SuccessIsEarned(s) ==
  /\ s.encoding \/ s.png => s.accepted
  /\ s.outcome = "succeeded" => s.png /\ ~s.cancelled

\* What was answered stays so: the answer is one, with its picture or without.
AnswerIsOne(s) ==
  /\ s.answers = IF s.delivered THEN 1 ELSE 0
  /\ s.delivered => s.picture = (s.outcome = "succeeded")
  /\ s.picture => s.delivered

\* What a task says of its own end.
EndIsTrue(s, k) ==
  /\ s.drained => s.delivered /\ SystemResourceStopped(s) /\ ~s.encoding
  /\ s.cleanup = "complete" \/ ~s.active => s.delivered /\ ~s.encoding /\ k \notin MayRun

Fits(s, k) ==
  /\ s \in ShotRecord
  /\ KnowsItsStream(s, k)
  /\ EndsByStop(s)
  /\ SuccessIsEarned(s)
  /\ AnswerIsOne(s)
  /\ EndIsTrue(s, k)

\* What waits in the session's queue was true of the stream when it was sent, and stays
\* true: a stream that ended does not run again.
Endings == {<<"start-failed", 0>>, <<"died", 0>>, <<"stopped", 1>>, <<"stopped", 2>>}
StopAnswers == {<<"stopped", 1>>, <<"stopped", 2>>, <<"stop-failed", 1>>, <<"stop-failed", 2>>}
AnswersFit ==
  /\ shotAnswers \subseteq {<<"started", 0>>} \cup Endings \cup StopAnswers
  /\ shotAnswers # {} => sckStream # "none"
  /\ shotAnswers \cap Endings # {} => sckStream \in {"stopped", "failed"}
  /\ shotAnswers \cap StopAnswers # {} => shot.stopRequested

ShotInv == CaptureTypeOK /\ Fits(shot, sckStream) /\ AnswersFit

-----------------------------------------------------------------------------
(* A capture: the helpers of its session.                                  *)

USE DEF MayRun

\* The fields that say what happened; the others are how the session works on it.
SameStory(s, t) ==
  /\ t.begun = s.begun /\ t.contentAsked = s.contentAsked /\ t.stream = s.stream
  /\ t.stopped = s.stopped /\ t.stopRequested = s.stopRequested /\ t.attempts = s.attempts
  /\ t.accepted = s.accepted /\ t.encoding = s.encoding /\ t.png = s.png
  /\ t.cancelled = s.cancelled /\ t.delivered = s.delivered /\ t.outcome = s.outcome
  /\ t.cleanup = s.cleanup /\ t.picture = s.picture /\ t.answers = s.answers
  /\ t.active = s.active /\ t.drained = s.drained

\* A session with the same story fits its stream as well.
LEMMA SameStoryFits ==
  ASSUME NEW s, NEW t, NEW k, Fits(s, k), t \in ShotRecord, SameStory(s, t), t.timers \subseteq s.timers
  PROVE  Fits(t, k)
<1>1. KnowsItsStream(t, k)
  BY DEF Fits, SameStory, KnowsItsStream
<1>2. EndsByStop(t)
  BY DEF Fits, SameStory, EndsByStop
<1>3. SuccessIsEarned(t) /\ AnswerIsOne(t)
  BY DEF Fits, SameStory, SuccessIsEarned, AnswerIsOne
<1>4. EndIsTrue(t, k)
  BY DEF Fits, SameStory, EndIsTrue, SystemResourceStopped
<1> QED
  BY <1>1, <1>2, <1>3, <1>4 DEF Fits

\* Publishing the status keeps the type.
LEMMA RefreshedType ==
  ASSUME NEW s \in ShotRecord PROVE Refreshed(s) \in ShotRecord
<1> DEFINE over == s.delivered /\ SystemResourceStopped(s) /\ ~s.encoding
<1>1. over \in BOOLEAN
  OBVIOUS
<1>2. Refreshed(s) = [s EXCEPT !.drained = over]
  BY DEF Refreshed
<1> HIDE DEF over
<1> QED
  BY <1>1, <1>2 DEF ShotRecord

\* Publishing the status keeps what is known, and asks for nothing.
LEMMA RefreshedFits ==
  ASSUME NEW s, NEW k, Fits(s, k)
  PROVE  /\ Fits(Refreshed(s), k)
         /\ Refreshed(s).stopRequested = s.stopRequested /\ Refreshed(s).attempts = s.attempts
         /\ Refreshed(s).active = s.active /\ Refreshed(s).retained = s.retained
<1> DEFINE t == Refreshed(s)
<1>1. s \in ShotRecord
  BY DEF Fits
<1>2. t \in ShotRecord
  BY <1>1, RefreshedType
<1>3. t = [s EXCEPT !.drained = t.drained]
  BY <1>1 DEF ShotRecord, Refreshed
<1>4. t.drained = (s.delivered /\ SystemResourceStopped(s) /\ ~s.encoding)
  BY <1>1 DEF ShotRecord, Refreshed
<1> HIDE DEF t
<1>5. KnowsItsStream(t, k) /\ EndsByStop(t)
  BY <1>1, <1>3 DEF Fits, ShotRecord, KnowsItsStream, EndsByStop
<1>6. SuccessIsEarned(t) /\ AnswerIsOne(t)
  BY <1>1, <1>3 DEF Fits, ShotRecord, SuccessIsEarned, AnswerIsOne
<1>7. EndIsTrue(t, k)
  BY <1>1, <1>3, <1>4 DEF Fits, ShotRecord, EndIsTrue, SystemResourceStopped
<1>8. t.stopRequested = s.stopRequested /\ t.attempts = s.attempts /\ t.active = s.active
      /\ t.retained = s.retained
  BY <1>1, <1>3 DEF ShotRecord
<1> QED
  BY <1>2, <1>5, <1>6, <1>7, <1>8 DEF Fits, t

\* The answer: the first one counts.
LEMMA DeliverFits ==
  ASSUME NEW s, NEW k, NEW cleanup \in {"complete", "unknown"}, Fits(s, k), s.stopRequested,
         cleanup = "complete" => ~s.encoding /\ k \notin MayRun
  PROVE  /\ Fits(Deliver(s, cleanup), k)
         /\ Deliver(s, cleanup).stopRequested /\ Deliver(s, cleanup).delivered
         /\ Deliver(s, cleanup).attempts = s.attempts /\ Deliver(s, cleanup).stopped = s.stopped
         /\ Deliver(s, cleanup).encoding = s.encoding
<1>0. s \in ShotRecord
  BY DEF Fits
<1>1. CASE s.delivered
  BY <1>1 DEF Deliver
<1>2. CASE ~s.delivered
  <2> DEFINE t == Deliver(s, cleanup)
  <2>0. s.answers = 0 /\ s.answers + 1 \in 0..1
    BY <1>2 DEF Fits, AnswerIsOne
  <2>1. t \in ShotRecord
    <3>1. s.timers \ {"capture"} \subseteq {"capture", "stop"}
      BY <1>0 DEF ShotRecord
    <3> DEFINE picture == s.png /\ s.outcome = "succeeded"
               told == s.answers + 1
               timers == s.timers \ {"capture"}
               u == [s EXCEPT !.delivered = TRUE, !.cleanup = cleanup, !.answers = told,
                              !.picture = picture, !.timers = timers]
    <3>2. picture \in BOOLEAN
      OBVIOUS
    <3>3. t = Refreshed(u)
      BY <1>2 DEF Deliver
    <3>5. told \in 0..1 /\ timers \in SUBSET {"capture", "stop"}
      BY <2>0, <3>1
    <3> HIDE DEF picture, told, timers
    <3>4. u \in ShotRecord
      BY <1>0, <3>2, <3>5 DEF ShotRecord
    <3> HIDE DEF u, t
    <3> QED
      BY <3>3, <3>4, RefreshedType
  <2>2. /\ t.stopRequested = s.stopRequested /\ t.delivered /\ t.attempts = s.attempts
        /\ t.stopped = s.stopped /\ t.encoding = s.encoding /\ t.stream = s.stream
        /\ t.begun = s.begun /\ t.contentAsked = s.contentAsked /\ t.active = s.active
    BY <1>0, <1>2 DEF ShotRecord, Deliver, Refreshed
  <2>3. /\ t.png = s.png /\ t.accepted = s.accepted /\ t.cancelled = s.cancelled
        /\ t.outcome = s.outcome /\ t.cleanup = cleanup /\ t.answers = s.answers + 1
        /\ t.picture = (s.png /\ s.outcome = "succeeded") /\ t.timers \subseteq s.timers
    BY <1>0, <1>2 DEF ShotRecord, Deliver, Refreshed
  <2>4. t.drained = (SystemResourceStopped(s) /\ ~s.encoding)
    BY <1>0, <1>2 DEF ShotRecord, Deliver, Refreshed, SystemResourceStopped
  <2> HIDE DEF t
  <2>5. KnowsItsStream(t, k) /\ EndsByStop(t)
    BY <1>0, <2>2, <2>3 DEF Fits, KnowsItsStream, EndsByStop
  <2>6. SuccessIsEarned(t)
    BY <1>0, <2>2, <2>3 DEF Fits, SuccessIsEarned
  <2>7. AnswerIsOne(t)
    BY <1>0, <1>2, <2>0, <2>2, <2>3 DEF Fits, AnswerIsOne, SuccessIsEarned
  <2>8. EndIsTrue(t, k)
    BY <1>0, <1>2, <2>2, <2>3, <2>4 DEF Fits, EndIsTrue, SystemResourceStopped
  <2> QED
    BY <2>1, <2>2, <2>5, <2>6, <2>7, <2>8 DEF Fits, t
<1> QED
  BY <1>1, <1>2

\* A task that ends before it has a stream.
LEMMA FinishWithoutStreamFits ==
  ASSUME NEW s, NEW k, NEW outcome \in Outcomes \ {"none"}, Fits(s, k),
         k = "none", ~s.stopRequested, s.begun, outcome = "succeeded" => s.png /\ ~s.cancelled
  PROVE  /\ Fits(FinishWithoutStream(s, outcome), k)
         /\ FinishWithoutStream(s, outcome).stopRequested
<1> DEFINE early == [s EXCEPT !.outcome = outcome, !.stopRequested = TRUE, !.stopped = TRUE,
                              !.stopInFlight = FALSE, !.timers = s.timers \ {"capture"}]
           d == Deliver(early, "complete")
           t == [d EXCEPT !.active = FALSE]
<1>0. s \in ShotRecord /\ ~s.delivered /\ ~s.stream /\ ~s.encoding
  BY DEF Fits, KnowsItsStream, EndsByStop
<1>1. Fits(early, k) /\ early.stopRequested /\ ~early.encoding
  <2>1. early \in ShotRecord /\ early.stopRequested /\ ~early.encoding
    <3>1. s.timers \ {"capture"} \subseteq {"capture", "stop"}
      BY <1>0 DEF ShotRecord
    <3> QED
      BY <1>0, <3>1 DEF ShotRecord
  <2>2. /\ early.begun = s.begun /\ early.contentAsked = s.contentAsked /\ ~early.stream
        /\ early.active = s.active /\ early.cleanup = s.cleanup /\ early.drained = s.drained
        /\ ~early.delivered /\ early.answers = s.answers /\ early.picture = s.picture
        /\ early.png = s.png /\ early.accepted = s.accepted /\ early.cancelled = s.cancelled
        /\ early.outcome = outcome /\ early.attempts = s.attempts
        /\ early.timers \subseteq s.timers
    BY <1>0 DEF ShotRecord
  <2> HIDE DEF early
  <2>3. KnowsItsStream(early, k) /\ EndsByStop(early)
    BY <1>0, <2>1, <2>2 DEF Fits, KnowsItsStream, EndsByStop
  <2>4. SuccessIsEarned(early) /\ AnswerIsOne(early) /\ EndIsTrue(early, k)
    BY <1>0, <2>1, <2>2 DEF Fits, SuccessIsEarned, AnswerIsOne, EndIsTrue
  <2> QED
    BY <2>1, <2>3, <2>4 DEF Fits
<1>2. FinishWithoutStream(s, outcome) = t
  BY <1>0 DEF FinishWithoutStream
<1> HIDE DEF early
<1>3. Fits(d, k) /\ d.stopRequested /\ d.delivered /\ ~d.encoding
  BY <1>1, DeliverFits
<1> HIDE DEF d
<1>4. t \in ShotRecord /\ t = [d EXCEPT !.active = t.active]
  BY <1>3 DEF Fits, ShotRecord
<1> HIDE DEF t
<1>5. KnowsItsStream(t, k) /\ EndsByStop(t) /\ SuccessIsEarned(t) /\ t.stopRequested
  BY <1>3, <1>4 DEF Fits, ShotRecord, KnowsItsStream, EndsByStop, SuccessIsEarned
<1>6. AnswerIsOne(t)
  BY <1>3, <1>4 DEF Fits, ShotRecord, AnswerIsOne
<1>7. EndIsTrue(t, k)
  BY <1>3, <1>4 DEF Fits, ShotRecord, EndIsTrue, SystemResourceStopped
<1> QED
  BY <1>2, <1>4, <1>5, <1>6, <1>7 DEF Fits

\* Another stop call.
LEMMA RequestStopAttemptFits ==
  ASSUME NEW s, NEW k, Fits(s, k), s.stopRequested
  PROVE  /\ Fits(RequestStopAttempt(s), k)
         /\ RequestStopAttempt(s).stopRequested
<1>0. s \in ShotRecord
  BY DEF Fits
<1>1. CASE ~s.stream \/ s.stopped \/ s.stopInFlight \/ s.attempts >= 2
  BY <1>1 DEF RequestStopAttempt
<1>2. CASE ~(~s.stream \/ s.stopped \/ s.stopInFlight \/ s.attempts >= 2)
  <2> DEFINE u == [s EXCEPT !.stopInFlight = TRUE, !.attempts = s.attempts + 1,
                            !.timers = s.timers \cup {"stop"}]
  <2>1. u \in ShotRecord
    <3>1. s.attempts + 1 \in 0..2 /\ s.timers \cup {"stop"} \subseteq {"capture", "stop"}
      BY <1>0, <1>2 DEF ShotRecord
    <3> QED
      BY <1>0, <3>1 DEF ShotRecord
  <2>2. /\ u.begun = s.begun /\ u.contentAsked = s.contentAsked /\ u.stream = s.stream
        /\ u.stopped = s.stopped /\ u.stopRequested = s.stopRequested
        /\ u.accepted = s.accepted /\ u.encoding = s.encoding /\ u.png = s.png
        /\ u.cancelled = s.cancelled /\ u.delivered = s.delivered /\ u.outcome = s.outcome
        /\ u.cleanup = s.cleanup /\ u.picture = s.picture /\ u.answers = s.answers
        /\ u.active = s.active /\ u.drained = s.drained
    BY <1>0 DEF ShotRecord
  <2>3. RequestStopAttempt(s) = Refreshed(u)
    BY <1>2 DEF RequestStopAttempt
  <2> HIDE DEF u
  <2>4. KnowsItsStream(u, k) /\ EndsByStop(u) /\ u.stopRequested
    BY <1>2, <2>2 DEF Fits, KnowsItsStream, EndsByStop
  <2>5. SuccessIsEarned(u) /\ AnswerIsOne(u)
    BY <2>2 DEF Fits, SuccessIsEarned, AnswerIsOne
  <2>6. EndIsTrue(u, k)
    BY <2>2 DEF Fits, EndIsTrue, SystemResourceStopped
  <2> QED
    BY <2>1, <2>3, <2>4, <2>5, <2>6, RefreshedFits DEF Fits
<1> QED
  BY <1>1, <1>2

\* A task that ends while it has a stream stops it first.
LEMMA FinishCaptureFits ==
  ASSUME NEW s, NEW k, NEW outcome \in Outcomes \ {"none"}, Fits(s, k), s.begun,
         outcome = "succeeded" => s.png /\ ~s.cancelled
  PROVE  /\ Fits(FinishCapture(s, outcome), k)
         /\ FinishCapture(s, outcome).stopRequested
<1>0. s \in ShotRecord
  BY DEF Fits
<1>1. CASE s.delivered \/ s.stopRequested
  BY <1>1 DEF FinishCapture, Fits, EndsByStop
<1>2. CASE ~s.delivered /\ ~s.stopRequested /\ ~s.stream
  <2>1. k = "none"
    BY <1>2 DEF Fits, KnowsItsStream
  <2> QED
    BY <1>2, <2>1, FinishWithoutStreamFits DEF FinishCapture
<1>3. CASE ~s.delivered /\ ~s.stopRequested /\ s.stream
  <2> DEFINE u == [s EXCEPT !.outcome = outcome, !.timers = s.timers \ {"capture"}]
             v == [u EXCEPT !.stopRequested = TRUE]
  <2>1. v \in ShotRecord /\ v.stopRequested
    <3>1. s.timers \ {"capture"} \subseteq {"capture", "stop"}
      BY <1>0 DEF ShotRecord
    <3> QED
      BY <1>0, <3>1 DEF ShotRecord
  <2>2. /\ v.begun = s.begun /\ v.contentAsked = s.contentAsked /\ v.stream = s.stream
        /\ v.stopped = s.stopped /\ v.encoding = s.encoding
        /\ v.active = s.active /\ v.cleanup = s.cleanup /\ v.drained = s.drained
        /\ v.delivered = s.delivered /\ v.answers = s.answers /\ v.picture = s.picture
        /\ v.png = s.png /\ v.accepted = s.accepted /\ v.cancelled = s.cancelled
        /\ v.outcome = outcome /\ v.attempts = s.attempts /\ v.timers \subseteq s.timers
    BY <1>0 DEF ShotRecord
  <2>3. FinishCapture(s, outcome) = RequestStopAttempt(v)
    BY <1>3 DEF FinishCapture, BeginStop
  <2> HIDE DEF v
  <2>4. KnowsItsStream(v, k) /\ EndsByStop(v) /\ SuccessIsEarned(v)
    BY <1>3, <2>1, <2>2 DEF Fits, KnowsItsStream, EndsByStop, SuccessIsEarned
  <2>5. AnswerIsOne(v) /\ EndIsTrue(v, k)
    BY <1>3, <2>1, <2>2 DEF Fits, AnswerIsOne, EndIsTrue
  <2> QED
    BY <2>1, <2>3, <2>4, <2>5, RequestStopAttemptFits DEF Fits
<1> QED
  BY <1>1, <1>2, <1>3

\* The stream has stopped: the task ends, or waits for its encoder.
LEMMA FinalizeFits ==
  ASSUME NEW s, NEW k, Fits(s, k), s.stopped => k \notin MayRun
  PROVE  /\ Fits(FinalizeStoppedResourceIfPossible(s), k)
         /\ FinalizeStoppedResourceIfPossible(s).stopRequested = s.stopRequested
<1>0. s \in ShotRecord
  BY DEF Fits
<1>1. CASE ~MayFinalize(s)
  BY <1>1, RefreshedFits DEF FinalizeStoppedResourceIfPossible
<1>2. CASE MayFinalize(s)
  <2> DEFINE u == [s EXCEPT !.timers = s.timers \ {"stop"}]
             d == Deliver(u, "complete")
             v == [d EXCEPT !.retained = FALSE]
             r == Refreshed(v)
             t == [r EXCEPT !.active = FALSE]
  <2>1. s.stopped /\ ~s.encoding /\ s.stopRequested
    BY <1>2 DEF MayFinalize, Fits, EndsByStop
  <2>2. FinalizeStoppedResourceIfPossible(s) = t
    BY <1>2 DEF FinalizeStoppedResourceIfPossible
  <2>3. u \in ShotRecord /\ SameStory(s, u) /\ u.timers \subseteq s.timers
    <3>1. s.timers \ {"stop"} \subseteq {"capture", "stop"}
      BY <1>0 DEF ShotRecord
    <3> QED
      BY <1>0, <3>1 DEF ShotRecord, SameStory
  <2> HIDE DEF u
  <2>4. Fits(u, k) /\ u.stopRequested /\ ~u.encoding
    BY <2>1, <2>3, SameStoryFits DEF SameStory
  <2>6. Fits(d, k) /\ d.delivered /\ ~d.encoding /\ d.stopRequested
    BY <2>1, <2>4, DeliverFits
  <2> HIDE DEF d
  <2>7. v \in ShotRecord /\ SameStory(d, v) /\ v.timers = d.timers
    BY <2>6 DEF Fits, ShotRecord, SameStory
  <2> HIDE DEF v
  <2>8. Fits(v, k) /\ v.delivered /\ ~v.encoding /\ v.stopRequested
    BY <2>6, <2>7, SameStoryFits DEF SameStory
  <2>10. Fits(r, k) /\ r.stopRequested /\ r.delivered /\ ~r.encoding
    <3>1. r.delivered = v.delivered /\ r.encoding = v.encoding
      BY <2>7 DEF ShotRecord, Refreshed
    <3> QED
      BY <2>8, <3>1, RefreshedFits
  <2> HIDE DEF r
  <2>11. t \in ShotRecord /\ t = [r EXCEPT !.active = t.active]
    BY <2>10 DEF Fits, ShotRecord
  <2> HIDE DEF t
  <2>12. KnowsItsStream(t, k) /\ EndsByStop(t) /\ SuccessIsEarned(t)
    BY <2>10, <2>11 DEF Fits, ShotRecord, KnowsItsStream, EndsByStop, SuccessIsEarned
  <2>13. AnswerIsOne(t) /\ EndIsTrue(t, k) /\ t.stopRequested
    BY <2>1, <2>10, <2>11 DEF Fits, ShotRecord, AnswerIsOne, EndIsTrue, SystemResourceStopped
  <2> QED
    BY <2>1, <2>2, <2>11, <2>12, <2>13 DEF Fits
<1> QED
  BY <1>1, <1>2

\* Nobody knows whether the stream stopped: the task answers, and stays.
LEMMA CleanupUnknownFits ==
  ASSUME NEW s, NEW k, Fits(s, k), s.stopRequested
  PROVE  Fits(CleanupUnknown(s), k) /\ CleanupUnknown(s).stopRequested
<1>0. s \in ShotRecord
  BY DEF Fits
<1> DEFINE u == [s EXCEPT !.stopInFlight = FALSE, !.timers = s.timers \ {"stop"}]
           d == Deliver(u, "unknown")
           v == [d EXCEPT !.retained = TRUE]
<1>1. CleanupUnknown(s) = Refreshed(v)
  BY DEF CleanupUnknown
<1>2. u \in ShotRecord /\ SameStory(s, u) /\ u.timers \subseteq s.timers
  <2>1. s.timers \ {"stop"} \subseteq {"capture", "stop"}
    BY <1>0 DEF ShotRecord
  <2> QED
    BY <1>0, <2>1 DEF ShotRecord, SameStory
<1> HIDE DEF u
<1>3. Fits(u, k) /\ u.stopRequested
  BY <1>2, SameStoryFits DEF SameStory
<1>4. Fits(d, k) /\ d.stopRequested
  BY <1>3, DeliverFits
<1> HIDE DEF d
<1>5. v \in ShotRecord /\ SameStory(d, v) /\ v.timers = d.timers
  BY <1>4 DEF Fits, ShotRecord, SameStory
<1> HIDE DEF v
<1>6. Fits(v, k) /\ v.stopRequested
  BY <1>4, <1>5, SameStoryFits DEF SameStory
<1> QED
  BY <1>1, <1>6, RefreshedFits

\* A stream that is gone, by the word of the system.
LEMMA StreamGoneFits ==
  ASSUME NEW s, NEW k, Fits(s, k), k \notin MayRun, k # "none"
  PROVE  LET t == [s EXCEPT !.stream = FALSE, !.stopped = TRUE, !.stopInFlight = FALSE,
                            !.stopRequested = TRUE,
                            !.outcome = IF s.stopRequested THEN @ ELSE "failed"]
         IN  Fits(t, k) /\ t.stopRequested
<1> DEFINE outcome == IF s.stopRequested THEN s.outcome ELSE "failed"
           t == [s EXCEPT !.stream = FALSE, !.stopped = TRUE, !.stopInFlight = FALSE,
                          !.stopRequested = TRUE, !.outcome = outcome]
<1>0. s \in ShotRecord
  BY DEF Fits
<1>1. outcome \in Outcomes
  BY <1>0 DEF ShotRecord, Outcomes
<1>2. outcome = s.outcome \/ (outcome = "failed" /\ ~s.stopRequested)
  OBVIOUS
<1> HIDE DEF outcome
<1>3. t \in ShotRecord /\ ~t.stream /\ t.stopped /\ t.stopRequested /\ t.outcome = outcome
  BY <1>0, <1>1 DEF ShotRecord
<1>4. ~s.stopRequested => ~s.delivered
  BY DEF Fits, EndsByStop
<1>5. /\ t.begun = s.begun /\ t.contentAsked = s.contentAsked /\ t.attempts = s.attempts
      /\ t.encoding = s.encoding /\ t.png = s.png /\ t.accepted = s.accepted
      /\ t.cancelled = s.cancelled /\ t.answers = s.answers /\ t.delivered = s.delivered
      /\ t.picture = s.picture /\ t.cleanup = s.cleanup /\ t.active = s.active
      /\ t.drained = s.drained /\ t.timers = s.timers
  BY <1>0 DEF ShotRecord
<1> HIDE DEF t
<1>6. KnowsItsStream(t, k) /\ EndsByStop(t)
  BY <1>3, <1>5 DEF Fits, KnowsItsStream, EndsByStop
<1>7. SuccessIsEarned(t) /\ AnswerIsOne(t)
  <2>2. CASE outcome = s.outcome
    BY <1>3, <1>5, <2>2 DEF Fits, SuccessIsEarned, AnswerIsOne
  <2>3. CASE outcome = "failed" /\ ~s.stopRequested
    BY <1>3, <1>4, <1>5, <2>3 DEF Fits, SuccessIsEarned, AnswerIsOne
  <2> QED
    BY <1>2, <2>2, <2>3
<1>8. EndIsTrue(t, k)
  BY <1>3, <1>5 DEF Fits, EndIsTrue, SystemResourceStopped
<1>9. Fits(t, k) /\ t.stopRequested
  BY <1>3, <1>6, <1>7, <1>8 DEF Fits
<1> QED
  BY <1>9 DEF t, outcome

-----------------------------------------------------------------------------
(* A capture: the steps.                                                   *)

\* A handler leaves a session that fits its stream, and does not take back a stop.
Handled == Fits(shot', sckStream') /\ (shot.stopRequested => shot'.stopRequested)

\* A task begins.
LEMMA BeginStep ==
  ASSUME ShotInv, CaptureBegin PROVE Handled
<1> USE DEF ShotInv
<1>0. shot \in ShotRecord /\ ~shot.begun /\ sckStream = "none" /\ sckStream' = sckStream
  BY DEF CaptureBegin, SystemIdle, Fits, KnowsItsStream
<1>1. CASE shot' = [shot EXCEPT !.begun = TRUE, !.contentAsked = TRUE, !.timers = @ \cup {"capture"}]
  <2>1. /\ shot' \in ShotRecord /\ shot'.begun
        /\ shot'.timers = shot.timers \cup {"capture"}
    <3>1. shot.timers \cup {"capture"} \subseteq {"capture", "stop"}
      BY <1>0 DEF ShotRecord
    <3> QED
      BY <1>0, <1>1, <3>1 DEF ShotRecord
  <2>2. /\ shot'.stream = shot.stream /\ shot'.stopped = shot.stopped
        /\ shot'.stopRequested = shot.stopRequested /\ shot'.attempts = shot.attempts
        /\ shot'.accepted = shot.accepted /\ shot'.encoding = shot.encoding
        /\ shot'.png = shot.png /\ shot'.cancelled = shot.cancelled
        /\ shot'.delivered = shot.delivered /\ shot'.outcome = shot.outcome
        /\ shot'.cleanup = shot.cleanup /\ shot'.picture = shot.picture
        /\ shot'.answers = shot.answers /\ shot'.active = shot.active
        /\ shot'.drained = shot.drained
    BY <1>0, <1>1 DEF ShotRecord
  <2>3. KnowsItsStream(shot', sckStream') /\ EndsByStop(shot')
    BY <1>0, <2>1, <2>2 DEF Fits, KnowsItsStream, EndsByStop
  <2>4. SuccessIsEarned(shot') /\ AnswerIsOne(shot')
    BY <2>2 DEF Fits, SuccessIsEarned, AnswerIsOne
  <2>5. EndIsTrue(shot', sckStream')
    BY <1>0, <2>2 DEF Fits, EndIsTrue, SystemResourceStopped
  <2> QED
    BY <2>1, <2>2, <2>3, <2>4, <2>5 DEF Fits, Handled
<1>2. CASE shot' = FinishWithoutStream([shot EXCEPT !.begun = TRUE], "failed")
  <2> DEFINE u == [shot EXCEPT !.begun = TRUE]
  <2>1. u \in ShotRecord /\ u = [shot EXCEPT !.begun = u.begun] /\ u.begun
    BY <1>0 DEF ShotRecord
  <2>2. shot' = FinishWithoutStream(u, "failed")
    BY <1>2
  <2> HIDE DEF u
  <2>3. KnowsItsStream(u, sckStream) /\ EndsByStop(u) /\ SuccessIsEarned(u)
    BY <1>0, <2>1 DEF Fits, ShotRecord, KnowsItsStream, EndsByStop, SuccessIsEarned
  <2>4. /\ AnswerIsOne(u) /\ EndIsTrue(u, sckStream) /\ ~u.stopRequested /\ u.begun
    BY <1>0, <1>2, <2>1 DEF Fits, ShotRecord, KnowsItsStream, AnswerIsOne, EndIsTrue,
         SystemResourceStopped
  <2> QED
    BY <1>0, <2>1, <2>2, <2>3, <2>4, FinishWithoutStreamFits DEF Fits, Handled, Outcomes
<1> QED
  BY <1>1, <1>2 DEF CaptureBegin

\* What can be captured is known.
LEMMA ReceivedStep ==
  ASSUME ShotInv, ReceivedShareableContent PROVE Handled
<1> USE DEF ShotInv
<1> DEFINE s == [shot EXCEPT !.contentAsked = FALSE]
           t == [s EXCEPT !.stream = TRUE]
<1>0. shot \in ShotRecord /\ shot.contentAsked
  BY DEF ReceivedShareableContent, Fits
<1>1. s \in ShotRecord /\ s = [shot EXCEPT !.contentAsked = s.contentAsked] /\ ~s.contentAsked
  BY <1>0 DEF ShotRecord
<1>2. t \in ShotRecord /\ t = [s EXCEPT !.stream = TRUE]
  BY <1>1 DEF ShotRecord
<1>3. /\ sckStream' \in {sckStream, "starting"}
      /\ \/ shot' = s /\ sckStream' = sckStream
         \/ ~s.delivered /\ ~s.stopRequested /\ shot' = FinishWithoutStream(s, "failed")
              /\ sckStream' = sckStream
         \/ ~s.delivered /\ ~s.stopRequested /\ shot' = Refreshed(t) /\ sckStream' = "starting"
  BY <1>0 DEF ShotRecord, ReceivedShareableContent
<1> HIDE DEF s, t
<1>4. Fits(s, sckStream) /\ s.stopRequested = shot.stopRequested
  <2>1. KnowsItsStream(s, sckStream) /\ EndsByStop(s) /\ SuccessIsEarned(s)
    BY <1>0, <1>1 DEF Fits, ShotRecord, KnowsItsStream, EndsByStop, SuccessIsEarned
  <2>2. AnswerIsOne(s) /\ EndIsTrue(s, sckStream) /\ s.stopRequested = shot.stopRequested
    BY <1>0, <1>1 DEF Fits, ShotRecord, AnswerIsOne, EndIsTrue, SystemResourceStopped
  <2> QED
    BY <1>1, <2>1, <2>2 DEF Fits
<1>5. CASE shot' = s /\ sckStream' = sckStream
  BY <1>4, <1>5 DEF Handled
<1>6. ~s.stopRequested => sckStream = "none" /\ s.begun
  <2>1. ~s.stopRequested => sckStream = "none"
    BY <1>0, <1>4 DEF Fits, KnowsItsStream
  <2>2. shot.begun
    BY <1>0 DEF Fits, KnowsItsStream
  <2> QED
    BY <1>0, <1>1, <2>1, <2>2 DEF ShotRecord
<1>7. CASE ~s.stopRequested /\ shot' = FinishWithoutStream(s, "failed") /\ sckStream' = sckStream
  BY <1>4, <1>6, <1>7, FinishWithoutStreamFits DEF Handled, Outcomes
<1>8. CASE /\ ~s.delivered /\ ~s.stopRequested
           /\ shot' = Refreshed(t) /\ sckStream' = "starting"
  <2>1. ~s.stopped /\ ~s.encoding /\ s.begun
    BY <1>4, <1>6, <1>8 DEF Fits, KnowsItsStream, EndsByStop
  <2>2. /\ t.stream /\ ~t.stopped /\ ~t.encoding /\ t.begun /\ ~t.delivered /\ ~t.stopRequested
        /\ ~t.contentAsked
    BY <1>0, <1>1, <1>2, <1>8, <2>1 DEF ShotRecord
  <2>3. KnowsItsStream(t, "starting")
    BY <2>2 DEF KnowsItsStream
  <2>4. EndsByStop(t) /\ SuccessIsEarned(t)
    BY <1>1, <1>2, <1>4 DEF Fits, ShotRecord, EndsByStop, SuccessIsEarned
  <2>5. AnswerIsOne(t) /\ EndIsTrue(t, "starting")
    BY <1>1, <1>2, <1>4, <1>8 DEF Fits, ShotRecord, AnswerIsOne, EndIsTrue
  <2> QED
    BY <1>2, <1>4, <1>8, <2>2, <2>3, <2>4, <2>5, RefreshedFits DEF Fits, Handled
<1> QED
  BY <1>3, <1>5, <1>7, <1>8

\* The answer to the start.
LEMMA StartedStep ==
  ASSUME ShotInv, NEW ok \in BOOLEAN, CaptureStarted(ok) PROVE Handled
<1> USE DEF ShotInv
<1>0. /\ shot \in ShotRecord /\ Fits(shot, sckStream) /\ sckStream' = sckStream
      /\ sckStream # "none"
  BY DEF CaptureStarted, Fits, AnswersFit
<1>1. CASE ~StillListens
  BY <1>0, <1>1 DEF CaptureStarted, Handled
<1>2. CASE StillListens /\ ok
  <2> DEFINE s == [shot EXCEPT !.started = TRUE]
             r == Refreshed(s)
  <2>1. shot' = LateStart(r)
    BY <1>2 DEF CaptureStarted
  <2>2. s \in ShotRecord /\ SameStory(shot, s) /\ s.timers = shot.timers
    BY <1>0 DEF ShotRecord, SameStory
  <2> HIDE DEF s
  <2>3. Fits(s, sckStream) /\ s.stopRequested = shot.stopRequested
    BY <1>0, <2>2, SameStoryFits DEF SameStory
  <2>5. Fits(r, sckStream) /\ r.stopRequested = shot.stopRequested
    BY <2>3, RefreshedFits
  <2> HIDE DEF r
  <2> QED
    BY <1>0, <2>1, <2>5, RequestStopAttemptFits DEF LateStart, Handled
<1>3. CASE StillListens /\ ~ok
  <2> DEFINE s == [shot EXCEPT !.stream = FALSE, !.stopped = TRUE, !.stopInFlight = FALSE,
                               !.stopRequested = TRUE,
                               !.outcome = IF shot.stopRequested THEN @ ELSE "failed"]
  <2>1. shot' = FinalizeStoppedResourceIfPossible(s)
    BY <1>3 DEF CaptureStarted
  <2>2. sckStream \notin MayRun
    <3>1. <<"start-failed", 0>> \in shotAnswers \cap Endings
      BY <1>3 DEF CaptureStarted, Endings
    <3> QED
      BY <3>1 DEF AnswersFit
  <2>3. Fits(s, sckStream) /\ s.stopRequested
    BY <1>0, <2>2, StreamGoneFits
  <2> QED
    BY <1>0, <2>1, <2>2, <2>3, FinalizeFits DEF Handled
<1> QED
  BY <1>1, <1>2, <1>3

\* One frame is accepted, or refused for good.
LEMMA SampleStep ==
  ASSUME ShotInv, ConsiderSampleBuffer PROVE Handled
<1> USE DEF ShotInv
<1>0. /\ shot \in ShotRecord /\ Fits(shot, sckStream) /\ sckStream' = sckStream
      /\ sckStream # "none" /\ shot.begun /\ ~shot.delivered
  BY DEF ConsiderSampleBuffer, Fits, KnowsItsStream, SystemIdle, WantsFrame
<1>1. CASE shot' = FinishCapture(shot, "failed")
  BY <1>0, <1>1, FinishCaptureFits DEF Handled, Outcomes
<1>2. CASE shot' = Refreshed([shot EXCEPT !.accepted = TRUE, !.encoding = TRUE])
  <2> DEFINE s == [shot EXCEPT !.accepted = TRUE, !.encoding = TRUE]
  <2>1. s \in ShotRecord /\ s = [shot EXCEPT !.accepted = TRUE, !.encoding = TRUE]
    BY <1>0 DEF ShotRecord
  <2>2. shot' = Refreshed(s)
    BY <1>2
  <2> HIDE DEF s
  <2>3. KnowsItsStream(s, sckStream) /\ EndsByStop(s) /\ SuccessIsEarned(s)
    BY <1>0, <2>1 DEF Fits, ShotRecord, KnowsItsStream, EndsByStop, SuccessIsEarned
  <2>4. AnswerIsOne(s) /\ EndIsTrue(s, sckStream) /\ s.stopRequested = shot.stopRequested
    BY <1>0, <2>1 DEF Fits, ShotRecord, AnswerIsOne, EndIsTrue, SystemResourceStopped
  <2> QED
    BY <1>0, <2>1, <2>2, <2>3, <2>4, RefreshedFits DEF Fits, Handled
<1> QED
  BY <1>1, <1>2 DEF ConsiderSampleBuffer

\* The encoder is done.
LEMMA EncodedStep ==
  ASSUME ShotInv, EncodedPng PROVE Handled
<1> USE DEF ShotInv
<1> DEFINE u == [shot EXCEPT !.encoding = FALSE]
           s == Refreshed(u)
           w == [s EXCEPT !.png = TRUE]
<1>0. /\ shot \in ShotRecord /\ Fits(shot, sckStream) /\ sckStream' = sckStream
      /\ shot.encoding /\ shot.begun /\ shot.accepted
  BY DEF EncodedPng, Fits, KnowsItsStream, SystemIdle, SuccessIsEarned
<1>1. u \in ShotRecord /\ u = [shot EXCEPT !.encoding = FALSE]
  BY <1>0 DEF ShotRecord
<1>2. \/ (s.delivered \/ s.stopRequested \/ s.cancelled) /\ shot' = FinalizeStoppedResourceIfPossible(s)
      \/ ~s.stopRequested /\ ~s.cancelled /\ shot' = FinishCapture(w, "succeeded")
      \/ ~s.stopRequested /\ shot' = FinishCapture(s, "failed")
  BY DEF EncodedPng
<1> HIDE DEF u
<1>3. KnowsItsStream(u, sckStream) /\ EndsByStop(u) /\ SuccessIsEarned(u)
  BY <1>0, <1>1 DEF Fits, ShotRecord, KnowsItsStream, EndsByStop, SuccessIsEarned
<1>4. /\ AnswerIsOne(u) /\ EndIsTrue(u, sckStream) /\ u.stopRequested = shot.stopRequested
      /\ u.begun /\ u.accepted
  BY <1>0, <1>1 DEF Fits, ShotRecord, AnswerIsOne, EndIsTrue, SystemResourceStopped
<1>5. Fits(s, sckStream) /\ s.stopRequested = shot.stopRequested /\ s.begun /\ s.accepted
  <2>1. s.begun = u.begun /\ s.accepted = u.accepted
    BY <1>1 DEF ShotRecord, Refreshed
  <2> QED
    BY <1>1, <1>3, <1>4, <2>1, RefreshedFits DEF Fits
<1>6. w \in ShotRecord /\ w = [s EXCEPT !.png = TRUE]
  BY <1>5 DEF Fits, ShotRecord
<1> HIDE DEF s, w
<1>7. Fits(w, sckStream) /\ w.stopRequested = s.stopRequested /\ w.begun /\ w.png
      /\ w.cancelled = s.cancelled
  <2>1. KnowsItsStream(w, sckStream) /\ EndsByStop(w) /\ SuccessIsEarned(w)
    BY <1>5, <1>6 DEF Fits, ShotRecord, KnowsItsStream, EndsByStop, SuccessIsEarned
  <2>2. /\ AnswerIsOne(w) /\ EndIsTrue(w, sckStream) /\ w.stopRequested = s.stopRequested
        /\ w.begun /\ w.png /\ w.cancelled = s.cancelled
    BY <1>5, <1>6 DEF Fits, ShotRecord, AnswerIsOne, EndIsTrue, SystemResourceStopped
  <2> QED
    BY <1>6, <2>1, <2>2 DEF Fits
<1>8. CASE shot' = FinalizeStoppedResourceIfPossible(s)
  <2>1. s.stopped => sckStream \notin MayRun
    BY <1>5 DEF Fits, KnowsItsStream
  <2> QED
    BY <1>0, <1>5, <1>8, <2>1, FinalizeFits DEF Handled
<1>9. CASE ~s.cancelled /\ shot' = FinishCapture(w, "succeeded")
  BY <1>0, <1>7, <1>9, FinishCaptureFits DEF Handled, Outcomes
<1>10. CASE shot' = FinishCapture(s, "failed")
  BY <1>0, <1>5, <1>10, FinishCaptureFits DEF Handled, Outcomes
<1> QED
  BY <1>2, <1>8, <1>9, <1>10

\* A timer ends the task, or gives up its stream.
LEMMA TimerStep ==
  ASSUME ShotInv, CaptureTimedOut \/ StopTimedOut PROVE Handled
<1> USE DEF ShotInv
<1>0. /\ shot \in ShotRecord /\ Fits(shot, sckStream) /\ sckStream' = sckStream
  BY DEF CaptureTimedOut, StopTimedOut, Fits, SystemIdle
<1>1. CASE StopTimedOut
  BY <1>0, <1>1, CleanupUnknownFits DEF StopTimedOut, Fits, EndsByStop, Handled
<1>2. CASE CaptureTimedOut
  <2> DEFINE s == [shot EXCEPT !.timers = @ \ {"capture"}]
  <2>1. s \in ShotRecord /\ s.timers \subseteq shot.timers /\ SameStory(shot, s)
    <3>1. shot.timers \ {"capture"} \subseteq {"capture", "stop"}
      BY <1>0 DEF ShotRecord
    <3> QED
      BY <1>0, <3>1 DEF ShotRecord, SameStory
  <2>2. shot' = FinishCapture(s, "timed-out") /\ shot.begun
    BY <1>0, <1>2 DEF CaptureTimedOut, Fits, KnowsItsStream
  <2> HIDE DEF s
  <2>3. Fits(s, sckStream) /\ s.begun /\ s.stopRequested = shot.stopRequested
    BY <1>0, <2>1, <2>2, SameStoryFits DEF SameStory
  <2> QED
    BY <1>0, <2>2, <2>3, FinishCaptureFits DEF Handled, Outcomes
<1> QED
  BY <1>1, <1>2

\* The caller cancels.
LEMMA CancelStep ==
  ASSUME ShotInv, CaptureCancel PROVE Handled
<1> USE DEF ShotInv
<1>0. /\ shot \in ShotRecord /\ Fits(shot, sckStream) /\ sckStream' = sckStream /\ shot.begun
  BY DEF CaptureCancel, Fits, SystemIdle
<1>1. CASE shot.delivered \/ shot.stopRequested
  BY <1>0, <1>1 DEF CaptureCancel, Handled
<1>2. CASE ~shot.delivered /\ ~shot.stopRequested
  <2> DEFINE s == [shot EXCEPT !.cancelled = TRUE]
  <2>1. s \in ShotRecord /\ s = [shot EXCEPT !.cancelled = TRUE]
    BY <1>0 DEF ShotRecord
  <2>2. shot' = FinishCapture(s, "cancelled")
    BY <1>2 DEF CaptureCancel
  <2> HIDE DEF s
  <2>3. KnowsItsStream(s, sckStream) /\ EndsByStop(s) /\ SuccessIsEarned(s)
    BY <1>0, <1>2, <2>1 DEF Fits, ShotRecord, KnowsItsStream, EndsByStop, SuccessIsEarned
  <2>4. AnswerIsOne(s) /\ s.begun /\ s.stopRequested = shot.stopRequested
    BY <1>0, <2>1 DEF Fits, ShotRecord, AnswerIsOne
  <2>5. EndIsTrue(s, sckStream)
    BY <1>0, <2>1 DEF Fits, ShotRecord, EndIsTrue, SystemResourceStopped
  <2> QED
    BY <1>0, <2>1, <2>2, <2>3, <2>4, <2>5, FinishCaptureFits DEF Fits, Handled, Outcomes
<1> QED
  BY <1>1, <1>2

\* The answer to a stop.
LEMMA StoppedStep ==
  ASSUME ShotInv, NEW a \in 1..2, NEW ok \in BOOLEAN, StoppedWithError(a, ok) PROVE Handled
<1> USE DEF ShotInv
<1>0. a = 1 \/ a = 2
  OBVIOUS
<1>1. <<IF ok THEN "stopped" ELSE "stop-failed", a>> \in shotAnswers \cap StopAnswers
  BY <1>0 DEF StoppedWithError, StopAnswers
<1>2. /\ shot \in ShotRecord /\ Fits(shot, sckStream) /\ sckStream' = sckStream
      /\ shot.stopRequested /\ sckStream # "none"
  BY <1>1 DEF StoppedWithError, Fits, AnswersFit
<1>3. CASE ~ok
  BY <1>2, <1>3, CleanupUnknownFits DEF StoppedWithError, Handled
<1>4. CASE ok
  <2>1. <<"stopped", a>> \in shotAnswers \cap Endings
    BY <1>0, <1>1, <1>4 DEF Endings
  <2>2. sckStream \notin MayRun
    BY <2>1 DEF AnswersFit
  <2> DEFINE s == [shot EXCEPT !.stopInFlight = FALSE, !.stream = FALSE, !.stopped = TRUE]
  <2>3. s \in ShotRecord /\ s = [shot EXCEPT !.stopInFlight = FALSE, !.stream = FALSE, !.stopped = TRUE]
    BY <1>2 DEF ShotRecord
  <2>4. shot' = FinalizeStoppedResourceIfPossible(s)
    BY <1>4 DEF StoppedWithError
  <2> HIDE DEF s
  <2>5. KnowsItsStream(s, sckStream) /\ EndsByStop(s) /\ SuccessIsEarned(s)
    BY <1>2, <2>2, <2>3 DEF Fits, ShotRecord, KnowsItsStream, EndsByStop, SuccessIsEarned
  <2>6. AnswerIsOne(s) /\ s.stopRequested
    BY <1>2, <2>3 DEF Fits, ShotRecord, AnswerIsOne
  <2>7. EndIsTrue(s, sckStream)
    BY <1>2, <2>3 DEF Fits, ShotRecord, EndIsTrue, SystemResourceStopped
  <2> QED
    BY <1>2, <2>2, <2>3, <2>4, <2>5, <2>6, <2>7, FinalizeFits DEF Fits, Handled
<1> QED
  BY <1>3, <1>4

\* The system ended the stream by itself.
LEMMA DiedStep ==
  ASSUME ShotInv, DidStopWithError PROVE Handled
<1> USE DEF ShotInv
<1>0. /\ Fits(shot, sckStream) /\ sckStream' = sckStream
      /\ <<"died", 0>> \in shotAnswers \cap Endings
  BY DEF DidStopWithError, Endings
<1>1. sckStream \notin MayRun /\ sckStream # "none"
  BY <1>0 DEF AnswersFit
<1> DEFINE s == [shot EXCEPT !.stream = FALSE, !.stopped = TRUE, !.stopInFlight = FALSE,
                             !.stopRequested = TRUE,
                             !.outcome = IF shot.stopRequested THEN @ ELSE "failed"]
<1>2. shot' = FinalizeStoppedResourceIfPossible(s)
  <2>1. shot \in ShotRecord
    BY <1>0 DEF Fits
  <2> QED
    BY <2>1 DEF DidStopWithError, ShotRecord
<1>3. Fits(s, sckStream) /\ s.stopRequested
  BY <1>0, <1>1, StreamGoneFits
<1> HIDE DEF s
<1> QED
  BY <1>0, <1>1, <1>2, <1>3, FinalizeFits DEF Handled

\* A stream of the system only ends: what the session knows of it stays true.
LEMMA StreamMovesFits ==
  ASSUME NEW s, NEW k, NEW m, Fits(s, k), k # "none", m # "none", m \in MayRun => k \in MayRun
  PROVE  Fits(s, m)
  BY DEF Fits, KnowsItsStream, EndIsTrue

\* What a handler leaves of the rest of the state.
LEMMA HandledIsConsistent ==
  ASSUME ShotInv, Handled, shotAnswers' \subseteq shotAnswers, stopsHeard' = stopsHeard,
         shotAnswers # {} => sckStream' = sckStream,
         sckStream' \in {sckStream, "starting"},
         cancelCalls' \in {"unused", "queued", "done"}, shotFaults' \in 0..MaxShotFaults
  PROVE  ShotInv'
<1>1. shot' \in ShotRecord
  BY DEF Handled, Fits
<1>2. CaptureTypeOK'
  BY <1>1 DEF ShotInv, CaptureTypeOK, ShotRecord
<1>3. AnswersFit'
  BY DEF ShotInv, Handled, AnswersFit
<1> QED
  BY <1>2, <1>3 DEF ShotInv, Handled

\* What the system does to a stream of the session.
LEMMA SystemStep ==
  ASSUME ShotInv, SystemStarts \/ SystemStops \/ SystemEndsStream PROVE ShotInv'
<1> USE DEF ShotInv
<1>0. shot' = shot /\ shot \in ShotRecord
  BY DEF SystemStarts, SystemStops, SystemEndsStream, SystemAnswers, Fits
<1>1. /\ sckStream # "none" /\ sckStream' # "none"
      /\ sckStream' \in MayRun => sckStream \in MayRun
      /\ sckStream \in {"stopped", "failed"} => sckStream' \in {"stopped", "failed"}
  <2>1. CASE SystemStarts \/ SystemEndsStream
    BY <2>1 DEF SystemStarts, SystemEndsStream, SystemAnswers
  <2>2. CASE SystemStops
    <3>1. shot.attempts > 0
      BY <1>0, <2>2 DEF SystemStops, ShotRecord
    <3>2. sckStream # "none"
      BY <3>1 DEF Fits, KnowsItsStream
    <3> QED
      BY <2>2, <3>2 DEF SystemStops, SystemAnswers
  <2> QED
    BY <2>1, <2>2
<1>2. Fits(shot', sckStream')
  <2>1. Fits(shot, sckStream')
    BY <1>1, StreamMovesFits
  <2> QED
    BY <1>0, <2>1
<1>3. CaptureTypeOK' /\ AnswersFit'
  <2>1. CASE SystemStarts
    <3>1. /\ stopsHeard' = stopsHeard /\ cancelCalls' = cancelCalls
          /\ shotFaults' \in {shotFaults, shotFaults + 1} /\ shotFaults' \in 0..MaxShotFaults
      BY <2>1, CaptureAssumption DEF SystemStarts, SystemAnswers, Fails, CaptureTypeOK
    <3>2. \/ shotAnswers' = shotAnswers \cup {<<"started", 0>>} /\ sckStream' = "running"
          \/ shotAnswers' = shotAnswers \cup {<<"start-failed", 0>>} /\ sckStream' = "failed"
      BY <2>1 DEF SystemStarts, SystemAnswers
    <3>3. CaptureTypeOK'
      BY <1>0, <3>1, <3>2 DEF CaptureTypeOK
    <3>4. shotAnswers \cap Endings = {}
      BY <2>1 DEF SystemStarts, AnswersFit
    <3>5. AnswersFit'
      BY <1>0, <1>1, <3>2, <3>4 DEF AnswersFit, Endings, StopAnswers
    <3> QED
      BY <3>3, <3>5
  <2>2. CASE SystemEndsStream
    <3>1. /\ stopsHeard' = stopsHeard /\ cancelCalls' = cancelCalls
          /\ shotFaults' \in 0..MaxShotFaults
      BY <2>2, CaptureAssumption DEF SystemEndsStream, SystemAnswers, Fails, CaptureTypeOK
    <3>2. shotAnswers' = shotAnswers \cup {<<"died", 0>>} /\ sckStream' = "stopped"
      BY <2>2 DEF SystemEndsStream, SystemAnswers
    <3>3. CaptureTypeOK'
      BY <1>0, <3>1, <3>2 DEF CaptureTypeOK
    <3>4. AnswersFit'
      BY <1>0, <3>2 DEF AnswersFit, Endings, StopAnswers
    <3> QED
      BY <3>3, <3>4
  <2>3. CASE SystemStops
    <3>1. PICK a \in 1..shot.attempts \ stopsHeard :
            /\ stopsHeard' = stopsHeard \cup {a}
            /\ \/ /\ sckStream \in {"running", "stopped"}
                  /\ SystemAnswers(<<"stopped", a>>, "stopped")
                  /\ UNCHANGED shotFaults
               \/ /\ sckStream \in {"starting", "failed"}
                  /\ shotAnswers' = shotAnswers
                       \cup {<<"stopped", a>>}
                       \cup (IF sckStream = "starting" THEN {<<"start-failed", 0>>} ELSE {})
                  /\ sckStream' = "failed"
                  /\ UNCHANGED <<shot, cancelCalls, shotFaults>>
               \/ /\ Fails
                  /\ SystemAnswers(<<"stop-failed", a>>, sckStream)
      BY <2>3 DEF SystemStops
    <3>2. (a = 1 \/ a = 2) /\ shot.stopRequested
      BY <1>0, <3>1 DEF ShotRecord, Fits, EndsByStop
    <3>3. \/ /\ shotAnswers' \subseteq shotAnswers \cup {<<"stopped", a>>, <<"start-failed", 0>>}
             /\ sckStream' \in {"stopped", "failed"}
          \/ /\ shotAnswers' = shotAnswers \cup {<<"stop-failed", a>>}
             /\ sckStream' = sckStream
      BY <3>1 DEF SystemAnswers
    <3>4. cancelCalls' = cancelCalls /\ shotFaults' \in 0..MaxShotFaults
      BY <3>1, CaptureAssumption DEF SystemAnswers, Fails, CaptureTypeOK
    <3>5. CaptureTypeOK'
      BY <1>0, <3>1, <3>2, <3>3, <3>4 DEF CaptureTypeOK
    <3>6. CASE sckStream' \in {"stopped", "failed"}
               /\ shotAnswers' \subseteq shotAnswers \cup {<<"stopped", a>>, <<"start-failed", 0>>}
      <4>1. {<<"stopped", a>>, <<"start-failed", 0>>} \subseteq Endings
        BY <3>2 DEF Endings
      <4>2. shotAnswers' \subseteq {<<"started", 0>>} \cup Endings \cup StopAnswers
        BY <3>6, <4>1 DEF AnswersFit
      <4> QED
        BY <1>0, <3>2, <3>5, <3>6, <4>2 DEF AnswersFit
    <3>7. CASE sckStream' = sckStream /\ shotAnswers' = shotAnswers \cup {<<"stop-failed", a>>}
      <4>1. <<"stop-failed", a>> \in StopAnswers /\ <<"stop-failed", a>> \notin Endings
        BY <3>2 DEF Endings, StopAnswers
      <4>2. shotAnswers' \subseteq {<<"started", 0>>} \cup Endings \cup StopAnswers
        BY <3>7, <4>1 DEF AnswersFit
      <4>3. shotAnswers' \cap Endings = shotAnswers \cap Endings
        BY <3>7, <4>1
      <4>4. sckStream' # "none" /\ shot'.stopRequested
        BY <1>0, <1>1, <3>2
      <4> QED
        BY <3>5, <3>7, <4>2, <4>3, <4>4 DEF AnswersFit
    <3> QED
      BY <3>3, <3>6, <3>7
  <2> QED
    BY <2>1, <2>2, <2>3
<1> QED
  BY <1>2, <1>3

\* Every step keeps the invariant.
LEMMA CaptureStep ==
  ASSUME ShotInv, [CaptureNext]_shotVars PROVE ShotInv'
<1> USE DEF ShotInv
<1>0. shot \in ShotRecord /\ shotFaults \in 0..MaxShotFaults
  BY DEF Fits, CaptureTypeOK
<1>1. CASE UNCHANGED shotVars
  BY <1>1 DEF shotVars, CaptureTypeOK, AnswersFit
<1>2. CASE CaptureBegin
  <2>1. /\ shotAnswers' = shotAnswers /\ sckStream' = sckStream /\ stopsHeard' = stopsHeard
        /\ cancelCalls' = cancelCalls /\ shotFaults' \in 0..MaxShotFaults
    BY <1>0, <1>2, CaptureAssumption DEF CaptureBegin, SystemIdle, Fails
  <2> QED
    BY <1>2, <2>1, BeginStep, HandledIsConsistent DEF CaptureTypeOK
<1>3. CASE ReceivedShareableContent
  <2>1. /\ shotAnswers' = shotAnswers /\ stopsHeard' = stopsHeard
        /\ cancelCalls' = cancelCalls /\ shotFaults' \in 0..MaxShotFaults
        /\ sckStream' = sckStream \/ (sckStream' = "starting" /\ ~shot.stopRequested)
    BY <1>0, <1>3, CaptureAssumption DEF ReceivedShareableContent, Fails
  <2>2. shotAnswers # {} => sckStream' = sckStream
    BY <1>3, <2>1 DEF ReceivedShareableContent, Fits, KnowsItsStream, AnswersFit
  <2> QED
    BY <1>3, <2>1, <2>2, ReceivedStep, HandledIsConsistent DEF CaptureTypeOK
<1>4. ASSUME NEW ok \in BOOLEAN, CaptureStarted(ok) PROVE ShotInv'
  <2>1. /\ shotAnswers' \subseteq shotAnswers /\ sckStream' = sckStream /\ stopsHeard' = stopsHeard
        /\ cancelCalls' = cancelCalls /\ shotFaults' \in 0..MaxShotFaults
    BY <1>0, <1>4 DEF CaptureStarted
  <2> QED
    BY <1>4, <2>1, StartedStep, HandledIsConsistent DEF CaptureTypeOK
<1>5. CASE ConsiderSampleBuffer
  <2>1. /\ shotAnswers' = shotAnswers /\ sckStream' = sckStream /\ stopsHeard' = stopsHeard
        /\ cancelCalls' = cancelCalls /\ shotFaults' \in 0..MaxShotFaults
    BY <1>0, <1>5, CaptureAssumption DEF ConsiderSampleBuffer, SystemIdle, Fails
  <2> QED
    BY <1>5, <2>1, SampleStep, HandledIsConsistent DEF CaptureTypeOK
<1>6. CASE EncodedPng
  <2>1. /\ shotAnswers' = shotAnswers /\ sckStream' = sckStream /\ stopsHeard' = stopsHeard
        /\ cancelCalls' = cancelCalls /\ shotFaults' \in 0..MaxShotFaults
    BY <1>0, <1>6, CaptureAssumption DEF EncodedPng, SystemIdle, Fails
  <2> QED
    BY <1>6, <2>1, EncodedStep, HandledIsConsistent DEF CaptureTypeOK
<1>7. CASE CaptureTimedOut \/ StopTimedOut
  <2>1. /\ shotAnswers' = shotAnswers /\ sckStream' = sckStream /\ stopsHeard' = stopsHeard
        /\ cancelCalls' = cancelCalls /\ shotFaults' \in 0..MaxShotFaults
    BY <1>0, <1>7 DEF CaptureTimedOut, StopTimedOut, SystemIdle
  <2> QED
    BY <1>7, <2>1, TimerStep, HandledIsConsistent DEF CaptureTypeOK
<1>8. CASE CaptureCancel
  <2>1. /\ shotAnswers' = shotAnswers /\ sckStream' = sckStream /\ stopsHeard' = stopsHeard
        /\ cancelCalls' = "done" /\ shotFaults' \in 0..MaxShotFaults
    BY <1>0, <1>8 DEF CaptureCancel, SystemIdle
  <2> QED
    BY <1>8, <2>1, CancelStep, HandledIsConsistent DEF CaptureTypeOK
<1>9. ASSUME NEW a \in 1..2, NEW ok \in BOOLEAN, StoppedWithError(a, ok) PROVE ShotInv'
  <2>1. /\ shotAnswers' \subseteq shotAnswers /\ sckStream' = sckStream /\ stopsHeard' = stopsHeard
        /\ cancelCalls' = cancelCalls /\ shotFaults' \in 0..MaxShotFaults
    BY <1>0, <1>9 DEF StoppedWithError
  <2> QED
    BY <1>9, <2>1, StoppedStep, HandledIsConsistent DEF CaptureTypeOK
<1>10. CASE DidStopWithError
  <2>1. /\ shotAnswers' \subseteq shotAnswers /\ sckStream' = sckStream /\ stopsHeard' = stopsHeard
        /\ cancelCalls' = cancelCalls /\ shotFaults' \in 0..MaxShotFaults
    BY <1>0, <1>10 DEF DidStopWithError
  <2> QED
    BY <1>10, <2>1, DiedStep, HandledIsConsistent DEF CaptureTypeOK
<1>11. CASE AskCancel
  <2>1. /\ shotAnswers' = shotAnswers /\ sckStream' = sckStream /\ stopsHeard' = stopsHeard
        /\ cancelCalls' = "queued" /\ shotFaults' \in 0..MaxShotFaults /\ shot' = shot
    BY <1>0, <1>11 DEF AskCancel
  <2> QED
    BY <2>1, HandledIsConsistent DEF CaptureTypeOK, Handled
<1> QED
  BY <1>1, <1>2, <1>3, <1>4, <1>5, <1>6, <1>7, <1>8, <1>9, <1>10, <1>11, SystemStep DEF CaptureNext

\* The inductive invariant of a capture.
THEOREM CaptureIsConsistent == CaptureSpec => []ShotInv
<1>1. CaptureInit => ShotInv
  <2>1. CaptureInit => CaptureTypeOK /\ AnswersFit
    BY CaptureAssumption DEF CaptureInit, CaptureTypeOK, AnswersFit, Outcomes
  <2>2. CaptureInit => shot \in ShotRecord
    BY DEF CaptureInit, ShotRecord, Outcomes
  <2>3. CaptureInit => KnowsItsStream(shot, sckStream) /\ EndsByStop(shot) /\ SuccessIsEarned(shot)
    BY DEF CaptureInit, KnowsItsStream, EndsByStop, SuccessIsEarned
  <2>4. CaptureInit => AnswerIsOne(shot) /\ EndIsTrue(shot, sckStream)
    BY DEF CaptureInit, AnswerIsOne, EndIsTrue
  <2> QED
    BY <2>1, <2>2, <2>3, <2>4 DEF ShotInv, Fits
<1>2. ShotInv /\ [CaptureNext]_shotVars => ShotInv'
  BY CaptureStep
<1> QED
  BY <1>1, <1>2, PTL DEF CaptureSpec

\* A task that says it is over is over: no stream of it runs, it is kept alive until
\* then, and its caller hears once, with the picture of a success and no other.
THEOREM CapturesEndClean == CaptureSpec => []CaptureEndsClean
<1>1. ShotInv => CaptureEndsClean
  <2> SUFFICES ASSUME ShotInv PROVE CaptureEndsClean
    OBVIOUS
  <2>1. Fits(shot, sckStream)
    BY DEF ShotInv
  <2>2. DrainedIsStopped /\ RunningIsRetained
    BY <2>1 DEF Fits, KnowsItsStream, EndIsTrue, SystemResourceStopped, DrainedIsStopped,
         RunningIsRetained, StreamMayRun
  <2>3. AnswersOnce
    BY <2>1 DEF Fits, AnswerIsOne, SuccessIsEarned, AnswersOnce
  <2> QED
    BY <2>2, <2>3 DEF CaptureEndsClean
<1> QED
  BY <1>1, CaptureIsConsistent, PTL
=============================================================================
