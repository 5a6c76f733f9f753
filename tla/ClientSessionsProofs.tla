------------------------- MODULE ClientSessionsProofs -------------------------
(***************************************************************************)
(* Proofs about ClientSessions for any clients, sessions and operations:   *)
(* the token of a client resumes one session, in memory and on disk, and   *)
(* operations keep the session they run under.                             *)
(***************************************************************************)
EXTENDS ClientSessionsProperties, FiniteSetTheorems, SequenceTheorems, TLAPS

USE DEF registryVars, credentialVars, callVars, graceVars, worldVars, vars

-----------------------------------------------------------------------------
(* The inductive invariant. *)

\* Of the sessions of a lineage that a file knows, its token resumes exactly one.
OneToken(file) ==
  \A s \in Known(file) : \E t \in Sessions : Resumable(file, file[s].lineage) = {t}

\* A later file knows what an earlier one does.
Grown(old, new) ==
  \A s \in Known(old) : s \in Known(new) /\ new[s].lineage = old[s].lineage

\* The disk, the snapshots on their way and the registry know more and more sessions;
\* only the oldest snapshot can be on disk.
FilesInv ==
  /\ OneToken(stored) /\ OneToken(disk) /\ Grown(disk, stored)
  /\ \A n \in 1..Len(writes) :
       /\ OneToken(writes[n].file)
       /\ Grown(disk, writes[n].file) /\ Grown(writes[n].file, stored)
       /\ \A m \in 1..Len(writes) : n < m => Grown(writes[n].file, writes[m].file)
       /\ writes[n].landed => n = 1 /\ disk = writes[n].file

\* At most one credential waits for its write, and it is that of the oldest request.
WaitingInv ==
  \A n \in 1..Len(writes) :
    writes[n].for = "credential" =>
      /\ writes[n].session \in Known(writes[n].file)
      /\ requests # <<>> /\ requests[1].session = writes[n].session
      /\ writes[n].file[writes[n].session].lineage = requests[1].lineage
      /\ \A m \in 1..Len(writes) : writes[m].for = "credential" => m = n

\* A lineage that is being opened is new: nobody has its token, no other request is about
\* it, and until its request begins it has no session.
OpenInv ==
  \A n \in 1..Len(requests) :
    requests[n].kind = "open" =>
      /\ requests[n].lineage \notin token
      /\ \A m \in 1..Len(requests) : m # n => requests[m].lineage # requests[n].lineage
      /\ requests[n].session = NoSession =>
           \A s \in Known(stored) : stored[s].lineage # requests[n].lineage

\* What was promised is on disk, and no session is taken away while a browser is connected
\* for it.
OwnerInv ==
  /\ persisted \subseteq Known(disk)
  /\ \A l \in token : \E s \in Known(disk) : disk[s].lineage = l
  /\ \A c \in Calls : call[c] # "idle" => by[c] \in Known(disk)
  /\ ConnectsUnderTheToken

\* While the timer of a lineage runs, no client of it is connected.
GraceInv ==
  \A l \in Lineages : grace[l].phase = "timer" =>
    \A s \in persisted : Live(s) => stored[s].lineage # l

SessionsInv == TypeOK /\ FilesInv /\ WaitingInv /\ OpenInv /\ OwnerInv /\ GraceInv

-----------------------------------------------------------------------------
(* Lemmas about files. *)

\* What a file knows of a session.
LEMMA KnownIs ==
  ASSUME NEW f \in [Sessions -> StoredSession], NEW s \in Known(f)
  PROVE  /\ s \in Sessions /\ f[s] \in [lineage : Lineages, disconnected : BOOLEAN, revoked : BOOLEAN]
         /\ f[s].lineage \in Lineages
<1>1. s \in Sessions /\ f[s] \in [lineage : Lineages, disconnected : BOOLEAN, revoked : BOOLEAN]
  BY DEF Known, StoredSession
<1> QED
  BY <1>1

\* Files grow one after the other.
LEMMA GrownOn ==
  ASSUME NEW f, NEW g, NEW h, Grown(f, g), Grown(g, h) PROVE Grown(f, h)
  BY DEF Grown

\* Two files that agree on who is known, of which lineage and whether revoked agree on tokens.
LEMMA SameTokens ==
  ASSUME NEW f, NEW g, Known(g) = Known(f), OneToken(f),
         \A s \in Known(f) : g[s].lineage = f[s].lineage /\ g[s].revoked = f[s].revoked
  PROVE  OneToken(g) /\ Grown(f, g)
<1>1. \A l : Resumable(g, l) = Resumable(f, l)
  BY DEF Resumable
<1> QED
  BY <1>1 DEF OneToken, Grown

\* A new session replaces the one before it.
LEMMA ReplacedIs ==
  ASSUME stored \in [Sessions -> StoredSession], OneToken(stored), NEW s \in Sessions, s \notin Known(stored),
         NEW l \in Lineages
  PROVE  /\ Replaced(s, l) \in [Sessions -> StoredSession]
         /\ Known(Replaced(s, l)) = Known(stored) \cup {s}
         /\ Replaced(s, l)[s] = Created(s, l)
         /\ Grown(stored, Replaced(s, l)) /\ OneToken(Replaced(s, l))
         /\ \A t \in Known(stored) : stored[t].lineage # l => Replaced(s, l)[t] = stored[t]
<1> DEFINE new == Replaced(s, l)
           old(t) == [stored[t] EXCEPT !.disconnected = TRUE, !.revoked = TRUE]
<1>1. Created(s, l) \in [lineage : Lineages, disconnected : BOOLEAN, revoked : BOOLEAN]
      /\ Created(s, l).lineage = l /\ ~Created(s, l).revoked /\ Created(s, l) # Absent
  BY SessionsAssumption DEF Created, Absent
<1>2. ASSUME NEW t \in Known(stored)
      PROVE  /\ old(t) \in [lineage : Lineages, disconnected : BOOLEAN, revoked : BOOLEAN]
             /\ old(t).lineage = stored[t].lineage /\ old(t).revoked /\ old(t) # Absent
  <2>1. stored[t] \in [lineage : Lineages, disconnected : BOOLEAN, revoked : BOOLEAN]
    BY KnownIs
  <2> QED
    BY <2>1 DEF Absent
<1>3. Resumable(stored, l) \subseteq Known(stored) /\ Known(stored) \subseteq Sessions
  BY DEF Resumable, Known
<1>4. DOMAIN new = Sessions /\ new[s] = Created(s, l)
  BY DEF Replaced
<1>5. \A t \in Sessions : t # s => new[t] = IF t \in Resumable(stored, l) THEN old(t) ELSE stored[t]
  BY DEF Replaced
<1>6. \A t \in Sessions : new[t] \in StoredSession
  <2>1. \A t \in Sessions : stored[t] \in StoredSession
    OBVIOUS
  <2> HIDE DEF new, old
  <2> QED
    BY <1>1, <1>2, <1>3, <1>4, <1>5, <2>1 DEF StoredSession
<1>7. new \in [Sessions -> StoredSession]
  <2>1. new = [t \in Sessions |-> new[t]]
    BY DEF Replaced
  <2> HIDE DEF new
  <2> QED
    BY <1>6, <2>1
<1> HIDE DEF new, old
<1>8. Known(new) = Known(stored) \cup {s}
  BY <1>1, <1>2, <1>3, <1>4, <1>5 DEF Known
<1>9. \A t \in Known(stored) : t # s /\ t \in Sessions /\ new[t].lineage = stored[t].lineage
  BY <1>2, <1>3, <1>5
<1>10. Grown(stored, new)
  BY <1>8, <1>9 DEF Grown
<1>11. \A t \in Known(stored) : stored[t].lineage # l => new[t] = stored[t]
  BY <1>5, <1>9 DEF Resumable
<1>12. Resumable(new, l) = {s}
  <2>1. s \in Resumable(new, l)
    BY <1>1, <1>4, <1>8 DEF Resumable
  <2>2. ASSUME NEW t \in Resumable(new, l), t # s PROVE FALSE
    <3>1. t \in Known(stored) /\ stored[t].lineage = l /\ ~new[t].revoked
      BY <1>8, <1>9, <2>2 DEF Resumable
    <3>2. t \in Resumable(stored, l)
      BY <1>3, <1>5, <1>9, <3>1 DEF Resumable
    <3> QED
      BY <1>2, <1>3, <1>5, <2>2, <3>1, <3>2
  <2> QED
    BY <2>1, <2>2
<1>13. \A k : k # l => Resumable(new, k) = Resumable(stored, k)
  BY <1>1, <1>4, <1>8, <1>9, <1>11 DEF Resumable
<1>14. OneToken(new)
  <2> SUFFICES ASSUME NEW t \in Known(new)
               PROVE  \E u \in Sessions : Resumable(new, new[t].lineage) = {u}
    BY DEF OneToken
  <2>1. CASE new[t].lineage = l
    BY <1>12, <2>1
  <2>2. CASE new[t].lineage # l
    <3>1. t \in Known(stored) /\ new[t].lineage = stored[t].lineage
      BY <1>1, <1>4, <1>8, <1>9, <2>2
    <3> QED
      BY <1>13, <2>2, <3>1 DEF OneToken
  <2> QED
    BY <2>1, <2>2
<1> QED
  BY <1>4, <1>7, <1>8, <1>10, <1>11, <1>14 DEF new

\* Sessions that are disconnected stay known.
LEMMA DisconnectedIs ==
  ASSUME stored \in [Sessions -> StoredSession], OneToken(stored), NEW ss \in SUBSET Known(stored)
  PROVE  /\ Disconnected(ss) \in [Sessions -> StoredSession]
         /\ Known(Disconnected(ss)) = Known(stored)
         /\ Grown(stored, Disconnected(ss)) /\ OneToken(Disconnected(ss))
         /\ \A t \in Known(stored) : /\ Disconnected(ss)[t].revoked = stored[t].revoked
                                     /\ Disconnected(ss)[t].lineage = stored[t].lineage
                                     /\ t \in ss => Disconnected(ss)[t].disconnected
                                     /\ t \notin ss => Disconnected(ss)[t] = stored[t]
<1> DEFINE new == Disconnected(ss)
           left(t) == [stored[t] EXCEPT !.disconnected = TRUE]
<1>1. ASSUME NEW t \in Known(stored)
      PROVE  /\ left(t) \in [lineage : Lineages, disconnected : BOOLEAN, revoked : BOOLEAN]
             /\ left(t).lineage = stored[t].lineage /\ left(t).revoked = stored[t].revoked
             /\ left(t).disconnected /\ left(t) # Absent
  <2>1. stored[t] \in [lineage : Lineages, disconnected : BOOLEAN, revoked : BOOLEAN]
    BY KnownIs
  <2> QED
    BY <2>1 DEF Absent
<1>2. ss \subseteq Known(stored) /\ Known(stored) \subseteq Sessions
  BY DEF Known
<1>3. \A t \in Sessions : new[t] = IF t \in ss THEN left(t) ELSE stored[t]
  BY DEF Disconnected
<1>4. new = [t \in Sessions |-> new[t]]
  BY DEF Disconnected
<1>5. \A t \in Sessions : stored[t] \in StoredSession
  OBVIOUS
<1> HIDE DEF new, left
<1>6. \A t \in Sessions : new[t] \in StoredSession
  BY <1>1, <1>2, <1>3, <1>5 DEF StoredSession
<1>7. new \in [Sessions -> StoredSession]
  BY <1>4, <1>6
<1>8. Known(new) = Known(stored)
  BY <1>1, <1>2, <1>3 DEF Known
<1>9. \A t \in Known(stored) : /\ new[t].revoked = stored[t].revoked
                               /\ new[t].lineage = stored[t].lineage
                               /\ t \in ss => new[t].disconnected
                               /\ t \notin ss => new[t] = stored[t]
  BY <1>1, <1>2, <1>3
<1>10. OneToken(new) /\ Grown(stored, new)
  BY <1>8, <1>9, SameTokens
<1> QED
  BY <1>7, <1>8, <1>9, <1>10 DEF new

\* The token of a known lineage resumes one session.
LEMMA OneOfItsLineage ==
  ASSUME NEW f, OneToken(f), NEW s \in Known(f), NEW t \in Known(f), f[s].lineage = f[t].lineage,
         ~f[s].revoked, ~f[t].revoked
  PROVE  s = t
  BY DEF OneToken, Resumable

-----------------------------------------------------------------------------
(* Lemmas about the steps. *)

\* The oldest request and the oldest snapshot.
LEMMA Oldest ==
  ASSUME TypeOK
  PROVE  /\ requests # <<>> => /\ Head(requests) = requests[1] /\ requests[1] \in Requests
                               /\ requests[1].lineage \in Lineages /\ Len(requests) \in Nat \ {0}
         /\ writes # <<>> => /\ Head(writes) = writes[1] /\ writes[1] \in Snapshot
                             /\ Len(writes) \in Nat \ {0}
<1>1. requests \in Seq(Requests) /\ writes \in Seq(Snapshot)
  BY DEF TypeOK
<1>2. requests # <<>> => /\ Head(requests) = requests[1] /\ requests[1] \in Requests
                         /\ Len(requests) \in Nat \ {0}
  BY <1>1
<1>3. writes # <<>> => /\ Head(writes) = writes[1] /\ writes[1] \in Snapshot /\ Len(writes) \in Nat \ {0}
  BY <1>1
<1> QED
  BY <1>2, <1>3 DEF Requests

\* What a request that begins does.
LEMMA BeginsIs ==
  ASSUME SessionsInv, NEW s \in Sessions, StartCredential(s)
  PROVE  LET l == requests[1].lineage IN
         /\ requests # <<>> /\ requests[1] \in Requests /\ requests[1].session = NoSession /\ l \in Lineages
         /\ s \notin Known(stored) /\ stored' = Replaced(s, l) /\ current' = current \cup {s}
         /\ stored' \in [Sessions -> StoredSession] /\ Known(stored') = Known(stored) \cup {s}
         /\ stored'[s] = Created(s, l) /\ Grown(stored, stored') /\ OneToken(stored')
         /\ \A t \in Known(stored) : stored[t].lineage # l => stored'[t] = stored[t]
<1>1. Unstarted /\ s \notin Known(stored) /\ stored' = Replaced(s, Head(requests).lineage)
      /\ current' = current \cup {s}
  BY DEF StartCredential
<1>2. requests # <<>> /\ Head(requests) = requests[1] /\ requests[1] \in Requests
      /\ requests[1].lineage \in Lineages
  BY <1>1, Oldest DEF SessionsInv, Unstarted
<1>3. stored \in [Sessions -> StoredSession] /\ OneToken(stored)
  BY DEF SessionsInv, TypeOK, FilesInv
<1> QED
  BY <1>1, <1>2, <1>3, ReplacedIs DEF Unstarted

\* What leaving does.
LEMMA LeavesIs ==
  ASSUME SessionsInv, NEW ss \in SUBSET Known(stored), Disconnect(ss)
  PROVE  /\ stored' \in [Sessions -> StoredSession] /\ Known(stored') = Known(stored)
         /\ Grown(stored, stored') /\ OneToken(stored')
         /\ \A t \in Known(stored) : /\ stored'[t].revoked = stored[t].revoked
                                     /\ stored'[t].lineage = stored[t].lineage
                                     /\ t \in ss => stored'[t].disconnected
                                     /\ t \notin ss => stored'[t] = stored[t]
<1>1. stored' = Disconnected(ss)
  BY DEF Disconnect
<1>2. stored \in [Sessions -> StoredSession] /\ OneToken(stored)
  BY DEF SessionsInv, TypeOK, FilesInv
<1> QED
  BY <1>1, <1>2, DisconnectedIs

\* Both ways to leave.
LEMMA Leaving ==
  ASSUME SessionsInv
  PROVE  /\ \A s \in Sessions : Close(s) => {s} \in SUBSET Known(stored) /\ Disconnect({s}) /\ ~stored[s].revoked
         /\ Sweep => \E ss \in SUBSET Known(stored) : Disconnect(ss) /\ \A s \in ss : ~stored[s].revoked
<1>1. current \subseteq Known(stored) /\ expired \subseteq Known(stored)
  BY DEF SessionsInv, TypeOK
<1>2. \A s \in Sessions : Close(s) => {s} \in SUBSET Known(stored) /\ Disconnect({s}) /\ ~stored[s].revoked
  BY <1>1 DEF Close, Live
<1>3. ASSUME Sweep
      PROVE  \E ss \in SUBSET Known(stored) : Disconnect(ss) /\ \A s \in ss : ~stored[s].revoked
  <2>1. Disconnect({s \in expired : Live(s)})
    BY <1>3 DEF Sweep
  <2> QED
    BY <1>1, <2>1 DEF Live
<1> QED
  BY <1>2, <1>3

-----------------------------------------------------------------------------
(* The files. *)

\* The registry grows, and may be handed to the store.
LEMMA FilesGrow ==
  ASSUME FilesInv, writes \in Seq(Snapshot), Grown(stored, stored'), OneToken(stored'), disk' = disk,
         \/ writes' = writes
         \/ \E w \in Snapshot : writes' = Append(writes, w) /\ w.file = stored' /\ ~w.landed
  PROVE  FilesInv'
<1>1. Grown(disk, stored')
  BY GrownOn DEF FilesInv
<1>2. \A n \in 1..Len(writes) : Grown(writes[n].file, stored')
  BY GrownOn DEF FilesInv
<1>3. CASE writes' = writes
  BY <1>1, <1>2, <1>3 DEF FilesInv
<1>4. CASE \E w \in Snapshot : writes' = Append(writes, w) /\ w.file = stored' /\ ~w.landed
  <2>1. PICK w \in Snapshot : writes' = Append(writes, w) /\ w.file = stored' /\ ~w.landed
    BY <1>4
  <2>2. /\ Len(writes') = Len(writes) + 1 /\ Len(writes) \in Nat /\ writes'[Len(writes')] = w
        /\ \A n \in 1..Len(writes) : writes'[n] = writes[n]
    BY <2>1
  <2>3. Grown(stored', stored')
    BY DEF Grown
  <2>4. ASSUME NEW n \in 1..Len(writes')
        PROVE  /\ OneToken(writes'[n].file)
               /\ Grown(disk, writes'[n].file) /\ Grown(writes'[n].file, stored')
               /\ \A m \in 1..Len(writes') : n < m => Grown(writes'[n].file, writes'[m].file)
               /\ writes'[n].landed => n = 1 /\ disk = writes'[n].file
    <3>1. CASE n \in 1..Len(writes)
      <4>1. writes'[n] = writes[n] /\ Grown(writes'[n].file, stored')
        BY <1>2, <2>2, <3>1
      <4>2. ASSUME NEW m \in 1..Len(writes'), n < m PROVE Grown(writes'[n].file, writes'[m].file)
        <5>1. CASE m \in 1..Len(writes)
          BY <2>2, <3>1, <4>1, <4>2, <5>1 DEF FilesInv
        <5>2. CASE m = Len(writes')
          BY <2>1, <2>2, <4>1, <5>2
        <5> QED
          BY <2>2, <5>1, <5>2
      <4> QED
        BY <3>1, <4>1, <4>2 DEF FilesInv
    <3>2. CASE n = Len(writes')
      BY <1>1, <2>1, <2>2, <2>3, <3>2
    <3> QED
      BY <2>2, <3>1, <3>2
  <2> QED
    BY <1>1, <2>4 DEF FilesInv
<1> QED
  BY <1>3, <1>4

\* The oldest snapshot is on disk, and done with.
LEMMA FilesShrink ==
  ASSUME FilesInv, writes \in Seq(Snapshot), writes # <<>>, writes[1].landed, writes' = Tail(writes),
         UNCHANGED <<stored, disk>>
  PROVE  FilesInv'
<1>1. /\ Len(writes') = Len(writes) - 1 /\ Len(writes) \in Nat \ {0}
      /\ \A n \in 1..Len(writes') : writes'[n] = writes[n + 1]
  <2>1. \A n \in 1..Len(Tail(writes)) : Tail(writes)[n] = writes[n + 1]
    OBVIOUS
  <2> QED
    BY <2>1
<1>2. \A n \in 1..Len(writes') : n + 1 \in 1..Len(writes) /\ n + 1 # 1
  BY <1>1
<1>3. \A n, m \in 1..Len(writes') : n < m => n + 1 < m + 1
  BY <1>1
<1>4. ASSUME NEW n \in 1..Len(writes')
        PROVE  /\ OneToken(writes'[n].file)
               /\ Grown(disk, writes'[n].file) /\ Grown(writes'[n].file, stored)
               /\ \A m \in 1..Len(writes') : n < m => Grown(writes'[n].file, writes'[m].file)
               /\ writes'[n].landed => n = 1 /\ disk = writes'[n].file
  BY <1>1, <1>2, <1>3 DEF FilesInv
<1> QED
  BY <1>4 DEF FilesInv

\* Every step keeps the files in order.
LEMMA FilesStep == ASSUME SessionsInv, Next PROVE FilesInv'
<1>1. FilesInv /\ writes \in Seq(Snapshot) /\ Grown(stored, stored) /\ OneToken(stored)
  BY DEF SessionsInv, TypeOK, FilesInv, Grown
<1>2. ASSUME UNCHANGED <<stored, disk, writes>> PROVE FilesInv'
  BY <1>1, <1>2 DEF FilesInv
<1>3. ASSUME NEW s \in Sessions, StartCredential(s) PROVE FilesInv'
  <2>1. Grown(stored, stored') /\ OneToken(stored') /\ disk' = disk /\ stored' \in [Sessions -> StoredSession]
    BY <1>3, BeginsIs DEF StartCredential
  <2> DEFINE w == [for |-> "credential", session |-> s, file |-> Replaced(s, Head(requests).lineage),
                   landed |-> FALSE]
  <2>2. stored' = Replaced(s, Head(requests).lineage) /\ (writes' = writes \/ writes' = Append(writes, w))
    BY <1>3 DEF StartCredential
  <2>3. w \in Snapshot /\ w.file = stored' /\ ~w.landed
    BY <2>1, <2>2 DEF Snapshot
  <2> HIDE DEF w
  <2> QED
    BY <1>1, <2>1, <2>2, <2>3, FilesGrow
<1>4. ASSUME NEW s \in Sessions, Close(s) PROVE FilesInv'
  <2>1. Grown(stored, stored') /\ OneToken(stored') /\ UNCHANGED <<disk, writes>>
    BY <1>4, Leaving, LeavesIs DEF Close
  <2> QED
    BY <1>1, <2>1, FilesGrow
<1>5. CASE Sweep
  <2>1. Grown(stored, stored') /\ OneToken(stored') /\ UNCHANGED <<disk, writes>>
    BY <1>5, Leaving, LeavesIs DEF Sweep
  <2> QED
    BY <1>1, <2>1, FilesGrow
<1>6. ASSUME NEW s \in Sessions, CloseWrites(s) PROVE FilesInv'
  <2> DEFINE w == [for |-> "close", session |-> s, file |-> stored, landed |-> FALSE]
  <2>1. UNCHANGED <<stored, disk>> /\ (writes' = writes \/ writes' = Append(writes, w))
    BY <1>6 DEF CloseWrites
  <2>2. w \in Snapshot /\ w.file = stored /\ ~w.landed
    BY DEF Snapshot, SessionsInv, TypeOK
  <2> HIDE DEF w
  <2> QED
    BY <1>1, <2>1, <2>2, FilesGrow
<1>7. CASE WriteLands
  <2>1. /\ writes # <<>> /\ disk' = writes[1].file /\ stored' = stored
        /\ writes' = [writes EXCEPT ![1].landed = TRUE] /\ Len(writes) \in Nat \ {0}
    BY <1>7, Oldest DEF WriteLands, SessionsInv
  <2>2. /\ Len(writes') = Len(writes)
        /\ \A n \in 1..Len(writes) : /\ writes'[n].file = writes[n].file
                                     /\ n # 1 => writes'[n].landed = writes[n].landed
    <3> DEFINE w == [writes[1] EXCEPT !.landed = TRUE]
    <3>1. writes' = [writes EXCEPT ![1] = w]
      BY <2>1
    <3>2. w.file = writes[1].file
      BY <1>1, <2>1 DEF Snapshot
    <3> HIDE DEF w
    <3>3. 1 \in 1..Len(writes) /\ DOMAIN writes = 1..Len(writes)
      BY <1>1, <2>1
    <3>4. Len(writes') = Len(writes)
      BY <1>1, <3>1, <3>3
    <3>5. \A n \in 1..Len(writes) : writes'[n] = IF n = 1 THEN w ELSE writes[n]
      BY <3>1, <3>3
    <3> QED
      BY <3>2, <3>4, <3>5
  <2>3. 1 \in 1..Len(writes) /\ OneToken(writes[1].file) /\ Grown(writes[1].file, stored)
    BY <1>1, <2>1 DEF FilesInv
  <2>4. \A n \in 1..Len(writes) : Grown(writes[1].file, writes[n].file)
    <3>1. Grown(writes[1].file, writes[1].file)
      BY DEF Grown
    <3>2. \A n \in 1..Len(writes) : n = 1 \/ 1 < n
      OBVIOUS
    <3> QED
      BY <1>1, <2>3, <3>1, <3>2 DEF FilesInv
  <2> QED
    BY <1>1, <2>1, <2>2, <2>3, <2>4 DEF FilesInv
<1>8. CASE WriteAcknowledged
  <2>1. writes # <<>> /\ Head(writes).landed /\ writes' = Tail(writes) /\ UNCHANGED <<stored, disk>>
    BY <1>8 DEF WriteAcknowledged
  <2>2. writes[1].landed
    BY <2>1, Oldest DEF SessionsInv
  <2> QED
    BY <1>1, <2>1, <2>2, FilesShrink
<1>9. CASE WriteFails
  <2>1. writes' = <<>> /\ UNCHANGED <<stored, disk>>
    BY <1>9 DEF WriteFails
  <2> QED
    BY <1>1, <2>1 DEF FilesInv
<1>10. CASE DurableDeadline
  <2>1. PICK n \in DOMAIN writes : writes' = [writes EXCEPT ![n].for = "nobody"] /\ UNCHANGED <<stored, disk>>
    BY <1>10 DEF DurableDeadline
  <2>2. /\ Len(writes') = Len(writes)
        /\ \A m \in 1..Len(writes) : writes'[m].file = writes[m].file /\ writes'[m].landed = writes[m].landed
    BY <1>1, <2>1 DEF Snapshot
  <2> QED
    BY <1>1, <2>1, <2>2 DEF FilesInv
<1>11. CASE Restart
  <2>1. writes' = <<>> /\ stored' = disk /\ disk' = disk
    BY <1>11 DEF Restart
  <2>2. Grown(disk, disk)
    BY DEF Grown
  <2> QED
    BY <1>1, <2>1, <2>2 DEF FilesInv
<1>12. ASSUME NEW l \in Lineages, \/ RequestOpen(l) \/ RequestResume(l) \/ GraceExpires(l)
                                  \/ CleanupDeadline(l) \/ CleanupBegins(l)
                                  \/ \E i \in Instances : CleanupRemoves(l, i)
       PROVE  UNCHANGED <<stored, disk, writes>>
  BY <1>12 DEF RequestOpen, RequestResume, Request, GraceExpires, CleanupDeadline, CleanupFails, CleanupBegins,
               CleanupRemoves
<1>13. ASSUME NEW c \in Calls, \/ \E s \in Sessions : Ask(c, s)
                               \/ Arrives(c) \/ Connect(c) \/ Connected(c) \/ Settles(c)
       PROVE  UNCHANGED <<stored, disk, writes>>
  BY <1>13 DEF Ask, Arrives, Admit, Register, Refuse, Connect, Connected, Settles
<1>14. ASSUME RefuseCredential \/ \E s \in Sessions : Expires(s)
       PROVE  UNCHANGED <<stored, disk, writes>>
  BY <1>14 DEF RefuseCredential, Expires
<1> QED
  BY <1>2, <1>3, <1>4, <1>5, <1>6, <1>7, <1>8, <1>9, <1>10, <1>11, <1>12, <1>13, <1>14
     DEF Next, BeginCredential

-----------------------------------------------------------------------------
(* The types. *)

\* The types of the registry, of the files and of the snapshots under way.
RegistryType ==
  /\ stored \in [Sessions -> StoredSession]
  /\ current \subseteq Known(stored) /\ expired \subseteq current
  /\ persisted \subseteq Known(stored)

\* The types of the requests for a credential and of the credentials that wait.
CredentialType ==
  /\ requests \in Seq(Requests) /\ Len(requests) <= MaxWaiting
  /\ closing \in [Sessions -> {"no", "calls", "write"}]
  /\ writes \in Seq(Snapshot)
  /\ broken \in BOOLEAN /\ poisoned \in BOOLEAN
  /\ disk \in [Sessions -> StoredSession]

\* The types of the clients' operations.
CallType ==
  /\ call \in [Calls -> CallStates]
  /\ by \in [Calls -> Sessions \cup {NoSession}]
  /\ slot \in [Instances ->
       [state : {"free", "connecting", "active", "quarantined"}, call : Calls \cup {NoCall}]]

\* The types of the timers, of the cleanups under way and of what the world does.
GraceType ==
  /\ grace \in [Lineages -> Entry] /\ failures \subseteq Lineages /\ token \subseteq Lineages
  /\ faults \in 0..MaxFaults /\ crashes \in 0..MaxCrashes

\* The steps that leave the registry alone, and those that leave the credentials alone.
Timers ==
  \/ \E l \in Lineages : \/ GraceExpires(l) \/ CleanupDeadline(l) \/ CleanupBegins(l)
                         \/ \E i \in Instances : CleanupRemoves(l, i)
Operates ==
  \E c \in Calls : \/ \E s \in Sessions : Ask(c, s)
                   \/ Arrives(c)
                   \/ Connect(c) \/ Connected(c) \/ Settles(c)
Asks == RefuseCredential \/ \E l \in Lineages : RequestOpen(l) \/ RequestResume(l)

\* All the steps there are.
LEMMA Steps ==
  Next => \/ Timers \/ Operates \/ Asks \/ Sweep \/ WriteLands \/ WriteAcknowledged \/ WriteFails
          \/ DurableDeadline \/ Restart
          \/ \E s \in Sessions : StartCredential(s) \/ Close(s) \/ CloseWrites(s) \/ Expires(s)
  BY DEF Next, BeginCredential, Timers, Operates, Asks

\* Timers and cleanups leave sessions, credentials and operations alone.
LEMMA TimersKeep == Timers => UNCHANGED <<registryVars, credentialVars, call, by, token, faults, crashes>>
  BY DEF Timers, GraceExpires, CleanupDeadline, CleanupFails, CleanupBegins, CleanupRemoves

\* What a client does with its session leaves registry, credentials and timers alone.
LEMMA OperatesKeep == Operates => UNCHANGED <<registryVars, credentialVars, graceVars, worldVars>>
  BY DEF Operates, Ask, Arrives, Admit, Register, Refuse, Connect, Connected, Settles

\* Asking for a credential, and refusing one, leave the registry alone.
LEMMA AsksKeep ==
  Asks => UNCHANGED <<registryVars, closing, pending, writes, broken, disk, poisoned, callVars, graceVars, worldVars>>
  BY DEF Asks, RefuseCredential, RequestOpen, RequestResume, Request

\* A snapshot that is acknowledged to its client is of a session that is known.
LEMMA GrantedIs ==
  ASSUME SessionsInv, WriteAcknowledged
  PROVE  /\ writes # <<>> /\ Head(writes) = writes[1] /\ disk = writes[1].file
         /\ Granted(writes[1]) \subseteq Known(disk)
         /\ writes[1].for = "credential" =>
              /\ requests # <<>> /\ writes[1].session \in Known(disk) /\ Granted(writes[1]) = {writes[1].session}
              /\ disk[writes[1].session].lineage = requests[1].lineage
<1>1. writes # <<>> /\ Head(writes) = writes[1] /\ writes[1].landed /\ 1 \in 1..Len(writes)
  BY Oldest DEF WriteAcknowledged, SessionsInv
<1>2. disk = writes[1].file
  BY <1>1 DEF SessionsInv, FilesInv
<1>3. writes[1].for = "credential" =>
              /\ requests # <<>> /\ writes[1].session \in Known(disk)
              /\ disk[writes[1].session].lineage = requests[1].lineage
  BY <1>1, <1>2 DEF SessionsInv, WaitingInv
<1> QED
  BY <1>1, <1>2, <1>3 DEF Granted

\* Every step keeps the types of the registry, of the files and of the snapshots.
LEMMA RegistryTypes == ASSUME SessionsInv, Next PROVE RegistryType'
<1>1. RegistryType
  BY DEF SessionsInv, TypeOK, RegistryType
<1>2. ASSUME UNCHANGED registryVars PROVE RegistryType'
  BY <1>1, <1>2 DEF RegistryType
<1>3. ASSUME NEW s \in Sessions, StartCredential(s) PROVE RegistryType'
  <2>1. /\ stored' \in [Sessions -> StoredSession] /\ Known(stored') = Known(stored) \cup {s}
        /\ current' = current \cup {s} /\ UNCHANGED <<expired, persisted>>
    BY <1>3, BeginsIs DEF StartCredential
  <2> QED
    BY <1>1, <2>1 DEF RegistryType
<1>4. ASSUME NEW s \in Sessions, Close(s) PROVE RegistryType'
  <2>1. /\ stored' \in [Sessions -> StoredSession] /\ Known(stored') = Known(stored)
        /\ UNCHANGED <<current, expired, persisted>>
    BY <1>4, Leaving, LeavesIs DEF Close
  <2> QED
    BY <1>1, <2>1 DEF RegistryType
<1>5. CASE Sweep
  <2>1. /\ stored' \in [Sessions -> StoredSession] /\ Known(stored') = Known(stored)
        /\ UNCHANGED <<current, expired, persisted>>
    BY <1>5, Leaving, LeavesIs DEF Sweep
  <2> QED
    BY <1>1, <2>1 DEF RegistryType
<1>6. CASE WriteAcknowledged
  <2>1. persisted' = persisted \cup Granted(writes[1]) /\ UNCHANGED <<stored, current, expired>>
    BY <1>6, GrantedIs DEF WriteAcknowledged
  <2>2. Granted(writes[1]) \subseteq Known(stored)
    BY <1>6, GrantedIs DEF SessionsInv, FilesInv, Grown
  <2> QED
    BY <1>1, <2>1, <2>2 DEF RegistryType
<1>7. CASE Restart
  BY <1>7 DEF Restart, SessionsInv, TypeOK, RegistryType
<1>8. ASSUME NEW s \in Sessions, Expires(s) PROVE RegistryType'
  BY <1>1, <1>8 DEF Expires, Live, RegistryType
<1>9. ASSUME \/ \E s \in Sessions : CloseWrites(s)
             \/ WriteLands \/ WriteFails \/ DurableDeadline
      PROVE  UNCHANGED registryVars
  BY <1>9 DEF CloseWrites, WriteLands, WriteFails, DurableDeadline
<1> QED
  BY <1>2, <1>3, <1>4, <1>5, <1>6, <1>7, <1>8, <1>9, Steps, TimersKeep, OperatesKeep, AsksKeep

\* The queue of requests keeps its type and its bound.
LEMMA RequestsKept ==
  ASSUME CredentialType, requests # <<>>,
         \/ requests' = Tail(requests)
         \/ \E s \in Sessions : requests' = [requests EXCEPT ![1].session = s]
  PROVE  requests' \in Seq(Requests) /\ Len(requests') <= MaxWaiting
<1>1. requests \in Seq(Requests) /\ Len(requests) \in Nat \ {0} /\ Len(requests) <= MaxWaiting /\ MaxWaiting \in Nat
  BY SessionsAssumption DEF CredentialType
<1>2. CASE requests' = Tail(requests)
  BY <1>1, <1>2
<1>3. CASE \E s \in Sessions : requests' = [requests EXCEPT ![1].session = s]
  <2>1. PICK s \in Sessions : requests' = [requests EXCEPT ![1].session = s]
    BY <1>3
  <2> DEFINE r == [requests[1] EXCEPT !.session = s]
  <2>2. requests' = [requests EXCEPT ![1] = r]
    BY <2>1
  <2>3. r \in Requests
    <3>1. requests[1] \in Requests
      BY <1>1
    <3> QED
      BY <3>1 DEF Requests
  <2> HIDE DEF r
  <2> QED
    BY <1>1, <2>2, <2>3
<1> QED
  BY <1>2, <1>3

\* A waiting credential is answered with its request.
LEMMA AnsweredIs ==
  ASSUME SessionsInv, NEW n \in 1..Len(writes), writes[n].for = "credential"
  PROVE  requests # <<>>
  BY DEF SessionsInv, WaitingInv

\* Every step keeps the types of the requests and of the credentials.
LEMMA CredentialTypes == ASSUME SessionsInv, Next PROVE CredentialType'
<1>1. CredentialType
  BY DEF SessionsInv, TypeOK, CredentialType
<1>2. ASSUME UNCHANGED credentialVars PROVE CredentialType'
  BY <1>1, <1>2 DEF CredentialType
<1>3. ASSUME NEW s \in Sessions, StartCredential(s) PROVE CredentialType'
  <2> DEFINE w == [for |-> "credential", session |-> s, file |-> Replaced(s, Head(requests).lineage),
                   landed |-> FALSE]
  <2>1. /\ UNCHANGED <<closing, broken, disk>> /\ requests # <<>> /\ stored' \in [Sessions -> StoredSession]
        /\ stored' = Replaced(s, Head(requests).lineage)
        /\ (requests' = Tail(requests) \/ requests' = [requests EXCEPT ![1].session = s])
        /\ (writes' = writes \/ writes' = Append(writes, w))
        /\ (poisoned' = poisoned \/ poisoned' = TRUE)
    BY <1>3, BeginsIs DEF StartCredential
  <2>2. w \in Snapshot
    BY <2>1 DEF Snapshot
  <2> HIDE DEF w
  <2>3. writes' \in Seq(Snapshot)
    <3>1. writes \in Seq(Snapshot) /\ Append(writes, w) \in Seq(Snapshot)
      BY <1>1, <2>2 DEF CredentialType
    <3> QED
      BY <2>1, <3>1, Zenon
  <2>4. requests' \in Seq(Requests) /\ Len(requests') <= MaxWaiting
    BY <1>1, <2>1, RequestsKept
  <2>5. poisoned' \in BOOLEAN /\ broken' \in BOOLEAN
    BY <1>1, <2>1, Zenon DEF CredentialType
  <2> QED
    BY <1>1, <2>1, <2>3, <2>4, <2>5 DEF CredentialType
<1>4. ASSUME NEW s \in Sessions, Close(s) PROVE CredentialType'
  BY <1>1, <1>4 DEF Close, CredentialType
<1>5. ASSUME NEW s \in Sessions, CloseWrites(s) PROVE CredentialType'
  <2> DEFINE w == [for |-> "close", session |-> s, file |-> stored, landed |-> FALSE]
  <2>1. /\ UNCHANGED <<requests, broken, disk, poisoned>> /\ (writes' = writes \/ writes' = Append(writes, w))
        /\ \E p \in {"no", "write"} : closing' = [closing EXCEPT ![s] = p]
    BY <1>5 DEF CloseWrites
  <2>2. w \in Snapshot
    BY DEF Snapshot, SessionsInv, TypeOK
  <2> HIDE DEF w
  <2>3. writes' \in Seq(Snapshot)
    <3>1. writes \in Seq(Snapshot)
      BY <1>1 DEF CredentialType
    <3> QED
      BY <2>1, <2>2, <3>1, AppendProperties
  <2>4. closing' \in [Sessions -> {"no", "calls", "write"}]
    <3>1. closing \in [Sessions -> {"no", "calls", "write"}]
      BY <1>1 DEF CredentialType
    <3> QED
      BY <2>1, <3>1
  <2> QED
    BY <1>1, <2>1, <2>3, <2>4 DEF CredentialType
<1>6. CASE WriteLands
  <2>1. /\ writes # <<>> /\ disk' = writes[1].file /\ writes[1] \in Snapshot /\ Len(writes) \in Nat \ {0}
        /\ writes' = [writes EXCEPT ![1].landed = TRUE] /\ UNCHANGED <<requests, closing, broken, poisoned>>
    BY <1>6, Oldest DEF WriteLands, SessionsInv
  <2>2. writes' \in Seq(Snapshot)
    <3> DEFINE w == [writes[1] EXCEPT !.landed = TRUE]
    <3>1. writes' = [writes EXCEPT ![1] = w]
      BY <2>1
    <3>2. w \in Snapshot
      BY <2>1 DEF Snapshot
    <3> HIDE DEF w
    <3>3. 1 \in 1..Len(writes) /\ writes \in Seq(Snapshot)
      BY <1>1, <2>1 DEF CredentialType
    <3> QED
      BY <3>1, <3>2, <3>3
  <2>3. disk' \in [Sessions -> StoredSession]
    BY <2>1 DEF Snapshot
  <2> QED
    BY <1>1, <2>1, <2>2, <2>3 DEF CredentialType
<1>7. CASE WriteAcknowledged
  <2>1. /\ writes # <<>> /\ writes' = Tail(writes) /\ closing' = Closed(writes[1])
        /\ UNCHANGED <<broken, disk, poisoned>>
        /\ (requests' = requests \/ (requests # <<>> /\ requests' = Tail(requests)))
    BY <1>7, GrantedIs DEF WriteAcknowledged
  <2>2. writes' \in Seq(Snapshot)
    BY <1>1, <2>1 DEF CredentialType
  <2>3. closing' \in [Sessions -> {"no", "calls", "write"}]
    BY <1>1, <2>1 DEF Closed, CredentialType
  <2>4. requests' \in Seq(Requests) /\ Len(requests') <= MaxWaiting
    BY <1>1, <2>1, RequestsKept DEF CredentialType
  <2> QED
    BY <1>1, <2>1, <2>2, <2>3, <2>4 DEF CredentialType
<1>8. CASE WriteFails
  <2>1. /\ writes' = <<>> /\ broken' = TRUE /\ disk' = disk /\ closing' = [s \in Sessions |-> closing'[s]]
        /\ \A s \in Sessions : closing'[s] \in {"no", closing[s]}
        /\ (poisoned' = poisoned \/ poisoned' = TRUE)
    BY <1>8 DEF WriteFails
  <2>2. requests' = requests \/ (requests # <<>> /\ requests' = Tail(requests))
    <3>1. ASSUME \E w \in {writes[n] : n \in DOMAIN writes} : w.for = "credential" PROVE requests # <<>>
      <4>1. PICK n \in DOMAIN writes : writes[n].for = "credential"
        BY <3>1
      <4>2. n \in 1..Len(writes)
        BY <1>1, <4>1 DEF CredentialType
      <4> QED
        BY <4>1, <4>2, AnsweredIs
    <3> QED
      BY <1>8, <3>1 DEF WriteFails
  <2>3. closing' \in [Sessions -> {"no", "calls", "write"}]
    BY <1>1, <2>1 DEF CredentialType
  <2>4. requests' \in Seq(Requests) /\ Len(requests') <= MaxWaiting
    BY <1>1, <2>2, RequestsKept DEF CredentialType
  <2>5. poisoned' \in BOOLEAN /\ broken' \in BOOLEAN
    BY <1>1, <2>1, Zenon DEF CredentialType
  <2> QED
    BY <1>1, <2>1, <2>3, <2>4, <2>5 DEF CredentialType
<1>9. CASE DurableDeadline
  <2>1. PICK n \in DOMAIN writes :
          /\ poisoned' = TRUE /\ writes' = [writes EXCEPT ![n].for = "nobody"] /\ closing' = Closed(writes[n])
          /\ requests' = IF writes[n].for = "credential" THEN Tail(requests) ELSE requests
          /\ UNCHANGED <<broken, disk>>
    BY <1>9 DEF DurableDeadline
  <2>2. n \in 1..Len(writes) /\ writes[n] \in Snapshot
    BY <1>1 DEF CredentialType
  <2>3. writes' \in Seq(Snapshot)
    <3> DEFINE w == [writes[n] EXCEPT !.for = "nobody"]
    <3>1. writes' = [writes EXCEPT ![n] = w]
      BY <2>1
    <3>2. w \in Snapshot
      BY <2>2 DEF Snapshot
    <3> HIDE DEF w
    <3> QED
      BY <1>1, <2>2, <3>1, <3>2 DEF CredentialType
  <2>4. closing' \in [Sessions -> {"no", "calls", "write"}]
    BY <1>1, <2>1 DEF Closed, CredentialType
  <2>5. requests' \in Seq(Requests) /\ Len(requests') <= MaxWaiting
    BY <1>1, <2>1, <2>2, AnsweredIs, RequestsKept DEF CredentialType
  <2> QED
    BY <1>1, <2>1, <2>3, <2>4, <2>5 DEF CredentialType
<1>10. CASE Restart
  <2>1. /\ requests' = <<>> /\ writes' = <<>> /\ broken' = FALSE /\ poisoned' = FALSE /\ disk' = disk
        /\ closing' = [s \in Sessions |-> "no"]
    BY <1>10 DEF Restart
  <2>2. Len(requests') <= MaxWaiting
    BY <2>1, SessionsAssumption
  <2>3. closing' \in [Sessions -> {"no", "calls", "write"}] /\ writes' \in Seq(Snapshot) /\ requests' \in Seq(Requests)
    BY <2>1
  <2> QED
    BY <1>1, <2>1, <2>2, <2>3 DEF CredentialType
<1>11. CASE RefuseCredential
  <2>1. requests # <<>> /\ requests' = Tail(requests) /\ UNCHANGED <<closing, writes, broken, disk, poisoned>>
    BY <1>11 DEF RefuseCredential, Unstarted
  <2>2. requests' \in Seq(Requests) /\ Len(requests') <= MaxWaiting
    BY <1>1, <2>1, RequestsKept
  <2> QED
    BY <1>1, <2>1, <2>2 DEF CredentialType
<1>12. ASSUME NEW l \in Lineages, NEW k \in {"open", "resume"}, Request(k, l) PROVE CredentialType'
  <2> DEFINE r == [kind |-> k, lineage |-> l, session |-> NoSession]
  <2>1. Len(requests) < MaxWaiting /\ requests' = Append(requests, r) /\ UNCHANGED <<closing, writes, broken, disk, poisoned>>
    BY <1>12 DEF Request
  <2>2. r \in Requests
    BY DEF Requests
  <2> HIDE DEF r
  <2>3. requests' \in Seq(Requests) /\ Len(requests') <= MaxWaiting
    BY <1>1, <2>1, <2>2, SessionsAssumption DEF CredentialType
  <2> QED
    BY <1>1, <2>1, <2>3 DEF CredentialType
<1>13. ASSUME Sweep \/ \E s \in Sessions : Expires(s) PROVE UNCHANGED credentialVars
  BY <1>13 DEF Sweep, Expires
<1>14. ASSUME Asks PROVE RefuseCredential \/ \E l \in Lineages, k \in {"open", "resume"} : Request(k, l)
  BY <1>14 DEF Asks, RequestOpen, RequestResume
<1> QED
  BY <1>2, <1>3, <1>4, <1>5, <1>6, <1>7, <1>8, <1>9, <1>10, <1>11, <1>12, <1>13, <1>14,
     Steps, TimersKeep, OperatesKeep

\* Every step keeps the types of the operations.
LEMMA CallTypes == ASSUME SessionsInv, Next PROVE CallType'
<1>1. CallType
  BY DEF SessionsInv, TypeOK, CallType
<1>2. ASSUME UNCHANGED callVars PROVE CallType'
  BY <1>1, <1>2 DEF CallType
<1>3. ASSUME NEW c \in Calls, Arrives(c) \/ \E s \in Sessions : Ask(c, s) PROVE CallType'
  <2>1. slot' = slot /\ \E p \in CallStates : call' = [call EXCEPT ![c] = p]
    BY <1>3 DEF Ask, Arrives, Admit, Register, Refuse, CallStates
  <2>2. by' = by \/ \E s \in Sessions : by' = [by EXCEPT ![c] = s]
    BY <1>3 DEF Ask, Arrives, Admit, Register, Refuse
  <2> QED
    BY <1>1, <2>1, <2>2 DEF CallType
<1>4. ASSUME NEW c \in Calls, Connect(c) PROVE CallType'
  <2> DEFINE e == [state |-> "connecting", call |-> c]
  <2>1. /\ call' = [call EXCEPT ![c] = "connecting"] /\ by' = by /\ slot' = [slot EXCEPT ![Uses[c]] = e]
    BY <1>4 DEF Connect
  <2> QED
    BY <1>1, <2>1 DEF CallType, CallStates
<1>5. ASSUME NEW i, NEW st \in {"free", "connecting", "active", "quarantined"},
             slot' = [slot EXCEPT ![i].state = st]
      PROVE  slot' \in [Instances ->
               [state : {"free", "connecting", "active", "quarantined"}, call : Calls \cup {NoCall}]]
  BY <1>1, <1>5 DEF CallType
<1>6. ASSUME NEW c \in Calls, Connected(c) PROVE CallType'
  <2>1. call' = [call EXCEPT ![c] = "settled"] /\ by' = by
    BY <1>6 DEF Connected
  <2>2. PICK st \in {"active", slot[Uses[c]].state} : slot' = [slot EXCEPT ![Uses[c]].state = st]
    BY <1>6 DEF Connected
  <2>3. call' \in [Calls -> CallStates]
    BY <1>1, <2>1 DEF CallType, CallStates
  <2>4. slot' \in [Instances ->
          [state : {"free", "connecting", "active", "quarantined"}, call : Calls \cup {NoCall}]]
    <3> DEFINE Slots == [state : {"free", "connecting", "active", "quarantined"}, call : Calls \cup {NoCall}]
               new == [slot[Uses[c]] EXCEPT !.state = st]
    <3>1. slot \in [Instances -> Slots]
      BY <1>1 DEF CallType
    <3>2. slot' = [slot EXCEPT ![Uses[c]] = new]
      BY <2>2
    <3>3. Uses[c] \in Instances => new \in Slots
      BY <3>1
    <3> HIDE DEF new, Slots
    <3>4. slot' \in [Instances -> Slots]
      BY <3>1, <3>2, <3>3
    <3> QED
      BY <3>4 DEF Slots
  <2> QED
    BY <1>1, <2>1, <2>3, <2>4 DEF CallType
<1>7. ASSUME NEW c \in Calls, Settles(c) PROVE CallType'
  <2>1. call' = [call EXCEPT ![c] = "settled"] /\ by' = by
    BY <1>7 DEF Settles
  <2>2. slot' = slot \/ \E left \in {"free", "quarantined"} : slot' = [slot EXCEPT ![Uses[c]].state = left]
    BY <1>7 DEF Settles
  <2> QED
    BY <1>1, <1>5, <2>1, <2>2 DEF CallType, CallStates
<1>8. CASE Timers
  <2>1. UNCHANGED <<call, by>> /\ (slot' = slot \/ \E i \in Instances, st \in {"free", "quarantined"} :
                                                   slot' = [slot EXCEPT ![i].state = st])
    BY <1>8 DEF Timers, GraceExpires, CleanupDeadline, CleanupFails, CleanupBegins, CleanupRemoves
  <2> QED
    BY <1>1, <1>5, <2>1 DEF CallType
<1>9. CASE Restart
  <2>1. /\ call' = [c \in Calls |-> IF c \in Running THEN "lost" ELSE call[c]] /\ by' = by
        /\ slot' = [i \in Instances |-> Free]
    BY <1>9 DEF Restart
  <2> QED
    BY <1>1, <2>1 DEF CallType, Free, CallStates
<1>10. ASSUME \/ Sweep \/ WriteLands \/ WriteAcknowledged \/ WriteFails \/ DurableDeadline
              \/ \E s \in Sessions : StartCredential(s) \/ Close(s) \/ CloseWrites(s) \/ Expires(s)
       PROVE  UNCHANGED callVars
  BY <1>10 DEF Sweep, WriteLands, WriteAcknowledged, WriteFails, DurableDeadline, StartCredential, Close,
               CloseWrites, Expires
<1>11. Operates => \E c \in Calls : \/ (\E s \in Sessions : Ask(c, s)) \/ Arrives(c)
                                    \/ Connect(c) \/ Connected(c) \/ Settles(c)
  BY DEF Operates
<1> QED
  BY <1>2, <1>3, <1>4, <1>6, <1>7, <1>8, <1>9, <1>10, <1>11, Steps, AsksKeep

\* What the steps do to the grace of a lineage.
LEMMA GraceMoves ==
  ASSUME grace \in [Lineages -> Entry], failures \subseteq Lineages, Timers
  PROVE  /\ grace' \in [Lineages -> Entry] /\ failures' \subseteq Lineages
         /\ \A k \in Lineages : grace'[k].phase = "timer" => grace[k].phase = "timer"
<1>1. ASSUME NEW l \in Lineages, NEW e \in Entry, grace' = [grace EXCEPT ![l] = e], e.phase # "timer",
             failures' \subseteq failures \cup {l}
      PROVE  /\ grace' \in [Lineages -> Entry] /\ failures' \subseteq Lineages
             /\ \A k \in Lineages : grace'[k].phase = "timer" => grace[k].phase = "timer"
  BY <1>1
<1>2. NoEntry \in Entry /\ NoEntry.phase = "none"
  BY DEF NoEntry, Entry
<1>3. ASSUME NEW l \in Lineages, GraceExpires(l)
      PROVE  \E e \in Entry : grace' = [grace EXCEPT ![l] = e] /\ e.phase # "timer" /\ failures' = failures
  <2> DEFINE e == [grace[l] EXCEPT !.phase = "calls", !.calls = CallsOfLineage(l)]
  <2>1. CallsOfLineage(l) \in SUBSET Calls
    BY DEF CallsOfLineage, Running
  <2>2. grace' = [grace EXCEPT ![l] = e] /\ failures' = failures
    BY <1>3 DEF GraceExpires
  <2>3. e \in Entry /\ e.phase # "timer"
    BY <2>1 DEF Entry
  <2> HIDE DEF e
  <2> QED
    BY <2>2, <2>3
<1>4. ASSUME NEW l \in Lineages, NEW rest \in SUBSET Instances, CleanupLeaves(l, rest)
      PROVE  \E e \in Entry : /\ grace' = [grace EXCEPT ![l] = e] /\ e.phase # "timer"
                              /\ failures' \subseteq failures
  <2> DEFINE e == [phase |-> "slots", calls |-> {}, slots |-> rest]
  <2>1. e \in Entry /\ e.phase # "timer"
    BY DEF Entry
  <2>2. \/ grace' = [grace EXCEPT ![l] = e] /\ failures' = failures
        \/ grace' = [grace EXCEPT ![l] = NoEntry] /\ failures' = failures \ {l}
    BY <1>4 DEF CleanupLeaves
  <2> HIDE DEF e
  <2> QED
    BY <1>2, <2>1, <2>2
<1>5. ASSUME NEW l \in Lineages, CleanupDeadline(l)
      PROVE  grace' = [grace EXCEPT ![l] = NoEntry] /\ failures' = failures \cup {l}
  BY <1>5 DEF CleanupDeadline, CleanupFails
<1>6. ASSUME NEW l \in Lineages, CleanupBegins(l)
      PROVE  \E rest \in SUBSET Instances : CleanupLeaves(l, rest)
  <2>1. SlotsOfLineage(l) \in SUBSET Instances
    BY DEF SlotsOfLineage
  <2> QED
    BY <1>6, <2>1 DEF CleanupBegins
<1>7. ASSUME NEW l \in Lineages, NEW i \in Instances, CleanupRemoves(l, i)
      PROVE  \E rest \in SUBSET Instances : CleanupLeaves(l, rest)
  <2>1. grace[l].slots \ {i} \in SUBSET Instances
    BY DEF Entry
  <2> QED
    BY <1>7, <2>1 DEF CleanupRemoves
<1>8. \E l \in Lineages : \E e \in Entry :
        grace' = [grace EXCEPT ![l] = e] /\ e.phase # "timer" /\ failures' \subseteq failures \cup {l}
  <2>1. ASSUME NEW l \in Lineages, GraceExpires(l) \/ CleanupDeadline(l) \/ CleanupBegins(l)
                                   \/ \E i \in Instances : CleanupRemoves(l, i)
        PROVE \E e \in Entry :
                grace' = [grace EXCEPT ![l] = e] /\ e.phase # "timer" /\ failures' \subseteq failures \cup {l}
    <3>1. CASE GraceExpires(l)
      BY <1>3, <3>1
    <3>2. CASE CleanupDeadline(l)
      BY <1>2, <1>5, <3>2
    <3>3. CASE CleanupBegins(l) \/ \E i \in Instances : CleanupRemoves(l, i)
      <4>1. PICK rest \in SUBSET Instances : CleanupLeaves(l, rest)
        BY <1>6, <1>7, <3>3
      <4>2. PICK e \in Entry : grace' = [grace EXCEPT ![l] = e] /\ e.phase # "timer" /\ failures' \subseteq failures
        BY <1>4, <4>1
      <4> QED
        BY <4>2
    <3> QED
      BY <2>1, <3>1, <3>2, <3>3
  <2> QED
    BY <2>1 DEF Timers
<1> QED
  BY <1>1, <1>8

\* Who leaves gets a timer.
LEMMA DepartedIs ==
  ASSUME grace \in [Lineages -> Entry], NEW ls
  PROVE  /\ Departed(ls) \in [Lineages -> Entry]
         /\ \A k \in Lineages : Departed(ls)[k].phase = "timer" => grace[k].phase = "timer" \/ k \in ls
<1> DEFINE e == [NoEntry EXCEPT !.phase = "timer"]
<1>1. e \in Entry
  BY DEF NoEntry, Entry
<1>2. Departed(ls) = [l \in Lineages |-> IF l \in ls /\ grace[l].phase = "none" THEN e ELSE grace[l]]
  BY DEF Departed
<1> HIDE DEF e
<1> QED
  BY <1>1, <1>2

\* Who is back has none.
LEMMA ArrivedIs ==
  ASSUME grace \in [Lineages -> Entry], NEW l \in Lineages
  PROVE  /\ Arrived(l) \in [Lineages -> Entry]
         /\ \A k \in Lineages : Arrived(l)[k].phase = "timer" => grace[k].phase = "timer" /\ k # l
<1>1. NoEntry \in Entry /\ NoEntry.phase = "none"
  BY DEF NoEntry, Entry
<1>2. Arrived(l) = IF grace[l].phase = "timer" THEN [grace EXCEPT ![l] = NoEntry] ELSE grace
  BY DEF Arrived
<1> QED
  BY <1>1, <1>2

\* Every step keeps the types of the timers and of the cleanups.
LEMMA GraceTypes == ASSUME SessionsInv, Next PROVE GraceType'
<1>1. GraceType
  BY DEF SessionsInv, TypeOK, GraceType
<1>2. ASSUME UNCHANGED <<graceVars, worldVars>> PROVE GraceType'
  BY <1>1, <1>2 DEF GraceType
<1>3. CASE Timers
  BY <1>1, <1>3, GraceMoves, TimersKeep DEF GraceType
<1>4. ASSUME \/ \E s \in Sessions : Close(s)
             \/ Sweep
      PROVE  GraceType'
  <2>1. (\E ls : grace' = Departed(ls)) /\ UNCHANGED <<failures, worldVars>>
    BY <1>4 DEF Close, Sweep, Disconnect
  <2> QED
    BY <1>1, <2>1, DepartedIs DEF GraceType
<1>5. CASE WriteAcknowledged
  <2>1. UNCHANGED <<failures, faults, crashes>>
    BY <1>5 DEF WriteAcknowledged
  <2>2. \/ UNCHANGED <<token, grace>>
        \/ \E l \in Lineages : token' = token \cup {l} /\ grace' = Arrived(l)
    <3>1. /\ writes # <<>> /\ Head(writes) = writes[1] /\ disk = writes[1].file
          /\ writes[1].for = "credential" =>
               requests # <<>> /\ disk[writes[1].session].lineage = requests[1].lineage
      BY <1>5, GrantedIs
    <3>2. requests # <<>> => requests[1].lineage \in Lineages
      BY Oldest DEF SessionsInv
    <3> QED
      BY <1>5, <3>1, <3>2 DEF WriteAcknowledged
  <2> QED
    BY <1>1, <2>1, <2>2, ArrivedIs DEF GraceType
<1>6. CASE WriteFails
  <2>1. faults < MaxFaults /\ faults' = faults + 1 /\ UNCHANGED <<grace, failures, token, crashes>>
    BY <1>6 DEF WriteFails
  <2> QED
    BY <1>1, <2>1, SessionsAssumption DEF GraceType
<1>7. CASE Restart
  <2>1. /\ crashes < MaxCrashes /\ crashes' = crashes + 1 /\ UNCHANGED <<token, faults>>
        /\ grace' = [l \in Lineages |-> NoEntry] /\ failures' = {}
    BY <1>7 DEF Restart
  <2>2. NoEntry \in Entry
    BY DEF NoEntry, Entry
  <2> QED
    BY <1>1, <2>1, <2>2, SessionsAssumption DEF GraceType
<1>8. ASSUME \/ WriteLands \/ DurableDeadline
             \/ \E s \in Sessions : StartCredential(s) \/ CloseWrites(s) \/ Expires(s)
      PROVE  UNCHANGED <<graceVars, worldVars>>
  BY <1>8 DEF WriteLands, DurableDeadline, StartCredential, CloseWrites, Expires
<1> QED
  BY <1>2, <1>3, <1>4, <1>5, <1>6, <1>7, <1>8, Steps, OperatesKeep, AsksKeep

\* A close waits for operations.
LEMMA PendingType == ASSUME SessionsInv, Next PROVE pending' \in [Sessions -> SUBSET Calls]
<1>1. pending \in [Sessions -> SUBSET Calls]
  BY DEF SessionsInv, TypeOK
<1>2. ASSUME NEW s \in Sessions, Close(s) \/ CloseWrites(s) PROVE pending' \in [Sessions -> SUBSET Calls]
  <2>1. \E cs \in SUBSET Calls : pending' = [pending EXCEPT ![s] = cs]
    BY <1>2 DEF Close, CloseWrites, Running
  <2> QED
    BY <1>1, <2>1
<1>3. CASE Restart
  BY <1>3 DEF Restart
<1>4. ASSUME \/ Sweep \/ WriteLands \/ WriteAcknowledged \/ WriteFails \/ DurableDeadline
             \/ \E s \in Sessions : StartCredential(s) \/ Expires(s)
      PROVE  UNCHANGED pending
  BY <1>4 DEF Sweep, WriteLands, WriteAcknowledged, WriteFails, DurableDeadline, StartCredential, Expires
<1> QED
  BY <1>1, <1>2, <1>3, <1>4, Steps, TimersKeep, OperatesKeep, AsksKeep

\* Every step keeps every type.
LEMMA TypesStep == ASSUME SessionsInv, Next PROVE TypeOK'
<1>1. /\ RegistryType' /\ CredentialType' /\ pending' \in [Sessions -> SUBSET Calls]
      /\ CallType' /\ GraceType'
  BY RegistryTypes, CredentialTypes, PendingType, CallTypes, GraceTypes
<1> QED
  BY <1>1 DEF RegistryType, CredentialType, CallType, GraceType, TypeOK

-----------------------------------------------------------------------------
(* Credentials. *)

\* While the oldest request has not begun, no credential waits for its write.
LEMMA NoneWaits ==
  ASSUME SessionsInv, Unstarted
  PROVE  \A n \in 1..Len(writes) : writes[n].for # "credential"
<1>1. requests[1].session = NoSession
  BY Oldest DEF SessionsInv, Unstarted
<1>2. \A n \in 1..Len(writes) : writes[n].session \in Sessions
  <2>1. \A n \in 1..Len(writes) : writes[n] \in Snapshot
    BY DEF SessionsInv, TypeOK
  <2> QED
    BY <2>1 DEF Snapshot
<1> QED
  BY <1>1, <1>2, SessionsAssumption DEF SessionsInv, WaitingInv

\* The request at the head stays there as long as others come behind it.
LEMMA HeadStays ==
  ASSUME requests \in Seq(Requests), requests # <<>>, NEW r \in Requests, requests' = Append(requests, r)
  PROVE  requests' # <<>> /\ requests'[1] = requests[1]
<1>1. 1 \in 1..Len(requests) /\ Len(requests) \in Nat
  OBVIOUS
<1> QED
  BY <1>1

\* What a new request leaves in the queue.
LEMMA AskedIs ==
  ASSUME SessionsInv, NEW l \in Lineages, NEW k \in {"open", "resume"}, Request(k, l)
  PROVE  LET r == [kind |-> k, lineage |-> l, session |-> NoSession] IN
         /\ r \in Requests /\ requests' = Append(requests, r)
         /\ Len(requests') = Len(requests) + 1 /\ Len(requests) \in Nat
         /\ requests'[Len(requests) + 1] = r
         /\ \A n \in 1..Len(requests) : requests'[n] = requests[n]
         /\ UNCHANGED <<registryVars, writes, token>>
<1> DEFINE r == [kind |-> k, lineage |-> l, session |-> NoSession]
<1>1. r \in Requests
  BY DEF Requests
<1>2. requests' = Append(requests, r) /\ UNCHANGED <<registryVars, writes, token>>
  BY DEF Request
<1> HIDE DEF r
<1>3. requests \in Seq(Requests)
  BY DEF SessionsInv, TypeOK
<1>4. /\ Len(requests') = Len(requests) + 1 /\ Len(requests) \in Nat
      /\ requests'[Len(requests) + 1] = r
      /\ \A n \in 1..Len(requests) : requests'[n] = requests[n]
  BY <1>1, <1>2, <1>3
<1> QED
  BY <1>1, <1>2, <1>4 DEF r

\* What an answer leaves in the queue.
LEMMA TailIs ==
  ASSUME NEW S, NEW q \in Seq(S), q # <<>>
  PROVE  /\ Len(Tail(q)) = Len(q) - 1 /\ Len(q) \in Nat \ {0}
         /\ \A n \in 1..Len(Tail(q)) : Tail(q)[n] = q[n + 1] /\ n + 1 \in 1..Len(q) /\ n + 1 # 1
  OBVIOUS

\* At most one credential waits, and its request is the oldest.
LEMMA WaitingStep == ASSUME SessionsInv, Next PROVE WaitingInv'
<1>1. WaitingInv /\ writes \in Seq(Snapshot) /\ requests \in Seq(Requests) /\ Len(writes) \in Nat
  BY DEF SessionsInv, TypeOK
<1>2. ASSUME UNCHANGED <<writes, requests>> PROVE WaitingInv'
  BY <1>1, <1>2 DEF WaitingInv
<1>3. ASSUME writes' = writes, \A n \in 1..Len(writes) : writes[n].for # "credential" PROVE WaitingInv'
  BY <1>3 DEF WaitingInv
<1>4. CASE Asks
  <2>1. CASE RefuseCredential
    BY <1>3, <2>1, NoneWaits DEF RefuseCredential
  <2>2. ASSUME NEW l \in Lineages, NEW k \in {"open", "resume"}, Request(k, l) PROVE WaitingInv'
    <3>1. CASE requests = <<>>
      BY <1>1, <1>3, <2>2, <3>1, AskedIs DEF WaitingInv
    <3>2. CASE requests # <<>>
      <4>1. writes' = writes /\ requests' # <<>> /\ requests'[1] = requests[1]
        BY <1>1, <2>2, <3>2, AskedIs, HeadStays
      <4> QED
        BY <1>1, <4>1 DEF WaitingInv
    <3> QED
      BY <3>1, <3>2
  <2> QED
    BY <1>4, <2>1, <2>2 DEF Asks, RequestOpen, RequestResume
<1>5. ASSUME NEW s \in Sessions, StartCredential(s) PROVE WaitingInv'
  <2> DEFINE l == requests[1].lineage
             w == [for |-> "credential", session |-> s, file |-> stored', landed |-> FALSE]
  <2>1. /\ requests # <<>> /\ Head(requests) = requests[1] /\ requests[1] \in Requests /\ Len(requests) \in Nat \ {0}
        /\ s \in Known(stored') /\ stored'[s] = Created(s, l) /\ stored' = Replaced(s, l)
        /\ stored' \in [Sessions -> StoredSession]
    BY <1>5, BeginsIs, Oldest DEF SessionsInv
  <2>2. \A n \in 1..Len(writes) : writes[n].for # "credential"
    BY <1>5, NoneWaits DEF StartCredential
  <2>3. CASE writes' = writes
    BY <1>3, <2>2, <2>3
  <2>4. CASE requests' = [requests EXCEPT ![1].session = s] /\ writes' = Append(writes, w)
    <3>1. w \in Snapshot /\ w.session = s /\ w.file = stored'
      BY <2>1 DEF Snapshot
    <3> HIDE DEF w
    <3>2. /\ Len(writes') = Len(writes) + 1 /\ writes'[Len(writes) + 1] = w
          /\ \A n \in 1..Len(writes) : writes'[n] = writes[n]
      BY <1>1, <2>4, <3>1
    <3>3. requests' # <<>> /\ requests'[1].session = s /\ requests'[1].lineage = l
      <4> DEFINE r == [requests[1] EXCEPT !.session = s]
      <4>1. r.session = s /\ r.lineage = l
        BY <2>1 DEF Requests
      <4>2. requests' = [requests EXCEPT ![1] = r] /\ 1 \in DOMAIN requests
        BY <1>1, <2>1, <2>4
      <4> HIDE DEF r
      <4>3. requests'[1] = r /\ DOMAIN requests' = DOMAIN requests
        BY <4>2
      <4>4. requests' # <<>>
        BY <4>2, <4>3
      <4> QED
        BY <4>1, <4>3, <4>4
    <3>4. stored'[s].lineage = l
      BY <2>1 DEF Created
    <3>5. \A n \in 1..Len(writes') : writes'[n].for = "credential" => n = Len(writes) + 1
      BY <1>1, <2>2, <3>2
    <3> QED
      BY <2>1, <3>1, <3>2, <3>3, <3>4, <3>5 DEF WaitingInv
  <2> QED
    BY <1>5, <2>1, <2>3, <2>4 DEF StartCredential
<1>6. ASSUME NEW s \in Sessions, CloseWrites(s) PROVE WaitingInv'
  <2> DEFINE w == [for |-> "close", session |-> s, file |-> stored, landed |-> FALSE]
  <2>1. requests' = requests /\ (writes' = writes \/ writes' = Append(writes, w))
    BY <1>6 DEF CloseWrites
  <2>2. w \in Snapshot /\ w.for # "credential"
    BY DEF Snapshot, SessionsInv, TypeOK
  <2> HIDE DEF w
  <2>3. CASE writes' = Append(writes, w)
    <3>1. /\ Len(writes') = Len(writes) + 1 /\ writes'[Len(writes) + 1] = w
          /\ \A n \in 1..Len(writes) : writes'[n] = writes[n]
      BY <1>1, <2>2, <2>3
    <3>2. \A n \in 1..Len(writes') : writes'[n].for = "credential" => n \in 1..Len(writes)
      BY <1>1, <2>2, <3>1
    <3> SUFFICES ASSUME NEW n \in 1..Len(writes'), writes'[n].for = "credential"
                 PROVE  /\ writes'[n].session \in Known(writes'[n].file)
                        /\ requests # <<>> /\ requests[1].session = writes'[n].session
                        /\ writes'[n].file[writes'[n].session].lineage = requests[1].lineage
                        /\ \A m \in 1..Len(writes') : writes'[m].for = "credential" => m = n
      BY <2>1 DEF WaitingInv
    <3>3. n \in 1..Len(writes) /\ writes'[n] = writes[n]
      BY <3>1, <3>2
    <3>4. /\ writes[n].session \in Known(writes[n].file)
          /\ requests # <<>> /\ requests[1].session = writes[n].session
          /\ writes[n].file[writes[n].session].lineage = requests[1].lineage
          /\ \A m \in 1..Len(writes) : writes[m].for = "credential" => m = n
      BY <1>1, <3>3 DEF WaitingInv
    <3>5. \A m \in 1..Len(writes') : writes'[m].for = "credential" => m = n
      BY <3>1, <3>2, <3>4
    <3> QED
      BY <3>3, <3>4, <3>5
  <2> QED
    BY <1>2, <2>1, <2>3
<1>7. CASE WriteLands
  <2>1. /\ writes # <<>> /\ Len(writes) \in Nat \ {0} /\ writes[1] \in Snapshot
        /\ writes' = [writes EXCEPT ![1].landed = TRUE] /\ requests' = requests
    BY <1>7, Oldest DEF WriteLands, SessionsInv
  <2> DEFINE w == [writes[1] EXCEPT !.landed = TRUE]
  <2>2. w.for = writes[1].for /\ w.session = writes[1].session /\ w.file = writes[1].file
    BY <2>1 DEF Snapshot
  <2>3. writes' = [writes EXCEPT ![1] = w]
    BY <2>1
  <2> HIDE DEF w
  <2>4. Len(writes') = Len(writes) /\ \A n \in 1..Len(writes) : writes'[n] = IF n = 1 THEN w ELSE writes[n]
    <3>1. DOMAIN writes = 1..Len(writes)
      BY <1>1
    <3>2. Len(writes') = Len(writes)
      BY <1>1, <2>3
    <3> QED
      BY <2>3, <3>1, <3>2
  <2> QED
    BY <1>1, <2>1, <2>2, <2>4 DEF WaitingInv
<1>8. CASE WriteAcknowledged
  <2>1. /\ writes # <<>> /\ Head(writes) = writes[1] /\ writes' = Tail(writes)
        /\ IF writes[1].for = "credential" THEN requests' = Tail(requests) ELSE requests' = requests
    BY <1>8, GrantedIs DEF WriteAcknowledged
  <2>2. /\ Len(writes') = Len(writes) - 1
        /\ \A n \in 1..Len(writes') : writes'[n] = writes[n + 1] /\ n + 1 \in 1..Len(writes) /\ n + 1 # 1
    BY <1>1, <2>1, TailIs
  <2>3. 1 \in 1..Len(writes)
    BY <1>1, <2>1
  <2>4. CASE writes[1].for = "credential"
    BY <1>1, <2>2, <2>3, <2>4 DEF WaitingInv
  <2>5. CASE writes[1].for # "credential"
    <3>1. requests' = requests
      BY <2>1, <2>5
    <3>2. ASSUME NEW n \in 1..Len(writes'), writes'[n].for = "credential"
          PROVE  /\ writes'[n].session \in Known(writes'[n].file)
                 /\ requests' # <<>> /\ requests'[1].session = writes'[n].session
                 /\ writes'[n].file[writes'[n].session].lineage = requests'[1].lineage
                 /\ \A m \in 1..Len(writes') : writes'[m].for = "credential" => m = n
      <4>1. n + 1 \in 1..Len(writes) /\ writes'[n] = writes[n + 1] /\ writes[n + 1].for = "credential"
        BY <2>2, <3>2
      <4>2. ASSUME NEW m \in 1..Len(writes'), writes'[m].for = "credential" PROVE m = n
        <5>1. m + 1 \in 1..Len(writes) /\ writes[m + 1].for = "credential"
          BY <2>2, <4>2
        <5>2. m + 1 = n + 1
          BY <1>1, <4>1, <5>1 DEF WaitingInv
        <5> QED
          BY <5>2
      <4> QED
        BY <1>1, <3>1, <4>1, <4>2 DEF WaitingInv
    <3> QED
      BY <3>2 DEF WaitingInv
  <2> QED
    BY <2>4, <2>5
<1>9. ASSUME WriteFails \/ Restart PROVE WaitingInv'
  <2>1. writes' = <<>>
    BY <1>9 DEF WriteFails, Restart
  <2> QED
    BY <2>1 DEF WaitingInv
<1>10. CASE DurableDeadline
  <2>1. PICK n \in DOMAIN writes :
          /\ writes' = [writes EXCEPT ![n].for = "nobody"]
          /\ requests' = IF writes[n].for = "credential" THEN Tail(requests) ELSE requests
    BY <1>10 DEF DurableDeadline
  <2> DEFINE w == [writes[n] EXCEPT !.for = "nobody"]
  <2>2. n \in 1..Len(writes) /\ w.for = "nobody"
    BY <1>1 DEF Snapshot
  <2>3. writes' = [writes EXCEPT ![n] = w]
    BY <2>1
  <2> HIDE DEF w
  <2>4. Len(writes') = Len(writes) /\ \A m \in 1..Len(writes) : writes'[m] = IF m = n THEN w ELSE writes[m]
    BY <1>1, <2>2, <2>3
  <2>5. CASE writes[n].for = "credential"
    BY <1>1, <2>2, <2>4, <2>5 DEF WaitingInv
  <2>6. CASE writes[n].for # "credential"
    BY <1>1, <2>1, <2>2, <2>4, <2>6 DEF WaitingInv
  <2> QED
    BY <2>5, <2>6
<1>11. ASSUME Sweep \/ \E s \in Sessions : Close(s) \/ Expires(s) PROVE UNCHANGED <<writes, requests>>
  BY <1>11 DEF Sweep, Close, Expires
<1> QED
  BY <1>2, <1>4, <1>5, <1>6, <1>7, <1>8, <1>9, <1>10, <1>11, Steps, TimersKeep, OperatesKeep

\* The known lineages come from those known before, and from the request that is answered.
LEMMA OpenTail ==
  ASSUME OpenInv, requests \in Seq(Requests), requests # <<>>, requests' = Tail(requests),
         \A l \in token' : l \in token \/ l = requests[1].lineage,
         \A t \in Known(stored') : \/ stored'[t].lineage = requests[1].lineage
                                   \/ \E u \in Known(stored) : stored[u].lineage = stored'[t].lineage
  PROVE  OpenInv'
<1>1. /\ Len(requests') = Len(requests) - 1 /\ Len(requests) \in Nat \ {0}
      /\ \A n \in 1..Len(requests') : requests'[n] = requests[n + 1] /\ n + 1 \in 1..Len(requests) /\ n + 1 # 1
  BY TailIs
<1>2. ASSUME NEW n \in 1..Len(requests'), requests'[n].kind = "open"
      PROVE  /\ requests'[n].lineage \notin token'
             /\ \A m \in 1..Len(requests') : m # n => requests'[m].lineage # requests'[n].lineage
             /\ requests'[n].session = NoSession =>
                  \A s \in Known(stored') : stored'[s].lineage # requests'[n].lineage
  <2>1. /\ n + 1 \in 1..Len(requests) /\ 1 \in 1..Len(requests) /\ n + 1 # 1 /\ requests'[n] = requests[n + 1]
        /\ \A m \in 1..Len(requests') : m # n => m + 1 # n + 1
    BY <1>1
  <2>2. requests[n + 1].lineage # requests[1].lineage
    BY <1>2, <2>1 DEF OpenInv
  <2> QED
    BY <1>1, <1>2, <2>1, <2>2 DEF OpenInv
<1> QED
  BY <1>2 DEF OpenInv

\* The known lineages are those known before.
LEMMA OpenStays ==
  ASSUME OpenInv, requests' = requests, token' = token,
         \A t \in Known(stored') : \E u \in Known(stored) : stored[u].lineage = stored'[t].lineage
  PROVE  OpenInv'
  BY DEF OpenInv

\* A lineage that is being opened stays new until then.
LEMMA OpenStep == ASSUME SessionsInv, Next PROVE OpenInv'
<1>1. OpenInv /\ requests \in Seq(Requests) /\ Len(requests) \in Nat
  BY DEF SessionsInv, TypeOK
<1>2. ASSUME UNCHANGED <<requests, token, stored>> PROVE OpenInv'
  BY <1>1, <1>2 DEF OpenInv
<1>3. ASSUME requests # <<>>, requests' = Tail(requests), token' = token, stored' = stored PROVE OpenInv'
  BY <1>1, <1>3, OpenTail
<1>4. CASE RefuseCredential
  BY <1>3, <1>4 DEF RefuseCredential, Unstarted
<1>5. ASSUME NEW l \in Lineages, RequestOpen(l) PROVE OpenInv'
  <2> DEFINE r == [kind |-> "open", lineage |-> l, session |-> NoSession]
  <2>1. /\ Len(requests') = Len(requests) + 1 /\ requests'[Len(requests) + 1] = r
        /\ \A n \in 1..Len(requests) : requests'[n] = requests[n]
        /\ UNCHANGED <<stored, token>>
    BY <1>5, AskedIs DEF RequestOpen
  <2>2. /\ \A s \in Known(stored) : stored[s].lineage # l
        /\ \A n \in 1..Len(requests) : requests[n].lineage # l
    BY <1>1, <1>5 DEF RequestOpen
  <2>3. l \notin token
    BY <2>2 DEF SessionsInv, OwnerInv, FilesInv, Grown
  <2>4. r.lineage = l
    OBVIOUS
  <2> HIDE DEF r
  <2>5. ASSUME NEW n \in 1..Len(requests'), requests'[n].kind = "open"
        PROVE  /\ requests'[n].lineage \notin token'
               /\ \A m \in 1..Len(requests') : m # n => requests'[m].lineage # requests'[n].lineage
               /\ requests'[n].session = NoSession =>
                    \A s \in Known(stored') : stored'[s].lineage # requests'[n].lineage
    <3>1. \A m \in 1..Len(requests') : m \in 1..Len(requests) \/ m = Len(requests) + 1
      BY <1>1, <2>1
    <3>2. CASE n \in 1..Len(requests)
      BY <1>1, <2>1, <2>2, <2>4, <2>5, <3>1, <3>2 DEF OpenInv
    <3>3. CASE n = Len(requests) + 1
      BY <2>1, <2>2, <2>3, <2>4, <3>1, <3>3
    <3> QED
      BY <3>1, <3>2, <3>3
  <2> QED
    BY <2>5 DEF OpenInv
<1>6. ASSUME NEW l \in Lineages, RequestResume(l) PROVE OpenInv'
  <2> DEFINE r == [kind |-> "resume", lineage |-> l, session |-> NoSession]
  <2>1. /\ Len(requests') = Len(requests) + 1 /\ requests'[Len(requests) + 1] = r /\ l \in token
        /\ \A n \in 1..Len(requests) : requests'[n] = requests[n]
        /\ UNCHANGED <<stored, token>>
    BY <1>6, AskedIs DEF RequestResume
  <2>2. r.lineage = l /\ r.kind # "open"
    OBVIOUS
  <2> HIDE DEF r
  <2>3. \A m \in 1..Len(requests') : m \in 1..Len(requests) \/ m = Len(requests) + 1
    BY <1>1, <2>1
  <2> QED
    BY <1>1, <2>1, <2>2, <2>3 DEF OpenInv
<1>7. ASSUME NEW s \in Sessions, StartCredential(s) PROVE OpenInv'
  <2>1. /\ requests # <<>> /\ Head(requests) = requests[1] /\ requests[1] \in Requests /\ Len(requests) \in Nat \ {0}
        /\ Known(stored') = Known(stored) \cup {s} /\ Grown(stored, stored')
        /\ stored'[s] = Created(s, requests[1].lineage) /\ token' = token
    BY <1>7, BeginsIs, Oldest DEF SessionsInv, StartCredential
  <2>2. \A t \in Known(stored') : \/ stored'[t].lineage = requests[1].lineage
                                  \/ \E u \in Known(stored) : stored[u].lineage = stored'[t].lineage
    BY <2>1 DEF Created, Grown
  <2>3. CASE requests' = Tail(requests)
    BY <1>1, <2>1, <2>2, <2>3, OpenTail
  <2>4. CASE requests' = [requests EXCEPT ![1].session = s]
    <3> DEFINE r == [requests[1] EXCEPT !.session = s]
    <3>1. r.session = s /\ r.lineage = requests[1].lineage /\ r.kind = requests[1].kind
      BY <2>1 DEF Requests
    <3>2. requests' = [requests EXCEPT ![1] = r] /\ 1 \in DOMAIN requests /\ DOMAIN requests = 1..Len(requests)
      BY <1>1, <2>1, <2>4
    <3> HIDE DEF r
    <3>3. /\ Len(requests') = Len(requests)
          /\ \A n \in 1..Len(requests) : requests'[n] = IF n = 1 THEN r ELSE requests[n]
      BY <1>1, <3>2
    <3>4. s # NoSession
      BY SessionsAssumption
    <3>5. \A n \in 1..Len(requests) :
            /\ requests'[n].lineage = requests[n].lineage /\ requests'[n].kind = requests[n].kind
            /\ n # 1 => requests'[n].session = requests[n].session
            /\ n = 1 => requests'[n].session # NoSession
      BY <3>1, <3>3, <3>4
    <3>6. ASSUME NEW n \in 1..Len(requests), n # 1, requests[n].kind = "open"
          PROVE  requests[n].lineage # requests[1].lineage
      BY <1>1, <3>2, <3>6 DEF OpenInv
    <3>7. ASSUME NEW n \in 1..Len(requests), requests'[n].kind = "open", requests'[n].session = NoSession
          PROVE  \A t \in Known(stored') : stored'[t].lineage # requests'[n].lineage
      <4>1. n # 1 /\ requests[n].kind = "open" /\ requests[n].session = NoSession
        BY <3>5, <3>7
      <4>2. \A u \in Known(stored) : stored[u].lineage # requests[n].lineage
        BY <1>1, <4>1 DEF OpenInv
      <4> QED
        BY <2>2, <3>5, <3>6, <4>1, <4>2
    <3> QED
      BY <1>1, <2>1, <3>3, <3>5, <3>7 DEF OpenInv
  <2> QED
    BY <1>7, <2>3, <2>4 DEF StartCredential
<1>8. ASSUME Sweep \/ \E s \in Sessions : Close(s) PROVE OpenInv'
  <2>1. PICK ss \in SUBSET Known(stored) : Disconnect(ss)
    BY <1>8, Leaving
  <2>2. UNCHANGED <<requests, token>>
    BY <1>8 DEF Sweep, Close
  <2>3. Known(stored') = Known(stored) /\ \A t \in Known(stored) : stored'[t].lineage = stored[t].lineage
    BY <2>1, LeavesIs
  <2> QED
    BY <1>1, <2>2, <2>3, OpenStays
<1>9. CASE WriteAcknowledged
  <2>1. CASE writes[1].for = "credential"
    <3>1. /\ requests # <<>> /\ requests' = Tail(requests) /\ stored' = stored
          /\ token' = token \cup {requests[1].lineage}
      BY <1>9, <2>1, GrantedIs DEF WriteAcknowledged
    <3> QED
      BY <1>1, <3>1, OpenTail
  <2>2. CASE writes[1].for # "credential"
    BY <1>2, <1>9, <2>2, GrantedIs DEF WriteAcknowledged
  <2> QED
    BY <2>1, <2>2
<1>10. ASSUME WriteFails \/ DurableDeadline PROVE OpenInv'
  <2>1. UNCHANGED <<stored, token>>
    BY <1>10 DEF WriteFails, DurableDeadline
  <2>2. requests' = requests \/ (requests # <<>> /\ requests' = Tail(requests))
    <3>1. \A n \in DOMAIN writes : writes[n].for = "credential" => requests # <<>>
      <4>1. DOMAIN writes = 1..Len(writes)
        BY DEF SessionsInv, TypeOK
      <4> QED
        BY <4>1, AnsweredIs
    <3>2. CASE WriteFails
      <4>1. (\E w \in {writes[n] : n \in DOMAIN writes} : w.for = "credential") => requests # <<>>
        BY <3>1
      <4> QED
        BY <3>2, <4>1 DEF WriteFails
    <3>3. CASE DurableDeadline
      BY <3>1, <3>3 DEF DurableDeadline
    <3> QED
      BY <1>10, <3>2, <3>3
  <2> QED
    BY <1>2, <1>3, <2>1, <2>2
<1>11. CASE Restart
  <2>1. requests' = <<>>
    BY <1>11 DEF Restart
  <2> QED
    BY <2>1 DEF OpenInv
<1>12. ASSUME WriteLands \/ \E s \in Sessions : CloseWrites(s) \/ Expires(s)
       PROVE  UNCHANGED <<requests, token, stored>>
  BY <1>12 DEF WriteLands, CloseWrites, Expires
<1> QED
  BY <1>2, <1>4, <1>5, <1>6, <1>7, <1>8, <1>9, <1>10, <1>11, <1>12, Steps, TimersKeep, OperatesKeep
     DEF Asks

-----------------------------------------------------------------------------
(* Operations and grace. *)

\* What is on disk stays on disk.
LEMMA DiskGrows ==
  ASSUME SessionsInv, Next PROVE Grown(disk, disk')
<1>1. Grown(disk, disk)
  BY DEF Grown
<1>2. CASE WriteLands
  <2>1. writes # <<>> /\ disk' = writes[1].file /\ Len(writes) \in Nat \ {0}
    BY <1>2, Oldest DEF WriteLands, SessionsInv
  <2> QED
    BY <2>1 DEF SessionsInv, FilesInv
<1>3. ASSUME \/ Sweep \/ WriteAcknowledged \/ WriteFails \/ DurableDeadline \/ Restart
             \/ \E s \in Sessions : StartCredential(s) \/ Close(s) \/ CloseWrites(s) \/ Expires(s)
      PROVE  disk' = disk
  BY <1>3 DEF Sweep, WriteAcknowledged, WriteFails, DurableDeadline, Restart, StartCredential, Close,
              CloseWrites, Expires
<1> QED
  BY <1>1, <1>2, <1>3, Steps, TimersKeep, OperatesKeep, AsksKeep

\* What was promised stays on disk.
LEMMA PromisesKept ==
  ASSUME SessionsInv, Next
  PROVE  /\ persisted' \subseteq Known(disk')
         /\ \A l \in token' : \E s \in Known(disk') : disk'[s].lineage = l
         /\ \A c \in Calls : call'[c] # "idle" => by'[c] \in Known(disk')
<1>1. OwnerInv /\ Grown(disk, disk') /\ TypeOK
  BY DiskGrows DEF SessionsInv
<1>2. ASSUME UNCHANGED <<persisted, token, call, by>>
      PROVE  /\ persisted' \subseteq Known(disk')
             /\ \A l \in token' : \E s \in Known(disk') : disk'[s].lineage = l
             /\ \A c \in Calls : call'[c] # "idle" => by'[c] \in Known(disk')
  <2>1. persisted' \subseteq Known(disk')
    BY <1>1, <1>2 DEF OwnerInv, Grown
  <2>2. ASSUME NEW l \in token' PROVE \E s \in Known(disk') : disk'[s].lineage = l
    <3>1. PICK s \in Known(disk) : disk[s].lineage = l
      BY <1>1, <1>2 DEF OwnerInv
    <3> QED
      BY <1>1, <3>1 DEF Grown
  <2>3. \A c \in Calls : call'[c] # "idle" => by'[c] \in Known(disk')
    BY <1>1, <1>2 DEF OwnerInv, Grown
  <2> QED
    BY <2>1, <2>2, <2>3
<1>3. CASE WriteAcknowledged
  <2>1. /\ persisted' = persisted \cup Granted(writes[1]) /\ UNCHANGED <<call, by, disk>>
        /\ token' = token \/ \E s \in Known(disk) : token' = token \cup {disk[s].lineage}
    BY <1>3, GrantedIs DEF WriteAcknowledged
  <2> QED
    BY <1>1, <1>3, <2>1, GrantedIs DEF OwnerInv
<1>4. CASE Operates
  <2>1. UNCHANGED <<registryVars, credentialVars, token>>
    BY <1>4, OperatesKeep
  <2>2. PICK d \in Calls : \/ (\E s \in Sessions : Ask(d, s)) \/ Arrives(d)
                           \/ Connect(d) \/ Connected(d) \/ Settles(d)
    BY <1>4 DEF Operates
  <2>3. CASE \E s \in Sessions : Ask(d, s)
    <3>1. PICK s \in Sessions : s \in persisted /\ call' = [call EXCEPT ![d] = "asking"] /\ by' = [by EXCEPT ![d] = s]
      BY <2>3 DEF Ask
    <3> QED
      BY <1>1, <2>1, <3>1 DEF OwnerInv, TypeOK
  <2>4. CASE Arrives(d) \/ Connect(d) \/ Connected(d) \/ Settles(d)
    <3>1. by' = by /\ call[d] # "idle" /\ \E p \in CallStates : call' = [call EXCEPT ![d] = p]
      BY <2>4 DEF Arrives, Admit, Register, Refuse, Connect, Connected, Settles, Running, Arriving, CallStates
    <3> QED
      BY <1>1, <2>1, <3>1 DEF OwnerInv, TypeOK
  <2> QED
    BY <2>2, <2>3, <2>4
<1>5. CASE Restart
  <2>1. /\ persisted' = Known(disk) /\ UNCHANGED <<disk, token, by>>
        /\ call' = [c \in Calls |-> IF c \in Running THEN "lost" ELSE call[c]]
    BY <1>5 DEF Restart
  <2> QED
    BY <1>1, <2>1 DEF OwnerInv, Running
<1>6. ASSUME \/ Sweep \/ WriteLands \/ WriteFails \/ DurableDeadline
             \/ \E s \in Sessions : StartCredential(s) \/ Close(s) \/ CloseWrites(s) \/ Expires(s)
      PROVE  UNCHANGED <<persisted, token, call, by>>
  BY <1>6 DEF Sweep, WriteLands, WriteFails, DurableDeadline, StartCredential, Close, CloseWrites, Expires
<1> QED
  BY <1>2, <1>3, <1>4, <1>5, <1>6, Steps, TimersKeep, AsksKeep

\* A step takes no session away from an operation that is registered.
LEMMA NoneIsRevoked ==
  ASSUME SessionsInv, Next PROVE NoneRevokedUnderWay
<1>1. /\ \A c \in Running : by[c] \in Known(stored)
      /\ TypeOK /\ Running \subseteq Calls
  BY DEF SessionsInv, OwnerInv, FilesInv, Grown, Running
<1>2. ASSUME UNCHANGED stored PROVE NoneRevokedUnderWay
  BY <1>2 DEF NoneRevokedUnderWay
<1>3. ASSUME NEW s \in Sessions, StartCredential(s) PROVE NoneRevokedUnderWay
  <2> DEFINE l == requests[1].lineage
  <2>1. /\ requests # <<>> /\ Head(requests) = requests[1] /\ requests[1] \in Requests /\ Len(requests) \in Nat \ {0}
        /\ requests[1].session = NoSession
        /\ \A t \in Known(stored) : stored[t].lineage # l => stored'[t] = stored[t]
        /\ MayCreate(requests[1])
    BY <1>3, BeginsIs, Oldest DEF SessionsInv, StartCredential
  <2>2. ASSUME NEW c \in Running PROVE stored[by[c]].lineage # l
    <3>1. CASE requests[1].kind = "resume"
      BY <2>1, <3>1 DEF MayCreate, CallsOfLineage
    <3>2. CASE requests[1].kind = "open"
      <4>1. \A t \in Known(stored) : stored[t].lineage # l
        BY <2>1, <3>2 DEF SessionsInv, OpenInv
      <4> QED
        BY <1>1, <4>1
    <3> QED
      BY <2>1, <3>1, <3>2 DEF Requests
  <2> HIDE DEF l
  <2> QED
    BY <1>1, <2>1, <2>2 DEF NoneRevokedUnderWay
<1>4. ASSUME Sweep \/ \E s \in Sessions : Close(s) PROVE NoneRevokedUnderWay
  <2>1. PICK ss \in SUBSET Known(stored) : Disconnect(ss)
    BY <1>4, Leaving
  <2>2. \A t \in Known(stored) : stored'[t].revoked = stored[t].revoked
    BY <2>1, LeavesIs
  <2> QED
    BY <1>1, <2>2 DEF NoneRevokedUnderWay
<1>5. CASE Restart
  <2>1. call' = [c \in Calls |-> IF c \in Running THEN "lost" ELSE call[c]]
    BY <1>5 DEF Restart
  <2>2. Running' = {}
    BY <2>1 DEF Running
  <2> QED
    BY <2>2 DEF NoneRevokedUnderWay
<1>6. ASSUME \/ WriteLands \/ WriteAcknowledged \/ WriteFails \/ DurableDeadline
             \/ \E s \in Sessions : CloseWrites(s) \/ Expires(s)
      PROVE  UNCHANGED stored
  BY <1>6 DEF WriteLands, WriteAcknowledged, WriteFails, DurableDeadline, CloseWrites, Expires
<1> QED
  BY <1>2, <1>3, <1>4, <1>5, <1>6, Steps, TimersKeep, OperatesKeep, AsksKeep

\* A browser is connected under the session that its token names.
LEMMA ConnectsKept ==
  ASSUME SessionsInv, Next PROVE ConnectsUnderTheToken'
<1>1. ConnectsUnderTheToken /\ NoneRevokedUnderWay /\ call \in [Calls -> CallStates]
  BY NoneIsRevoked DEF SessionsInv, OwnerInv, TypeOK
<1>2. ASSUME UNCHANGED <<call, by>> PROVE ConnectsUnderTheToken'
  <2>1. ASSUME NEW c \in Calls, call'[c] = "connecting" PROVE ~stored'[by'[c]].revoked
    <3>1. c \in Running \cap Running' /\ ~stored[by[c]].revoked /\ by' = by
      BY <1>1, <1>2, <2>1 DEF ConnectsUnderTheToken, Running
    <3> QED
      BY <1>1, <3>1 DEF NoneRevokedUnderWay
  <2> QED
    BY <2>1 DEF ConnectsUnderTheToken
<1>3. CASE Operates
  <2>1. UNCHANGED stored
    BY <1>3, OperatesKeep
  <2>2. PICK d \in Calls : \/ (\E s \in Sessions : Ask(d, s)) \/ Arrives(d)
                           \/ Connect(d) \/ Connected(d) \/ Settles(d)
    BY <1>3 DEF Operates
  <2>3. CASE Connect(d)
    <3>1. by' = by /\ call' = [call EXCEPT ![d] = "connecting"] /\ ~stored[by[d]].revoked
      BY <2>3 DEF Connect, Live
    <3> QED
      BY <1>1, <2>1, <3>1 DEF ConnectsUnderTheToken
  <2>4. CASE \/ (\E s \in Sessions : Ask(d, s)) \/ Arrives(d) \/ Connected(d) \/ Settles(d)
    <3>1. /\ \E p \in CallStates \ {"connecting"} : call' = [call EXCEPT ![d] = p]
          /\ by' = by \/ \E s \in Sessions : by' = [by EXCEPT ![d] = s]
      BY <2>4 DEF Ask, Arrives, Admit, Register, Refuse, Connected, Settles, CallStates
    <3>2. \A c \in Calls \ {d} : call'[c] = call[c] /\ by'[c] = by[c]
      BY <1>1, <3>1 DEF SessionsInv, TypeOK
    <3>3. call'[d] # "connecting"
      BY <1>1, <3>1
    <3> QED
      BY <1>1, <2>1, <3>2, <3>3 DEF ConnectsUnderTheToken
  <2> QED
    BY <2>2, <2>3, <2>4
<1>4. CASE Restart
  <2>1. call' = [c \in Calls |-> IF c \in Running THEN "lost" ELSE call[c]]
    BY <1>4 DEF Restart
  <2> QED
    BY <2>1 DEF Running, ConnectsUnderTheToken
<1>5. ASSUME \/ Sweep \/ WriteLands \/ WriteAcknowledged \/ WriteFails \/ DurableDeadline
             \/ \E s \in Sessions : StartCredential(s) \/ Close(s) \/ CloseWrites(s) \/ Expires(s)
      PROVE  UNCHANGED <<call, by>>
  BY <1>5 DEF Sweep, WriteLands, WriteAcknowledged, WriteFails, DurableDeadline, StartCredential, Close,
              CloseWrites, Expires
<1> QED
  BY <1>2, <1>3, <1>4, <1>5, Steps, TimersKeep, AsksKeep

\* The timer of a lineage runs only while no client of it is connected.
LEMMA GraceStep == ASSUME SessionsInv, Next PROVE GraceInv'
<1>1. /\ GraceInv /\ grace \in [Lineages -> Entry] /\ failures \subseteq Lineages
      /\ persisted \subseteq Known(stored) /\ current \subseteq Known(stored)
  BY DEF SessionsInv, TypeOK
<1>2. ASSUME UNCHANGED <<stored, current, persisted>>,
             \A k \in Lineages : grace'[k].phase = "timer" => grace[k].phase = "timer"
      PROVE  GraceInv'
  BY <1>1, <1>2 DEF GraceInv, Live
<1>3. CASE Timers
  <2>1. \A k \in Lineages : grace'[k].phase = "timer" => grace[k].phase = "timer"
    BY <1>1, <1>3, GraceMoves
  <2>2. UNCHANGED <<stored, current, persisted>>
    BY <1>3, TimersKeep
  <2> QED
    BY <1>2, <2>1, <2>2
<1>4. ASSUME NEW s \in Sessions, StartCredential(s) PROVE GraceInv'
  <2> DEFINE l == requests[1].lineage
  <2>1. /\ s \notin Known(stored) /\ current' = current \cup {s} /\ Known(stored') = Known(stored) \cup {s}
        /\ stored'[s] = Created(s, l) /\ Grown(stored, stored') /\ OneToken(stored')
        /\ \A t \in Known(stored) : stored[t].lineage # l => stored'[t] = stored[t]
        /\ UNCHANGED <<grace, persisted>>
    BY <1>4, BeginsIs DEF StartCredential
  <2>2. stored'[s].lineage = l /\ ~stored'[s].revoked
    BY <2>1 DEF Created
  <2> HIDE DEF l
  <2>3. ASSUME NEW t \in persisted, Live(t)' PROVE Live(t) /\ stored'[t].lineage = stored[t].lineage
    <3>1. t \in Known(stored) /\ t # s /\ t \in current /\ stored'[t].lineage = stored[t].lineage /\ t \in Known(stored')
      BY <1>1, <2>1, <2>3 DEF Live, Grown
    <3>2. stored[t].lineage # l
      <4>1. SUFFICES ASSUME stored[t].lineage = l PROVE FALSE
        OBVIOUS
      <4>2. s \in Known(stored') /\ ~stored'[t].revoked
        BY <2>1, <2>3 DEF Live
      <4> QED
        BY <2>1, <2>2, <3>1, <4>1, <4>2, OneOfItsLineage
    <3> QED
      BY <2>1, <2>3, <3>1, <3>2 DEF Live
  <2> QED
    BY <1>1, <2>1, <2>3 DEF GraceInv
<1>5. ASSUME Sweep \/ \E s \in Sessions : Close(s) PROVE GraceInv'
  <2>1. PICK ss \in SUBSET Known(stored) : Disconnect(ss) /\ \A s \in ss : ~stored[s].revoked
    BY <1>5, Leaving
  <2>2. UNCHANGED <<current, persisted>> /\ grace' = Departed({stored[s].lineage : s \in ss})
    BY <1>5, <2>1 DEF Sweep, Close, Disconnect
  <2>3. \A t \in Known(stored) : /\ stored'[t].lineage = stored[t].lineage
                                 /\ t \in ss => stored'[t].disconnected
                                 /\ t \notin ss => stored'[t] = stored[t]
    BY <2>1, LeavesIs
  <2> SUFFICES ASSUME NEW k \in Lineages, grace'[k].phase = "timer", NEW t \in persisted, Live(t)',
                      stored'[t].lineage = k
               PROVE  FALSE
    BY <2>2 DEF GraceInv
  <2>4. t \in Known(stored) /\ t \notin ss /\ Live(t) /\ stored[t].lineage = k /\ ~stored[t].revoked
    BY <1>1, <2>2, <2>3 DEF Live
  <2>5. grace[k].phase = "timer" \/ k \in {stored[s].lineage : s \in ss}
    BY <1>1, <2>2, DepartedIs
  <2>6. CASE grace[k].phase = "timer"
    BY <1>1, <2>4, <2>6 DEF GraceInv
  <2>7. CASE k \in {stored[s].lineage : s \in ss}
    <3>1. PICK s \in ss : stored[s].lineage = k
      BY <2>7
    <3>2. s = t
      <4>1. OneToken(stored) /\ s \in Known(stored) /\ ~stored[s].revoked
        BY <2>1 DEF SessionsInv, FilesInv
      <4> QED
        BY <2>4, <3>1, <4>1, OneOfItsLineage
    <3> QED
      BY <2>4, <3>2
  <2> QED
    BY <2>5, <2>6, <2>7
<1>6. CASE WriteAcknowledged
  <2>1. /\ persisted' = persisted \cup Granted(writes[1]) /\ UNCHANGED <<stored, current>>
        /\ writes[1].for # "credential" => grace' = grace
        /\ writes[1].for = "credential" =>
             /\ Granted(writes[1]) = {writes[1].session} /\ writes[1].session \in Known(disk)
             /\ requests # <<>> /\ disk[writes[1].session].lineage = requests[1].lineage
             /\ grace' = Arrived(requests[1].lineage)
    BY <1>6, GrantedIs DEF WriteAcknowledged
  <2>2. CASE writes[1].for # "credential"
    <3>1. persisted' = persisted
      BY <2>1, <2>2 DEF Granted
    <3> QED
      BY <1>2, <2>1, <2>2, <3>1
  <2>3. CASE writes[1].for = "credential"
    <3> DEFINE l == requests[1].lineage
               s == writes[1].session
    <3>1. l \in Lineages
      BY <2>1, <2>3, Oldest DEF SessionsInv
    <3>2. stored[s].lineage = l
      BY <2>1, <2>3 DEF SessionsInv, FilesInv, Grown
    <3>3. persisted' = persisted \cup {s} /\ grace' = Arrived(l)
      BY <2>1, <2>3
    <3> HIDE DEF l, s
    <3>4. \A k \in Lineages : grace'[k].phase = "timer" => grace[k].phase = "timer" /\ k # l
      BY <1>1, <3>1, <3>3, ArrivedIs
    <3> QED
      BY <1>1, <2>1, <3>2, <3>3, <3>4 DEF GraceInv, Live
  <2> QED
    BY <2>2, <2>3
<1>7. CASE Restart
  <2>1. grace' = [l \in Lineages |-> NoEntry]
    BY <1>7 DEF Restart
  <2> QED
    BY <2>1 DEF GraceInv, NoEntry
<1>8. ASSUME \/ WriteLands \/ WriteFails \/ DurableDeadline
             \/ \E s \in Sessions : CloseWrites(s) \/ Expires(s)
      PROVE  UNCHANGED <<stored, current, persisted, grace>>
  BY <1>8 DEF WriteLands, WriteFails, DurableDeadline, CloseWrites, Expires
<1> QED
  BY <1>2, <1>3, <1>4, <1>5, <1>6, <1>7, <1>8, Steps, OperatesKeep, AsksKeep

-----------------------------------------------------------------------------
(* The theorems. *)

\* The invariant holds at the start.
LEMMA SessionsStart == Init => SessionsInv
<1> SUFFICES ASSUME Init PROVE SessionsInv
  OBVIOUS
<1> USE DEF Init
<1>1. Known(stored) = {} /\ Known(disk) = {}
  BY DEF Known
<1>2. TypeOK
  <2>1. /\ stored \in [Sessions -> StoredSession] /\ disk \in [Sessions -> StoredSession]
        /\ current = {} /\ expired = {} /\ persisted = {} /\ token = {} /\ failures = {}
    BY DEF StoredSession
  <2>2. /\ requests \in Seq(Requests) /\ Len(requests) = 0 /\ writes \in Seq(Snapshot)
        /\ closing \in [Sessions -> {"no", "calls", "write"}]
    OBVIOUS
  <2>3. broken \in BOOLEAN /\ poisoned \in BOOLEAN
    BY Zenon
  <2>4. /\ call \in [Calls -> CallStates] /\ pending \in [Sessions -> SUBSET Calls]
        /\ by \in [Calls -> Sessions \cup {NoSession}]
        /\ slot \in [Instances ->
             [state : {"free", "connecting", "active", "quarantined"}, call : Calls \cup {NoCall}]]
    BY DEF Free, CallStates
  <2>5. grace \in [Lineages -> Entry]
    BY DEF NoEntry, Entry
  <2>6. Len(requests) <= MaxWaiting /\ faults \in 0..MaxFaults /\ crashes \in 0..MaxCrashes
    BY <2>2, SessionsAssumption
  <2> QED
    BY <2>1, <2>2, <2>3, <2>4, <2>5, <2>6 DEF TypeOK
<1>3. FilesInv /\ WaitingInv /\ OpenInv
  BY <1>1 DEF FilesInv, WaitingInv, OpenInv, OneToken, Grown
<1>4. OwnerInv /\ GraceInv
  BY <1>1 DEF OwnerInv, GraceInv, ConnectsUnderTheToken, NoEntry
<1> QED
  BY <1>2, <1>3, <1>4 DEF SessionsInv

\* Every step keeps it.
LEMMA SessionsStep == ASSUME SessionsInv, [Next]_vars PROVE SessionsInv'
<1>1. CASE Next
  <2>1. OwnerInv'
    BY <1>1, PromisesKept, ConnectsKept DEF OwnerInv
  <2> QED
    BY <1>1, <2>1, TypesStep, FilesStep, WaitingStep, OpenStep, GraceStep DEF SessionsInv
<1>2. CASE UNCHANGED vars
  <2>1. TypeOK' /\ FilesInv' /\ WaitingInv' /\ OpenInv'
    BY <1>2 DEF SessionsInv, TypeOK, FilesInv, WaitingInv, OpenInv
  <2>2. OwnerInv' /\ GraceInv'
    BY <1>2 DEF SessionsInv, OwnerInv, ConnectsUnderTheToken, GraceInv, Live
  <2> QED
    BY <2>1, <2>2 DEF SessionsInv
<1> QED
  BY <1>1, <1>2

\* The registry, the file, the snapshots on their way and the operations agree.
THEOREM SessionsAreConsistent == Spec => []SessionsInv
<1> QED
  BY SessionsStart, SessionsStep, PTL DEF Spec

\* Every variable keeps its type.
THEOREM SessionsKeepTheirTypes == Spec => []TypeOK
<1>1. SessionsInv => TypeOK
  BY DEF SessionsInv
<1> QED
  BY <1>1, SessionsAreConsistent, PTL

\* The token a client was given resumes exactly one session, in the runtime and in the
\* file it would restart from.
THEOREM TokensResume == Spec => []TokenResumesOneSession
<1>1. SessionsInv => TokenResumesOneSession
  <2> SUFFICES ASSUME SessionsInv, NEW l \in token
               PROVE  Cardinality(Resumable(stored, l)) = 1 /\ Cardinality(Resumable(disk, l)) = 1
    BY DEF TokenResumesOneSession
  <2>1. PICK s \in Known(disk) : disk[s].lineage = l
    BY DEF SessionsInv, OwnerInv
  <2>2. s \in Known(stored) /\ stored[s].lineage = l
    BY <2>1 DEF SessionsInv, FilesInv, Grown
  <2>3. (\E t \in Sessions : Resumable(disk, l) = {t}) /\ \E t \in Sessions : Resumable(stored, l) = {t}
    BY <2>1, <2>2 DEF SessionsInv, FilesInv, OneToken
  <2> QED
    BY <2>3, FS_Singleton
<1> QED
  BY <1>1, SessionsAreConsistent, PTL

\* The session of every operation is on disk, a browser is connected under the session that
\* the token names, and no resume takes a session away from under a registered operation.
THEOREM OperationsKeep == Spec => OperationsKeepTheirSession
<1>1. SessionsInv /\ SessionsInv' /\ [Next]_vars =>
        [OperationsKeepTheirLineage' /\ ConnectsUnderTheToken' /\ NoneRevokedUnderWay]_vars
  <2> SUFFICES ASSUME SessionsInv, SessionsInv', [Next]_vars
               PROVE  [OperationsKeepTheirLineage' /\ ConnectsUnderTheToken' /\ NoneRevokedUnderWay]_vars
    OBVIOUS
  <2>1. OperationsKeepTheirLineage' /\ ConnectsUnderTheToken'
    BY DEF SessionsInv, OwnerInv, OperationsKeepTheirLineage
  <2>2. CASE Next
    BY <2>1, <2>2, NoneIsRevoked
  <2>3. CASE UNCHANGED vars
    BY <2>3
  <2> QED
    BY <2>2, <2>3
<1> QED
  BY <1>1, SessionsAreConsistent, PTL DEF Spec, OperationsKeepTheirSession

\* The grace of a lineage ends only while no client of it is connected.
THEOREM GraceSpares == Spec => GraceSparesTheConnected
<1>1. SessionsInv =>
        \A l \in Lineages :
          grace[l].phase = "timer" /\ grace'[l].phase = "calls" =>
            \A s \in persisted : Live(s) => stored[s].lineage # l
  BY DEF SessionsInv, GraceInv
<1>2. SessionsInv =>
        [\A l \in Lineages :
          grace[l].phase = "timer" /\ grace'[l].phase = "calls" =>
            \A s \in persisted : Live(s) => stored[s].lineage # l]_vars
  BY <1>1
<1> QED
  BY <1>2, SessionsAreConsistent, PTL DEF GraceSparesTheConnected
===============================================================================
