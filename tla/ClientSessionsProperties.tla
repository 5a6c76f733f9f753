----------------------- MODULE ClientSessionsProperties -----------------------
(***************************************************************************)
(* What makes client sessions and their grace correct.                     *)
(***************************************************************************)
EXTENDS ClientSessions

\* The token a client was given resumes exactly one session, in the runtime
\* and in the file it would restart from: whatever write is lost, late or cut
\* short by a crash, a lost answer to a resume can be asked for again without
\* a new lineage, and the file can be restored.
TokenResumesOneSession ==
  \A l \in token :
    Cardinality(Resumable(stored, l)) = 1 /\ Cardinality(Resumable(disk, l)) = 1

\* The session of every operation, also of those a dead runtime left, is in
\* the file: after a restart the journal finds its lineage and its request
\* keys stay taken.
OperationsKeepTheirLineage ==
  \A c \in Calls : call[c] # "idle" => by[c] \in Known(disk)

\* A browser is connected for the session that the token of its lineage names, from the
\* moment the coordinator looked until the adapter has answered.
ConnectsUnderTheToken == \A c \in Calls : call[c] = "connecting" => ~stored[by[c]].revoked

\* No resume takes the credential away from under an operation that is registered.  One
\* that came between the two awaits of a call did so before the call became an operation.
NoneRevokedUnderWay ==
  \A c \in Running \cap Running' : stored'[by[c]].revoked => stored[by[c]].revoked

\* An operation keeps its session, in memory while it runs and on disk for good.
OperationsKeepTheirSession ==
  [][OperationsKeepTheirLineage' /\ ConnectsUnderTheToken' /\ NoneRevokedUnderWay]_vars

\* The grace of a lineage ends only while no client of it is connected.
GraceSparesTheConnected ==
  [][\A l \in Lineages :
       grace[l].phase = "timer" /\ grace'[l].phase = "calls" =>
         \A s \in persisted : Live(s) => stored[s].lineage # l]_vars

-----------------------------------------------------------------------------
(* Progress. *)

\* Every open and resume is answered, although the store may hang.
CredentialsAreAnswered == requests # <<>> ~> requests = <<>>

\* A cleanup that hangs is over at its deadline.
GraceSettles == \A l \in Lineages : grace[l].phase # "none" ~> grace[l].phase = "none"

\* All sessions of the lineage in this epoch have been disconnected.
Abandoned(l) ==
  /\ \E s \in current : stored[s].lineage = l
  /\ \A s \in current : stored[s].lineage = l => stored[s].disconnected

Owns(l) == \E i \in SlotsOfLineage(l) : slot[i].state = "active"

Returned(l) == Cardinality({s \in Known(stored) : stored[s].lineage = l}) > 1

\* The connections of a lineage that left are taken down, or the failure is on
\* record.  A lineage that came back is not covered: one that
\* leaves again while its cleanup runs has no grace (client-grace.ts:34).
AbandonedIsCleaned ==
  \A l \in Lineages :
    Abandoned(l) /\ Owns(l) /\ ~Returned(l) ~> ~Owns(l) \/ l \in failures \/ Returned(l)

\* A grace that began ends, and has done what it is for.
GraceCleansUp == GraceSettles /\ AbandonedIsCleaned
=============================================================================
