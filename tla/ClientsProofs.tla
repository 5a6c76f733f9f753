---------------------------- MODULE ClientsProofs ----------------------------
(***************************************************************************)
(* Proofs about what serves a client, for any value of the constants.  The  *)
(* lifetime of a browser: it is held once.  Calls beside the renewal of     *)
(* their credential: each is answered, and sent again only when it may be.  *)
(* A capture of the screen: what the runtime believes of it is true of the  *)
(* helper's task.  Side by side with the sessions all keep their types.     *)
(***************************************************************************)
EXTENDS ClientSessionsProofs, MCClients

-----------------------------------------------------------------------------
(* The lifetime of a browser.                                              *)

LifeSpec == LifeInit /\ [][LifeNext]_lifeVars

LifeLineages == {LifeLineage[o] : o \in LifeOps} \cup {"none"}
Place == [state : Held \cup {"none", "released"}, lineage : LifeLineages, children : SUBSET LifeOps,
          ops : SUBSET LifeOps, taken : LifeOps \cup {"no"}]
Record == [state : Held \cup {"none", "released"}, revision : Nat, lineage : LifeLineages]
Write == [by : LifeOps, state : Held \cup {"released"}, revision : Nat, lineage : LifeLineages]
Stages == {"new", "saving", "admitted", "running", "staging", "staged", "condemned", "done",
           "refused", "unknown"}

LifeStateOK ==
  /\ life \in [LifeOps -> Stages] /\ place \in Place /\ record \in Record /\ known \in Record
  /\ saves \in Seq(Write) /\ leased \subseteq LifeOps /\ browser \in {"on", "off"}
  /\ lifeUp \in BOOLEAN

\* Operations that have begun and not ended.
AtWork(o) == ~Ended(o)
WritesOf(o) == {i \in 1..Len(saves) : saves[i].by = o}

\* A child that waits has one write in the queue, and none before it waits; the last one
\* it may wait for says that it failed.
ChildWrites(o) ==
  /\ life[o] \in {"saving", "staging"} => \E i \in 1..Len(saves) : WritesOf(o) = {i}
  /\ life[o] \in {"admitted", "running"} => WritesOf(o) = {}
  /\ life[o] = "staging" => \A i \in 1..Len(saves) : saves[i].by = o => saves[i].state = "quarantined"
  /\ life[o] # "staged"

\* Any other operation is at work alone: the last write is the one it waits for, and
\* when that has ended nothing is left to write.
IsAlone(o) == \A p \in LifeOps \ {o} : Ended(p)
LastWrite(o) ==
  /\ life[o] \in {"saving", "staging"} => saves # <<>> /\ WritesOf(o) = {Len(saves)}
  /\ life[o] \in {"admitted", "running"} => WritesOf(o) = {}
  /\ life[o] \in {"staged", "condemned"} => saves = <<>>

\* A connect comes to a browser that nobody holds, and its record is the first to say so.
Connects(o) ==
  /\ o \in leased /\ Len(saves) <= 1
  /\ life[o] = "saving" => place.state \notin Held /\ Head(saves).state = "connecting"
  /\ life[o] # "saving" => place.state = "connecting" /\ record.state \in Held
  /\ life[o] \in {"saving", "admitted"} => browser = "off"
  /\ life[o] = "staging" => Head(saves).state \in Held
  /\ life[o] \in {"admitted", "running"} => saves = <<>>

\* A child is counted, and a disconnect or a cleanup takes the whole place.
InUse == place.state \in {"active", "quarantined"}
Takes(o) == place.taken = o /\ InUse
AtPlace(o) ==
  /\ LifeKind[o] = "child" => o \in place.children /\ InUse /\ ChildWrites(o)
  /\ LifeKind[o] # "child" => IsAlone(o) /\ LastWrite(o)
  /\ LifeKind[o] = "connect" => Connects(o)
  /\ LifeKind[o] \in {"disconnect", "recover", "shutdown"} => Takes(o)
PlacesInv == \A o \in LifeOps : AtWork(o) => AtPlace(o)

\* Nothing waits to be written about a browser that nobody holds, but a connect.
QuietWhenFree ==
  place.state \notin Held =>
    \/ saves = <<>>
    \/ \E o \in LifeOps : LifeKind[o] = "connect" /\ life[o] = "saving"

\* A browser that may be connected is on record, and nothing waits that says otherwise.
OnRecord ==
  browser = "on" => record.state \in Held /\ \A i \in 1..Len(saves) : saves[i].state # "released"

\* What is known in memory is what is on disk, and nothing is at work while the runtime
\* is down.
Memory ==
  /\ lifeUp => known = record
  /\ ~lifeUp => saves = <<>> /\ \A o \in LifeOps : Ended(o)

\* An operation that has not begun has nothing to write.
NewInv == \A o \in LifeOps : life[o] = "new" => WritesOf(o) = {}

LifeInv == LifeStateOK /\ PlacesInv /\ NewInv /\ QuietWhenFree /\ OnRecord /\ Memory

-----------------------------------------------------------------------------
(* The lifetime of a browser: operators.                                   *)

\* What the assumption on the constants gives.
LEMMA KindsOf ==
  ASSUME NEW o \in LifeOps
  PROVE  /\ LifeKind[o] \in {"connect", "child", "disconnect", "recover", "shutdown"}
         /\ LifeLineage[o] \in LifeLineages /\ o # "no"
  BY LifeAssumption DEF LifeLineages

\* Where an operation is that is at work.
LEMMA AtWorkIs ==
  ASSUME LifeStateOK, NEW o \in LifeOps
  PROVE  /\ life[o] \in Stages
         /\ AtWork(o) <=> life[o] \in {"saving", "admitted", "running", "staging", "staged", "condemned"}
  BY DEF LifeStateOK, AtWork, Ended, Stages

\* Only children are at work together.
LEMMA OthersAreChildren ==
  ASSUME LifeInv, NEW o \in LifeOps, AtWork(o), NEW p \in LifeOps \ {o}, AtWork(p)
  PROVE  LifeKind[o] = "child" /\ LifeKind[p] = "child"
  BY DEF LifeInv, PlacesInv, AtPlace, IsAlone, AtWork

\* What leaving does to the place.
LEMMA LeftIs ==
  ASSUME NEW s \in Place, NEW o \in LifeOps, NEW state \in Held \cup {"none", "released"}
  PROVE  /\ Left(s, o, state) \in Place
         /\ Left(s, o, state).state = IF s.state = "none" THEN "none" ELSE state
         /\ Left(s, o, state).children = s.children \ {o}
  BY DEF Place, Left

\* A new place.
LEMMA NewSlotIs ==
  ASSUME NEW o \in LifeOps
  PROVE  NoSlot \in Place /\ NewSlot(o) \in Place /\ NewSlot(o).state = "connecting" /\ NoSlot.state = "none"
<1>1. "none" \in LifeLineages /\ LifeLineage[o] \in LifeLineages
  BY KindsOf DEF LifeLineages
<1>2. NoSlot \in Place /\ NoSlot.state = "none"
  BY <1>1 DEF Place, NoSlot
<1>3. NewSlot(o) \in Place /\ NewSlot(o).state = "connecting"
  BY <1>1 DEF Place, NewSlot, NoSlot, Held
<1> QED
  BY <1>2, <1>3

\* A write joins the queue behind the others.
LEMMA SaveIs ==
  ASSUME LifeStateOK, NEW o \in LifeOps, NEW state \in Held \cup {"released"}, Save(o, state)
  PROVE  /\ saves' \in Seq(Write) /\ saves' # <<>> /\ Len(saves') = Len(saves) + 1
         /\ \A i \in 1..Len(saves) : saves'[i] = saves[i]
         /\ saves'[Len(saves')].by = o /\ saves'[Len(saves')].state = state
         /\ saves = <<>> => Head(saves').state = state
<1> DEFINE w == [by |-> o, state |-> state, revision |-> known.revision + 1,
                 lineage |-> IF known.state \in Held THEN known.lineage ELSE LifeLineage[o]]
<1>1. known \in Record /\ saves \in Seq(Write) /\ Len(saves) \in Nat
  BY DEF LifeStateOK
<1>2. w \in Write /\ w.by = o /\ w.state = state
  BY <1>1, KindsOf DEF Write, Record
<1>3. saves' = Append(saves, w)
  BY DEF Save
<1> HIDE DEF w
<1>4. /\ saves' \in Seq(Write) /\ saves' # <<>> /\ Len(saves') = Len(saves) + 1
      /\ \A i \in 1..Len(saves) : saves'[i] = saves[i]
      /\ saves'[Len(saves) + 1] = w
  BY <1>1, <1>2, <1>3, AppendProperties
<1>5. saves = <<>> => Head(saves') = w
  BY <1>1, <1>4
<1> QED
  BY <1>2, <1>4, <1>5

\* It is the only one of its operation, and changes nothing for the others.
LEMMA SaveWrites ==
  ASSUME LifeStateOK, NEW o \in LifeOps, NEW state \in Held \cup {"released"}, Save(o, state)
  PROVE  /\ WritesOf(o) = {} => WritesOf(o)' = {Len(saves')}
         /\ \A p \in LifeOps \ {o} : WritesOf(p)' = WritesOf(p)
<1>1. /\ Len(saves') = Len(saves) + 1 /\ Len(saves) \in Nat
      /\ \A i \in 1..Len(saves) : saves'[i] = saves[i]
      /\ saves'[Len(saves')].by = o
  BY SaveIs DEF LifeStateOK
<1>2. WritesOf(o) = {} => WritesOf(o)' = {Len(saves')}
  <2> SUFFICES ASSUME WritesOf(o) = {} PROVE WritesOf(o)' = {Len(saves')}
    OBVIOUS
  <2>1. \A i \in 1..Len(saves) : saves[i].by # o
    BY DEF WritesOf
  <2>2. ASSUME NEW i \in 1..Len(saves'), saves'[i].by = o PROVE i = Len(saves')
    BY <1>1, <2>1, <2>2
  <2>3. Len(saves') \in 1..Len(saves')
    BY <1>1
  <2> QED
    BY <1>1, <2>2, <2>3 DEF WritesOf
<1>3. ASSUME NEW p \in LifeOps \ {o} PROVE WritesOf(p)' = WritesOf(p)
  <2>1. ASSUME NEW i \in 1..Len(saves'), saves'[i].by = p PROVE i \in 1..Len(saves)
    BY <1>1, <2>1
  <2>2. \A i \in 1..Len(saves) : i \in 1..Len(saves')
    BY <1>1
  <2> QED
    BY <1>1, <2>1, <2>2 DEF WritesOf
<1> QED
  BY <1>2, <1>3

\* The oldest write leaves the queue.
LEMMA LifeTailIs ==
  ASSUME LifeStateOK, saves # <<>>, saves' = Tail(saves)
  PROVE  /\ saves' \in Seq(Write) /\ Len(saves') = Len(saves) - 1 /\ Len(saves) \in Nat \ {0}
         /\ \A i \in 1..Len(saves') : saves'[i] = saves[i + 1] /\ i + 1 \in 1..Len(saves)
         /\ Head(saves) = saves[1] /\ saves[1] \in Write /\ 1 \in 1..Len(saves)
<1>1. saves \in Seq(Write) /\ Len(saves) \in Nat \ {0}
  BY DEF LifeStateOK
<1>2. /\ Head(saves) \in Write /\ saves' \in Seq(Write) /\ Len(saves') = Len(saves) - 1
      /\ \A i \in 1..Len(saves') : saves'[i] = saves[i + 1]
  BY <1>1, HeadTailProperties
<1>3. \A i \in 1..Len(saves') : i + 1 \in 1..Len(saves)
  BY <1>1, <1>2
<1>4. Head(saves) = saves[1] /\ 1 \in 1..Len(saves)
  BY <1>1
<1> QED
  BY <1>1, <1>2, <1>3, <1>4

\* The writes of an operation move up; the oldest one is gone.
LEMMA TailWrites ==
  ASSUME LifeStateOK, saves # <<>>, saves' = Tail(saves), NEW p \in LifeOps
  PROVE  /\ WritesOf(p)' = {i \in 1..Len(saves') : i + 1 \in WritesOf(p)}
         /\ WritesOf(p) = {} => WritesOf(p)' = {}
         /\ WritesOf(p) = {1} => WritesOf(p)' = {}
         /\ \A j \in 2..Len(saves) : WritesOf(p) = {j} => WritesOf(p)' = {j - 1} /\ j - 1 \in 1..Len(saves')
         /\ 1 \in WritesOf(p) <=> Head(saves).by = p
<1>1. /\ Len(saves') = Len(saves) - 1 /\ Len(saves) \in Nat \ {0}
      /\ \A i \in 1..Len(saves') : saves'[i] = saves[i + 1] /\ i + 1 \in 1..Len(saves)
      /\ Head(saves) = saves[1] /\ 1 \in 1..Len(saves)
  BY LifeTailIs
<1>2. WritesOf(p)' = {i \in 1..Len(saves') : i + 1 \in WritesOf(p)}
  BY <1>1 DEF WritesOf
<1>3. WritesOf(p) = {} => WritesOf(p)' = {}
  BY <1>2
<1>4. WritesOf(p) = {1} => WritesOf(p)' = {}
  <2>1. \A i \in 1..Len(saves') : i + 1 # 1
    BY <1>1
  <2> QED
    BY <1>2, <2>1
<1>5. ASSUME NEW j \in 2..Len(saves), WritesOf(p) = {j}
      PROVE  WritesOf(p)' = {j - 1} /\ j - 1 \in 1..Len(saves')
  <2>1. j - 1 \in 1..Len(saves') /\ (j - 1) + 1 = j
    BY <1>1
  <2>2. \A i \in 1..Len(saves') : i + 1 = j <=> i = j - 1
    BY <1>1
  <2> QED
    BY <1>2, <1>5, <2>1, <2>2
<1>6. 1 \in WritesOf(p) <=> Head(saves).by = p
  BY <1>1 DEF WritesOf
<1> QED
  BY <1>2, <1>3, <1>4, <1>5, <1>6

\* What an operation does to the others: those at work are children that stay in use of
\* the place, and nothing is written for them.
LEMMA OneMoves ==
  ASSUME LifeInv, LifeStateOK', NEW o \in LifeOps, life'[o] # "new", AtWork(o)' => AtPlace(o)',
         saves' = saves \/ \E state \in Held \cup {"released"} : Save(o, state),
         \A p \in LifeOps \ {o} :
           /\ life'[p] = life[p]
           /\ AtWork(p) => LifeKind[p] = "child" /\ p \in place'.children /\ InUse'
  PROVE  PlacesInv' /\ NewInv'
<1>1. \A p \in LifeOps \ {o} : WritesOf(p)' = WritesOf(p)
  <2>1. CASE saves' = saves
    BY <2>1 DEF WritesOf
  <2>2. CASE \E state \in Held \cup {"released"} : Save(o, state)
    BY <2>2, SaveWrites DEF LifeInv
  <2> QED
    BY <2>1, <2>2
<1>2. /\ \A i \in 1..Len(saves) : i \in 1..Len(saves')
      /\ \A i \in 1..Len(saves') : saves'[i].by # o => i \in 1..Len(saves) /\ saves'[i] = saves[i]
  <2>1. CASE saves' = saves
    BY <2>1
  <2>2. CASE \E state \in Held \cup {"released"} : Save(o, state)
    <3>1. PICK state \in Held \cup {"released"} : Save(o, state)
      BY <2>2
    <3>2. /\ Len(saves') = Len(saves) + 1 /\ Len(saves) \in Nat
          /\ \A i \in 1..Len(saves) : saves'[i] = saves[i]
          /\ saves'[Len(saves')].by = o
      BY <3>1, SaveIs DEF LifeInv, LifeStateOK
    <3> QED
      BY <3>2
  <2> QED
    BY <2>1, <2>2
<1>3. NewInv'
  BY <1>1 DEF LifeInv, NewInv
<1>4. ASSUME NEW p \in LifeOps \ {o}, AtWork(p)' PROVE AtPlace(p)'
  <2>1. AtWork(p)
    BY <1>4 DEF AtWork, Ended
  <2>2. LifeKind[p] = "child" /\ p \in place'.children /\ InUse' /\ life'[p] = life[p]
    BY <2>1
  <2>3. ChildWrites(p)
    BY <2>1, <2>2 DEF LifeInv, PlacesInv, AtPlace
  <2>4. ChildWrites(p)'
    BY <1>1, <1>2, <2>2, <2>3 DEF ChildWrites
  <2> QED
    BY <2>2, <2>4 DEF AtPlace
<1> QED
  BY <1>3, <1>4 DEF PlacesInv

\* A write that does not release changes nothing about what is on record.
LEMMA SaveOnRecord ==
  ASSUME LifeInv, NEW o \in LifeOps, NEW state \in Held, Save(o, state), record' = record,
         record.state \in Held, browser = "on" \/ saves = <<>>
  PROVE  OnRecord'
<1>1. /\ Len(saves') = Len(saves) + 1 /\ Len(saves) \in Nat
      /\ \A i \in 1..Len(saves) : saves'[i] = saves[i]
      /\ saves'[Len(saves')].state = state
  BY SaveIs DEF LifeInv, LifeStateOK
<1>2. \A i \in 1..Len(saves) : saves[i].state # "released"
  <2>1. CASE browser = "on"
    BY <2>1 DEF LifeInv, OnRecord
  <2>2. CASE saves = <<>>
    BY <2>2
  <2> QED
    BY <2>1, <2>2
<1>3. state # "released"
  BY DEF Held
<1>4. \A i \in 1..Len(saves') : saves'[i].state # "released"
  BY <1>1, <1>2, <1>3
<1> QED
  BY <1>4 DEF OnRecord

\* An operation that ends badly leaves a place that is still in use, unless it was a
\* connect whose adapter had not begun.
LEMMA FailedIs ==
  ASSUME LifeInv, NEW o \in LifeOps, AtWork(o), LifeFailed(o)
  PROVE  /\ life' \in [LifeOps -> Stages] /\ life'[o] \in {"refused", "unknown"}
         /\ \A p \in LifeOps \ {o} : life'[p] = life[p]
         /\ place' \in Place /\ leased' \subseteq LifeOps
         /\ LifeKind[o] # "connect" => InUse' /\ place'.children = place.children \ {o}
         /\ LifeKind[o] = "connect" =>
              \/ life[o] = "saving" /\ place'.state = place.state
              \/ life[o] = "admitted" /\ saves = <<>>
              \/ place'.state = "quarantined"
<1>1. life \in [LifeOps -> Stages] /\ place \in Place /\ leased \subseteq LifeOps
  BY DEF LifeInv, LifeStateOK
<1>2. life' \in [LifeOps -> Stages] /\ life'[o] \in {"refused", "unknown"}
  BY <1>1 DEF LifeFailed, LifeMoved, Stages
<1>3. \A p \in LifeOps \ {o} : life'[p] = life[p]
  BY <1>1 DEF LifeFailed, LifeMoved
<1>4. leased' \subseteq LifeOps
  BY <1>1 DEF LifeFailed
<1>5. place.state \in Held \cup {"none", "released"} /\ "quarantined" \in Held \cup {"none", "released"}
  BY <1>1 DEF Place, Held
<1>6. place' \in Place
  BY <1>1, <1>5, LeftIs, NewSlotIs DEF LifeFailed
<1>7. AtPlace(o)
  BY DEF LifeInv, PlacesInv
<1>8. ASSUME LifeKind[o] # "connect" PROVE InUse' /\ place'.children = place.children \ {o}
  <2>1. InUse
    BY <1>7, <1>8, KindsOf DEF AtPlace, Takes
  <2>2. place' = Left(place, o, place.state) \/ place' = Left(place, o, "quarantined")
    BY <1>8 DEF LifeFailed
  <2>3. place'.children = place.children \ {o} /\ place'.state \in {place.state, "quarantined"}
    BY <1>1, <1>5, <2>1, <2>2, LeftIs DEF InUse
  <2> QED
    BY <2>1, <2>3 DEF InUse
<1>9. ASSUME LifeKind[o] = "connect"
      PROVE  \/ life[o] = "saving" /\ place'.state = place.state
             \/ life[o] = "admitted" /\ saves = <<>>
             \/ place'.state = "quarantined"
  <2>1. Connects(o)
    BY <1>7, <1>9 DEF AtPlace
  <2>2. CASE life[o] = "saving"
    <3>1. place' = Left(place, o, place.state)
      BY <2>2 DEF LifeFailed
    <3> QED
      BY <1>1, <1>5, <2>2, <3>1, LeftIs
  <2>3. CASE life[o] = "admitted"
    BY <2>1, <2>3 DEF Connects
  <2>4. CASE life[o] \notin {"saving", "admitted"}
    <3>1. place' = Left(place, o, "quarantined") /\ place.state = "connecting"
      BY <2>1, <2>4 DEF LifeFailed, Connects
    <3> QED
      BY <1>1, <1>5, <3>1, LeftIs
  <2> QED
    BY <2>2, <2>3, <2>4
<1> QED
  BY <1>2, <1>3, <1>4, <1>6, <1>8, <1>9

-----------------------------------------------------------------------------
(* The lifetime of a browser: the admissions.                              *)

\* Those at work at a place in use that nobody has taken are its children.
LEMMA UsersAreChildren ==
  ASSUME LifeInv, place.taken = "no", InUse, NEW p \in LifeOps, AtWork(p)
  PROVE  LifeKind[p] = "child" /\ p \in place.children
<1>1. AtPlace(p)
  BY DEF LifeInv, PlacesInv
<1>2. place.state \in Held /\ place.state # "connecting"
  BY DEF InUse, Held
<1>3. LifeKind[p] # "connect"
  BY <1>1, <1>2 DEF AtPlace, Connects
<1>4. LifeKind[p] \notin {"disconnect", "recover", "shutdown"}
  BY <1>1, KindsOf DEF AtPlace, Takes
<1> QED
  BY <1>1, <1>3, <1>4, KindsOf DEF AtPlace

\* Whoever is refused changes nothing.
LEMMA RefusedKeeps ==
  ASSUME LifeInv, lifeUp, NEW o \in LifeOps, life[o] = "new", LifeMoved(o, "refused"),
         UNCHANGED <<place, record, known, saves, leased, browser, lifeUp>>
  PROVE  LifeInv'
<1>1. life \in [LifeOps -> Stages]
  BY DEF LifeInv, LifeStateOK
<1>2. life' \in [LifeOps -> Stages] /\ life'[o] = "refused" /\ \A p \in LifeOps \ {o} : life'[p] = life[p]
  BY <1>1 DEF LifeMoved, Stages
<1>3. LifeStateOK'
  BY <1>2 DEF LifeInv, LifeStateOK
<1>4. ASSUME NEW p \in LifeOps, AtWork(p)' PROVE AtPlace(p)'
  <2>1. p # o /\ life'[p] = life[p] /\ AtWork(p)
    BY <1>2, <1>4 DEF AtWork, Ended
  <2>2. AtPlace(p)
    BY <2>1 DEF LifeInv, PlacesInv
  <2>3. IsAlone(p) => IsAlone(p)'
    BY <1>2 DEF IsAlone, Ended
  <2>4. WritesOf(p)' = WritesOf(p) /\ (InUse <=> InUse')
    BY DEF WritesOf, InUse
  <2>5. ChildWrites(p) => ChildWrites(p)'
    BY <2>1, <2>4 DEF ChildWrites
  <2>6. LastWrite(p) => LastWrite(p)'
    BY <2>1, <2>4 DEF LastWrite
  <2>7. Connects(p) => Connects(p)'
    BY <2>1 DEF Connects
  <2>8. Takes(p) => Takes(p)'
    BY <2>4 DEF Takes
  <2> QED
    BY <2>2, <2>3, <2>4, <2>5, <2>6, <2>7, <2>8 DEF AtPlace
<1>5. NewInv'
  BY <1>2 DEF LifeInv, NewInv, WritesOf
<1>6. QuietWhenFree'
  BY <1>2 DEF LifeInv, QuietWhenFree
<1>7. OnRecord' /\ Memory'
  BY <1>2 DEF LifeInv, OnRecord, Memory, Ended
<1> QED
  BY <1>3, <1>4, <1>5, <1>6, <1>7 DEF LifeInv, PlacesInv

\* A connect is admitted to a browser that nobody holds.
LEMMA ConnectKeeps ==
  ASSUME LifeInv, lifeUp, NEW o \in LifeOps, ConnectBrowser(o), UNCHANGED lifeUp
  PROVE  LifeInv'
<1>1. CASE ~MayConnect
  BY <1>1, RefusedKeeps DEF ConnectBrowser, OthersRun
<1>2. CASE MayConnect
  <2>0. /\ life[o] = "new" /\ LifeKind[o] = "connect" /\ leased = {} /\ LifeMoved(o, "saving")
        /\ leased' = {o} /\ Save(o, "connecting") /\ UNCHANGED <<place, known, browser, record>>
    BY <1>2 DEF ConnectBrowser, OthersRun
  <2>1. \A p \in LifeOps : Ended(p)
    <3> SUFFICES ASSUME NEW p \in LifeOps, AtWork(p) PROVE FALSE
      BY DEF AtWork
    <3>1. AtPlace(p) /\ place.state \notin Held
      BY <1>2 DEF LifeInv, PlacesInv, MayConnect
    <3>2. ~InUse
      BY <3>1 DEF InUse, Held
    <3> QED
      BY <2>0, <3>1, <3>2, KindsOf DEF AtPlace, Connects, Takes
  <2>2. saves = <<>>
    BY <1>2, <2>1 DEF LifeInv, QuietWhenFree, MayConnect, Ended
  <2>3. browser = "off"
    BY <1>2 DEF LifeInv, LifeStateOK, OnRecord, Memory, MayConnect
  <2>4. life \in [LifeOps -> Stages]
    BY DEF LifeInv, LifeStateOK
  <2>5. life' \in [LifeOps -> Stages] /\ life'[o] = "saving" /\ \A p \in LifeOps \ {o} : life'[p] = life[p]
    BY <2>0, <2>4 DEF LifeMoved, Stages
  <2>6. /\ saves' \in Seq(Write) /\ saves' # <<>> /\ Len(saves') = Len(saves) + 1
        /\ Head(saves').state = "connecting"
    BY <2>0, <2>2, SaveIs DEF LifeInv, Held
  <2>7. WritesOf(o)' = {Len(saves')}
    BY <2>0, SaveWrites DEF LifeInv, NewInv, Held
  <2>8. LifeStateOK'
    BY <2>0, <2>5, <2>6 DEF LifeInv, LifeStateOK
  <2>9. IsAlone(o)' /\ LastWrite(o)'
    BY <2>1, <2>5, <2>6, <2>7 DEF IsAlone, LastWrite, Ended
  <2>10. Connects(o)'
    <3>1. Len(saves') <= 1
      BY <2>2, <2>6
    <3> QED
      BY <1>2, <2>0, <2>3, <2>5, <2>6, <3>1 DEF Connects, MayConnect
  <2>11. AtPlace(o)'
    BY <2>0, <2>9, <2>10 DEF AtPlace
  <2>12. PlacesInv' /\ NewInv'
    BY <2>0, <2>1, <2>5, <2>8, <2>11, OneMoves DEF AtWork, Held
  <2>13. QuietWhenFree' /\ OnRecord' /\ Memory'
    BY <2>0, <2>3, <2>5 DEF LifeInv, QuietWhenFree, OnRecord, Memory
  <2> QED
    BY <2>8, <2>12, <2>13 DEF LifeInv
<1> QED
  BY <1>1, <1>2

\* A child joins the others, and a disconnect comes when there are none.
LEMMA UseKeeps ==
  ASSUME LifeInv, lifeUp, NEW o \in LifeOps, Use(o), UNCHANGED lifeUp
  PROVE  LifeInv'
<1> DEFINE admits == place.state = "active" /\ place.lineage = LifeLineage[o] /\ SlotAdmits(o)
<1>1. CASE ~admits
  BY <1>1, RefusedKeeps DEF Use, OthersRun
<1>2. CASE admits
  <2>0. /\ life[o] = "new" /\ LifeKind[o] \in {"child", "disconnect"} /\ LifeMoved(o, "saving")
        /\ Save(o, "active") /\ UNCHANGED <<known, browser, record>>
        /\ leased' = IF Exclusive(o) THEN {o} ELSE leased
        /\ place' = [place EXCEPT !.children = @ \cup {o}, !.ops = @ \cup {o},
                                  !.taken = IF Exclusive(o) THEN o ELSE @]
    BY <1>2 DEF Use, OthersRun
  <2>1. InUse /\ place.taken = "no" /\ place.state = "active"
    BY <1>2 DEF InUse, SlotAdmits
  <2>2. \A p \in LifeOps : AtWork(p) => LifeKind[p] = "child" /\ p \in place.children
    BY <2>1, UsersAreChildren
  <2>3. LifeKind[o] = "disconnect" => \A p \in LifeOps : Ended(p)
    BY <1>2, <2>2 DEF SlotAdmits, AtWork
  <2>4. life \in [LifeOps -> Stages] /\ place \in Place /\ leased \subseteq LifeOps
    BY DEF LifeInv, LifeStateOK
  <2>5. life' \in [LifeOps -> Stages] /\ life'[o] = "saving" /\ \A p \in LifeOps \ {o} : life'[p] = life[p]
    BY <2>0, <2>4 DEF LifeMoved, Stages
  <2>6. /\ place'.state = "active" /\ place'.children = place.children \cup {o}
        /\ LifeKind[o] = "disconnect" => place'.taken = o
    BY <2>0, <2>1, <2>4 DEF Place, Exclusive
  <2>7. place' \in Place
    BY <2>0, <2>4 DEF Place
  <2>8. saves' \in Seq(Write) /\ saves' # <<>> /\ Len(saves') = Len(saves) + 1 /\ Len(saves) \in Nat
    BY <2>0, SaveIs DEF LifeInv, LifeStateOK, Held
  <2>9. WritesOf(o)' = {Len(saves')}
    BY <2>0, SaveWrites DEF LifeInv, NewInv, Held
  <2>10. LifeStateOK'
    BY <2>0, <2>4, <2>5, <2>7, <2>8 DEF LifeInv, LifeStateOK
  <2>11. InUse'
    BY <2>6 DEF InUse
  <2>12. AtPlace(o)'
    <3>1. CASE LifeKind[o] = "child"
      <4>1. Len(saves') \in 1..Len(saves')
        BY <2>8
      <4>2. ChildWrites(o)'
        BY <2>5, <2>9, <4>1 DEF ChildWrites
      <4> QED
        BY <2>6, <2>11, <3>1, <4>2 DEF AtPlace
    <3>2. CASE LifeKind[o] = "disconnect"
      <4>1. IsAlone(o)' /\ LastWrite(o)'
        BY <2>3, <2>5, <2>8, <2>9, <3>2 DEF IsAlone, LastWrite, Ended
      <4>2. Takes(o)'
        BY <2>6, <2>11, <3>2 DEF Takes
      <4> QED
        BY <3>2, <4>1, <4>2 DEF AtPlace
    <3> QED
      BY <2>0, <3>1, <3>2
  <2>13. PlacesInv' /\ NewInv'
    BY <2>0, <2>2, <2>5, <2>6, <2>10, <2>11, <2>12, OneMoves DEF Held
  <2>14. QuietWhenFree'
    BY <2>6 DEF QuietWhenFree, Held
  <2>15. OnRecord'
    <3>1. CASE browser = "on"
      BY <2>0, <3>1, SaveOnRecord DEF LifeInv, OnRecord, Held
    <3>2. CASE browser # "on"
      BY <2>0, <3>2 DEF OnRecord
    <3> QED
      BY <3>1, <3>2
  <2>16. Memory'
    BY <2>0 DEF LifeInv, Memory
  <2> QED
    BY <2>10, <2>13, <2>14, <2>15, <2>16 DEF LifeInv
<1> QED
  BY <1>1, <1>2

\* A cleanup takes an idle place.
LEMMA CleanKeeps ==
  ASSUME LifeInv, lifeUp, NEW o \in LifeOps, Clean(o), UNCHANGED lifeUp
  PROVE  LifeInv'
<1>1. CASE LifeMoved(o, "refused") /\ UNCHANGED place
  BY <1>1, RefusedKeeps DEF Clean, OthersRun
<1>2. CASE ~(LifeMoved(o, "refused") /\ UNCHANGED place)
  <2>0. /\ life[o] = "new" /\ LifeKind[o] \in {"recover", "shutdown"} /\ LifeMoved(o, "running")
        /\ place' = [place EXCEPT !.taken = o] /\ place.children = {} /\ place.taken = "no" /\ InUse
        /\ UNCHANGED <<known, saves, leased, browser, record>>
    BY <1>2 DEF Clean, Cleans, OthersRun, InUse
  <2>1. \A p \in LifeOps : Ended(p)
    BY <2>0, UsersAreChildren DEF AtWork
  <2>2. life \in [LifeOps -> Stages] /\ place \in Place
    BY DEF LifeInv, LifeStateOK
  <2>3. life' \in [LifeOps -> Stages] /\ life'[o] = "running" /\ \A p \in LifeOps \ {o} : life'[p] = life[p]
    BY <2>0, <2>2 DEF LifeMoved, Stages
  <2>4. place' \in Place /\ place'.state = place.state /\ place'.taken = o
    BY <2>0, <2>2 DEF Place
  <2>5. LifeStateOK'
    BY <2>0, <2>3, <2>4 DEF LifeInv, LifeStateOK
  <2>6. InUse'
    BY <2>0, <2>4 DEF InUse
  <2>7. WritesOf(o)' = {}
    BY <2>0 DEF LifeInv, NewInv, WritesOf
  <2>8. AtPlace(o)'
    BY <2>0, <2>1, <2>3, <2>4, <2>6, <2>7 DEF AtPlace, IsAlone, LastWrite, Takes, Ended
  <2>9. PlacesInv' /\ NewInv'
    BY <2>0, <2>1, <2>3, <2>5, <2>8, OneMoves DEF AtWork
  <2>10. QuietWhenFree'
    BY <2>6 DEF QuietWhenFree, InUse, Held
  <2>11. OnRecord' /\ Memory'
    BY <2>0 DEF LifeInv, OnRecord, Memory
  <2> QED
    BY <2>5, <2>9, <2>10, <2>11 DEF LifeInv
<1> QED
  BY <1>1, <1>2

\* The adapter begins.
LEMMA StartKeeps ==
  ASSUME LifeInv, lifeUp, NEW o \in LifeOps, Start(o), UNCHANGED lifeUp
  PROVE  LifeInv'
<1>0. /\ life[o] = "admitted" /\ LifeMoved(o, "running")
      /\ UNCHANGED <<place, known, saves, leased, browser, record>>
  BY DEF Start, OthersRun
<1>1. life \in [LifeOps -> Stages] /\ AtWork(o) /\ AtPlace(o)
  BY <1>0 DEF LifeInv, LifeStateOK, PlacesInv, AtWork, Ended
<1>2. life' \in [LifeOps -> Stages] /\ life'[o] = "running" /\ \A p \in LifeOps \ {o} : life'[p] = life[p]
  BY <1>0, <1>1 DEF LifeMoved, Stages
<1>3. LifeStateOK'
  BY <1>0, <1>2 DEF LifeInv, LifeStateOK
<1>4. WritesOf(o)' = WritesOf(o) /\ (InUse <=> InUse')
  BY <1>0 DEF WritesOf, InUse
<1>5. /\ IsAlone(o) => IsAlone(o)'
      /\ ChildWrites(o) => ChildWrites(o)'
      /\ LastWrite(o) => LastWrite(o)'
      /\ Takes(o) => Takes(o)'
      /\ Connects(o) => Connects(o)'
  <2>1. IsAlone(o) => IsAlone(o)'
    BY <1>2 DEF IsAlone, Ended
  <2>2. ChildWrites(o) => ChildWrites(o)'
    BY <1>0, <1>2, <1>4 DEF ChildWrites
  <2>3. LastWrite(o) => LastWrite(o)'
    BY <1>0, <1>2, <1>4 DEF LastWrite
  <2>4. Takes(o) => Takes(o)'
    BY <1>0, <1>4 DEF Takes
  <2>5. Connects(o) => Connects(o)'
    BY <1>0, <1>2 DEF Connects
  <2> QED
    BY <2>1, <2>2, <2>3, <2>4, <2>5
<1>6. AtPlace(o)'
  BY <1>0, <1>1, <1>4, <1>5 DEF AtPlace
<1>7. ASSUME NEW p \in LifeOps \ {o}, AtWork(p)
      PROVE  LifeKind[p] = "child" /\ p \in place'.children /\ InUse'
  <2>1. LifeKind[p] = "child" /\ AtPlace(p)
    BY <1>1, <1>7, OthersAreChildren DEF LifeInv, PlacesInv
  <2> QED
    BY <1>0, <1>4, <2>1 DEF AtPlace
<1>8. PlacesInv' /\ NewInv'
  BY <1>0, <1>2, <1>3, <1>6, <1>7, OneMoves
<1>9. QuietWhenFree'
  BY <1>0, <1>2 DEF LifeInv, QuietWhenFree
<1>10. OnRecord' /\ Memory'
  BY <1>0 DEF LifeInv, OnRecord, Memory
<1> QED
  BY <1>3, <1>8, <1>9, <1>10 DEF LifeInv

-----------------------------------------------------------------------------
(* The lifetime of a browser: the adapter, the stage and the commit.       *)

\* While an operation is at work the others at work are children of the place.
LEMMA OthersStay ==
  ASSUME LifeInv, NEW o \in LifeOps, AtWork(o), NEW p \in LifeOps \ {o}, AtWork(p)
  PROVE  LifeKind[o] = "child" /\ LifeKind[p] = "child" /\ p \in place.children /\ InUse
<1>1. LifeKind[o] = "child" /\ LifeKind[p] = "child" /\ AtPlace(p)
  BY OthersAreChildren DEF LifeInv, PlacesInv
<1> QED
  BY <1>1 DEF AtPlace

\* An operation whose adapter has answered waits for the write of its result.
LEMMA StagingKeeps ==
  ASSUME LifeInv, lifeUp, NEW o \in LifeOps, life[o] = "running", LifeMoved(o, "staging"),
         NEW state \in {"active", "quarantined", "released"}, Save(o, state),
         LifeKind[o] = "child" => state = "quarantined",
         LifeKind[o] = "connect" => state # "released",
         browser' \in {"on", "off"},
         browser' = "on" => state # "released" /\ (LifeKind[o] = "connect" \/ browser = "on"),
         UNCHANGED <<place, record, known, leased, lifeUp>>
  PROVE  LifeInv'
<1>0. state \in Held \cup {"released"} /\ (state # "released" => state \in Held)
  BY DEF Held
<1>1. life \in [LifeOps -> Stages] /\ AtWork(o) /\ AtPlace(o)
  BY DEF LifeInv, LifeStateOK, PlacesInv, AtWork, Ended
<1>2. life' \in [LifeOps -> Stages] /\ life'[o] = "staging" /\ \A p \in LifeOps \ {o} : life'[p] = life[p]
  BY <1>1 DEF LifeMoved, Stages
<1>3. /\ saves' \in Seq(Write) /\ saves' # <<>> /\ Len(saves') = Len(saves) + 1 /\ Len(saves) \in Nat
      /\ saves'[Len(saves')].state = state
      /\ saves = <<>> => Head(saves').state = state
  BY <1>0, SaveIs DEF LifeInv, LifeStateOK
<1>4. WritesOf(o) = {}
  BY <1>1, KindsOf DEF AtPlace, ChildWrites, LastWrite
<1>5. WritesOf(o)' = {Len(saves')}
  BY <1>0, <1>4, SaveWrites DEF LifeInv
<1>6. LifeStateOK'
  BY <1>2, <1>3 DEF LifeInv, LifeStateOK
<1>7. (InUse <=> InUse') /\ (Takes(o) => Takes(o)')
  BY DEF InUse, Takes
<1>8. ASSUME LifeKind[o] = "child" PROVE ChildWrites(o)'
  <2>1. Len(saves') \in 1..Len(saves')
    BY <1>3
  <2>2. ASSUME NEW i \in 1..Len(saves'), saves'[i].by = o PROVE saves'[i].state = "quarantined"
    <3>1. i \in WritesOf(o)'
      BY <2>2 DEF WritesOf
    <3> QED
      BY <1>3, <1>5, <1>8, <3>1
  <2> QED
    BY <1>2, <1>5, <2>1, <2>2 DEF ChildWrites
<1>9. ASSUME LifeKind[o] # "child" PROVE IsAlone(o)' /\ LastWrite(o)'
  <2>1. IsAlone(o)
    BY <1>1, <1>9 DEF AtPlace
  <2> QED
    BY <1>2, <1>3, <1>5, <2>1 DEF IsAlone, LastWrite, Ended
<1>10. ASSUME LifeKind[o] = "connect"
       PROVE  Connects(o)' /\ saves = <<>> /\ place.state = "connecting" /\ record.state \in Held
  <2>1. Connects(o)
    BY <1>1, <1>10 DEF AtPlace
  <2>2. saves = <<>> /\ place.state = "connecting" /\ record.state \in Held /\ o \in leased
    BY <2>1 DEF Connects
  <2>3. Len(saves') <= 1
    BY <1>3, <2>2
  <2>4. Head(saves').state \in Held
    BY <1>0, <1>3, <1>10, <2>2
  <2> QED
    BY <1>2, <2>2, <2>3, <2>4 DEF Connects
<1>11. AtPlace(o)'
  BY <1>1, <1>7, <1>8, <1>9, <1>10 DEF AtPlace
<1>12. PlacesInv' /\ NewInv'
  <2>1. ASSUME NEW p \in LifeOps \ {o}, AtWork(p)
        PROVE  LifeKind[p] = "child" /\ p \in place'.children /\ InUse'
    BY <1>1, <1>7, <2>1, OthersStay
  <2> QED
    BY <1>0, <1>2, <1>6, <1>11, <2>1, OneMoves
<1>13. QuietWhenFree'
  <2>1. place.state \in Held
    BY <1>1, <1>10, KindsOf DEF AtPlace, Takes, InUse, Held
  <2> QED
    BY <2>1 DEF QuietWhenFree
<1>14. OnRecord'
  <2>1. CASE browser' = "on"
    <3>1. record.state \in Held /\ (browser = "on" \/ saves = <<>>)
      BY <1>10, <2>1 DEF LifeInv, OnRecord
    <3> QED
      BY <1>0, <2>1, <3>1, SaveOnRecord
  <2>2. CASE browser' # "on"
    BY <2>2 DEF OnRecord
  <2> QED
    BY <2>1, <2>2
<1>15. Memory'
  BY DEF LifeInv, Memory
<1> QED
  BY <1>6, <1>12, <1>13, <1>14, <1>15 DEF LifeInv

\* An operation that ends without a write.
LEMMA EndingKeeps ==
  ASSUME LifeInv, lifeUp, NEW o \in LifeOps, AtWork(o),
         life' \in [LifeOps -> Stages], life'[o] \in {"refused", "unknown", "done"},
         \A p \in LifeOps \ {o} : life'[p] = life[p],
         place' \in Place, leased' \subseteq LifeOps, browser' \in {"on", "off"},
         LifeKind[o] = "child" => InUse' /\ place'.children = place.children \ {o},
         saves = <<>> \/ place'.state \in Held,
         browser' = "on" => browser = "on" \/ (LifeKind[o] = "connect" /\ life[o] = "running"),
         UNCHANGED <<record, known, saves, lifeUp>>
  PROVE  LifeInv'
<1>1. LifeStateOK'
  BY DEF LifeInv, LifeStateOK
<1>2. PlacesInv' /\ NewInv'
  <2>1. ASSUME NEW p \in LifeOps \ {o}, AtWork(p)
        PROVE  LifeKind[p] = "child" /\ p \in place'.children /\ InUse'
    BY <2>1, OthersStay
  <2>2. ~AtWork(o)'
    BY DEF AtWork, Ended
  <2> QED
    BY <1>1, <2>1, <2>2, OneMoves
<1>3. QuietWhenFree'
  BY DEF QuietWhenFree
<1>4. OnRecord'
  <2>1. CASE browser = "on"
    BY <2>1 DEF LifeInv, OnRecord
  <2>2. CASE LifeKind[o] = "connect" /\ life[o] = "running"
    <3>1. Connects(o)
      BY <2>2 DEF LifeInv, PlacesInv, AtPlace
    <3>2. saves = <<>> /\ record.state \in Held
      BY <2>2, <3>1 DEF Connects
    <3> QED
      BY <3>2 DEF OnRecord
  <2>3. CASE browser' # "on"
    BY <2>3 DEF OnRecord
  <2> QED
    BY <2>1, <2>2, <2>3
<1>5. Memory'
  BY DEF LifeInv, Memory
<1> QED
  BY <1>1, <1>2, <1>3, <1>4, <1>5 DEF LifeInv

\* The adapter succeeds: a child ends, the others wait for the record of it.
LEMMA SucceedKeeps ==
  ASSUME LifeInv, lifeUp, NEW o \in LifeOps, Succeed(o), UNCHANGED lifeUp
  PROVE  LifeInv'
<1>0. life[o] = "running" /\ browser' = Done(o) /\ UNCHANGED <<known, record, leased>>
  BY DEF Succeed, Verified, OthersRun
<1>1. life \in [LifeOps -> Stages] /\ AtWork(o) /\ AtPlace(o) /\ place \in Place /\ leased \subseteq LifeOps
      /\ browser \in {"on", "off"}
  BY <1>0 DEF LifeInv, LifeStateOK, PlacesInv, AtWork, Ended
<1>2. CASE LifeKind[o] = "child"
  <2>1. LifeMoved(o, "done") /\ place' = Left(place, o, place.state) /\ UNCHANGED saves
    BY <1>2 DEF Succeed
  <2>2. InUse
    BY <1>1, <1>2 DEF AtPlace
  <2>3. place.state \in Held \cup {"none", "released"}
    BY <1>1 DEF Place
  <2>4. place' \in Place /\ place'.state = place.state /\ place'.children = place.children \ {o}
    BY <1>1, <2>1, <2>3, LeftIs
  <2>5. InUse' /\ place'.state \in Held
    BY <2>2, <2>4 DEF InUse, Held
  <2>6. life' \in [LifeOps -> Stages] /\ life'[o] = "done" /\ \A p \in LifeOps \ {o} : life'[p] = life[p]
    BY <1>1, <2>1 DEF LifeMoved, Stages
  <2>7. browser' = browser
    BY <1>0, <1>2 DEF Done
  <2> QED
    BY <1>0, <1>1, <1>2, <2>1, <2>4, <2>5, <2>6, <2>7, EndingKeeps
<1>3. CASE LifeKind[o] = "connect"
  <2>1. LifeMoved(o, "staging") /\ Save(o, "active") /\ UNCHANGED place
    BY <1>3 DEF Succeed
  <2> QED
    BY <1>0, <1>3, <2>1, StagingKeeps DEF Done
<1>4. CASE LifeKind[o] \notin {"child", "connect"}
  <2>1. LifeMoved(o, "staging") /\ Save(o, "released") /\ UNCHANGED place
    BY <1>4 DEF Succeed
  <2> QED
    BY <1>0, <1>4, <2>1, StagingKeeps DEF Done
<1> QED
  BY <1>2, <1>3, <1>4

\* An operation that fails outside the store.
LEMMA FailureKeeps ==
  ASSUME LifeInv, lifeUp, NEW o \in LifeOps, AtWork(o), life[o] # "saving", LifeFailed(o),
         browser' \in {"on", "off"},
         browser' = "on" => browser = "on" \/ (LifeKind[o] = "connect" /\ life[o] = "running"),
         UNCHANGED <<record, known, saves, lifeUp>>
  PROVE  LifeInv'
<1>1. /\ life' \in [LifeOps -> Stages] /\ life'[o] \in {"refused", "unknown"}
      /\ \A p \in LifeOps \ {o} : life'[p] = life[p]
      /\ place' \in Place /\ leased' \subseteq LifeOps
      /\ LifeKind[o] # "connect" => InUse' /\ place'.children = place.children \ {o}
      /\ LifeKind[o] = "connect" => saves = <<>> \/ place'.state = "quarantined"
  BY FailedIs
<1>2. saves = <<>> \/ place'.state \in Held
  BY <1>1 DEF InUse, Held
<1>3. LifeKind[o] = "child" => InUse' /\ place'.children = place.children \ {o}
  BY <1>1
<1> QED
  BY <1>1, <1>2, <1>3, EndingKeeps

\* The adapter says that it failed.
LEMMA AnswerFailureKeeps ==
  ASSUME LifeInv, lifeUp, NEW o \in LifeOps, AnswerFailure(o), UNCHANGED lifeUp
  PROVE  LifeInv'
<1>0. life[o] = "running" /\ browser' \in {browser, Done(o)} /\ UNCHANGED <<known, record>>
  BY DEF AnswerFailure, OthersRun
<1>1. AtWork(o) /\ browser \in {"on", "off"}
  BY <1>0 DEF LifeInv, LifeStateOK, AtWork, Ended
<1>2. browser' \in {"on", "off"} /\ (browser' = "on" => browser = "on" \/ LifeKind[o] = "connect")
  BY <1>0, <1>1 DEF Done
<1>3. CASE Cleans(o)
  BY <1>0, <1>1, <1>2, <1>3, FailureKeeps DEF AnswerFailure
<1>4. CASE ~Cleans(o)
  <2>1. LifeMoved(o, "staging") /\ Save(o, "quarantined") /\ UNCHANGED <<place, leased>>
    BY <1>4 DEF AnswerFailure
  <2> QED
    BY <1>0, <1>2, <2>1, StagingKeeps
<1> QED
  BY <1>3, <1>4

\* An operation is cancelled, or runs out of time.
LEMMA AbortKeeps ==
  ASSUME LifeInv, lifeUp, NEW o \in LifeOps, Abort(o), UNCHANGED lifeUp
  PROVE  LifeInv'
<1>0. /\ life[o] \in {"admitted", "running", "staging", "staged", "condemned"} /\ LifeFailed(o)
      /\ browser' \in (IF life[o] = "running" THEN {browser, Done(o)} ELSE {browser})
      /\ UNCHANGED <<known, saves, record>>
  BY DEF Abort, OthersRun
<1>1. AtWork(o) /\ browser \in {"on", "off"}
  BY <1>0 DEF LifeInv, LifeStateOK, AtWork, Ended
<1>2. /\ browser' \in {"on", "off"}
      /\ browser' = "on" => browser = "on" \/ (LifeKind[o] = "connect" /\ life[o] = "running")
  BY <1>0, <1>1 DEF Done
<1> QED
  BY <1>0, <1>1, <1>2, FailureKeeps

\* The result is published.
LEMMA CommitKeeps ==
  ASSUME LifeInv, lifeUp, NEW o \in LifeOps, Commit(o), UNCHANGED lifeUp
  PROVE  LifeInv'
<1>0. life[o] \in {"staged", "condemned"} /\ UNCHANGED <<known, saves, browser, record>>
  BY DEF Commit, OthersRun
<1>1. /\ life \in [LifeOps -> Stages] /\ AtWork(o) /\ AtPlace(o) /\ place \in Place /\ leased \subseteq LifeOps
      /\ browser \in {"on", "off"}
  BY <1>0 DEF LifeInv, LifeStateOK, PlacesInv, AtWork, Ended
<1>2. {"active", "released", "quarantined"} \subseteq Held \cup {"none", "released"}
  BY DEF Held
<1>3. place.state \in Held
  <2>1. CASE LifeKind[o] = "connect"
    BY <1>0, <1>1, <2>1 DEF AtPlace, Connects, Held
  <2>2. CASE LifeKind[o] # "connect"
    BY <1>1, <2>2, KindsOf DEF AtPlace, Takes, InUse, Held
  <2> QED
    BY <2>1, <2>2
<1>4. place.state # "none"
  BY <1>3 DEF Held
<1>5. LifeKind[o] # "child" => saves = <<>>
  BY <1>0, <1>1 DEF AtPlace, LastWrite
<1>6. CASE life[o] = "condemned"
  <2>1. LifeMoved(o, "unknown") /\ place' = Left(place, o, "quarantined") /\ UNCHANGED leased
    BY <1>6 DEF Commit
  <2>2. place' \in Place /\ place'.state = "quarantined" /\ place'.children = place.children \ {o}
    BY <1>1, <1>2, <1>4, <2>1, LeftIs
  <2>3. InUse' /\ place'.state \in Held
    BY <2>2 DEF InUse, Held
  <2>4. life' \in [LifeOps -> Stages] /\ life'[o] = "unknown" /\ \A p \in LifeOps \ {o} : life'[p] = life[p]
    BY <1>1, <2>1 DEF LifeMoved, Stages
  <2> QED
    BY <1>0, <1>1, <2>1, <2>2, <2>3, <2>4, EndingKeeps
<1>7. CASE life[o] = "staged"
  <2>1. LifeKind[o] # "child"
    BY <1>1, <1>7 DEF AtPlace, ChildWrites
  <2>2. LifeMoved(o, "done") /\ leased' \subseteq LifeOps
    BY <1>1, <1>7 DEF Commit
  <2>3. place' = Left(place, o, "active") \/ place' = Left(place, o, "released")
    BY <1>7 DEF Commit
  <2>4. place' \in Place
    BY <1>1, <1>2, <2>3, LeftIs
  <2>5. life' \in [LifeOps -> Stages] /\ life'[o] = "done" /\ \A p \in LifeOps \ {o} : life'[p] = life[p]
    BY <1>1, <2>2 DEF LifeMoved, Stages
  <2> QED
    BY <1>0, <1>1, <1>5, <2>1, <2>2, <2>4, <2>5, EndingKeeps
<1> QED
  BY <1>0, <1>6, <1>7

\* A reservation that has expired is quarantined, and stays in use.
LEMMA ExpireKeeps ==
  ASSUME LifeInv, lifeUp, Expire, UNCHANGED lifeUp
  PROVE  LifeInv'
<1>0. /\ place.state = "active" /\ place' = [place EXCEPT !.state = "quarantined"]
      /\ UNCHANGED <<life, known, saves, leased, browser, record>>
  BY DEF Expire, OthersRun
<1>1. place \in Place
  BY DEF LifeInv, LifeStateOK
<1>2. /\ place' \in Place /\ place'.state = "quarantined" /\ place'.children = place.children
      /\ place'.taken = place.taken
  BY <1>0, <1>1 DEF Place, Held
<1>3. LifeStateOK'
  BY <1>0, <1>2 DEF LifeInv, LifeStateOK
<1>4. ASSUME NEW p \in LifeOps, AtWork(p)' PROVE AtPlace(p)'
  <2>1. AtPlace(p)
    BY <1>0, <1>4 DEF LifeInv, PlacesInv, AtWork, Ended
  <2>2. WritesOf(p)' = WritesOf(p) /\ InUse'
    BY <1>0, <1>2 DEF WritesOf, InUse
  <2>3. IsAlone(p) => IsAlone(p)'
    BY <1>0 DEF IsAlone, Ended
  <2>4. (ChildWrites(p) => ChildWrites(p)') /\ (LastWrite(p) => LastWrite(p)')
    BY <1>0, <2>2 DEF ChildWrites, LastWrite
  <2>5. LifeKind[p] # "connect"
    BY <1>0, <2>1 DEF AtPlace, Connects, Held
  <2>6. Takes(p) => Takes(p)'
    BY <1>2, <2>2 DEF Takes
  <2> QED
    BY <1>2, <2>1, <2>2, <2>3, <2>4, <2>5, <2>6 DEF AtPlace
<1>5. NewInv'
  BY <1>0 DEF LifeInv, NewInv, WritesOf
<1>6. QuietWhenFree'
  BY <1>2 DEF QuietWhenFree, Held
<1>7. OnRecord' /\ Memory'
  BY <1>0 DEF LifeInv, OnRecord, Memory, Ended
<1> QED
  BY <1>3, <1>4, <1>5, <1>6, <1>7 DEF LifeInv, PlacesInv

-----------------------------------------------------------------------------
(* The lifetime of a browser: the store.                                   *)

\* What an operation waits for is unchanged by the end of the write of another.
LEMMA ShiftKeeps ==
  ASSUME LifeInv, saves # <<>>, saves' = Tail(saves), NEW p \in LifeOps, Head(saves).by # p,
         life'[p] = life[p]
  PROVE  (ChildWrites(p) => ChildWrites(p)') /\ (LastWrite(p) => LastWrite(p)')
<1>1. /\ Len(saves') = Len(saves) - 1 /\ Len(saves) \in Nat \ {0}
      /\ \A i \in 1..Len(saves') : saves'[i] = saves[i + 1] /\ i + 1 \in 1..Len(saves)
      /\ saves' \in Seq(Write)
  BY LifeTailIs DEF LifeInv
<1>2. /\ WritesOf(p) = {} => WritesOf(p)' = {}
      /\ \A j \in 2..Len(saves) : WritesOf(p) = {j} => WritesOf(p)' = {j - 1} /\ j - 1 \in 1..Len(saves')
      /\ 1 \notin WritesOf(p)
  BY TailWrites DEF LifeInv
<1>3. \A i \in 1..Len(saves) : WritesOf(p) = {i} => i \in 2..Len(saves)
  BY <1>1, <1>2
<1>4. ASSUME ChildWrites(p) PROVE ChildWrites(p)'
  <2>1. life[p] \in {"saving", "staging"} => \E i \in 1..Len(saves') : WritesOf(p)' = {i}
    BY <1>2, <1>3, <1>4 DEF ChildWrites
  <2>2. life[p] \in {"admitted", "running"} => WritesOf(p)' = {}
    BY <1>2, <1>4 DEF ChildWrites
  <2>3. life[p] = "staging" => \A i \in 1..Len(saves') : saves'[i].by = p => saves'[i].state = "quarantined"
    BY <1>1, <1>4 DEF ChildWrites
  <2> QED
    BY <1>4, <2>1, <2>2, <2>3 DEF ChildWrites
<1>5. ASSUME LastWrite(p) PROVE LastWrite(p)'
  <2>1. ASSUME life[p] \in {"saving", "staging"} PROVE saves' # <<>> /\ WritesOf(p)' = {Len(saves')}
    <3>1. WritesOf(p) = {Len(saves)} /\ Len(saves) \in 1..Len(saves)
      BY <1>1, <1>5, <2>1 DEF LastWrite
    <3>2. Len(saves) \in 2..Len(saves)
      BY <1>3, <3>1
    <3>3. WritesOf(p)' = {Len(saves) - 1} /\ Len(saves) - 1 \in 1..Len(saves')
      BY <1>2, <3>1, <3>2
    <3>4. Len(saves) - 1 = Len(saves') /\ Len(saves') # 0
      BY <1>1, <3>3
    <3> QED
      BY <3>3, <3>4, EmptySeq
  <2>2. life[p] \in {"admitted", "running"} => WritesOf(p)' = {}
    BY <1>2, <1>5 DEF LastWrite
  <2>3. life[p] \notin {"staged", "condemned"}
    BY <1>5 DEF LastWrite
  <2> QED
    BY <2>1, <2>2, <2>3 DEF LastWrite
<1> QED
  BY <1>4, <1>5

\* What the oldest write means to the operation that made it.
LEMMA OldestWrite ==
  ASSUME LifeInv, saves # <<>>, saves' = Tail(saves), NEW o \in LifeOps, Head(saves).by = o, AtWork(o)
  PROVE  /\ life[o] \notin {"admitted", "running"}
         /\ life[o] \in {"saving", "staging"} => WritesOf(o)' = {}
         /\ LifeKind[o] # "child" => life[o] \in {"saving", "staging"} /\ saves' = <<>>
         /\ LifeKind[o] = "child" /\ life[o] = "staging" => Head(saves).state = "quarantined"
<1>1. /\ Len(saves') = Len(saves) - 1 /\ Len(saves) \in Nat \ {0} /\ saves' \in Seq(Write)
      /\ Head(saves) = saves[1] /\ 1 \in 1..Len(saves)
  BY LifeTailIs DEF LifeInv
<1>2. 1 \in WritesOf(o) /\ (WritesOf(o) = {1} => WritesOf(o)' = {})
  BY TailWrites DEF LifeInv
<1>3. AtPlace(o)
  BY DEF LifeInv, PlacesInv
<1>4. life[o] \notin {"admitted", "running"}
  BY <1>2, <1>3 DEF AtPlace, ChildWrites, LastWrite
<1>5. ASSUME LifeKind[o] # "child"
      PROVE  life[o] \in {"saving", "staging"} /\ saves' = <<>> /\ WritesOf(o)' = {}
  <2>1. LastWrite(o)
    BY <1>3, <1>5 DEF AtPlace
  <2>2. life[o] \in {"saving", "staging"}
    BY <1>4, <2>1, AtWorkIs DEF LastWrite, LifeInv
  <2>3. WritesOf(o) = {Len(saves)}
    BY <2>1, <2>2 DEF LastWrite
  <2>4. Len(saves) = 1
    BY <1>2, <2>3
  <2>5. Len(saves') = 0
    BY <1>1, <2>4
  <2> QED
    BY <1>1, <1>2, <2>2, <2>3, <2>4, <2>5, EmptySeq
<1>6. ASSUME LifeKind[o] = "child" PROVE /\ life[o] \in {"saving", "staging"} => WritesOf(o)' = {}
                                         /\ life[o] = "staging" => Head(saves).state = "quarantined"
  <2>1. ChildWrites(o)
    BY <1>3, <1>6 DEF AtPlace
  <2>2. life[o] \in {"saving", "staging"} => WritesOf(o) = {1}
    BY <1>2, <2>1 DEF ChildWrites
  <2> QED
    BY <1>1, <1>2, <2>1, <2>2 DEF ChildWrites
<1> QED
  BY <1>4, <1>5, <1>6

\* The others when a write ends: no connect is among them, and whoever has taken the
\* place is not disturbed by a write that nobody waits for.
LEMMA WriteOthers ==
  ASSUME LifeInv, saves # <<>>, saves' = Tail(saves), NEW o \in LifeOps, Head(saves).by = o,
         \A q \in LifeOps \ {o} : life'[q] = life[q],
         Ended(o) => life' = life /\ place' = place,
         LifeKind[o] = "child" => (InUse => InUse') /\ place.children \ {o} \subseteq place'.children,
         NEW p \in LifeOps \ {o}, AtWork(p)
  PROVE  AtPlace(p)'
<1>1. AtPlace(p) /\ (ChildWrites(p) => ChildWrites(p)') /\ (LastWrite(p) => LastWrite(p)')
  BY ShiftKeeps DEF LifeInv, PlacesInv
<1>2. CASE LifeKind[p] = "child"
  <2>1. p \in place.children /\ InUse /\ ChildWrites(p)
    BY <1>1, <1>2 DEF AtPlace
  <2>2. p \in place'.children /\ InUse'
    <3>1. CASE Ended(o)
      BY <2>1, <3>1 DEF InUse
    <3>2. CASE AtWork(o)
      BY <2>1, <3>2, OthersAreChildren
    <3> QED
      BY <3>1, <3>2 DEF AtWork
  <2> QED
    BY <1>1, <1>2, <2>1, <2>2 DEF AtPlace
<1>3. CASE LifeKind[p] # "child"
  <2>1. IsAlone(p) /\ LastWrite(p)
    BY <1>1, <1>3 DEF AtPlace
  <2>2. Ended(o) /\ life' = life /\ place' = place
    BY <2>1 DEF IsAlone
  <2>3. IsAlone(p)' /\ LastWrite(p)'
    BY <1>1, <2>1, <2>2 DEF IsAlone, Ended
  <2>4. LifeKind[p] # "connect"
    <3> SUFFICES ASSUME LifeKind[p] = "connect" PROVE FALSE
      OBVIOUS
    <3>1. Connects(p)
      BY <1>1 DEF AtPlace
    <3>2. Len(saves) \in Nat \ {0} /\ 1 \notin WritesOf(p)
      BY LifeTailIs, TailWrites DEF LifeInv
    <3>3. Len(saves) = 1 /\ life[p] \in {"saving", "staging"}
      BY <2>1, <3>1, <3>2, AtWorkIs DEF LifeInv, Connects, LastWrite
    <3>4. WritesOf(p) = {1}
      BY <2>1, <3>3 DEF LastWrite
    <3> QED
      BY <3>2, <3>4
  <2>5. Takes(p) => Takes(p)'
    BY <2>2 DEF Takes, InUse
  <2> QED
    BY <1>1, <1>3, <2>3, <2>4, <2>5 DEF AtPlace
<1> QED
  BY <1>2, <1>3

\* Nothing is left to write for a place that is free.
LEMMA WriteQuiet ==
  ASSUME LifeInv, saves # <<>>, saves' = Tail(saves)
  PROVE  QuietWhenFree => (place.state \notin Held => saves' = <<>>)
<1> SUFFICES ASSUME QuietWhenFree, place.state \notin Held PROVE saves' = <<>>
  OBVIOUS
<1>1. PICK c \in LifeOps : LifeKind[c] = "connect" /\ life[c] = "saving"
  BY DEF QuietWhenFree
<1>2. AtWork(c)
  BY <1>1 DEF AtWork, Ended
<1>3. LastWrite(c) /\ Len(saves) <= 1
  BY <1>1, <1>2 DEF LifeInv, PlacesInv, AtPlace, Connects
<1>4. Len(saves) \in Nat \ {0} /\ Len(saves') = Len(saves) - 1 /\ saves' \in Seq(Write)
  BY LifeTailIs DEF LifeInv
<1>5. Len(saves') = 0
  BY <1>3, <1>4
<1> QED
  BY <1>4, <1>5, EmptySeq

\* What the end of a write leaves, in parts: the queue is shorter, and the one who waited
\* goes on, or nobody moves.
LEMMA WriteKeeps ==
  ASSUME LifeInv, lifeUp, saves # <<>>, saves' = Tail(saves), NEW o \in LifeOps, Head(saves).by = o,
         life' \in [LifeOps -> Stages], \A q \in LifeOps \ {o} : life'[q] = life[q],
         life'[o] = "new" => life[o] = "new",
         place' \in Place, record' \in Record, known' \in Record, leased' \subseteq LifeOps,
         UNCHANGED <<browser, lifeUp>>,
         Ended(o) => life' = life /\ place' = place,
         LifeKind[o] = "child" => (InUse => InUse') /\ place.children \ {o} \subseteq place'.children,
         AtWork(o)' => AtPlace(o)',
         place' = place \/ saves' = <<>> \/ place'.state \in Held,
         browser = "on" => record'.state \in Held,
         known' = record'
  PROVE  LifeInv'
<1>1. /\ saves' \in Seq(Write)
      /\ \A i \in 1..Len(saves') : saves'[i] = saves[i + 1] /\ i + 1 \in 1..Len(saves)
  BY LifeTailIs DEF LifeInv
<1>2. LifeStateOK'
  BY <1>1 DEF LifeInv, LifeStateOK
<1>3. ASSUME NEW p \in LifeOps, AtWork(p)' PROVE AtPlace(p)'
  <2>1. CASE p = o
    BY <1>3, <2>1
  <2>2. CASE p # o
    <3>1. AtWork(p)
      BY <1>3, <2>2 DEF AtWork, Ended
    <3> QED
      BY <2>2, <3>1, WriteOthers
  <2> QED
    BY <2>1, <2>2
<1>4. NewInv'
  <2> SUFFICES ASSUME NEW p \in LifeOps, life'[p] = "new" PROVE WritesOf(p)' = {}
    BY DEF NewInv
  <2>1. life[p] = "new"
    OBVIOUS
  <2> QED
    BY <2>1, TailWrites DEF LifeInv, NewInv
<1>5. QuietWhenFree'
  <2>1. QuietWhenFree
    BY DEF LifeInv
  <2> QED
    BY <2>1, WriteQuiet DEF QuietWhenFree
<1>6. OnRecord'
  BY <1>1 DEF LifeInv, OnRecord
<1>7. Memory'
  BY DEF Memory
<1> QED
  BY <1>2, <1>3, <1>4, <1>5, <1>6, <1>7 DEF LifeInv, PlacesInv

\* The write is done.
LEMMA SavedKeeps ==
  ASSUME LifeInv, lifeUp, saves # <<>>, saves' = Tail(saves), NEW o \in LifeOps, Head(saves).by = o,
         record' = [state |-> Head(saves).state, revision |-> Head(saves).revision, lineage |-> Head(saves).lineage],
         known' = record', Saved(o, Head(saves).state), UNCHANGED <<browser, lifeUp>>
  PROVE  LifeInv'
<1>1. Head(saves) \in Write /\ saves[1] = Head(saves) /\ 1 \in 1..Len(saves)
  BY LifeTailIs DEF LifeInv
<1>2. record' \in Record /\ record'.state = Head(saves).state
  BY <1>1 DEF Record, Write
<1>3. browser = "on" => record'.state \in Held
  BY <1>1, <1>2 DEF LifeInv, OnRecord, Write
<1>4. life \in [LifeOps -> Stages] /\ place \in Place /\ leased \subseteq LifeOps
  BY DEF LifeInv, LifeStateOK
<1>5. ASSUME AtWork(o)
      PROVE  /\ AtPlace(o)
             /\ life[o] \notin {"admitted", "running"}
             /\ life[o] \in {"saving", "staging"} => WritesOf(o)' = {}
             /\ LifeKind[o] # "child" => life[o] \in {"saving", "staging"} /\ saves' = <<>>
             /\ LifeKind[o] = "child" /\ life[o] = "staging" => Head(saves).state = "quarantined"
  BY <1>5, OldestWrite DEF LifeInv, PlacesInv
<1>6. CASE life[o] = "saving"
  <2>1. /\ place' = IF LifeKind[o] = "connect" THEN NewSlot(o) ELSE place
        /\ LifeMoved(o, "admitted") /\ UNCHANGED leased
    BY <1>6 DEF Saved
  <2>2. AtWork(o)
    BY <1>6 DEF AtWork, Ended
  <2>3. life' \in [LifeOps -> Stages] /\ life'[o] = "admitted" /\ \A q \in LifeOps \ {o} : life'[q] = life[q]
    BY <1>4, <2>1 DEF LifeMoved, Stages
  <2>4. place' \in Place /\ (LifeKind[o] # "connect" => place' = place /\ (InUse <=> InUse'))
    BY <1>4, <2>1, NewSlotIs DEF InUse
  <2>5. LifeKind[o] = "connect" => place'.state = "connecting"
    BY <2>1, NewSlotIs
  <2>6. WritesOf(o)' = {}
    BY <1>5, <1>6, <2>2
  <2>7. (IsAlone(o) => IsAlone(o)') /\ ChildWrites(o)' /\ LastWrite(o)'
    BY <2>3, <2>6 DEF IsAlone, Ended, ChildWrites, LastWrite
  <2>8. ASSUME LifeKind[o] = "connect" PROVE Connects(o)' /\ saves' = <<>>
    <3>1. Connects(o) /\ saves' = <<>>
      BY <1>5, <2>2, <2>8 DEF AtPlace
    <3>2. record'.state = "connecting" /\ browser = "off" /\ o \in leased
      BY <1>2, <1>6, <3>1 DEF Connects
    <3>3. Len(saves') = 0
      BY <3>1, LifeTailIs, EmptySeq DEF LifeInv
    <3> QED
      BY <2>1, <2>3, <2>5, <2>8, <3>1, <3>2, <3>3 DEF Connects, Held
  <2>9. LifeKind[o] # "connect" => (Takes(o) => Takes(o)')
    BY <2>4 DEF Takes
  <2>10. AtPlace(o)'
    BY <1>5, <2>2, <2>4, <2>7, <2>8, <2>9 DEF AtPlace
  <2>11. place' = place \/ saves' = <<>>
    BY <2>4, <2>8
  <2>12. ~Ended(o)
    BY <2>2 DEF AtWork
  <2>13. LifeKind[o] = "child" => (InUse => InUse') /\ place.children \ {o} \subseteq place'.children
    BY <2>4
  <2> QED
    BY <1>2, <1>3, <1>4, <2>1, <2>3, <2>4, <2>10, <2>11, <2>12, <2>13, WriteKeeps
<1>7. CASE life[o] = "staging"
  <2> DEFINE at == IF Head(saves).state = "quarantined" THEN "condemned" ELSE "staged"
  <2>1. LifeMoved(o, at) /\ UNCHANGED <<place, leased>>
    BY <1>7 DEF Saved
  <2>2. AtWork(o)
    BY <1>7 DEF AtWork, Ended
  <2>3. at \in {"condemned", "staged"}
    OBVIOUS
  <2>4. LifeKind[o] = "child" => at = "condemned"
    BY <1>5, <1>7, <2>2
  <2> HIDE DEF at
  <2>5. life' \in [LifeOps -> Stages] /\ life'[o] = at /\ \A q \in LifeOps \ {o} : life'[q] = life[q]
    BY <1>4, <2>1, <2>3 DEF LifeMoved, Stages
  <2>6. InUse <=> InUse'
    BY <2>1 DEF InUse
  <2>7. (IsAlone(o) => IsAlone(o)') /\ (LifeKind[o] = "child" => ChildWrites(o)')
    BY <2>3, <2>4, <2>5 DEF IsAlone, Ended, ChildWrites
  <2>8. LifeKind[o] # "child" => LastWrite(o)' /\ saves' = <<>>
    BY <1>5, <2>2, <2>3, <2>5 DEF LastWrite
  <2>9. ASSUME LifeKind[o] = "connect" PROVE Connects(o)'
    <3>1. Connects(o) /\ saves' = <<>>
      BY <1>5, <2>2, <2>9 DEF AtPlace
    <3>2. o \in leased /\ place.state = "connecting" /\ record'.state \in Held
      BY <1>2, <1>7, <3>1 DEF Connects
    <3>3. Len(saves') = 0
      BY <3>1, LifeTailIs, EmptySeq DEF LifeInv
    <3>4. life'[o] \in {"condemned", "staged"} /\ leased' = leased /\ place' = place
      BY <2>1, <2>3, <2>5
    <3>5. o \in leased' /\ Len(saves') <= 1
      BY <3>2, <3>3, <3>4
    <3> QED
      BY <3>1, <3>2, <3>4, <3>5 DEF Connects
  <2>10. Takes(o) => Takes(o)'
    BY <2>1, <2>6 DEF Takes
  <2>11. AtPlace(o)'
    BY <1>5, <2>1, <2>2, <2>6, <2>7, <2>8, <2>9, <2>10 DEF AtPlace
  <2>12. ~Ended(o) /\ life'[o] # "new"
    BY <2>2, <2>3, <2>5 DEF AtWork
  <2> QED
    BY <1>2, <1>3, <1>4, <2>1, <2>5, <2>6, <2>11, <2>12, WriteKeeps
<1>8. CASE life[o] \notin {"saving", "staging"}
  <2>1. UNCHANGED <<life, place, leased>>
    BY <1>8 DEF Saved
  <2>2. InUse <=> InUse'
    BY <2>1 DEF InUse
  <2>3. ASSUME AtWork(o)' PROVE AtPlace(o)'
    <3>1. AtWork(o)
      BY <2>1, <2>3 DEF AtWork, Ended
    <3>2. LifeKind[o] = "child" /\ AtPlace(o) /\ life[o] \notin {"admitted", "running"}
      BY <1>5, <1>8, <3>1
    <3>3. ChildWrites(o)'
      BY <1>8, <2>1, <3>2 DEF AtPlace, ChildWrites
    <3> QED
      BY <2>1, <2>2, <3>2, <3>3 DEF AtPlace
  <2> QED
    BY <1>2, <1>3, <1>4, <2>1, <2>2, <2>3, WriteKeeps
<1> QED
  BY <1>6, <1>7, <1>8

\* The write fails, or is refused.
LEMMA NotSavedKeeps ==
  ASSUME LifeInv, lifeUp, saves # <<>>, saves' = Tail(saves), NEW o \in LifeOps, Head(saves).by = o,
         NotSaved(o), UNCHANGED <<record, known, browser, lifeUp>>
  PROVE  LifeInv'
<1>1. life \in [LifeOps -> Stages] /\ place \in Place /\ leased \subseteq LifeOps /\ record \in Record /\ known \in Record
  BY DEF LifeInv, LifeStateOK
<1>2. (browser = "on" => record.state \in Held) /\ known' = record'
  BY DEF LifeInv, OnRecord, Memory
<1>3. ASSUME AtWork(o)
      PROVE  /\ AtPlace(o)
             /\ life[o] \notin {"admitted", "running"}
             /\ LifeKind[o] # "child" => life[o] \in {"saving", "staging"} /\ saves' = <<>>
  BY <1>3, OldestWrite DEF LifeInv, PlacesInv
<1>4. CASE life[o] \in {"saving", "staging"}
  <2>1. LifeFailed(o) /\ AtWork(o)
    BY <1>4 DEF NotSaved, AtWork, Ended
  <2>2. /\ life' \in [LifeOps -> Stages] /\ life'[o] \in {"refused", "unknown"}
        /\ \A p \in LifeOps \ {o} : life'[p] = life[p]
        /\ place' \in Place /\ leased' \subseteq LifeOps
        /\ LifeKind[o] # "connect" => InUse' /\ place'.children = place.children \ {o}
    BY <2>1, FailedIs
  <2>3. ~AtWork(o)' /\ ~Ended(o) /\ life'[o] # "new"
    BY <2>1, <2>2 DEF AtWork, Ended
  <2>4. saves' = <<>> \/ place'.state \in Held
    BY <1>3, <2>1, <2>2 DEF InUse, Held
  <2>5. LifeKind[o] = "child" => (InUse => InUse') /\ place.children \ {o} \subseteq place'.children
    BY <2>2
  <2> QED
    BY <1>1, <1>2, <2>2, <2>3, <2>4, <2>5, WriteKeeps
<1>5. CASE life[o] \notin {"saving", "staging"}
  <2>1. UNCHANGED <<life, place, leased>>
    BY <1>5 DEF NotSaved
  <2>2. InUse <=> InUse'
    BY <2>1 DEF InUse
  <2>3. ASSUME AtWork(o)' PROVE AtPlace(o)'
    <3>1. AtWork(o)
      BY <2>1, <2>3 DEF AtWork, Ended
    <3>2. LifeKind[o] = "child" /\ AtPlace(o) /\ life[o] \notin {"admitted", "running"}
      BY <1>3, <1>5, <3>1
    <3>3. ChildWrites(o)'
      BY <1>5, <2>1, <3>2 DEF AtPlace, ChildWrites
    <3> QED
      BY <2>1, <2>2, <3>2, <3>3 DEF AtPlace
  <2> QED
    BY <1>1, <1>2, <2>1, <2>2, <2>3, WriteKeeps
<1> QED
  BY <1>4, <1>5

\* A write ends, well or badly.
LEMMA WriteEndsKeeps ==
  ASSUME LifeInv, lifeUp, WriteEnds
  PROVE  LifeInv'
<1>1. saves # <<>> /\ saves' = Tail(saves) /\ UNCHANGED <<browser, lifeUp>>
  BY DEF WriteEnds
<1>2. Head(saves).by \in LifeOps
  BY <1>1, LifeTailIs DEF LifeInv, Write
<1>3. \/ /\ record' = [state |-> Head(saves).state, revision |-> Head(saves).revision, lineage |-> Head(saves).lineage]
         /\ known' = record' /\ Saved(Head(saves).by, Head(saves).state)
      \/ NotSaved(Head(saves).by) /\ UNCHANGED <<record, known>>
  BY DEF WriteEnds
<1> QED
  BY <1>1, <1>2, <1>3, SavedKeeps, NotSavedKeeps

-----------------------------------------------------------------------------
(* The lifetime of a browser: the death of the runtime, and the theorems.  *)

\* With the runtime dies what is at work and what waits; the record stays.
LEMMA CrashKeeps ==
  ASSUME LifeInv, LifeCrash
  PROVE  LifeInv'
<1>0. /\ lifeUp' = FALSE /\ life' = [o \in LifeOps |-> IF life[o] = "new" THEN "new" ELSE "unknown"]
      /\ place' = NoSlot /\ known' = NoRecord /\ saves' = <<>> /\ leased' = {}
      /\ UNCHANGED <<record, browser>>
  BY DEF LifeCrash
<1>1. known' \in Record /\ place' \in Place
  <2>1. "none" \in LifeLineages
    BY DEF LifeLineages
  <2> QED
    BY <1>0, <2>1 DEF Record, NoRecord, Place, NoSlot
<1>2. life' \in [LifeOps -> Stages] /\ \A o \in LifeOps : Ended(o)'
  BY <1>0 DEF Stages, Ended
<1>3. saves' \in Seq(Write) /\ \A o \in LifeOps : WritesOf(o)' = {}
  BY <1>0, EmptySeq DEF WritesOf
<1>4. LifeStateOK'
  BY <1>0, <1>1, <1>2, <1>3 DEF LifeInv, LifeStateOK
<1>5. PlacesInv' /\ NewInv'
  BY <1>2, <1>3 DEF PlacesInv, NewInv, AtWork
<1>6. QuietWhenFree'
  BY <1>0 DEF QuietWhenFree
<1>7. OnRecord'
  BY <1>0, EmptySeq DEF LifeInv, OnRecord
<1>8. Memory'
  BY <1>0, <1>2 DEF Memory
<1> QED
  BY <1>4, <1>5, <1>6, <1>7, <1>8 DEF LifeInv

\* The next runtime finds the record, and what was held is quarantined.
LEMMA RestoreKeeps ==
  ASSUME LifeInv, RestoreLifetime
  PROVE  LifeInv'
<1>0. ~lifeUp /\ lifeUp' = TRUE /\ UNCHANGED <<life, saves, leased, browser>>
  BY DEF RestoreLifetime
<1>1. saves = <<>> /\ (\A o \in LifeOps : Ended(o)) /\ record \in Record /\ place \in Place
  BY <1>0 DEF LifeInv, Memory, LifeStateOK
<1>2. record' \in Record /\ place' \in Place /\ known' = record' /\ (record.state \in Held => record'.state \in Held)
  <2>1. CASE record.state \in Held
    <3>1. /\ record' = [record EXCEPT !.state = "quarantined", !.revision = @ + 1] /\ known' = record'
          /\ place' = [NoSlot EXCEPT !.state = "quarantined", !.lineage = record.lineage]
      BY <2>1 DEF RestoreLifetime
    <3>2. record' \in Record /\ record'.state = "quarantined"
      <4>1. "quarantined" \in Held \cup {"none", "released"} /\ record.revision + 1 \in Nat
        BY <1>1 DEF Record, Held
      <4> QED
        BY <1>1, <3>1, <4>1 DEF Record
    <3>3. place' \in Place
      BY <1>1, <3>1 DEF Record, Place, NoSlot, Held
    <3> QED
      BY <3>1, <3>2, <3>3 DEF Held
  <2>2. CASE record.state \notin Held
    BY <1>1, <2>2 DEF RestoreLifetime
  <2> QED
    BY <2>1, <2>2
<1>3. LifeStateOK'
  BY <1>0, <1>2 DEF LifeInv, LifeStateOK
<1>4. PlacesInv'
  BY <1>0, <1>1 DEF PlacesInv, AtWork, Ended
<1>5. NewInv'
  BY <1>0 DEF LifeInv, NewInv, WritesOf
<1>6. QuietWhenFree' /\ Memory'
  BY <1>0, <1>1, <1>2 DEF QuietWhenFree, Memory
<1>7. OnRecord'
  BY <1>0, <1>1, <1>2, EmptySeq DEF LifeInv, OnRecord
<1> QED
  BY <1>3, <1>4, <1>5, <1>6, <1>7 DEF LifeInv

\* The owner of a browser, its record, the queue of writes and what is connected agree
\* in every state, whatever the number of operations, failures and deaths.
THEOREM LifeIsConsistent == LifeSpec => []LifeInv
<1>1. LifeInit => LifeInv
  <2> SUFFICES ASSUME LifeInit PROVE LifeInv
    OBVIOUS
  <2>0. "none" \in LifeLineages
    BY DEF LifeLineages
  <2>1. place \in Place /\ record \in Record /\ known \in Record
    BY <2>0 DEF LifeInit, Place, NoSlot, Record, NoRecord
  <2>2. saves \in Seq(Write) /\ \A o \in LifeOps : WritesOf(o) = {}
    BY EmptySeq DEF LifeInit, WritesOf
  <2>3. life \in [LifeOps -> Stages] /\ \A o \in LifeOps : Ended(o)
    BY DEF LifeInit, Stages, Ended
  <2>4. LifeStateOK
    BY <2>1, <2>2, <2>3 DEF LifeInit, LifeStateOK
  <2>5. PlacesInv /\ NewInv
    BY <2>2, <2>3 DEF PlacesInv, NewInv, AtWork
  <2>6. QuietWhenFree /\ OnRecord /\ Memory
    BY <2>3 DEF LifeInit, QuietWhenFree, OnRecord, Memory
  <2> QED
    BY <2>4, <2>5, <2>6 DEF LifeInv
<1>2. LifeInv /\ [LifeNext]_lifeVars => LifeInv'
  <2> SUFFICES ASSUME LifeInv, [LifeNext]_lifeVars PROVE LifeInv'
    OBVIOUS
  <2>1. ASSUME lifeUp, NEW o \in LifeOps,
               ConnectBrowser(o) \/ Use(o) \/ Clean(o) \/ Start(o)
                 \/ Succeed(o) \/ AnswerFailure(o) \/ Abort(o) \/ Commit(o)
        PROVE  LifeInv'
    <3>1. CASE ConnectBrowser(o)
      BY <2>1, <3>1, ConnectKeeps DEF ConnectBrowser, OthersRun
    <3>2. CASE Use(o)
      BY <2>1, <3>2, UseKeeps DEF Use, OthersRun
    <3>3. CASE Clean(o)
      BY <2>1, <3>3, CleanKeeps DEF Clean, OthersRun
    <3>4. CASE Start(o)
      BY <2>1, <3>4, StartKeeps DEF Start, OthersRun
    <3>5. CASE Succeed(o)
      BY <2>1, <3>5, SucceedKeeps DEF Succeed, OthersRun
    <3>6. CASE AnswerFailure(o)
      BY <2>1, <3>6, AnswerFailureKeeps DEF AnswerFailure, OthersRun
    <3>7. CASE Abort(o)
      BY <2>1, <3>7, AbortKeeps DEF Abort, OthersRun
    <3>8. CASE Commit(o)
      BY <2>1, <3>8, CommitKeeps DEF Commit, OthersRun
    <3> QED
      BY <2>1, <3>1, <3>2, <3>3, <3>4, <3>5, <3>6, <3>7, <3>8
  <2>2. CASE lifeUp /\ WriteEnds
    BY <2>2, WriteEndsKeeps
  <2>3. CASE lifeUp /\ Expire
    BY <2>3, ExpireKeeps DEF Expire, OthersRun
  <2>4. CASE LifeCrash
    BY <2>4, CrashKeeps
  <2>5. CASE RestoreLifetime
    BY <2>5, RestoreKeeps
  <2>6. CASE UNCHANGED lifeVars
    <3>0. UNCHANGED <<life, place, record, known, saves, leased, browser, lifeUp>>
      BY <2>6 DEF lifeVars
    <3>1. LifeStateOK'
      BY <3>0 DEF LifeInv, LifeStateOK
    <3>2. PlacesInv'
      BY <3>0 DEF LifeInv, PlacesInv, AtWork, Ended, AtPlace, IsAlone, WritesOf, ChildWrites,
                  LastWrite, Connects, Takes, InUse
    <3>3. NewInv'
      BY <3>0 DEF LifeInv, NewInv, WritesOf
    <3>4. QuietWhenFree' /\ OnRecord' /\ Memory'
      BY <3>0 DEF LifeInv, QuietWhenFree, OnRecord, Memory, Ended
    <3> QED
      BY <3>1, <3>2, <3>3, <3>4 DEF LifeInv
  <2> QED
    BY <2>1, <2>2, <2>3, <2>4, <2>5, <2>6 DEF LifeNext
<1> QED
  BY <1>1, <1>2, PTL DEF LifeSpec

\* The variables of the lifetime have their types.
THEOREM LifeTypes == LifeSpec => []LifeTypeOK
<1>1. LifeInv => LifeTypeOK
  <2> SUFFICES ASSUME LifeInv PROVE LifeTypeOK
    OBVIOUS
  <2>1. /\ life \in [LifeOps -> Stages] /\ place \in Place /\ record \in Record /\ known \in Record
        /\ saves \in Seq(Write) /\ leased \subseteq LifeOps /\ browser \in {"on", "off"}
    BY DEF LifeInv, LifeStateOK
  <2>2. \A i \in 1..Len(saves) : saves[i].state \in Held \cup {"released"} /\ saves[i].revision \in Nat
    <3>1. \A i \in 1..Len(saves) : saves[i] \in Write
      BY <2>1
    <3> QED
      BY <3>1 DEF Write
  <2> QED
    BY <2>1, <2>2 DEF LifeTypeOK, Stages, Place, Record
<1> QED
  BY <1>1, LifeIsConsistent, PTL

\* A browser has one holder: what may be connected is on record as held, also after a
\* death of the runtime, no child is at work while a disconnect is, and a connect reaches
\* the adapter only when no browser is connected.
THEOREM BrowserHasOneHolder == LifeSpec => BrowserIsHeldOnce
<1>1. LifeInv => ConnectedIsOnRecord /\ ChildrenKeepTheirBrowser
  <2> SUFFICES ASSUME LifeInv PROVE ConnectedIsOnRecord /\ ChildrenKeepTheirBrowser
    OBVIOUS
  <2>1. ConnectedIsOnRecord
    BY DEF LifeInv, OnRecord, ConnectedIsOnRecord
  <2>2. ASSUME NEW o \in LifeOps, NEW c \in LifeOps, LifeKind[o] = "disconnect", LifeKind[c] = "child",
               life[o] = "running"
        PROVE  life[c] # "running"
    <3>1. AtPlace(o) /\ c # o
      BY <2>2 DEF LifeInv, PlacesInv, AtWork, Ended
    <3> QED
      BY <2>2, <3>1 DEF AtPlace, IsAlone, Ended
  <2> QED
    BY <2>1, <2>2 DEF ChildrenKeepTheirBrowser
<1>2. LifeInv' => (ConnectedIsOnRecord /\ ChildrenKeepTheirBrowser)'
  BY <1>1, PTL
<1>3. ASSUME LifeInv, LifeInv', [LifeNext]_lifeVars
      PROVE  [/\ ConnectedIsOnRecord' /\ ChildrenKeepTheirBrowser'
              /\ \A o \in LifeOps :
                   LifeKind[o] = "connect" /\ life[o] = "admitted" /\ life'[o] = "running"
                     => browser = "off"]_lifeVars
  <2>1. ASSUME NEW o \in LifeOps, LifeKind[o] = "connect", life[o] = "admitted"
        PROVE  browser = "off"
    <3>1. Connects(o)
      BY <1>3, <2>1 DEF LifeInv, PlacesInv, AtWork, Ended, AtPlace
    <3> QED
      BY <2>1, <3>1 DEF Connects
  <2> QED
    BY <1>2, <1>3, <2>1
<1> QED
  BY <1>3, LifeIsConsistent, PTL DEF LifeSpec, BrowserIsHeldOnce

-----------------------------------------------------------------------------
(* The requests of a client and the renewal of its credential.             *)

TransportSpec == TransportInit /\ [][TransportNext]_transportVars

CallRecord == [at : {"out", "shares", "waits", "renews", "flight"} \cup Continuations,
               sent : 0..2, renewed : BOOLEAN]

\* How often a call may have been sent before it is let go; once more when it is in flight.
Sendings(u, c) == IF c.renewed /\ u \in ReadOnly THEN 1 ELSE 0
SentOK(u, c) == c.sent <= IF c.at = "flight" THEN Sendings(u, c) + 1 ELSE Sendings(u, c)

\* A call counts as active while it is in flight, and whoever waits waits for something.
CallInv(u) ==
  /\ u \in activeCalls <=> calling[u].at = "flight"
  /\ SentOK(u, calling[u])
  /\ calling[u].at = "waits" => activeCalls # {}
  /\ calling[u].at \in {"shares", "renews"} => renewing # "none"

\* While calls go on after a renewal its credential is new, and nobody begins another.
GoingOn(u) == calling[u].at \in {"sharesDone", "retries"}
RenewedInv ==
  \A u, v \in Users : GoingOn(u) => left = 2 /\ renewing = "none" /\ calling[v].at # "woken"

TransportInv ==
  /\ TransportTypeOK /\ (\A u \in Users : CallInv(u)) /\ RenewedInv /\ RenewalIsComing
  /\ renewing # "none" => activeCalls = {}

\* What the types give.
LEMMA TransportTypes ==
  ASSUME TransportInv
  PROVE  /\ calling \in [Users -> CallRecord] /\ activeCalls \subseteq Users /\ left \in 0..2
         /\ {held, automatic, deferred, lateRenewal} \subseteq BOOLEAN
         /\ renewing \in {"none", "asked", "granted"} /\ renewTimer \in {"none", "life", "retry"}
         /\ clientClosed \in {"no", "asked", "done"}
         /\ posted \subseteq [by : Users, good : BOOLEAN] /\ serving \subseteq Users
  BY DEF TransportInv, TransportTypeOK, CallRecord

\* A call that rests has sent nothing.
LEMMA RestedIs == Rested \in CallRecord /\ Rested.at = "out" /\ \A u \in Users : SentOK(u, Rested)
  BY DEF Rested, CallRecord, SentOK, Sendings

\* A call is let go, or waits until no other is active.
LEMMA LetGoKeeps ==
  ASSUME TransportInv, NEW u \in Users, NEW c \in CallRecord, calling[u].at # "flight", c.at # "flight",
         SentOK(u, c), renewing = "none", LetGo(u, c),
         UNCHANGED <<renewalVars, clientClosed, serving, lateRenewal>>
  PROVE  TransportInv'
<1>0. /\ calling \in [Users -> CallRecord] /\ activeCalls \subseteq Users /\ left \in 0..2 /\ held \in BOOLEAN
      /\ posted \subseteq [by : Users, good : BOOLEAN]
  BY TransportTypes
<1>1. UNCHANGED <<left, held, renewing, automatic, renewTimer, deferred, clientClosed, serving, lateRenewal>>
  BY DEF renewalVars
<1>2. u \notin activeCalls /\ \A v \in Users : CallInv(v)
  BY DEF TransportInv, CallInv
<1>3. ASSUME NEW v \in Users, GoingOn(v) PROVE Suffices(u) /\ left = 2
  BY <1>3 DEF TransportInv, RenewedInv, Suffices
<1> DEFINE at == IF Suffices(u) THEN "flight" ELSE IF activeCalls = {} THEN "woken" ELSE "waits"
           d == calling'[u]
<1>4. /\ calling' \in [Users -> CallRecord] /\ d.at = at /\ SentOK(u, d)
      /\ \A v \in Users \ {u} : calling'[v] = calling[v]
  <2>1. CASE Suffices(u)
    <3> DEFINE e == [c EXCEPT !.at = "flight", !.sent = @ + 1]
    <3>1. c.sent \in {0, 1} /\ c.sent <= Sendings(u, c)
      BY DEF CallRecord, SentOK, Sendings
    <3>2. c.sent + 1 \in 0..2
      BY <3>1
    <3>3. e \in CallRecord /\ e.at = "flight" /\ e.sent = c.sent + 1 /\ e.renewed = c.renewed
      BY <3>2 DEF CallRecord
    <3>4. calling' = [calling EXCEPT ![u] = e]
      BY <2>1 DEF LetGo
    <3> HIDE DEF e
    <3>5. Sendings(u, e) = Sendings(u, c) /\ Sendings(u, c) \in {0, 1}
      BY <3>3 DEF Sendings
    <3>6. SentOK(u, e)
      BY <3>1, <3>3, <3>5 DEF SentOK
    <3> QED
      BY <1>0, <2>1, <3>3, <3>4, <3>6
  <2>2. CASE ~Suffices(u)
    <3> DEFINE e == [c EXCEPT !.at = IF activeCalls = {} THEN "woken" ELSE "waits"]
    <3>1. e \in CallRecord /\ e.at = at /\ e.sent = c.sent /\ e.renewed = c.renewed
      BY <2>2 DEF CallRecord, Continuations
    <3>2. calling' = [calling EXCEPT ![u] = e]
      BY <2>2 DEF LetGo
    <3>3. e.at # "flight"
      BY <2>2, <3>1
    <3> HIDE DEF e
    <3>4. SentOK(u, e)
      BY <3>1, <3>3 DEF SentOK, Sendings
    <3> QED
      BY <1>0, <3>1, <3>2, <3>4
  <2> QED
    BY <2>1, <2>2
<1>5. /\ activeCalls' = (IF at = "flight" THEN activeCalls \cup {u} ELSE activeCalls)
      /\ posted' \subseteq [by : Users, good : BOOLEAN]
  <2>1. CASE Suffices(u)
    <3>1. [by |-> u, good |-> held] \in [by : Users, good : BOOLEAN]
      BY <1>0
    <3> QED
      BY <1>0, <2>1, <3>1 DEF LetGo
  <2>2. CASE ~Suffices(u)
    BY <1>0, <2>2 DEF LetGo
  <2> QED
    BY <2>1, <2>2
<1>6. /\ at \in {"flight", "woken", "waits"} /\ (at = "waits" => activeCalls # {})
      /\ Suffices(u) => at = "flight"
  OBVIOUS
<1> HIDE DEF at, d
<1>7. TransportTypeOK'
  <2>1. activeCalls' \subseteq Users
    BY <1>0, <1>5
  <2> QED
    BY <1>1, <1>4, <1>5, <2>1 DEF TransportInv, TransportTypeOK, CallRecord
<1>8. ASSUME NEW v \in Users PROVE CallInv(v)'
  <2>1. CASE v = u
    BY <1>1, <1>2, <1>4, <1>5, <1>6, <2>1 DEF CallInv, d
  <2>2. CASE v # u
    <3>1. CallInv(v) /\ calling'[v] = calling[v] /\ (v \in activeCalls' <=> v \in activeCalls)
          /\ activeCalls \subseteq activeCalls'
      BY <1>2, <1>4, <1>5, <2>2
    <3> QED
      BY <1>1, <3>1 DEF CallInv
  <2> QED
    BY <2>1, <2>2
<1>9. RenewedInv'
  <2> SUFFICES ASSUME NEW v \in Users, GoingOn(v)', NEW w \in Users
               PROVE  left = 2 /\ renewing = "none" /\ calling'[w].at # "woken"
    BY <1>1 DEF RenewedInv
  <2>1. v # u
    BY <1>4, <1>6 DEF GoingOn, d
  <2>2. GoingOn(v)
    BY <1>4, <2>1 DEF GoingOn
  <2>3. calling'[u].at # "woken"
    BY <1>3, <1>4, <1>6, <2>2 DEF d
  <2> QED
    BY <1>4, <2>2, <2>3 DEF TransportInv, RenewedInv
<1>10. RenewalIsComing'
  BY <1>1, <1>5 DEF TransportInv, RenewalIsComing
<1> QED
  BY <1>1, <1>7, <1>8, <1>9, <1>10 DEF TransportInv

\* A call in flight ends: the last one wakes whoever waits, and the renewal put off.
LEMMA ReleasedKeeps ==
  ASSUME TransportInv, NothingSettled, NEW u \in Users, NEW told \in CallRecord, calling[u].at = "flight",
         told.at \in {"out", "waits"}, SentOK(u, told), Released(u, told),
         UNCHANGED <<left, held, renewTimer, clientClosed, lateRenewal>>,
         posted' \subseteq posted, serving' \subseteq serving
  PROVE  TransportInv'
<1>0. /\ calling \in [Users -> CallRecord] /\ activeCalls \subseteq Users
      /\ {automatic, deferred} \subseteq BOOLEAN /\ renewing \in {"none", "asked", "granted"}
      /\ posted \subseteq [by : Users, good : BOOLEAN] /\ serving \subseteq Users
  BY TransportTypes
<1>1. u \in activeCalls /\ activeCalls' = activeCalls \ {u} /\ \A v \in Users : CallInv(v)
  BY DEF TransportInv, CallInv, Released
<1>2. renewing = "none"
  BY <1>1 DEF TransportInv
<1> DEFINE last == activeCalls' = {}
<1>3. /\ last /\ deferred => deferred' = FALSE /\ automatic' = TRUE /\ renewing' = "asked"
      /\ ~(last /\ deferred) => UNCHANGED <<deferred, automatic, renewing>>
  BY <1>1, <1>2 DEF Released
<1>4. /\ calling' = [v \in Users |->
           IF v = u THEN IF told.at = "waits" /\ last THEN [told EXCEPT !.at = "woken"] ELSE told
           ELSE IF last /\ calling[v].at = "waits" THEN [calling[v] EXCEPT !.at = "woken"]
           ELSE calling[v]]
  BY DEF Released
<1>5. ASSUME NEW e \in CallRecord, e.at = "waits"
      PROVE  /\ [e EXCEPT !.at = "woken"] \in CallRecord /\ [e EXCEPT !.at = "woken"].at = "woken"
             /\ \A v \in Users : SentOK(v, e) => SentOK(v, [e EXCEPT !.at = "woken"])
  <2> DEFINE f == [e EXCEPT !.at = "woken"]
  <2>1. f \in CallRecord /\ f.at = "woken" /\ f.sent = e.sent /\ f.renewed = e.renewed
    BY DEF CallRecord, Continuations
  <2> HIDE DEF f
  <2>2. \A v \in Users : SentOK(v, e) => SentOK(v, f)
    BY <1>5, <2>1 DEF SentOK, Sendings
  <2> QED
    BY <2>1, <2>2 DEF f
<1>6. ASSUME NEW v \in Users
      PROVE  /\ calling'[v] \in CallRecord /\ SentOK(v, calling'[v])
             /\ calling'[v].at = "flight" <=> v # u /\ calling[v].at = "flight"
             /\ calling'[v].at = "waits" => ~last
             /\ calling'[v].at \in {"shares", "renews"} => v # u /\ calling[v].at = calling'[v].at
             /\ ~GoingOn(v)'
  <2>0. calling[v].at \notin Continuations /\ calling[v] \in CallRecord /\ SentOK(v, calling[v])
    BY <1>0, <1>1 DEF NothingSettled, CallInv
  <2>1. CASE v = u /\ told.at = "waits" /\ last
    <3>1. calling'[v] = [told EXCEPT !.at = "woken"]
      BY <1>4, <2>1
    <3> QED
      BY <1>5, <2>1, <3>1 DEF GoingOn
  <2>2. CASE v = u /\ ~(told.at = "waits" /\ last)
    <3>1. calling'[v] = told
      BY <1>4, <2>2
    <3> QED
      BY <2>2, <3>1 DEF GoingOn
  <2>3. CASE v # u /\ last /\ calling[v].at = "waits"
    <3>1. calling'[v] = [calling[v] EXCEPT !.at = "woken"]
      BY <1>4, <2>3
    <3> QED
      BY <1>5, <2>0, <2>3, <3>1 DEF GoingOn
  <2>4. CASE v # u /\ ~(last /\ calling[v].at = "waits")
    <3>1. calling'[v] = calling[v]
      BY <1>4, <2>4
    <3> QED
      BY <2>0, <2>4, <3>1 DEF GoingOn, Continuations
  <2> QED
    BY <2>1, <2>2, <2>3, <2>4
<1>7. TransportTypeOK'
  <2>1. calling' \in [Users -> CallRecord] /\ activeCalls' \subseteq Users
    BY <1>0, <1>1, <1>4, <1>6
  <2>2. renewing' \in {"none", "asked", "granted"} /\ {deferred', automatic'} \subseteq BOOLEAN
    BY <1>0, <1>3
  <2>3. posted' \subseteq [by : Users, good : BOOLEAN] /\ serving' \subseteq Users
    BY <1>0
  <2> QED
    BY <2>1, <2>2, <2>3 DEF TransportInv, TransportTypeOK, CallRecord
<1>8. ASSUME NEW v \in Users PROVE CallInv(v)'
  <2>1. v \in activeCalls' <=> calling'[v].at = "flight"
    BY <1>1, <1>6 DEF CallInv
  <2>2. calling'[v].at \in {"shares", "renews"} => renewing' # "none"
    BY <1>1, <1>2, <1>6 DEF CallInv
  <2> QED
    BY <1>6, <2>1, <2>2 DEF CallInv
<1>9. RenewedInv'
  BY <1>6 DEF RenewedInv
<1>10. RenewalIsComing'
  BY <1>1, <1>3 DEF TransportInv, RenewalIsComing
<1>11. renewing' # "none" => activeCalls' = {}
  BY <1>2, <1>3
<1> QED
  BY <1>7, <1>8, <1>9, <1>10, <1>11 DEF TransportInv

\* What disturbs neither the calls nor the renewal: only the wire, the bearer, or the time.
LEMMA WireKeeps ==
  ASSUME TransportInv, UNCHANGED <<calling, activeCalls, renewing, automatic, renewTimer, deferred>>,
         left' \in 0..2, left' = left \/ NothingSettled, {held', lateRenewal'} \subseteq BOOLEAN,
         posted' \subseteq [by : Users, good : BOOLEAN], serving' \subseteq Users,
         clientClosed' = clientClosed \/ clientClosed' = "done"
  PROVE  TransportInv'
<1>1. TransportTypeOK'
  BY TransportTypes DEF TransportTypeOK, CallRecord
<1>2. \A u \in Users : CallInv(u)'
  BY DEF TransportInv, CallInv
<1>3. RenewedInv'
  <2> SUFFICES ASSUME NEW u \in Users, NEW v \in Users, GoingOn(u)'
               PROVE  left' = 2 /\ renewing' = "none" /\ calling'[v].at # "woken"
    BY DEF RenewedInv
  <2>1. GoingOn(u)
    BY DEF GoingOn
  <2>2. ~NothingSettled
    BY <2>1 DEF NothingSettled, GoingOn, Continuations
  <2> QED
    BY <2>1, <2>2 DEF TransportInv, RenewedInv
<1>4. RenewalIsComing'
  BY DEF TransportInv, RenewalIsComing
<1> QED
  BY <1>1, <1>2, <1>3, <1>4 DEF TransportInv

\* The requests on their way may all be refused.
LEMMA NewBearerTypes ==
  ASSUME posted \subseteq [by : Users, good : BOOLEAN], NewBearer
  PROVE  posted' \subseteq [by : Users, good : BOOLEAN]
<1> SUFFICES ASSUME NEW q \in posted' PROVE q \in [by : Users, good : BOOLEAN]
  OBVIOUS
<1>1. PICK p \in posted : q = [p EXCEPT !.good = FALSE]
  BY DEF NewBearer
<1>2. p \in [by : Users, good : BOOLEAN]
  OBVIOUS
<1> QED
  BY <1>1, <1>2

\* A renewal that fails sends away whoever waits for it, and is tried again if it was due.
LEMMA RenewalFailsKeeps ==
  ASSUME TransportInv, NothingSettled, renewing # "none", RenewalFails,
         UNCHANGED <<activeCalls, left, deferred, clientClosed>>, {held', lateRenewal'} \subseteq BOOLEAN,
         posted' \subseteq [by : Users, good : BOOLEAN], serving' \subseteq Users
  PROVE  TransportInv'
<1>0. /\ calling \in [Users -> CallRecord] /\ activeCalls = {} /\ left \in 0..2 /\ deferred \in BOOLEAN
      /\ clientClosed \in {"no", "asked", "done"} /\ automatic \in BOOLEAN
      /\ renewTimer \in {"none", "life", "retry"} /\ \A u \in Users : CallInv(u)
  BY TransportTypes DEF TransportInv
<1>1. ASSUME NEW u \in Users
      PROVE  /\ calling'[u] \in CallRecord /\ SentOK(u, calling'[u])
             /\ calling'[u].at \in {"out", "waits", "flight"}
             /\ calling'[u].at \in {"waits", "flight"} => calling'[u] = calling[u]
  <2>1. calling[u].at \notin Continuations /\ calling[u] \in CallRecord /\ SentOK(u, calling[u])
    BY <1>0 DEF NothingSettled, CallInv
  <2>2. calling'[u] = AfterFailure(u)
    BY DEF RenewalFails
  <2>3. CASE calling[u].at \in {"shares", "renews"}
    BY <2>2, <2>3, RestedIs DEF AfterFailure
  <2>4. CASE calling[u].at \notin {"shares", "renews"}
    <3>1. calling[u].at \in {"out", "waits", "flight"}
      BY <2>1, <2>4 DEF CallRecord
    <3> QED
      BY <2>1, <2>2, <2>4, <3>1 DEF AfterFailure
  <2> QED
    BY <2>3, <2>4
<1>2. /\ renewing' = "none" /\ automatic' = FALSE /\ renewTimer' = IF automatic THEN "retry" ELSE renewTimer
      /\ calling' = [u \in Users |-> AfterFailure(u)]
  BY DEF RenewalFails
<1>3. TransportTypeOK'
  <2>1. calling' \in [Users -> CallRecord]
    BY <1>1, <1>2
  <2>2. {held', automatic', deferred', lateRenewal'} \subseteq BOOLEAN /\ renewTimer' \in {"none", "life", "retry"}
        /\ renewing' \in {"none", "asked", "granted"}
    BY <1>0, <1>2
  <2> QED
    BY <1>0, <2>1, <2>2 DEF TransportTypeOK, CallRecord
<1>4. ASSUME NEW u \in Users PROVE CallInv(u)'
  <2>1. u \in activeCalls' <=> calling'[u].at = "flight"
    <3>1. u \notin activeCalls' /\ calling[u].at # "flight"
      BY <1>0 DEF CallInv
    <3> QED
      BY <1>1, <3>1
  <2>2. calling'[u].at # "waits"
    BY <1>0, <1>1 DEF CallInv
  <2>3. calling'[u].at \notin {"shares", "renews"}
    BY <1>1
  <2> QED
    BY <1>1, <2>1, <2>2, <2>3 DEF CallInv
<1>5. RenewedInv'
  BY <1>1 DEF RenewedInv, GoingOn
<1>6. RenewalIsComing'
  BY <1>0, <1>2 DEF TransportInv, RenewalIsComing
<1> QED
  BY <1>0, <1>2, <1>3, <1>4, <1>5, <1>6 DEF TransportInv

\* A call begins, or goes on: it shares the renewal under way, or is let go.
LEMMA EntersKeeps ==
  ASSUME TransportInv, NEW u \in Users, NEW c \in CallRecord, calling[u].at # "flight", c.at # "flight",
         SentOK(u, c), Enters(u, c),
         UNCHANGED <<renewalVars, clientClosed, serving, lateRenewal>>
  PROVE  TransportInv'
<1>1. CASE renewing = "none"
  BY <1>1, LetGoKeeps DEF Enters
<1>2. CASE renewing # "none"
  <2> DEFINE e == [c EXCEPT !.at = "shares"]
  <2>0. /\ calling' = [calling EXCEPT ![u] = e] /\ UNCHANGED <<activeCalls, posted>>
        /\ UNCHANGED <<left, held, renewing, automatic, renewTimer, deferred, clientClosed, serving, lateRenewal>>
    BY <1>2 DEF Enters, renewalVars
  <2>1. e \in CallRecord /\ e.at = "shares" /\ e.sent = c.sent /\ e.renewed = c.renewed
    BY DEF CallRecord
  <2> HIDE DEF e
  <2>2. SentOK(u, e)
    BY <2>1 DEF SentOK, Sendings
  <2>3. calling \in [Users -> CallRecord]
    BY TransportTypes
  <2>4. TransportTypeOK'
    <3>1. calling' \in [Users -> CallRecord]
      BY <2>0, <2>1, <2>3
    <3> QED
      BY <2>0, <3>1, TransportTypes DEF TransportTypeOK, CallRecord
  <2>5. ASSUME NEW v \in Users PROVE CallInv(v)'
    <3>1. CallInv(v) /\ CallInv(u)
      BY DEF TransportInv
    <3>2. CASE v = u
      <4>1. calling'[v] = e /\ u \notin activeCalls
        BY <2>0, <2>3, <3>1, <3>2 DEF CallInv
      <4> QED
        BY <1>2, <2>0, <2>1, <2>2, <3>2, <4>1 DEF CallInv
    <3>3. CASE v # u
      <4>1. calling'[v] = calling[v]
        BY <2>0, <2>3, <3>3
      <4> QED
        BY <2>0, <3>1, <4>1 DEF CallInv
    <3> QED
      BY <3>2, <3>3
  <2>6. RenewedInv'
    <3>1. \A v \in Users : ~GoingOn(v)
      BY <1>2 DEF TransportInv, RenewedInv
    <3>2. \A v \in Users : ~GoingOn(v)'
      BY <2>0, <2>1, <2>3, <3>1 DEF GoingOn
    <3> QED
      BY <3>2 DEF RenewedInv
  <2>7. RenewalIsComing'
    BY <2>0 DEF TransportInv, RenewalIsComing
  <2> QED
    BY <2>0, <2>4, <2>5, <2>6, <2>7 DEF TransportInv
<1> QED
  BY <1>1, <1>2

\* Nothing is going on after a renewal once nothing has settled.
LEMMA SettledRest ==
  ASSUME NothingSettled, NEW u \in Users
  PROVE  ~GoingOn(u) /\ calling[u].at \notin {"woken", "sharesDone", "retries"}
  BY DEF NothingSettled, GoingOn, Continuations

\* A step in which one call moves, not into flight or to wait for another's end.
LEMMA MovesKeep ==
  ASSUME TransportInv, NEW u \in Users, NEW c \in CallRecord, calling[u].at # "flight",
         c.at \in {"out", "renews"}, SentOK(u, c), calling' = [calling EXCEPT ![u] = c],
         c.at = "renews" => activeCalls = {} /\ renewing' # "none" /\ \A v \in Users : ~GoingOn(v),
         renewing' = renewing \/ (c.at = "renews" /\ renewing' = "asked"),
         UNCHANGED <<activeCalls, left, held, automatic, renewTimer, deferred, clientClosed, wireVars>>
  PROVE  TransportInv'
<1>0. /\ calling \in [Users -> CallRecord] /\ (\A v \in Users : CallInv(v))
      /\ UNCHANGED <<posted, serving, lateRenewal>>
  BY TransportTypes DEF TransportInv, wireVars
<1>1. TransportTypeOK'
  <2>1. calling' \in [Users -> CallRecord] /\ renewing' \in {"none", "asked", "granted"}
    BY <1>0, TransportTypes
  <2> QED
    BY <1>0, <2>1, TransportTypes DEF TransportTypeOK, CallRecord
<1>2. ASSUME NEW v \in Users PROVE CallInv(v)'
  <2>1. CASE v = u
    <3>1. calling'[v] = c /\ u \notin activeCalls
      BY <1>0, <2>1 DEF CallInv
    <3> QED
      BY <1>0, <2>1, <3>1 DEF CallInv
  <2>2. CASE v # u
    <3>1. calling'[v] = calling[v] /\ CallInv(v) /\ (renewing # "none" => renewing' # "none")
      BY <1>0, <2>2
    <3> QED
      BY <3>1 DEF CallInv
  <2> QED
    BY <2>1, <2>2
<1>3. RenewedInv'
  <2> SUFFICES ASSUME NEW v \in Users, GoingOn(v)', NEW w \in Users
               PROVE  left' = 2 /\ renewing' = "none" /\ calling'[w].at # "woken"
    BY DEF RenewedInv
  <2>1. GoingOn(v)
    BY <1>0 DEF GoingOn
  <2>2. c.at = "out" /\ renewing' = renewing
    BY <2>1
  <2> QED
    BY <1>0, <2>1, <2>2 DEF TransportInv, RenewedInv
<1>4. RenewalIsComing'
  BY DEF TransportInv, RenewalIsComing
<1> QED
  BY <1>1, <1>2, <1>3, <1>4 DEF TransportInv

\* A call begins, or goes on after a renewal.
LEMMA CallKeeps ==
  ASSUME TransportInv, NEW u \in Users, Call(u) \/ Continue(u)
  PROVE  TransportInv'
<1>0. calling \in [Users -> CallRecord] /\ CallInv(u)
  BY TransportTypes DEF TransportInv
<1>1. UNCHANGED <<renewalVars, clientClosed, serving, lateRenewal>>
  BY DEF Call, Continue
<1>2. CASE Call(u)
  BY <1>1, <1>2, RestedIs, EntersKeeps DEF Call
<1>3. CASE Continue(u)
  <2>1. calling[u] \in CallRecord /\ calling[u].at # "flight" /\ SentOK(u, calling[u]) /\ GoingOn(u)
    BY <1>0, <1>3 DEF Continue, CallInv, GoingOn
  <2>2. renewing = "none"
    BY <2>1 DEF TransportInv, RenewedInv
  <2>3. CASE LetGo(u, calling[u])
    BY <1>1, <2>1, <2>2, <2>3, LetGoKeeps
  <2>4. CASE Enters(u, calling[u])
    BY <1>1, <2>1, <2>4, EntersKeeps
  <2> QED
    BY <1>3, <2>3, <2>4 DEF Continue
<1> QED
  BY <1>2, <1>3

\* A call that no other holds up any more has the credential renewed, for all.
LEMMA RefreshKeeps ==
  ASSUME TransportInv, NEW u \in Users, Refresh(u)
  PROVE  TransportInv'
<1>0. /\ calling \in [Users -> CallRecord] /\ CallInv(u) /\ calling[u].at = "woken"
      /\ UNCHANGED <<activeCalls, left, held, automatic, renewTimer, deferred, clientClosed, wireVars>>
  BY TransportTypes DEF TransportInv, Refresh
<1>1. CASE renewing = "none" /\ activeCalls # {}
  <2>1. calling' = [calling EXCEPT ![u] = Rested] /\ renewing' = renewing
    BY <1>1 DEF Refresh
  <2> QED
    BY <1>0, <2>1, RestedIs, MovesKeep
<1>2. CASE ~(renewing = "none" /\ activeCalls # {})
  <2> DEFINE c == [calling[u] EXCEPT !.at = "renews"]
  <2>1. /\ calling' = [calling EXCEPT ![u] = c]
        /\ renewing' = IF renewing = "none" THEN "asked" ELSE renewing
    BY <1>2 DEF Refresh
  <2>2. /\ c \in CallRecord /\ c.at = "renews"
        /\ c.sent = calling[u].sent /\ c.renewed = calling[u].renewed
    BY <1>0 DEF CallRecord
  <2>3. SentOK(u, calling[u])
    BY <1>0 DEF CallInv
  <2> HIDE DEF c
  <2>4. SentOK(u, c)
    BY <1>0, <2>2, <2>3 DEF SentOK, Sendings
  <2>5. activeCalls = {} /\ \A v \in Users : ~GoingOn(v)
    BY <1>0, <1>2 DEF TransportInv, RenewedInv
  <2> QED
    BY <1>0, <2>1, <2>2, <2>4, <2>5, MovesKeep
<1> QED
  BY <1>1, <1>2

\* The runtime serves a request, renews a credential, or time passes.
LEMMA QuietStepsKeep ==
  ASSUME TransportInv,
         (\E p \in posted : Serve(p)) \/ LateGrant \/ Ages \/ CloseAnswered
  PROVE  TransportInv'
<1>0. /\ posted \subseteq [by : Users, good : BOOLEAN] /\ serving \subseteq Users /\ left \in 0..2
      /\ {held, lateRenewal} \subseteq BOOLEAN
  BY TransportTypes
<1>1. ASSUME NEW p \in posted, Serve(p) PROVE TransportInv'
  <2>1. p.by \in Users
    BY <1>0
  <2>2. /\ UNCHANGED <<calling, activeCalls, renewing, automatic, renewTimer, deferred, clientClosed, left,
                       held, lateRenewal>>
        /\ posted' \subseteq [by : Users, good : BOOLEAN] /\ serving' \subseteq Users
    BY <1>0, <1>1, <2>1 DEF Serve, renewalVars
  <2> QED
    BY <1>0, <2>2, WireKeeps
<1>2. CASE LateGrant
  <2>1. UNCHANGED <<calling, activeCalls, renewing, automatic, renewTimer, deferred, clientClosed, left, serving>>
    BY <1>2 DEF LateGrant
  <2>2. {held', lateRenewal'} \subseteq BOOLEAN
    BY <1>0, <1>2 DEF LateGrant
  <2>3. posted' \subseteq [by : Users, good : BOOLEAN]
    BY <1>0, <1>2, NewBearerTypes DEF LateGrant
  <2> QED
    BY <1>0, <2>1, <2>2, <2>3, WireKeeps
<1>3. CASE Ages
  <2>1. left' \in 0..2 /\ NothingSettled
    BY <1>0, <1>3 DEF Ages
  <2>2. UNCHANGED <<calling, activeCalls, renewing, automatic, renewTimer, deferred, clientClosed, held,
                    posted, serving, lateRenewal>>
    BY <1>3 DEF Ages, wireVars
  <2> QED
    BY <1>0, <2>1, <2>2, WireKeeps
<1>4. CASE CloseAnswered
  <2>1. /\ UNCHANGED <<calling, activeCalls, renewing, automatic, renewTimer, deferred, left,
                       posted, serving, lateRenewal>>
        /\ clientClosed' = "done" /\ held' = FALSE
    BY <1>4 DEF CloseAnswered, wireVars
  <2>2. {held', lateRenewal'} \subseteq BOOLEAN
    BY <1>0, <2>1
  <2> QED
    BY <1>0, <2>1, <2>2, WireKeeps
<1> QED
  BY <1>1, <1>2, <1>3, <1>4

\* The runtime grants the renewal that was asked for: its answer is on the way.
LEMMA GrantKeeps ==
  ASSUME TransportInv, GrantRenewal
  PROVE  TransportInv'
<1>0. /\ renewing = "asked" /\ renewing' = "granted" /\ held' = FALSE
      /\ UNCHANGED <<calling, activeCalls, left, automatic, renewTimer, deferred, clientClosed, serving, lateRenewal>>
  BY DEF GrantRenewal
<1>1. posted' \subseteq [by : Users, good : BOOLEAN]
  BY NewBearerTypes, TransportTypes DEF GrantRenewal
<1>2. TransportTypeOK'
  <2>1. held' \in BOOLEAN /\ renewing' \in {"none", "asked", "granted"}
    BY <1>0
  <2> QED
    BY <1>0, <1>1, <2>1, TransportTypes DEF TransportTypeOK, CallRecord
<1>3. \A u \in Users : CallInv(u)'
  BY <1>0 DEF TransportInv, CallInv
<1>4. RenewedInv'
  <2>1. \A u \in Users : ~GoingOn(u)
    BY <1>0 DEF TransportInv, RenewedInv
  <2>2. \A u \in Users : ~GoingOn(u)'
    BY <1>0, <2>1 DEF GoingOn
  <2> QED
    BY <2>2 DEF RenewedInv
<1>5. RenewalIsComing'
  BY <1>0 DEF TransportInv, RenewalIsComing
<1> QED
  BY <1>0, <1>2, <1>3, <1>4, <1>5 DEF TransportInv

\* Its answer is heard: whoever waited for it goes on under a new credential.
LEMMA HearKeeps ==
  ASSUME TransportInv, HearRenewal
  PROVE  TransportInv'
<1>0. /\ NothingSettled /\ renewing = "granted" /\ renewing' = "none" /\ held' = TRUE /\ left' = 2
      /\ automatic' = FALSE /\ renewTimer' = "life" /\ calling' = [u \in Users |-> AfterRenewal(u)]
      /\ UNCHANGED <<activeCalls, deferred, clientClosed, posted, serving, lateRenewal>>
  BY DEF HearRenewal, wireVars
<1>1. /\ calling \in [Users -> CallRecord] /\ activeCalls = {} /\ \A u \in Users : CallInv(u)
  BY <1>0, TransportTypes DEF TransportInv
<1>2. ASSUME NEW u \in Users
      PROVE  /\ calling'[u] \in CallRecord /\ SentOK(u, calling'[u])
             /\ calling'[u].at \in {"out", "sharesDone", "retries"}
  <2> DEFINE c == calling[u]
  <2>1. c \in CallRecord /\ c.at \in {"out", "shares", "renews"} /\ SentOK(u, c)
    <3>1. c \in CallRecord /\ c.at \notin Continuations /\ SentOK(u, c)
      BY <1>0, <1>1 DEF NothingSettled, CallInv
    <3>2. c.at \notin {"flight", "waits"}
      BY <1>1 DEF CallInv
    <3> QED
      BY <3>1, <3>2 DEF CallRecord
  <2>2. calling'[u] = AfterRenewal(u)
    BY <1>0
  <2>3. CASE c.at = "out"
    BY <2>1, <2>2, <2>3 DEF AfterRenewal
  <2>4. ASSUME NEW at \in {"sharesDone", "retries"}
        PROVE  /\ [c EXCEPT !.at = at] \in CallRecord /\ SentOK(u, [c EXCEPT !.at = at])
               /\ [c EXCEPT !.at = at].at = at
    <3> DEFINE e == [c EXCEPT !.at = at]
    <3>1. e \in CallRecord /\ e.at = at /\ e.sent = c.sent /\ e.renewed = c.renewed
      BY <2>1 DEF CallRecord, Continuations
    <3> HIDE DEF e
    <3>2. SentOK(u, e)
      BY <2>1, <3>1 DEF SentOK, Sendings
    <3> QED
      BY <3>1, <3>2 DEF e
  <2>5. CASE c.at = "shares"
    BY <2>2, <2>4, <2>5 DEF AfterRenewal
  <2>6. CASE c.at = "renews"
    BY <2>2, <2>4, <2>6 DEF AfterRenewal
  <2> QED
    BY <2>1, <2>3, <2>5, <2>6
<1>3. TransportTypeOK'
  <2>1. calling' \in [Users -> CallRecord]
    BY <1>0, <1>2
  <2>2. left' \in 0..2 /\ {held', automatic', deferred', lateRenewal'} \subseteq BOOLEAN
    <3>1. deferred \in BOOLEAN /\ lateRenewal \in BOOLEAN
      BY TransportTypes
    <3>2. held' \in BOOLEAN /\ automatic' \in BOOLEAN /\ deferred' \in BOOLEAN /\ lateRenewal' \in BOOLEAN
      BY <1>0, <3>1
    <3>3. left' \in 0..2
      BY <1>0
    <3> QED
      BY <3>2, <3>3
  <2>3. renewing' \in {"none", "asked", "granted"} /\ renewTimer' \in {"none", "life", "retry"}
    BY <1>0
  <2> QED
    BY <1>0, <2>1, <2>2, <2>3, TransportTypes DEF TransportTypeOK, CallRecord
<1>4. \A u \in Users : CallInv(u)'
  BY <1>0, <1>1, <1>2 DEF CallInv
<1>5. RenewedInv'
  BY <1>0, <1>2 DEF RenewedInv
<1>6. RenewalIsComing'
  BY <1>0 DEF RenewalIsComing
<1> QED
  BY <1>0, <1>3, <1>4, <1>5, <1>6 DEF TransportInv

\* A call in flight is refused, answered or given up.
LEMMA EndsKeep ==
  ASSUME TransportInv, (\E p \in posted : Deny(p)) \/ (\E u \in Users : Answer(u) \/ GiveUpCall(u))
  PROVE  TransportInv'
<1>0. /\ posted \subseteq [by : Users, good : BOOLEAN] /\ serving \subseteq Users
      /\ calling \in [Users -> CallRecord] /\ left \in 0..2 /\ {held, lateRenewal} \subseteq BOOLEAN
      /\ \A u \in Users : CallInv(u)
  BY TransportTypes DEF TransportInv
<1>1. ASSUME NEW p \in posted, Deny(p) PROVE TransportInv'
  <2> DEFINE u == p.by
  <2>0. /\ u \in Users /\ posted' \subseteq posted /\ NothingSettled
        /\ UNCHANGED <<left, held, renewTimer, clientClosed, serving, lateRenewal>>
    BY <1>0, <1>1 DEF Deny
  <2>1. CASE calling[u].at = "flight"
    <3> DEFINE told == Denied(u)
    <3>1. calling[u] \in CallRecord
      BY <1>0, <2>0
    <3>2. told \in CallRecord /\ told.at \in {"out", "waits"} /\ SentOK(u, told)
      <4>1. CASE RetriesRead(u)
        <5>1. u \in ReadOnly /\ ~calling[u].renewed /\ calling[u].sent <= 1
          <6>1. CallInv(u) /\ u \in ReadOnly /\ ~calling[u].renewed
            BY <1>0, <2>0, <4>1 DEF RetriesRead
          <6>2. Sendings(u, calling[u]) = 0
            BY <6>1 DEF Sendings
          <6> QED
            BY <2>1, <6>1, <6>2 DEF CallInv, SentOK
        <5>2. told = [calling[u] EXCEPT !.at = "waits", !.renewed = TRUE]
          BY <4>1 DEF Denied
        <5>3. told \in CallRecord /\ told.at = "waits" /\ told.sent = calling[u].sent /\ told.renewed = TRUE
          BY <3>1, <5>2 DEF CallRecord
        <5>4. Sendings(u, told) = 1
          BY <5>1, <5>3 DEF Sendings
        <5> QED
          BY <5>1, <5>3, <5>4 DEF SentOK
      <4>2. CASE ~RetriesRead(u)
        <5>1. told = Rested
          BY <4>2 DEF Denied
        <5> QED
          BY <2>0, <5>1, RestedIs
      <4> QED
        BY <4>1, <4>2
    <3>3. Released(u, told)
      BY <1>1, <2>1 DEF Deny
    <3> HIDE DEF told, u
    <3> QED
      BY <1>0, <2>0, <2>1, <3>2, <3>3, ReleasedKeeps
  <2>2. CASE calling[u].at # "flight"
    <3>1. UNCHANGED <<calling, activeCalls, deferred, automatic, renewing>>
      BY <1>1, <2>2 DEF Deny
    <3>2. posted' \subseteq [by : Users, good : BOOLEAN] /\ serving' \subseteq Users /\ left' \in 0..2
          /\ {held', lateRenewal'} \subseteq BOOLEAN
      BY <1>0, <2>0
    <3> HIDE DEF u
    <3> QED
      BY <2>0, <3>1, <3>2, WireKeeps
  <2> QED
    BY <2>1, <2>2
<1>2. ASSUME NEW u \in Users, Answer(u) PROVE TransportInv'
  <2>0. /\ serving' \subseteq serving /\ NothingSettled
        /\ UNCHANGED <<left, held, renewTimer, clientClosed, posted, lateRenewal>>
    BY <1>2 DEF Answer
  <2>1. CASE calling[u].at = "flight"
    <3>1. Released(u, Rested)
      BY <1>2, <2>1 DEF Answer
    <3> QED
      BY <2>0, <2>1, <3>1, RestedIs, ReleasedKeeps
  <2>2. CASE calling[u].at # "flight"
    <3>1. UNCHANGED <<calling, activeCalls, deferred, automatic, renewing>>
      BY <1>2, <2>2 DEF Answer
    <3>2. posted' \subseteq [by : Users, good : BOOLEAN] /\ serving' \subseteq Users /\ left' \in 0..2
          /\ {held', lateRenewal'} \subseteq BOOLEAN
      BY <1>0, <2>0
    <3> QED
      BY <2>0, <3>1, <3>2, WireKeeps
  <2> QED
    BY <2>1, <2>2
<1>3. ASSUME NEW u \in Users, GiveUpCall(u) PROVE TransportInv'
  <2>1. /\ NothingSettled /\ calling[u].at = "flight" /\ Released(u, Rested)
        /\ UNCHANGED <<left, held, renewTimer, clientClosed, posted, serving, lateRenewal>>
    BY <1>3 DEF GiveUpCall, wireVars
  <2> QED
    BY <2>1, RestedIs, ReleasedKeeps
<1> QED
  BY <1>1, <1>2, <1>3

\* The caller of a call that waits goes.
LEMMA AbortWaitingKeeps ==
  ASSUME TransportInv, NEW u \in Users, AbortWaiting(u)
  PROVE  TransportInv'
<1>1. /\ calling[u].at # "flight" /\ calling' = [calling EXCEPT ![u] = Rested] /\ renewing' = renewing
      /\ UNCHANGED <<activeCalls, left, held, automatic, renewTimer, deferred, clientClosed, wireVars>>
  BY DEF AbortWaiting, renewalVars
<1> QED
  BY <1>1, RestedIs, MovesKeep

\* A renewal is refused or lost, or the runtime is replaced.
LEMMA FailuresKeep ==
  ASSUME TransportInv, RefuseRenewal \/ (\E later \in BOOLEAN : LoseRenewal(later)) \/ RuntimeRestarts
  PROVE  TransportInv'
<1>0. /\ posted \subseteq [by : Users, good : BOOLEAN] /\ serving \subseteq Users
      /\ left \in 0..2 /\ {held, lateRenewal} \subseteq BOOLEAN
  BY TransportTypes
<1>1. CASE RefuseRenewal
  <2>1. /\ NothingSettled /\ renewing # "none" /\ RenewalFails
        /\ UNCHANGED <<activeCalls, left, held, deferred, clientClosed, posted, serving, lateRenewal>>
    BY <1>1 DEF RefuseRenewal, wireVars
  <2>2. {held', lateRenewal'} \subseteq BOOLEAN
    BY <1>0, <2>1
  <2> QED
    BY <1>0, <2>1, <2>2, RenewalFailsKeeps
<1>2. ASSUME NEW later \in BOOLEAN, LoseRenewal(later) PROVE TransportInv'
  <2>1. /\ NothingSettled /\ renewing # "none" /\ RenewalFails
        /\ UNCHANGED <<activeCalls, left, held, deferred, clientClosed, posted, serving>>
        /\ lateRenewal' = (lateRenewal \/ later)
    BY <1>2 DEF LoseRenewal
  <2>2. {held', lateRenewal'} \subseteq BOOLEAN
    <3>1. lateRenewal' \in BOOLEAN
      BY <2>1
    <3> QED
      BY <1>0, <2>1, <3>1
  <2> QED
    BY <1>0, <2>1, <2>2, RenewalFailsKeeps
<1>3. CASE RuntimeRestarts
  <2>1. /\ NothingSettled /\ NewBearer /\ held' = FALSE /\ serving' = {} /\ lateRenewal' = FALSE
        /\ UNCHANGED <<activeCalls, left, deferred, clientClosed>>
    BY <1>3 DEF RuntimeRestarts
  <2>2. posted' \subseteq [by : Users, good : BOOLEAN] /\ {held', lateRenewal'} \subseteq BOOLEAN
        /\ serving' \subseteq Users
    BY <1>0, <2>1, NewBearerTypes
  <2>3. CASE renewing # "none"
    BY <1>3, <2>1, <2>2, <2>3, RenewalFailsKeeps DEF RuntimeRestarts
  <2>4. CASE renewing = "none"
    <3>1. UNCHANGED <<renewing, calling, automatic, renewTimer>>
      BY <1>3, <2>4 DEF RuntimeRestarts
    <3> QED
      BY <1>0, <2>1, <2>2, <3>1, WireKeeps
  <2> QED
    BY <2>3, <2>4
<1> QED
  BY <1>1, <1>2, <1>3

\* The timer has the credential renewed, or leaves it to the end of the last call.
LEMMA TimerKeeps ==
  ASSUME TransportInv, TimerRings
  PROVE  TransportInv'
<1>0. /\ NothingSettled /\ renewTimer' = "none"
      /\ UNCHANGED <<calling, activeCalls, left, held, clientClosed, posted, serving, lateRenewal>>
      /\ activeCalls # {} => deferred' = TRUE /\ UNCHANGED <<automatic, renewing>>
      /\ activeCalls = {} => automatic' = TRUE /\ deferred' = deferred
                             /\ renewing' = IF renewing = "none" THEN "asked" ELSE renewing
  BY DEF TimerRings, wireVars
<1>1. /\ calling \in [Users -> CallRecord] /\ {automatic, deferred} \subseteq BOOLEAN
      /\ renewing \in {"none", "asked", "granted"}
  BY TransportTypes
<1>2. TransportTypeOK'
  <2>1. /\ {automatic', deferred'} \subseteq BOOLEAN /\ renewing' \in {"none", "asked", "granted"}
        /\ renewTimer' \in {"none", "life", "retry"}
    BY <1>0, <1>1
  <2> QED
    BY <1>0, <2>1, TransportTypes DEF TransportTypeOK, CallRecord
<1>3. \A u \in Users : CallInv(u)'
  BY <1>0 DEF TransportInv, CallInv
<1>4. RenewedInv'
  BY <1>0, SettledRest DEF RenewedInv, GoingOn
<1>5. RenewalIsComing'
  BY <1>0 DEF RenewalIsComing
<1>6. renewing' # "none" => activeCalls' = {}
  BY <1>0 DEF TransportInv
<1> QED
  BY <1>2, <1>3, <1>4, <1>5, <1>6 DEF TransportInv

\* The client is closed: nobody waits any more.
LEMMA CloseKeeps ==
  ASSUME TransportInv, NEW later \in BOOLEAN, CloseClient(later)
  PROVE  TransportInv'
<1>0. /\ clientClosed' = "asked" /\ calling' = [u \in Users |-> Rested] /\ activeCalls' = {}
      /\ lateRenewal' = (lateRenewal \/ later) /\ renewing' = "none" /\ automatic' = FALSE
      /\ renewTimer' = "none" /\ deferred' = FALSE /\ UNCHANGED <<left, held, posted, serving>>
  BY DEF CloseClient
<1>1. \A u \in Users : calling'[u] = Rested
  BY <1>0
<1>2. TransportTypeOK'
  <2>1. calling' \in [Users -> CallRecord]
    BY <1>0, RestedIs
  <2>2. lateRenewal' \in BOOLEAN /\ held \in BOOLEAN
    BY <1>0, TransportTypes
  <2>3. {held', automatic', deferred', lateRenewal'} \subseteq BOOLEAN
    BY <1>0, <2>2
  <2>4. activeCalls' \subseteq Users /\ renewing' \in {"none", "asked", "granted"}
        /\ renewTimer' \in {"none", "life", "retry"} /\ clientClosed' \in {"no", "asked", "done"}
    BY <1>0
  <2> QED
    BY <1>0, <2>1, <2>3, <2>4, TransportTypes DEF TransportTypeOK, CallRecord
<1>3. \A u \in Users : CallInv(u)'
  BY <1>0, <1>1, RestedIs DEF CallInv
<1>4. RenewedInv'
  BY <1>1, RestedIs DEF RenewedInv, GoingOn
<1>5. RenewalIsComing'
  BY <1>0 DEF RenewalIsComing
<1> QED
  BY <1>0, <1>2, <1>3, <1>4, <1>5 DEF TransportInv

\* The client as open leaves it.
LEMMA TransportStarts == TransportInit => TransportInv
<1> SUFFICES ASSUME TransportInit PROVE TransportInv
  OBVIOUS
<1>1. /\ calling = [u \in Users |-> Rested] /\ activeCalls = {} /\ left = 2 /\ held = TRUE
      /\ renewing = "none" /\ automatic = FALSE /\ renewTimer = "life" /\ deferred = FALSE
      /\ clientClosed = "no" /\ posted = {} /\ serving = {} /\ lateRenewal = FALSE
      /\ \A u \in Users : calling[u] = Rested
  BY DEF TransportInit
<1>2. TransportTypeOK
  <2>1. calling \in [Users -> CallRecord]
    BY <1>1, RestedIs
  <2>2. {held, automatic, deferred, lateRenewal} \subseteq BOOLEAN
    BY <1>1
  <2> QED
    BY <1>1, <2>1, <2>2 DEF TransportTypeOK, CallRecord
<1>3. \A u \in Users : CallInv(u)
  BY <1>1, RestedIs DEF CallInv
<1>4. RenewedInv
  BY <1>1, RestedIs DEF RenewedInv, GoingOn
<1> QED
  BY <1>1, <1>2, <1>3, <1>4 DEF TransportInv, RenewalIsComing

\* No step of the client, the wire or the runtime breaks the invariant.
LEMMA TransportStepKeeps == TransportInv /\ [TransportNext]_transportVars => TransportInv'
<1> SUFFICES ASSUME TransportInv, [TransportNext]_transportVars PROVE TransportInv'
  OBVIOUS
<1>1. CASE UNCHANGED transportVars
  <2>1. UNCHANGED <<calling, activeCalls, left, held, renewing, automatic, renewTimer, deferred, clientClosed,
                    posted, serving, lateRenewal>>
    BY <1>1 DEF transportVars, renewalVars, wireVars
  <2> QED
    BY <2>1, TransportTypes, WireKeeps
<1>2. CASE TransportNext
  <2>1. ASSUME NEW u \in Users, Call(u) \/ Continue(u) \/ Refresh(u) \/ AbortWaiting(u) PROVE TransportInv'
    BY <2>1, CallKeeps, RefreshKeeps, AbortWaitingKeeps
  <2>2. ASSUME (\E p \in posted : Deny(p)) \/ (\E u \in Users : Answer(u) \/ GiveUpCall(u)) PROVE TransportInv'
    BY <2>2, EndsKeep
  <2>3. ASSUME (\E p \in posted : Serve(p)) \/ LateGrant \/ Ages \/ CloseAnswered PROVE TransportInv'
    BY <2>3, QuietStepsKeep
  <2>4. ASSUME RefuseRenewal \/ (\E later \in BOOLEAN : LoseRenewal(later)) \/ RuntimeRestarts PROVE TransportInv'
    BY <2>4, FailuresKeep
  <2>5. ASSUME GrantRenewal \/ HearRenewal \/ TimerRings \/ \E later \in BOOLEAN : CloseClient(later)
        PROVE  TransportInv'
    BY <2>5, GrantKeeps, HearKeeps, TimerKeeps, CloseKeeps
  <2> QED
    BY <1>2, <2>1, <2>2, <2>3, <2>4, <2>5 DEF TransportNext
<1> QED
  BY <1>1, <1>2

\* The inductive invariant of a client's calls and of the renewal of its credential: a call
\* counts as active just while it is in flight, and after a renewal the calls that shared it
\* find it fresh.
THEOREM TransportIsConsistent == TransportSpec => []TransportInv
<1>1. TransportInit => TransportInv
  BY TransportStarts
<1>2. TransportInv /\ [TransportNext]_transportVars => TransportInv'
  BY TransportStepKeeps
<1> QED
  BY <1>1, <1>2, PTL DEF TransportSpec

\* What each moment of the client must be for it never to wait for itself.
LEMMA InvServes == TransportInv => ClientIsServed
<1> SUFFICES ASSUME TransportInv PROVE ClientIsServed
  OBVIOUS
<1>1. RenewalSparesCalls
  <2> SUFFICES ASSUME NEW u \in Users
               PROVE  calling[u].sent <= IF calling[u].renewed /\ u \in ReadOnly THEN 2 ELSE 1
    BY DEF TransportInv, RenewalSparesCalls
  <2>1. calling[u] \in CallRecord /\ SentOK(u, calling[u])
    BY TransportTypes DEF TransportInv, CallInv
  <2>2. calling[u].sent \in 0..2
    BY <2>1 DEF CallRecord
  <2> QED
    BY <2>1, <2>2 DEF SentOK, Sendings
<1>2. WaitersAreWoken
  <2> SUFFICES ASSUME NEW u \in Users
               PROVE  /\ calling[u].at = "waits" => \E v \in activeCalls \ {u} : calling[v].at = "flight"
                      /\ calling[u].at \in {"shares", "renews"} => renewing # "none"
    BY DEF WaitersAreWoken
  <2>1. CallInv(u) /\ activeCalls \subseteq Users
    BY TransportTypes DEF TransportInv
  <2>2. ASSUME calling[u].at = "waits" PROVE \E v \in activeCalls \ {u} : calling[v].at = "flight"
    <3>1. PICK v \in activeCalls : TRUE
      BY <2>1, <2>2 DEF CallInv
    <3>2. CallInv(v) /\ calling[v].at = "flight"
      BY <2>1, <3>1 DEF TransportInv, CallInv
    <3>3. v # u
      BY <2>2, <3>2
    <3> QED
      BY <3>1, <3>2, <3>3
  <2> QED
    BY <2>1, <2>2 DEF CallInv
<1> QED
  BY <1>1, <1>2 DEF ClientIsServed, TransportInv

\* A client does not wait for itself, none of its calls is under way when it asks for the
\* renewal that would invalidate its bearer, and it never gives up renewing (transport.ts,
\* client-renewal.ts).
THEOREM CallsAreServed == TransportSpec => []ClientIsServed
  BY TransportIsConsistent, InvServes, PTL


-----------------------------------------------------------------------------
(* A capture of the screen.                                                *)

ShotAnswer == [rev : Nat, drained : BOOLEAN, frame : BOOLEAN]
ShotAsk == [at : {"idle", "sent", "answered", "coming", "heard", "failed"}, news : BOOLEAN, answer : ShotAnswer]

ShotTask == [at : {"none", "running", "answered", "drained", "released"}, rev : Nat, frame : BOOLEAN, late : Nat]
ShotCall ==
  [at : {"ready", "starting", "waiting", "lastWait", "reading", "releasing", "done"},
   start : {"none", "sent", "accepted", "failed", "refused", "over"}, cleanup : {"none"},
   told : {"none", "complete", "unknown"}, ok : BOOLEAN]
ShotProtocol == [known : BOOLEAN, rev : Nat, terminal : BOOLEAN, released : BOOLEAN]
ShotPermit == [known : BOOLEAN, rev : Nat, terminal : BOOLEAN]
ShotDriver == [task : BOOLEAN, key : {"none", "task", "ack"}]
ShotRecord == [known : BOOLEAN, rev : Nat, terminal : BOOLEAN, stage : {"none", "unknown"}]

ShotTypes ==
  /\ sckTask \in ShotTask /\ captureCall \in ShotCall /\ asks \in [Readers -> ShotAsk]
  /\ protocolTask \in ShotProtocol /\ permit \in ShotPermit /\ driver \in ShotDriver
  /\ pendingShot \in ShotRecord
  /\ tombstone \in BOOLEAN /\ lease \in {"active", "quarantined", "revoked", "released"}
  /\ settler \in {"idle", "asking"}

\* The revisions of the helper's task: one for each change of its status.
TaskInv ==
  /\ sckTask.at = "none" => sckTask.rev = 0 /\ sckTask.late = 0
  /\ sckTask.at = "running" => sckTask.rev = 1 /\ sckTask.late = 0
  /\ sckTask.at = "answered" => sckTask.rev = 2 /\ sckTask.late = 0
  /\ sckTask.at \in {"drained", "released"} =>
       sckTask.rev >= 2 /\ sckTask.rev <= 3 + sckTask.late /\ sckTask.late <= MaxLateChanges

\* An answer is a picture of the past: of this task, and of nothing later than it.
AnswersInv ==
  \A r \in Readers : asks[r].answer.rev <= sckTask.rev /\ (asks[r].answer.drained => Drained(sckTask))

\* What the registry, the protocol and the adapter know is what an answer said.
KnownInv ==
  /\ permit.rev <= sckTask.rev /\ protocolTask.rev <= sckTask.rev
  /\ permit.terminal \/ pendingShot.terminal => Drained(sckTask)
  /\ protocolTask.terminal => permit.terminal

\* Until the start is heard nobody has asked anything, and the helper has a task only
\* once it took the request.
StartInv ==
  /\ captureCall.start \in {"none", "sent", "refused"} => sckTask.at = "none"
  /\ captureCall.start = "accepted" => sckTask.at # "none"
  /\ captureCall.at = "ready" => captureCall.start = "none"
  /\ captureCall.start = "none" => captureCall.at \in {"ready", "done"}
  /\ captureCall.start # "over" =>
       /\ captureCall.at \in {"ready", "starting", "done"}
       /\ ~protocolTask.terminal /\ ~permit.known /\ ~pendingShot.known /\ pendingShot.rev = 0
       /\ \A r \in Readers : asks[r].at = "idle"

\* What the operation was told, and what became of its lease and of its record.
ToldInv ==
  /\ captureCall.at = "done" <=> captureCall.told # "none"
  /\ captureCall.told = "complete" =>
       \/ sckTask.at = "released"
       \/ sckTask.at = "none" /\ captureCall.start \in {"none", "refused"}
  /\ lease = "released" => captureCall.told = "complete"
  /\ lease \in {"quarantined", "revoked"} => captureCall.told = "unknown"
  /\ lease = "revoked" => Drained(sckTask)
  /\ tombstone => sckTask.at = "released" /\ captureCall.told = "unknown"
  /\ captureCall.at \in {"waiting", "lastWait", "reading", "releasing"} => pendingShot.known
  /\ driver.task /\ captureCall.at # "done" => pendingShot.known
  /\ ~pendingShot.known => pendingShot.rev = 0 \/ captureCall.told = "complete" \/ tombstone
  /\ settler = "asking" => lease = "quarantined" /\ pendingShot.known /\ ~pendingShot.terminal

ShotInv == ShotTypes /\ TaskInv /\ AnswersInv /\ KnownInv /\ StartInv /\ ToldInv

\* Before its start is heard nobody asks anything of a task, and every answer is empty.
LEMMA ShotsStart == ScreenInit => ShotInv
<1> SUFFICES ASSUME ScreenInit PROVE ShotInv
  OBVIOUS
<1>1. NoAnswer \in ShotAnswer /\ NoAnswer.rev = 0 /\ ~NoAnswer.drained
  BY DEF NoAnswer, ShotAnswer
<1>2. Silent("idle") \in ShotAsk /\ Silent("idle").answer = NoAnswer
  BY <1>1 DEF Silent, ShotAsk
<1>3. ShotTypes
  <2>1. sckTask \in ShotTask /\ captureCall \in ShotCall
    BY DEF ScreenInit, ShotTask, ShotCall
  <2>2. protocolTask \in ShotProtocol /\ permit \in ShotPermit /\ driver \in ShotDriver /\ pendingShot \in ShotRecord
    BY DEF ScreenInit, ShotProtocol, ShotPermit, ShotDriver, ShotRecord
  <2>3. asks \in [Readers -> ShotAsk]
    BY <1>2 DEF ScreenInit
  <2> QED
    BY <2>1, <2>2, <2>3 DEF ScreenInit, ShotTypes
<1>4. AnswersInv
  BY <1>1, <1>2 DEF ScreenInit, AnswersInv
<1>5. StartInv
  <2>1. \A r \in Readers : asks[r] = Silent("idle")
    BY DEF ScreenInit
  <2>2. \A r \in Readers : asks[r].at = "idle"
    BY <2>1 DEF Silent
  <2> QED
    BY <2>2 DEF ScreenInit, StartInv
<1> QED
  BY <1>3, <1>4, <1>5 DEF ShotInv, ScreenInit, TaskInv, KnownInv, ToldInv, Drained

\* A request that goes out or fails says nothing of the task; an answer in use stays as it is.
LEMMA AsksStayTrue ==
  ASSUME ShotInv, NEW r \in Readers, NEW ask \in ShotAsk, asks' = [asks EXCEPT ![r] = ask], sckTask' = sckTask,
         ask.answer.rev <= sckTask.rev, ask.answer.drained => Drained(sckTask)
  PROVE  asks' \in [Readers -> ShotAsk] /\ AnswersInv'
<1>1. asks \in [Readers -> ShotAsk]
  BY DEF ShotInv, ShotTypes
<1>2. \A q \in Readers : asks'[q] = IF q = r THEN ask ELSE asks[q]
  BY <1>1
<1>3. \A q \in Readers : asks[q].answer.rev <= sckTask.rev /\ (asks[q].answer.drained => Drained(sckTask))
  BY DEF ShotInv, AnswersInv
<1> QED
  BY <1>1, <1>2, <1>3 DEF AnswersInv

\* The same of a request that has just gone out, or failed.
LEMMA SilenceStaysTrue ==
  ASSUME ShotInv, NEW r \in Readers, NEW at \in {"sent", "failed"}, asks' = [asks EXCEPT ![r] = Silent(at)],
         sckTask' = sckTask
  PROVE  asks' \in [Readers -> ShotAsk] /\ AnswersInv'
<1>1. NoAnswer \in ShotAnswer /\ NoAnswer.rev = 0 /\ ~NoAnswer.drained
  BY DEF NoAnswer, ShotAnswer
<1>2. Silent(at) \in ShotAsk /\ Silent(at).answer = NoAnswer
  BY <1>1 DEF Silent, ShotAsk
<1>3. 0 <= sckTask.rev
  BY DEF ShotInv, ShotTypes, ShotTask
<1> QED
  BY <1>1, <1>2, <1>3, AsksStayTrue

\* Answers are true of a task that only goes on.
LEMMA AnswersOutlive ==
  ASSUME ShotInv, asks' = asks, sckTask' \in ShotTask, sckTask'.rev >= sckTask.rev,
         Drained(sckTask) => Drained(sckTask)'
  PROVE  AnswersInv'
<1>1. \A q \in Readers : asks[q].answer.rev \in Nat
  BY DEF ShotInv, ShotTypes, ShotAsk, ShotAnswer
<1>2. \A q \in Readers : asks[q].answer.rev <= sckTask.rev /\ (asks[q].answer.drained => Drained(sckTask))
  BY DEF ShotInv, AnswersInv
<1>3. sckTask.rev \in Nat /\ sckTask'.rev \in Nat
  BY DEF ShotInv, ShotTypes, ShotTask
<1> QED
  BY <1>1, <1>2, <1>3 DEF AnswersInv

\* The helper's task goes on.
LEMMA TaskGoesOnKeeps ==
  ASSUME ShotInv, TaskGoesOn
  PROVE  ShotInv'
<1>0. /\ UNCHANGED <<captureCall, asks, protocolTask, permit, driver, pendingShot, tombstone, lease, settler>>
      /\ sckTask \in ShotTask
  BY DEF TaskGoesOn, ShotInv, ShotTypes
<1>1. /\ sckTask' \in ShotTask /\ sckTask'.rev = sckTask.rev + 1
      /\ \/ sckTask.at = "running" /\ sckTask'.at \in {"answered", "drained"} /\ sckTask'.late = sckTask.late
         \/ sckTask.at = "answered" /\ sckTask'.at = "drained" /\ sckTask'.late = sckTask.late
         \/ /\ sckTask.at = "drained" /\ sckTask'.at = "drained"
            /\ sckTask.late < MaxLateChanges /\ sckTask'.late = sckTask.late + 1
  <2>0. sckTask.rev + 1 \in Nat /\ sckTask.late + 1 \in Nat
    BY <1>0 DEF ShotTask
  <2>1. ASSUME NEW at \in {"answered", "drained"}, NEW frame \in BOOLEAN, sckTask.at = "running",
               sckTask' = [sckTask EXCEPT !.at = at, !.rev = @ + 1, !.frame = frame]
        PROVE  sckTask' \in ShotTask /\ sckTask'.rev = sckTask.rev + 1 /\ sckTask'.at = at
               /\ sckTask'.late = sckTask.late
    BY <1>0, <2>0, <2>1 DEF ShotTask
  <2>2. ASSUME sckTask' = [sckTask EXCEPT !.at = "drained", !.rev = @ + 1]
        PROVE  sckTask' \in ShotTask /\ sckTask'.rev = sckTask.rev + 1 /\ sckTask'.at = "drained"
               /\ sckTask'.late = sckTask.late
    BY <1>0, <2>0, <2>2 DEF ShotTask
  <2>3. ASSUME sckTask' = [sckTask EXCEPT !.rev = @ + 1, !.late = @ + 1]
        PROVE  sckTask' \in ShotTask /\ sckTask'.rev = sckTask.rev + 1 /\ sckTask'.at = sckTask.at
               /\ sckTask'.late = sckTask.late + 1
    BY <1>0, <2>0, <2>3 DEF ShotTask
  <2> QED
    BY <2>1, <2>2, <2>3 DEF TaskGoesOn
<1>2. sckTask.rev \in Nat /\ sckTask.late \in Nat /\ (Drained(sckTask) => Drained(sckTask)')
  BY <1>0, <1>1 DEF ShotTask, Drained
<1>3. ShotTypes'
  BY <1>0, <1>1 DEF ShotInv, ShotTypes
<1>4. TaskInv'
  BY <1>1, <1>2, ScreenAssumption DEF ShotInv, TaskInv
<1>5. AnswersInv'
  BY <1>0, <1>1, <1>2, AnswersOutlive
<1>6. KnownInv'
  BY <1>0, <1>1, <1>2 DEF ShotInv, ShotTypes, ShotPermit, ShotProtocol, KnownInv
<1>7. StartInv' /\ ToldInv'
  BY <1>0, <1>1, <1>2 DEF ShotInv, StartInv, ToldInv
<1> QED
  BY <1>3, <1>4, <1>5, <1>6, <1>7 DEF ShotInv

\* A call that ends: its record.
LEMMA EndedCall ==
  ASSUME captureCall \in ShotCall, NEW cleanup \in {"complete", "unknown"}, NEW ok \in BOOLEAN, CallEnds(cleanup, ok)
  PROVE  /\ captureCall' \in ShotCall /\ captureCall'.at = "done" /\ captureCall'.told = cleanup
         /\ captureCall'.start = captureCall.start
  BY DEF CallEnds, ShotCall

\* A step of the operation alone, that leaves what the helper and the others know.
LEMMA CallMovesKeeps ==
  ASSUME ShotInv, captureCall' \in ShotCall, captureCall.at # "done",
         UNCHANGED <<sckTask, asks, protocolTask, permit, driver, tombstone, lease, settler>>,
         pendingShot' \in ShotRecord, pendingShot'.known = pendingShot.known,
         pendingShot'.terminal = pendingShot.terminal,
         captureCall'.at = "done" <=> captureCall'.told # "none",
         captureCall'.told = "complete" => sckTask.at = "none" /\ captureCall'.start \in {"none", "refused"},
         captureCall'.at \in {"waiting", "lastWait", "reading", "releasing"} \/ pendingShot'.rev # pendingShot.rev
           => pendingShot.known,
         StartInv'
  PROVE  ShotInv'
<1>1. ShotTypes'
  BY DEF ShotInv, ShotTypes
<1>2. TaskInv' /\ AnswersInv' /\ KnownInv'
  BY DEF ShotInv, TaskInv, AnswersInv, KnownInv
<1>3. ToldInv'
  BY DEF ShotInv, ToldInv
<1> QED
  BY <1>1, <1>2, <1>3 DEF ShotInv

\* The capture begins, or is refused before anything was asked.
LEMMA CaptureStartsKeeps ==
  ASSUME ShotInv, CaptureStarts
  PROVE  ShotInv'
<1>0. /\ captureCall \in ShotCall /\ captureCall.at = "ready" /\ captureCall.start = "none" /\ sckTask.at = "none"
      /\ UNCHANGED <<sckTask, asks, protocolTask, permit, driver, pendingShot, tombstone, lease, settler>>
      /\ pendingShot \in ShotRecord /\ captureCall.told = "none"
  BY DEF ShotInv, ShotTypes, StartInv, ToldInv, CaptureStarts
<1>1. \/ /\ captureCall' \in ShotCall /\ captureCall'.at = "done" /\ captureCall'.told = "complete"
         /\ captureCall'.start = "none"
      \/ /\ captureCall' \in ShotCall /\ captureCall'.at = "starting" /\ captureCall'.told = "none"
         /\ captureCall'.start = "sent"
  <2>1. CASE CallEnds("complete", FALSE)
    BY <1>0, <2>1, EndedCall
  <2>2. ASSUME captureCall' = [captureCall EXCEPT !.at = "starting", !.start = "sent"]
        PROVE  /\ captureCall' \in ShotCall /\ captureCall'.at = "starting" /\ captureCall'.told = "none"
               /\ captureCall'.start = "sent"
    BY <1>0, <2>2 DEF ShotCall
  <2> QED
    BY <2>1, <2>2 DEF CaptureStarts
<1>2. StartInv'
  BY <1>0, <1>1 DEF ShotInv, StartInv
<1> QED
  BY <1>0, <1>1, <1>2, CallMovesKeeps

\* The start fails: nothing is left behind, or nothing is known.
LEMMA StartFailsKeeps ==
  ASSUME ShotInv, StartFails
  PROVE  ShotInv'
<1>0. /\ captureCall \in ShotCall /\ captureCall.at = "starting" /\ pendingShot \in ShotRecord
      /\ UNCHANGED <<sckTask, asks, protocolTask, permit, driver, pendingShot, tombstone, lease, settler>>
  BY DEF ShotInv, ShotTypes, StartFails
<1>1. /\ captureCall' \in ShotCall /\ captureCall'.at = "done" /\ captureCall'.start = captureCall.start
      /\ captureCall'.told \in {"complete", "unknown"}
      /\ captureCall'.told = "complete" => captureCall.start = "refused"
  BY <1>0, EndedCall DEF StartFails
<1>2. captureCall.start = "refused" => sckTask.at = "none"
  BY DEF ShotInv, StartInv
<1>3. StartInv'
  BY <1>0, <1>1 DEF ShotInv, StartInv
<1> QED
  BY <1>0, <1>1, <1>2, <1>3, CallMovesKeeps

\* The wait for the result ends, and then the operation, with nothing known.
LEMMA WaitingEndsKeeps ==
  ASSUME ShotInv, GivesUpWaiting \/ StaysUnresolved
  PROVE  ShotInv'
<1>0. /\ captureCall \in ShotCall /\ captureCall.at \in {"waiting", "reading"} /\ pendingShot \in ShotRecord
      /\ UNCHANGED <<sckTask, asks, protocolTask, permit, driver, pendingShot, tombstone, lease, settler>>
      /\ captureCall.told = "none" /\ pendingShot.known
  BY DEF ShotInv, ShotTypes, ToldInv, GivesUpWaiting, StaysUnresolved
<1>1. /\ captureCall' \in ShotCall /\ captureCall'.start = captureCall.start
      /\ \/ captureCall'.at = "lastWait" /\ captureCall'.told = "none"
         \/ captureCall'.at = "done" /\ captureCall'.told = "unknown"
  <2>1. CASE GivesUpWaiting
    BY <1>0, <2>1 DEF GivesUpWaiting, ShotCall
  <2>2. CASE StaysUnresolved
    BY <1>0, <2>2, EndedCall DEF StaysUnresolved
  <2> QED
    BY <2>1, <2>2
<1>2. StartInv'
  BY <1>0, <1>1 DEF ShotInv, StartInv
<1> QED
  BY <1>0, <1>1, <1>2, CallMovesKeeps

\* A result in time: the record takes its revision.
LEMMA ResultIsTakenKeeps ==
  ASSUME ShotInv, ResultIsTaken
  PROVE  ShotInv'
<1> DEFINE said == asks["result"].answer
<1>0. /\ captureCall \in ShotCall /\ captureCall.at \in {"waiting", "lastWait"} /\ pendingShot \in ShotRecord
      /\ UNCHANGED <<sckTask, asks, protocolTask, permit, driver, tombstone, lease, settler>>
      /\ captureCall.told = "none" /\ pendingShot.known
  BY DEF ShotInv, ShotTypes, ToldInv, ResultIsTaken
<1>1. said \in ShotAnswer
  BY DEF ShotInv, ShotTypes, ShotAsk, Readers
<1>2. PICK passed \in Passes(said) : \E ok \in Published(passed) :
        IF said.drained THEN captureCall' = [captureCall EXCEPT !.at = "releasing", !.ok = ok]
        ELSE CallEnds("unknown", ok)
  BY DEF ResultIsTaken
<1>3. PICK ok \in Published(passed) :
        IF said.drained THEN captureCall' = [captureCall EXCEPT !.at = "releasing", !.ok = ok]
        ELSE CallEnds("unknown", ok)
  BY <1>2
<1>4. ok \in BOOLEAN
  BY <1>3 DEF Published
<1>5. /\ captureCall' \in ShotCall /\ captureCall'.start = captureCall.start
      /\ \/ captureCall'.at = "releasing" /\ captureCall'.told = "none"
         \/ captureCall'.at = "done" /\ captureCall'.told = "unknown"
  <2>1. CASE said.drained
    BY <1>0, <1>3, <1>4, <2>1 DEF ShotCall
  <2>2. CASE ~said.drained
    <3>1. CallEnds("unknown", ok)
      BY <1>3, <2>2
    <3> QED
      BY <1>0, <1>4, <3>1, EndedCall
  <2> QED
    BY <2>1, <2>2
<1>6. /\ pendingShot' \in ShotRecord /\ pendingShot'.known = pendingShot.known
      /\ pendingShot'.terminal = pendingShot.terminal
  <2>1. said.rev \in Nat /\ pendingShot' = [pendingShot EXCEPT !.rev = said.rev]
    BY <1>1 DEF ResultIsTaken, ShotAnswer
  <2> HIDE DEF said
  <2> QED
    BY <1>0, <2>1 DEF ShotRecord
<1>7. StartInv'
  BY <1>0, <1>5, <1>6 DEF ShotInv, StartInv
<1> HIDE DEF said
<1> QED
  BY <1>0, <1>5, <1>6, <1>7, CallMovesKeeps

\* A request asked for by whom the permits let.
LEMMA AskStaysTrue ==
  ASSUME ShotInv, NEW r \in Readers, AskHelper(r), sckTask' = sckTask
  PROVE  asks' \in [Readers -> ShotAsk] /\ AnswersInv'
  BY SilenceStaysTrue DEF AskHelper, Refused

\* The last status of the task, for the record only.
LEMMA ReadsLastStatusKeeps ==
  ASSUME ShotInv, ReadsLastStatus
  PROVE  ShotInv'
<1>0. /\ captureCall \in ShotCall /\ captureCall.at = "lastWait" /\ AskHelper("status")
      /\ UNCHANGED <<sckTask, protocolTask, permit, driver, pendingShot, tombstone, lease, settler>>
      /\ captureCall' = [captureCall EXCEPT !.at = "reading"]
  BY DEF ShotInv, ShotTypes, ReadsLastStatus
<1>1. /\ captureCall' \in ShotCall /\ captureCall'.start = captureCall.start
      /\ captureCall'.at = "reading" /\ captureCall'.told = captureCall.told
  BY <1>0 DEF ShotCall
<1>2. asks' \in [Readers -> ShotAsk] /\ AnswersInv'
  BY <1>0, AskStaysTrue DEF Readers
<1>3. ShotTypes'
  BY <1>0, <1>1, <1>2 DEF ShotInv, ShotTypes
<1>4. TaskInv' /\ KnownInv'
  BY <1>0 DEF ShotInv, TaskInv, KnownInv
<1>5. StartInv' /\ ToldInv'
  BY <1>0, <1>1 DEF ShotInv, StartInv, ToldInv
<1> QED
  BY <1>2, <1>3, <1>4, <1>5 DEF ShotInv

\* The helper takes the request, refuses it, or fails in it.
LEMMA HelperStartsKeeps ==
  ASSUME ShotInv, HelperStarts
  PROVE  ShotInv'
<1>0. /\ captureCall \in ShotCall /\ sckTask \in ShotTask /\ captureCall.start = "sent" /\ sckTask.at = "none"
      /\ UNCHANGED <<asks, protocolTask, permit, driver, pendingShot, tombstone, lease, settler>>
  BY DEF ShotInv, ShotTypes, StartInv, HelperStarts
<1>1. /\ captureCall' \in ShotCall /\ captureCall'.at = captureCall.at /\ captureCall'.told = captureCall.told
      /\ captureCall'.start \in {"accepted", "failed", "refused"}
  <2>1. PICK how \in {"accepted", "failed", "refused"} : captureCall' = [captureCall EXCEPT !.start = how]
    BY DEF HelperStarts
  <2> QED
    BY <1>0, <2>1 DEF ShotCall
<1>2. /\ sckTask' \in ShotTask
      /\ \/ /\ sckTask'.at = "running" /\ sckTask'.rev = 1 /\ sckTask'.late = sckTask.late
            /\ captureCall'.start \in {"accepted", "failed"}
         \/ sckTask' = sckTask /\ captureCall'.start # "accepted"
  <2>1. /\ \/ sckTask' = [sckTask EXCEPT !.at = "running", !.rev = 1] /\ captureCall'.start \in {"accepted", "failed"}
           \/ sckTask' = sckTask /\ captureCall'.start \in {"refused", "failed"}
    <3>1. ASSUME NEW how \in {"accepted", "failed", "refused"}, captureCall' = [captureCall EXCEPT !.start = how]
          PROVE  captureCall'.start = how
      BY <1>0, <3>1 DEF ShotCall
    <3> QED
      BY <3>1 DEF HelperStarts
  <2>2. ASSUME sckTask' = [sckTask EXCEPT !.at = "running", !.rev = 1]
        PROVE  sckTask' \in ShotTask /\ sckTask'.at = "running" /\ sckTask'.rev = 1 /\ sckTask'.late = sckTask.late
    BY <1>0, <2>2 DEF ShotTask
  <2> QED
    BY <1>0, <2>1, <2>2
<1>3. sckTask.rev = 0 /\ sckTask.late = 0 /\ ~Drained(sckTask)
  BY <1>0 DEF ShotInv, TaskInv, Drained
<1>4. ShotTypes'
  BY <1>0, <1>1, <1>2 DEF ShotInv, ShotTypes
<1>5. TaskInv'
  BY <1>2, <1>3 DEF ShotInv, TaskInv
<1>6. AnswersInv'
  BY <1>0, <1>2, <1>3, AnswersOutlive
<1>7. KnownInv'
  BY <1>0, <1>2, <1>3 DEF ShotInv, ShotTypes, ShotPermit, ShotProtocol, KnownInv
<1>8. StartInv'
  BY <1>0, <1>1, <1>2 DEF ShotInv, StartInv
<1>9. ToldInv'
  BY <1>0, <1>1, <1>2, <1>3 DEF ShotInv, ToldInv
<1> QED
  BY <1>4, <1>5, <1>6, <1>7, <1>8, <1>9 DEF ShotInv

\* The task is bound and its result asked for, also when the adapter has given up.
LEMMA StartIsHeardKeeps ==
  ASSUME ShotInv, StartIsHeard
  PROVE  ShotInv'
<1>0. /\ captureCall \in ShotCall /\ captureCall.start = "accepted" /\ protocolTask \in ShotProtocol
      /\ driver \in ShotDriver /\ pendingShot \in ShotRecord /\ sckTask \in ShotTask
      /\ UNCHANGED <<sckTask, tombstone, lease, settler>>
      /\ permit' = [known |-> TRUE, rev |-> 1, terminal |-> FALSE]
  BY DEF ShotInv, ShotTypes, StartIsHeard
<1>1. /\ sckTask.at # "none" /\ ~protocolTask.terminal /\ ~pendingShot.known /\ pendingShot.rev = 0
      /\ captureCall.at \in {"starting", "done"}
  BY <1>0 DEF ShotInv, StartInv
<1>2. sckTask.rev >= 1
  BY <1>0, <1>1 DEF ShotInv, TaskInv, ShotTask
<1>3. permit' \in ShotPermit /\ permit'.rev = 1 /\ ~permit'.terminal
  BY <1>0 DEF ShotPermit
<1>4. protocolTask' \in ShotProtocol /\ protocolTask'.rev = 1 /\ ~protocolTask'.terminal
  BY <1>0, <1>1 DEF StartIsHeard, ShotProtocol
<1>5. driver' \in ShotDriver
  BY <1>0 DEF StartIsHeard, ShotDriver
<1>6. asks' \in [Readers -> ShotAsk] /\ AnswersInv'
  <2>1. asks' = [asks EXCEPT !["result"] = Silent("sent")]
    BY DEF StartIsHeard
  <2> QED
    BY <1>0, <2>1, SilenceStaysTrue DEF Readers
<1>7. /\ captureCall' \in ShotCall /\ captureCall'.start = "over" /\ captureCall'.told = captureCall.told
      /\ pendingShot' \in ShotRecord /\ pendingShot'.rev = 0 /\ pendingShot'.terminal = pendingShot.terminal
      /\ \/ captureCall.at = "starting" /\ captureCall'.at = "waiting" /\ pendingShot'.known
         \/ captureCall.at = "done" /\ captureCall'.at = "done" /\ ~pendingShot'.known
  <2>1. CASE captureCall.at = "starting"
    <3>1. /\ captureCall' = [captureCall EXCEPT !.start = "over", !.at = "waiting"]
          /\ pendingShot' = [pendingShot EXCEPT !.known = TRUE]
      BY <2>1 DEF StartIsHeard
    <3>2. /\ captureCall' \in ShotCall /\ captureCall'.start = "over" /\ captureCall'.told = captureCall.told
          /\ captureCall'.at = "waiting"
      BY <1>0, <3>1 DEF ShotCall
    <3>3. /\ pendingShot' \in ShotRecord /\ pendingShot'.rev = 0 /\ pendingShot'.terminal = pendingShot.terminal
          /\ pendingShot'.known
      BY <1>0, <1>1, <3>1 DEF ShotRecord
    <3> QED
      BY <2>1, <3>2, <3>3
  <2>2. CASE captureCall.at = "done"
    <3>1. captureCall' = [captureCall EXCEPT !.start = "over"] /\ pendingShot' = pendingShot
      BY <2>2 DEF StartIsHeard
    <3>2. /\ captureCall' \in ShotCall /\ captureCall'.start = "over" /\ captureCall'.told = captureCall.told
          /\ captureCall'.at = "done"
      BY <1>0, <2>2, <3>1 DEF ShotCall
    <3> QED
      BY <1>0, <1>1, <2>2, <3>1, <3>2
  <2> QED
    BY <1>1, <2>1, <2>2
<1>8. ShotTypes'
  BY <1>0, <1>3, <1>4, <1>5, <1>6, <1>7 DEF ShotInv, ShotTypes
<1>9. TaskInv'
  BY <1>0 DEF ShotInv, TaskInv
<1>10. KnownInv'
  BY <1>0, <1>2, <1>3, <1>4, <1>7 DEF ShotInv, KnownInv
<1>11. StartInv'
  BY <1>7 DEF StartInv
<1>12. ToldInv'
  BY <1>0, <1>1, <1>7 DEF ShotInv, ToldInv
<1> QED
  BY <1>6, <1>8, <1>9, <1>10, <1>11, <1>12 DEF ShotInv

\* What a release makes of the helper's task, of the protocol's and of the driver.
ReleaseConfirmed ==
  /\ Drained(sckTask) /\ sckTask' = [sckTask EXCEPT !.at = "released"]
  /\ protocolTask' = [protocolTask EXCEPT !.released = TRUE] /\ driver' = [task |-> FALSE, key |-> "none"]
ReleaseUnconfirmed(key) ==
  /\ sckTask' = sckTask \/ (Drained(sckTask) /\ sckTask' = [sckTask EXCEPT !.at = "released"])
  /\ protocolTask' = protocolTask /\ driver' \in {driver, KeyKept(key)}

LEMMA ReleaseMoves ==
  ASSUME ShotInv, NEW key \in {"task", "ack"}, ReleaseConfirmed \/ ReleaseUnconfirmed(key),
         UNCHANGED asks
  PROVE  /\ sckTask' \in ShotTask /\ protocolTask' \in ShotProtocol /\ driver' \in ShotDriver
         /\ sckTask'.at = sckTask.at \/ (Drained(sckTask) /\ sckTask'.at = "released")
         /\ ReleaseConfirmed => sckTask'.at = "released"
         /\ (Drained(sckTask) => Drained(sckTask)') /\ protocolTask'.terminal = protocolTask.terminal
         /\ protocolTask'.rev = protocolTask.rev /\ sckTask'.rev = sckTask.rev /\ TaskInv' /\ AnswersInv'
<1>0. sckTask \in ShotTask /\ protocolTask \in ShotProtocol /\ driver \in ShotDriver
  BY DEF ShotInv, ShotTypes
<1>1. /\ sckTask' \in ShotTask /\ sckTask'.rev = sckTask.rev /\ sckTask'.late = sckTask.late
      /\ sckTask' = sckTask \/ (Drained(sckTask) /\ sckTask'.at = "released")
  <2>1. ASSUME sckTask' = [sckTask EXCEPT !.at = "released"]
        PROVE  sckTask' \in ShotTask /\ sckTask'.rev = sckTask.rev /\ sckTask'.late = sckTask.late
               /\ sckTask'.at = "released"
    BY <1>0, <2>1 DEF ShotTask
  <2> QED
    BY <1>0, <2>1 DEF ReleaseConfirmed, ReleaseUnconfirmed
<1>2. /\ protocolTask' \in ShotProtocol /\ protocolTask'.terminal = protocolTask.terminal
      /\ protocolTask'.rev = protocolTask.rev
  BY <1>0 DEF ReleaseConfirmed, ReleaseUnconfirmed, ShotProtocol
<1>3. driver' \in ShotDriver
  <2>1. [task |-> FALSE, key |-> "none"] \in ShotDriver /\ KeyKept(key) \in ShotDriver
    BY <1>0 DEF ShotDriver, KeyKept
  <2> QED
    BY <1>0, <2>1 DEF ReleaseConfirmed, ReleaseUnconfirmed
<1>4. ReleaseConfirmed => sckTask'.at = "released"
  BY <1>0 DEF ReleaseConfirmed, ShotTask
<1>5. Drained(sckTask) => Drained(sckTask)'
  BY <1>1 DEF Drained
<1>6. TaskInv'
  BY <1>1 DEF ShotInv, TaskInv, Drained
<1>7. AnswersInv'
  <2>1. sckTask'.rev >= sckTask.rev
    BY <1>0, <1>1 DEF ShotTask
  <2> QED
    BY <1>1, <1>5, <2>1, AnswersOutlive
<1> QED
  BY <1>1, <1>2, <1>3, <1>4, <1>5, <1>6, <1>7

\* The capture releases its task, or does not know whether it did.
LEMMA CaptureReleasesKeeps ==
  ASSUME ShotInv, CaptureReleases
  PROVE  ShotInv'
<1>0. /\ captureCall \in ShotCall /\ captureCall.at = "releasing" /\ captureCall.told = "none"
      /\ pendingShot \in ShotRecord /\ pendingShot.known /\ captureCall.start = "over"
      /\ UNCHANGED <<asks, permit, tombstone, lease, settler>>
  BY DEF ShotInv, ShotTypes, StartInv, ToldInv, CaptureReleases
<1>1. \/ /\ ReleaseConfirmed
         /\ CallEnds("complete", captureCall.ok) /\ pendingShot' = [pendingShot EXCEPT !.known = FALSE]
      \/ /\ ReleaseUnconfirmed("task")
         /\ CallEnds("unknown", FALSE) /\ pendingShot' = [pendingShot EXCEPT !.stage = "unknown"]
  BY DEF CaptureReleases, ReleaseTask, ReleaseConfirmed, ReleaseUnconfirmed, HelperReleases, Drained, CleanupAfter
<1>2. captureCall.ok \in BOOLEAN
  BY <1>0 DEF ShotCall
<1>3. /\ captureCall' \in ShotCall /\ captureCall'.at = "done" /\ captureCall'.start = "over"
      /\ \/ ReleaseConfirmed /\ captureCall'.told = "complete"
         \/ ReleaseUnconfirmed("task") /\ captureCall'.told = "unknown"
  BY <1>0, <1>1, <1>2, EndedCall
<1>4. /\ pendingShot' \in ShotRecord /\ pendingShot'.terminal = pendingShot.terminal
      /\ captureCall'.told = "unknown" => pendingShot'.known
  <2>1. CASE pendingShot' = [pendingShot EXCEPT !.known = FALSE] /\ CallEnds("complete", captureCall.ok)
    <3>1. captureCall'.told = "complete"
      BY <1>0, <1>2, <2>1, EndedCall
    <3> QED
      BY <1>0, <2>1, <3>1 DEF ShotRecord
  <2>2. CASE pendingShot' = [pendingShot EXCEPT !.stage = "unknown"]
    BY <1>0, <2>2 DEF ShotRecord
  <2> QED
    BY <1>1, <2>1, <2>2
<1>5. /\ sckTask' \in ShotTask /\ protocolTask' \in ShotProtocol /\ driver' \in ShotDriver
      /\ sckTask'.at = sckTask.at \/ (Drained(sckTask) /\ sckTask'.at = "released")
      /\ ReleaseConfirmed => sckTask'.at = "released"
      /\ (Drained(sckTask) => Drained(sckTask)') /\ protocolTask'.terminal = protocolTask.terminal
      /\ protocolTask'.rev = protocolTask.rev /\ sckTask'.rev = sckTask.rev /\ TaskInv' /\ AnswersInv'
  BY <1>0, <1>1, ReleaseMoves
<1>6. ShotTypes'
  BY <1>0, <1>3, <1>4, <1>5 DEF ShotInv, ShotTypes
<1>7. KnownInv'
  BY <1>0, <1>4, <1>5 DEF ShotInv, KnownInv
<1>8. StartInv'
  BY <1>3 DEF StartInv
<1>9. ToldInv'
  BY <1>0, <1>3, <1>4, <1>5 DEF ShotInv, ToldInv
<1> QED
  BY <1>5, <1>6, <1>7, <1>8, <1>9 DEF ShotInv

\* With the receipt of the runtime the task is released.
LEMMA AcknowledgeKeeps ==
  ASSUME ShotInv, AcknowledgeReconciliation
  PROVE  ShotInv'
<1>0. /\ lease = "revoked" /\ ~tombstone /\ pendingShot \in ShotRecord /\ pendingShot.known
      /\ captureCall.told = "unknown" /\ captureCall.at = "done" /\ settler = "idle"
      /\ captureCall.start = "over"
      /\ UNCHANGED <<captureCall, asks, permit, lease, settler>>
  BY DEF ShotInv, ShotTypes, StartInv, ToldInv, AcknowledgeReconciliation
<1>1. \/ ReleaseConfirmed /\ tombstone' = TRUE /\ pendingShot' = [pendingShot EXCEPT !.known = FALSE]
      \/ ReleaseUnconfirmed("ack") /\ tombstone' = tombstone /\ pendingShot' = [pendingShot EXCEPT !.stage = "unknown"]
  BY DEF AcknowledgeReconciliation, ReleaseTask, ReleaseConfirmed, ReleaseUnconfirmed, HelperReleases, Drained
<1>2. /\ pendingShot' \in ShotRecord /\ pendingShot'.terminal = pendingShot.terminal
      /\ pendingShot'.known \/ tombstone'
  BY <1>0, <1>1 DEF ShotRecord
<1>3. /\ sckTask' \in ShotTask /\ protocolTask' \in ShotProtocol /\ driver' \in ShotDriver
      /\ sckTask'.at = sckTask.at \/ (Drained(sckTask) /\ sckTask'.at = "released")
      /\ ReleaseConfirmed => sckTask'.at = "released"
      /\ (Drained(sckTask) => Drained(sckTask)') /\ protocolTask'.terminal = protocolTask.terminal
      /\ protocolTask'.rev = protocolTask.rev /\ sckTask'.rev = sckTask.rev /\ TaskInv' /\ AnswersInv'
  BY <1>0, <1>1, ReleaseMoves
<1>4. ShotTypes'
  BY <1>0, <1>1, <1>2, <1>3 DEF ShotInv, ShotTypes
<1>5. KnownInv'
  BY <1>0, <1>2, <1>3 DEF ShotInv, KnownInv
<1>6. StartInv'
  BY <1>0 DEF StartInv
<1>7. ToldInv'
  BY <1>0, <1>1, <1>2, <1>3 DEF ShotInv, ToldInv
<1> QED
  BY <1>3, <1>4, <1>5, <1>6, <1>7 DEF ShotInv

\* The lease follows what the runtime was told, and then what was settled.
LEMMA LeaseKeeps ==
  ASSUME ShotInv, LeaseFollows \/ LeaseIsReconciled
  PROVE  ShotInv'
<1>1. /\ UNCHANGED <<sckTask, captureCall, asks, protocolTask, permit, driver, pendingShot, tombstone, settler>>
      /\ captureCall \in ShotCall
      /\ \/ captureCall.at = "done" /\ lease = "active" /\ captureCall.told = "complete" /\ lease' = "released"
         \/ captureCall.at = "done" /\ lease = "active" /\ captureCall.told # "complete" /\ lease' = "quarantined"
         \/ lease = "quarantined" /\ pendingShot.terminal /\ lease' = "revoked"
  BY DEF ShotInv, ShotTypes, LeaseFollows, LeaseIsReconciled
<1>2. captureCall.told \in {"none", "complete", "unknown"}
  BY <1>1 DEF ShotCall
<1>3. ShotTypes' /\ TaskInv' /\ AnswersInv' /\ KnownInv' /\ StartInv'
  BY <1>1 DEF ShotInv, ShotTypes, TaskInv, AnswersInv, KnownInv, StartInv
<1>4. ToldInv'
  BY <1>1, <1>2 DEF ShotInv, ToldInv, KnownInv
<1> QED
  BY <1>3, <1>4 DEF ShotInv

\* Requests go out, fail, and are answered; nobody else moves.
LEMMA AsksMoveKeeps ==
  ASSUME ShotInv, captureCall.start = "over", asks' \in [Readers -> ShotAsk], AnswersInv',
         UNCHANGED <<sckTask, captureCall, protocolTask, permit, driver, pendingShot, tombstone, lease>>,
         settler' = settler \/ settler' = "idle"
           \/ (settler' = "asking" /\ lease = "quarantined" /\ pendingShot.known /\ ~pendingShot.terminal)
  PROVE  ShotInv'
<1>1. ShotTypes'
  BY DEF ShotInv, ShotTypes
<1>2. TaskInv' /\ KnownInv' /\ StartInv'
  BY DEF ShotInv, TaskInv, KnownInv, StartInv
<1>3. ToldInv'
  BY DEF ShotInv, ToldInv
<1> QED
  BY <1>1, <1>2, <1>3 DEF ShotInv

\* Whoever settles asks for the status; a picture is refused; an answer is given, or lost,
\* and comes in.
LEMMA AskingKeeps ==
  ASSUME ShotInv, PictureIsRefused \/ ReconcileAsks \/ (\E r \in Readers : HelperAnswers(r) \/ AnswerComes(r))
  PROVE  ShotInv'
<1>0. asks \in [Readers -> ShotAsk] /\ sckTask \in ShotTask /\ protocolTask \in ShotProtocol
  BY DEF ShotInv, ShotTypes
<1>a. captureCall.start = "over"
  BY DEF ShotInv, StartInv, Readers, PictureIsRefused, ReconcileAsks, HelperAnswers, AnswerComes
<1>1. CASE PictureIsRefused
  <2>1. /\ asks' = [asks EXCEPT !["result"] = Silent("failed")]
        /\ UNCHANGED <<sckTask, captureCall, protocolTask, permit, driver, pendingShot, tombstone, lease, settler>>
    BY <1>1 DEF PictureIsRefused, Refused
  <2>2. asks' \in [Readers -> ShotAsk] /\ AnswersInv'
    BY <2>1, SilenceStaysTrue DEF Readers
  <2> QED
    BY <2>1, <2>2, <1>a, AsksMoveKeeps
<1>2. CASE ReconcileAsks
  <2>1. /\ AskHelper("status") /\ settler' = "asking" /\ lease = "quarantined" /\ pendingShot.known
        /\ ~pendingShot.terminal
        /\ UNCHANGED <<sckTask, captureCall, protocolTask, permit, driver, pendingShot, tombstone, lease>>
    BY <1>2 DEF ReconcileAsks
  <2>2. asks' \in [Readers -> ShotAsk] /\ AnswersInv'
    BY <2>1, AskStaysTrue DEF Readers
  <2> QED
    BY <2>1, <2>2, <1>a, AsksMoveKeeps
<1>3. ASSUME NEW r \in Readers, HelperAnswers(r) PROVE ShotInv'
  <2>1. UNCHANGED <<sckTask, captureCall, protocolTask, permit, driver, pendingShot, tombstone, lease, settler>>
    BY <1>3 DEF HelperAnswers
  <2>2. CASE Refused(r)
    <3>1. asks' \in [Readers -> ShotAsk] /\ AnswersInv'
      BY <2>1, <2>2, SilenceStaysTrue DEF Refused
    <3> QED
      BY <2>1, <3>1, <1>a, AsksMoveKeeps
  <2> DEFINE said == [rev |-> sckTask.rev, drained |-> Drained(sckTask), frame |-> r = "result" /\ sckTask.frame]
             ask == [asks[r] EXCEPT !.at = "answered", !.answer = said]
  <2>3. CASE asks' = [asks EXCEPT ![r].at = "answered", ![r].answer = said]
    <3>1. said \in ShotAnswer /\ said.rev = sckTask.rev /\ said.drained = Drained(sckTask)
      <4>1. sckTask.rev \in Nat /\ Drained(sckTask) \in BOOLEAN /\ (r = "result" /\ sckTask.frame) \in BOOLEAN
        BY <1>0 DEF ShotTask, Drained
      <4> QED
        BY <4>1 DEF ShotAnswer
    <3> HIDE DEF said
    <3>2. ask \in ShotAsk /\ ask.answer = said
      BY <1>0, <3>1 DEF ShotAsk
    <3>3. asks' = [asks EXCEPT ![r] = ask]
      BY <1>0, <2>3 DEF ShotAsk
    <3> HIDE DEF ask
    <3>4. ask.answer.rev <= sckTask.rev /\ (ask.answer.drained => Drained(sckTask))
      BY <1>0, <3>1, <3>2 DEF ShotTask
    <3>5. asks' \in [Readers -> ShotAsk] /\ AnswersInv'
      BY <2>1, <3>2, <3>3, <3>4, AsksStayTrue
    <3> QED
      BY <2>1, <3>5, <1>a, AsksMoveKeeps
  <2>4. Refused(r) \/ asks' = [asks EXCEPT ![r].at = "answered", ![r].answer = said]
    BY <1>3 DEF HelperAnswers
  <2> QED
    BY <2>2, <2>3, <2>4
<1>4. ASSUME NEW r \in Readers, AnswerComes(r) PROVE ShotInv'
  <2> DEFINE ask == [asks[r] EXCEPT !.at = "coming", !.news = ~protocolTask.terminal]
  <2>1. /\ UNCHANGED <<sckTask, captureCall, protocolTask, permit, driver, pendingShot, tombstone, lease, settler>>
        /\ asks' = [asks EXCEPT ![r].at = "coming", ![r].news = ~protocolTask.terminal]
    BY <1>4 DEF AnswerComes
  <2>2. ask \in ShotAsk /\ ask.answer = asks[r].answer
    BY <1>0 DEF ShotAsk, ShotProtocol
  <2>3. asks' = [asks EXCEPT ![r] = ask]
    BY <1>0, <2>1 DEF ShotAsk
  <2> HIDE DEF ask
  <2>4. ask.answer.rev <= sckTask.rev /\ (ask.answer.drained => Drained(sckTask))
    BY <2>2 DEF ShotInv, AnswersInv
  <2>5. asks' \in [Readers -> ShotAsk] /\ AnswersInv'
    BY <2>1, <2>2, <2>3, <2>4, AsksStayTrue
  <2> QED
    BY <2>1, <2>5, <1>a, AsksMoveKeeps
<1> QED
  BY <1>1, <1>2, <1>3, <1>4

\* The record takes the news of the status, unless nothing was heard.
LEMMA ReconcileKeeps ==
  ASSUME ShotInv, ReconcileCapture
  PROVE  ShotInv'
<1> DEFINE said == asks["status"].answer
<1>0. /\ settler = "asking" /\ settler' = "idle" /\ lease = "quarantined" /\ pendingShot.known
      /\ pendingShot \in ShotRecord
      /\ UNCHANGED <<sckTask, captureCall, asks, protocolTask, permit, driver, tombstone, lease>>
  BY DEF ShotInv, ShotTypes, ToldInv, ReconcileCapture
<1>1. said \in ShotAnswer /\ (said.drained => Drained(sckTask))
  BY DEF ShotInv, ShotTypes, AnswersInv, ShotAsk, Readers
<1>2. captureCall.start = "over" /\ captureCall.told = "unknown"
  BY <1>0 DEF ShotInv, StartInv, ToldInv
<1>3. pendingShot' = pendingShot \/ pendingShot' = [pendingShot EXCEPT !.rev = said.rev, !.terminal = said.drained]
  BY DEF ReconcileCapture
<1>4. said.rev \in Nat /\ said.drained \in BOOLEAN
  BY <1>1 DEF ShotAnswer
<1> HIDE DEF said
<1>5. /\ pendingShot' \in ShotRecord /\ pendingShot'.known
      /\ pendingShot'.terminal => pendingShot.terminal \/ said.drained
  BY <1>0, <1>3, <1>4 DEF ShotRecord
<1>6. ShotTypes'
  BY <1>0, <1>5 DEF ShotInv, ShotTypes
<1>7. TaskInv' /\ AnswersInv'
  BY <1>0 DEF ShotInv, TaskInv, AnswersInv
<1>8. KnownInv'
  BY <1>0, <1>1, <1>5 DEF ShotInv, KnownInv
<1>9. StartInv'
  BY <1>0, <1>2 DEF ShotInv, StartInv
<1>10. ToldInv'
  BY <1>0, <1>5 DEF ShotInv, ToldInv
<1> QED
  BY <1>6, <1>7, <1>8, <1>9, <1>10 DEF ShotInv

\* An answer is made known to the registry, which may refuse it.
LEMMA AnswerIsHeardKeeps ==
  ASSUME ShotInv, NEW r \in Readers, AnswerIsHeard(r)
  PROVE  ShotInv'
<1> DEFINE said == asks[r].answer
           mark == said.drained /\ asks[r].news
<1>0. /\ asks \in [Readers -> ShotAsk] /\ permit \in ShotPermit /\ protocolTask \in ShotProtocol
      /\ captureCall.start = "over"
      /\ UNCHANGED <<sckTask, captureCall, driver, pendingShot, tombstone, lease, settler>>
  BY DEF ShotInv, ShotTypes, StartInv, AnswerIsHeard
<1>1. said.rev \in Nat /\ said.rev <= sckTask.rev /\ (said.drained => Drained(sckTask))
  BY DEF ShotInv, ShotTypes, AnswersInv, ShotAsk, ShotAnswer
<1>2. PICK refused \in BOOLEAN, advance \in BOOLEAN, heard \in BOOLEAN :
        /\ permit' = IF refused \/ ~(mark \/ advance) THEN permit ELSE IF mark THEN Marked(said) ELSE Advanced(said)
        /\ protocolTask' = [protocolTask EXCEPT !.terminal = @ \/ (mark /\ ~refused),
                                               !.rev = IF heard THEN said.rev ELSE @]
        /\ IF heard THEN asks' = [asks EXCEPT ![r].at = "heard"] ELSE Refused(r)
  <2> DEFINE adv == ~said.drained /\ (r = "status" \/ ~protocolTask.terminal)
             f == (mark /\ ~MayMark(said)) \/ (adv /\ ~MayAdvance(said))
             h == ~f /\ said.rev >= protocolTask.rev
  <2>1. /\ permit' = IF f \/ ~(mark \/ adv) THEN permit ELSE IF mark THEN Marked(said) ELSE Advanced(said)
        /\ protocolTask' = [protocolTask EXCEPT !.terminal = @ \/ (mark /\ ~f), !.rev = IF h THEN said.rev ELSE @]
        /\ IF h THEN asks' = [asks EXCEPT ![r].at = "heard"] ELSE Refused(r)
    BY DEF AnswerIsHeard
  <2>2. f \in BOOLEAN /\ adv \in BOOLEAN /\ h \in BOOLEAN
    OBVIOUS
  <2> HIDE DEF f, adv, h, mark, said
  <2> QED
    BY <2>1, <2>2
<1>3. mark \in BOOLEAN /\ (mark => said.drained)
  <2>1. asks[r].news \in BOOLEAN /\ said.drained \in BOOLEAN
    BY <1>0 DEF ShotAsk, ShotAnswer
  <2> QED
    BY <2>1
<1>4. asks' \in [Readers -> ShotAsk] /\ AnswersInv'
  <2>1. CASE heard
    <3> DEFINE ask == [asks[r] EXCEPT !.at = "heard"]
    <3>1. ask \in ShotAsk /\ ask.answer = said
      BY <1>0 DEF ShotAsk
    <3>2. asks' = [asks EXCEPT ![r] = ask]
      BY <1>0, <1>2, <2>1 DEF ShotAsk
    <3> HIDE DEF ask, said
    <3> QED
      BY <1>0, <1>1, <3>1, <3>2, AsksStayTrue
  <2>2. CASE ~heard
    BY <1>0, <1>2, <2>2, SilenceStaysTrue DEF Refused
  <2> QED
    BY <2>1, <2>2
<1> HIDE DEF said, mark
<1>5. /\ permit' \in ShotPermit /\ permit'.rev \in {permit.rev, said.rev}
      /\ permit.terminal \/ (mark /\ ~refused) <=> permit'.terminal
  BY <1>0, <1>1, <1>2, <1>3 DEF ShotPermit, Marked, Advanced
<1>6. /\ protocolTask' \in ShotProtocol /\ protocolTask'.rev \in {protocolTask.rev, said.rev}
      /\ protocolTask.terminal \/ (mark /\ ~refused) <=> protocolTask'.terminal
  <2>1. protocolTask.terminal \in BOOLEAN /\ (IF heard THEN said.rev ELSE protocolTask.rev) \in Nat
    BY <1>0, <1>1 DEF ShotProtocol
  <2> DEFINE t == protocolTask.terminal \/ (mark /\ ~refused)
             n == IF heard THEN said.rev ELSE protocolTask.rev
  <2>2. t \in BOOLEAN /\ n \in Nat /\ n \in {protocolTask.rev, said.rev}
    BY <1>3, <2>1
  <2>3. protocolTask' = [protocolTask EXCEPT !.terminal = t, !.rev = n]
    BY <1>0, <1>2 DEF ShotProtocol
  <2>4. t <=> protocolTask.terminal \/ (mark /\ ~refused)
    OBVIOUS
  <2> HIDE DEF t, n
  <2>5. protocolTask' \in ShotProtocol /\ protocolTask'.rev = n /\ protocolTask'.terminal = t
    BY <1>0, <2>2, <2>3 DEF ShotProtocol
  <2> QED
    BY <2>2, <2>4, <2>5
<1>7. ShotTypes'
  BY <1>0, <1>4, <1>5, <1>6 DEF ShotInv, ShotTypes
<1>8. TaskInv' /\ StartInv'
  BY <1>0 DEF ShotInv, TaskInv, StartInv
<1>9. KnownInv'
  BY <1>0, <1>1, <1>3, <1>5, <1>6 DEF ShotInv, KnownInv
<1>10. ToldInv'
  BY <1>0 DEF ShotInv, ToldInv
<1> QED
  BY <1>4, <1>7, <1>8, <1>9, <1>10 DEF ShotInv

\* The inductive invariant of a capture: what the three readers know of the task they know
\* from an answer, an answer is a picture of the past, and a drained task stays drained.
THEOREM ShotIsConsistent == ScreenSpec => []ShotInv
<1>1. ScreenInit => ShotInv
  BY ShotsStart
<1>2. ShotInv /\ [ScreenNext]_screenVars => ShotInv'
  <2> SUFFICES ASSUME ShotInv, [ScreenNext]_screenVars PROVE ShotInv'
    OBVIOUS
  <2>1. CASE UNCHANGED screenVars
    BY <2>1 DEF screenVars, ShotInv, ShotTypes, TaskInv, AnswersInv, KnownInv, StartInv, ToldInv
  <2>2. CASE ScreenNext
    <3>1. ASSUME TaskGoesOn \/ CaptureStarts \/ HelperStarts \/ StartIsHeard \/ StartFails PROVE ShotInv'
      BY <3>1, TaskGoesOnKeeps, CaptureStartsKeeps, HelperStartsKeeps, StartIsHeardKeeps, StartFailsKeeps
    <3>2. ASSUME GivesUpWaiting \/ ReadsLastStatus \/ StaysUnresolved \/ ResultIsTaken \/ CaptureReleases
          PROVE  ShotInv'
      BY <3>2, WaitingEndsKeeps, ReadsLastStatusKeeps, ResultIsTakenKeeps, CaptureReleasesKeeps
    <3>3. ASSUME LeaseFollows \/ LeaseIsReconciled \/ ReconcileCapture \/ AcknowledgeReconciliation PROVE ShotInv'
      BY <3>3, LeaseKeeps, ReconcileKeeps, AcknowledgeKeeps
    <3>4. ASSUME PictureIsRefused \/ ReconcileAsks \/ (\E r \in Readers : HelperAnswers(r) \/ AnswerComes(r))
          PROVE  ShotInv'
      BY <3>4, AskingKeeps
    <3>5. ASSUME NEW r \in Readers, AnswerIsHeard(r) PROVE ShotInv'
      BY <3>5, AnswerIsHeardKeeps
    <3> QED
      BY <2>2, <3>1, <3>2, <3>3, <3>4, <3>5 DEF ScreenNext
  <2> QED
    BY <2>1, <2>2
<1> QED
  BY <1>1, <1>2, PTL DEF ScreenSpec

\* The types of a capture and the bound of its task's revisions.
THEOREM ShotTypesHold == ScreenSpec => []ScreenTypeOK
<1>1. ShotInv => ScreenTypeOK
  <2> SUFFICES ASSUME ShotInv PROVE ScreenTypeOK
    OBVIOUS
  <2>1. sckTask.rev \in Nat /\ sckTask.late \in Nat /\ sckTask.at \in {"none", "running", "answered", "drained", "released"}
    BY DEF ShotInv, ShotTypes, ShotTask
  <2>2. sckTask.rev \in 0..(3 + MaxLateChanges)
    BY <2>1, ScreenAssumption DEF ShotInv, TaskInv
  <2> QED
    BY <2>1, <2>2 DEF ShotInv, ShotTypes, ShotCall, ShotAsk, ShotPermit, ShotProtocol, ShotDriver, ScreenTypeOK
<1> QED
  BY <1>1, ShotIsConsistent, PTL

\* What the runtime believes of a capture is true of the helper, whichever of the adapter,
\* the result and the settler reads its status, and in whatever order the answers are used
\* (screen/src/adapter.ts, screen/src/native-driver.ts, runtime/src/continuations.ts).
THEOREM CapturesAreSettled == ScreenSpec => []CaptureIsSettled
<1>1. ShotInv => CaptureIsSettled
  <2> SUFFICES ASSUME ShotInv PROVE CaptureIsSettled
    OBVIOUS
  <2>1. lease = "released" => sckTask.at = "none" \/ Drained(sckTask)
    BY DEF ShotInv, ToldInv, Drained
  <2>2. captureCall.told = "unknown" /\ pendingShot.rev > 0 => pendingShot.known \/ tombstone
    BY DEF ShotInv, ToldInv
  <2> QED
    BY <2>1, <2>2 DEF ShotInv, ToldInv, KnownInv, CaptureIsSettled
<1> QED
  BY <1>1, ShotIsConsistent, PTL


-----------------------------------------------------------------------------
(* Beside one another.                                                     *)

\* The run that explores them side by side takes no step that a component would not take
\* alone.
LEMMA ClientsRunEach == ClientsSpec => Spec /\ LifeSpec /\ TransportSpec /\ ScreenSpec
<1>1. ClientsInit => Init /\ LifeInit /\ TransportInit /\ ScreenInit
  BY DEF ClientsInit
<1>2. ASSUME [ClientsNext]_clientsVars
      PROVE  [Next]_vars /\ [LifeNext]_lifeVars /\ [TransportNext]_transportVars /\ [ScreenNext]_screenVars
  BY <1>2 DEF ClientsNext, clientsVars
<1> QED
  BY <1>1, <1>2, PTL DEF ClientsSpec, Spec, LifeSpec, TransportSpec, ScreenSpec

\* What serves a client keeps its types, for any clients, operations and calls, and any
\* number of faults.
THEOREM ClientsKeepTheirTypes == ClientsSpec => []ClientsTypeOK
<1> DEFINE Component == component \in {"sessions", "browser", "transport", "screen"}
<1>1. ClientsInit => Component
  BY DEF ClientsInit
<1>2. Component /\ [ClientsNext]_clientsVars => Component'
  BY DEF ClientsNext, clientsVars
<1>3. Component /\ TypeOK /\ LifeTypeOK /\ TransportInv /\ ScreenTypeOK => ClientsTypeOK
  BY DEF ClientsTypeOK, TransportInv
<1> HIDE DEF Component
<1> QED
  BY <1>1, <1>2, <1>3, ClientsRunEach, SessionsKeepTheirTypes, LifeTypes, TransportIsConsistent, ShotTypesHold, PTL
  DEF ClientsSpec
=============================================================================
