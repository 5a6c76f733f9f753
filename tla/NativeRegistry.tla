--------------------------- MODULE NativeRegistry ---------------------------
(***************************************************************************)
(* The helper's inventory of windows: the Accessibility scan of the        *)
(* macos_backend, which gives each AX element a token, and the registry,   *)
(* which gives each window a reference that agents keep from one snapshot  *)
(* to the next.  Windows come and go, applications do not answer or leave  *)
(* a role unread, process numbers are reused and displays change while a   *)
(* scan is under way.                                                      *)
(***************************************************************************)
EXTENDS Naturals, FiniteSets, Functions

CONSTANTS
  Elements,     \* AX windows and sheets, each of one application for good
  Sheets,       \* those with the role AXSheet
  SheetPairs,   \* which sheets may be listed under which windows
  LaunchOf,     \* the incarnation, numbered from 1, that each element belongs to
  Incarnations, \* bound: how many of them get the one process number in turn
  CGWindows,    \* windows that Core Graphics lists for that process
  TitleOf,      \* the titles of windows, which may repeat
  HandleLimit,  \* META_MACOS_MAX_AX_HANDLES
  LastEpoch,    \* UINT64_MAX of the display topology
  MaxRefreshes, MaxChanges  \* bounds: scans; changes of the world and displays not answered

ASSUME RegistryAssumption ==
  /\ IsFiniteSet(Elements) /\ "none" \notin Elements /\ {"ambiguous", "unavailable"} \cap CGWindows = {}
  /\ Sheets \subseteq Elements /\ SheetPairs \subseteq Sheets \X (Elements \ Sheets)
  /\ LaunchOf \in [Elements -> 1..Incarnations]
  /\ \A pair \in SheetPairs : LaunchOf[pair[1]] = LaunchOf[pair[2]]
  /\ {HandleLimit, MaxRefreshes, MaxChanges} \subseteq Nat
  /\ {Incarnations, LastEpoch} \subseteq Nat \ {0}

VARIABLES
  process,      \* the incarnation that has the process number, or 0
  born,         \* the last of the incarnations
  listed,       \* the windows that Accessibility lists
  attached,     \* the sheets that windows list
  displays,     \* how often the displays have changed
  untold,       \* display changes whose callback has not run
  changes,
  handles,      \* the token of each AX element that is held, or 0
  nextToken, refreshNumber,
  displayEpoch, topologyReady,
  scan,         \* the refresh under way
  identities,   \* the window identities
  inventoryRevision, nextSerial,
  inventory,    \* the published snapshot
  closing,      \* the close command under way
  verdict,      \* the element that a close command reported closed: was it listed, its role unread
  named, bearer, layouts  \* history, for the properties

worldVarsOfRegistry == <<process, born, listed, attached, displays, untold, changes>>
handleVars == <<handles, nextToken>>
recordVars == <<identities, inventoryRevision, nextSerial, inventory>>
historyVars == <<named, bearer, layouts>>
registryVars ==
  <<worldVarsOfRegistry, handleVars, refreshNumber, displayEpoch, topologyReady, scan, recordVars,
    closing, verdict, historyVars>>

\* FAILED stands for TIMED_OUT, DENIED and UNAVAILABLE too: all of them prove nothing.
Certain == {"READY", "NO_WINDOWS"}
NoScan == [phase |-> "idle"]
NoClose == [element |-> "none"]
Unanswered == [element |-> "none", listed |-> FALSE, unread |-> FALSE]
MaxSerial == MaxRefreshes * Cardinality(Elements)
NoIdentity == [token |-> 0, serial |-> 0, seen |-> 0]
EmptyInventory ==
  [revision |-> 0, windows |-> {}, kind |-> [e \in {} |-> "window"], serial |-> [e \in {} |-> 0],
   token |-> [e \in {} |-> 0], owner |-> [e \in {} |-> "none"],
   contested |-> {}, layout |-> 0, epoch |-> 0, displays |-> 0]

RegistryTypeOK ==
  /\ process \in {0, born} /\ born \in 1..Incarnations
  /\ listed \subseteq Elements /\ attached \subseteq SheetPairs
  /\ handles \in [Elements -> 0..nextToken]
  /\ Cardinality({e \in Elements : handles[e] # 0}) <= HandleLimit
  /\ identities \in [Elements -> [token : 0..nextToken, serial : 0..nextSerial, seen : 0..inventoryRevision]]
  /\ scan.phase \in {"idle", "asking", "scanned", "collected"}
  /\ inventory.windows \subseteq Elements /\ inventory.revision = inventoryRevision
  /\ displayEpoch \in 1..LastEpoch /\ topologyReady \in BOOLEAN
  /\ verdict.element \in Elements \cup {"none"}

RegistryInit ==
  /\ process = 1 /\ born = 1 /\ listed = {}
  /\ attached \in {{}, {pair \in SheetPairs : LaunchOf[pair[2]] = 1}}
  /\ displays = 1 /\ untold = 0 /\ changes = 0
  /\ handles = [e \in Elements |-> 0] /\ nextToken = 1 /\ refreshNumber = 0
  /\ displayEpoch = 1 /\ topologyReady = TRUE /\ scan = NoScan
  /\ identities = [e \in Elements |-> NoIdentity] /\ inventoryRevision = 0 /\ nextSerial = 1
  /\ inventory = EmptyInventory /\ closing = NoClose /\ verdict = Unanswered
  /\ named = [e \in Elements |-> 0] /\ bearer = [n \in 1..MaxSerial |-> "none"]
  /\ layouts = [n \in 1..MaxRefreshes |-> <<0, 0>>]

-----------------------------------------------------------------------------
(* The system.  A change is seen when it is read: windows change before their application *)
(* is asked, displays once they were read, and their callbacks may come later.            *)

Changes(more) ==
  /\ changes < MaxChanges /\ changes' = changes + 1 /\ more
  /\ UNCHANGED <<handleVars, refreshNumber, displayEpoch, topologyReady, scan, recordVars, closing,
                 verdict, historyVars>>

\* A window appears in, or disappears from, what Accessibility lists.
WindowChanges(e) ==
  /\ scan.phase = "asking" /\ e \notin Sheets /\ LaunchOf[e] = process
  /\ listed' = (IF e \in listed THEN listed \ {e} ELSE listed \cup {e})
  /\ UNCHANGED <<process, born, attached, displays, untold>>

SheetChanges(pair) ==
  /\ scan.phase = "asking" /\ LaunchOf[pair[2]] = process
  /\ attached' = (IF pair \in attached THEN attached \ {pair} ELSE attached \cup {pair})
  /\ UNCHANGED <<process, born, listed, displays, untold>>

\* The application ends, or another one gets its process number.
ProcessChanges ==
  /\ IF process # 0 THEN process' = 0 /\ UNCHANGED born
     ELSE born < Incarnations /\ born' = born + 1 /\ process' = born + 1
  /\ listed' = {} /\ attached' = {}
  /\ UNCHANGED <<displays, untold>>

DisplaysChange ==
  /\ scan.phase = "collected"
  /\ displays' = displays + 1 /\ untold' = untold + 1 /\ UNCHANGED <<process, born, listed, attached>>

RegistryWorld ==
  \/ \E e \in Elements : Changes(WindowChanges(e))
  \/ \E pair \in SheetPairs : Changes(SheetChanges(pair))
  \/ Changes(ProcessChanges) \/ Changes(DisplaysChange)

\* display_topology_changed: the epoch grows; at its end the observer is given up.
DisplayTopologyChanged ==
  /\ scan.phase \in {"idle", "collected"} /\ untold > 0 /\ untold' = untold - 1
  /\ displayEpoch' = (IF topologyReady /\ displayEpoch < LastEpoch THEN displayEpoch + 1
                      ELSE displayEpoch)
  /\ topologyReady' = (topologyReady /\ displayEpoch < LastEpoch)
  /\ UNCHANGED <<process, born, listed, attached, displays, changes, handleVars, refreshNumber, scan,
                 recordVars, closing, verdict, historyVars>>

-----------------------------------------------------------------------------
(* The Accessibility scan. *)

\* meta_macos_refresh_inventory_with_priority begins.
BeginsRefresh ==
  /\ scan = NoScan /\ refreshNumber < MaxRefreshes /\ refreshNumber' = refreshNumber + 1
  /\ scan' = [phase |-> "asking"]

RefreshBegins ==
  /\ BeginsRefresh /\ verdict' = Unanswered
  /\ UNCHANGED <<worldVarsOfRegistry, handleVars, displayEpoch, topologyReady, recordVars, closing,
                 historyVars>>

\* process_start_micros differs from the handle's: the number was reused.
Reused(e) == process \notin {0, LaunchOf[e]}
Held(table) == {e \in Elements : table[e] # 0}

\* The order in which the members of a set come.
Numbering(S) == CHOOSE f \in Bijection(S, 1..Cardinality(S)) : TRUE

\* token_for_element for each of the elements, in some order: a known element keeps its
\* token; at the limit handles of reused process numbers make room, and whoever finds
\* none gets no token.
Touch(touched) ==
  LET fresh == touched \ Held(handles)
      full == Cardinality(Held(handles)) + Cardinality(fresh) > HandleLimit
      kept == IF full THEN {e \in Held(handles) : ~Reused(e)} ELSE Held(handles)
      room == HandleLimit - Cardinality(kept)
      order == Numbering(fresh)
      served == {e \in fresh : order[e] <= room} IN
  /\ handles' =
       [e \in Elements |->
          IF e \in served THEN nextToken + order[e] - 1 ELSE IF e \in kept THEN handles[e] ELSE 0]
  /\ nextToken' = nextToken + Cardinality(served)

\* meta_ax_window_bind_owner after every window that lists the sheet: one owner, or
\* several, which is ambiguous.
OwnerIn(pairs, e) ==
  LET owners == {w \in Elements : <<e, w>> \in pairs} IN
  IF owners = {} THEN "none" ELSE IF Cardinality(owners) = 1 THEN CHOOSE w \in owners : TRUE
  ELSE "ambiguous"

\* surface_kind, and meta_ax_window_bind_owner after it: what a window lists is a sheet;
\* of anything else the role decides, and copy_string_attribute returns no role when the
\* application does not answer.
KindIn(pairs, unread, e) ==
  IF OwnerIn(pairs, e) # "none" THEN "sheet" ELSE IF e \in unread THEN "unknown"
  ELSE IF e \in Sheets THEN "sheet" ELSE "window"

\* What was read of the application, with or without the roles: an unread role leaves the
\* status as it is.
Scanned(status, read, pairs) ==
  \E unread \in SUBSET read :
  scan' = [phase |-> "scanned", present |-> TRUE, status |-> status, read |-> read,
           kind |-> [e \in read |-> KindIn(pairs, unread, e)],
           owner |-> [e \in read |-> OwnerIn(pairs, e)], launch |-> process,
           looked |-> listed \cup {pair[1] : pair \in attached},
           complete |-> status \in Certain]

Scan(more) ==
  /\ scan.phase = "asking" /\ more
  /\ UNCHANGED <<worldVarsOfRegistry, refreshNumber, displayEpoch, topologyReady, recordVars, closing,
                 verdict, historyVars>>

\* The application is omitted from those that run, or has no process any more.
ApplicationMissing ==
  /\ \E omitted \in BOOLEAN :
       /\ process = 0 \/ omitted
       /\ scan' = [phase |-> "scanned", present |-> FALSE, status |-> "FAILED", read |-> {},
                   kind |-> [e \in {} |-> "window"], owner |-> [e \in {} |-> "none"],
                   launch |-> process, looked |-> {},
                   complete |-> omitted]
  /\ UNCHANGED handleVars

\* All of the windows and of their sheets are read (append_ax_window).
ApplicationAnswers ==
  LET pairs == {pair \in attached : pair[2] \in listed}
      read == listed \cup {pair[1] : pair \in pairs}
      given == {e \in read : handles'[e] # 0}
      clean == given = read /\ \A e \in read : OwnerIn(pairs, e) # "ambiguous" IN
  /\ process # 0 /\ Touch(read)
  /\ Scanned(IF ~clean THEN "FAILED" ELSE IF read = {} THEN "NO_WINDOWS" ELSE "READY",
             given, pairs)

\* Accessibility is not trusted, the list of windows or of sheets is not answered, the
\* deadline comes or a handle is missing: some windows are in the input, or none is.
ApplicationAnswersInPart ==
  /\ process # 0
  /\ \E read \in SUBSET (listed \cup {pair[1] : pair \in attached}) :
       /\ Touch(read)
       /\ LET given == {e \in read : handles'[e] # 0} IN
          \E pairs \in SUBSET {pair \in attached : pair[1] \in given /\ pair[2] \in given \cap listed} :
            Scanned("FAILED", given, pairs)

ScanApplication ==
  Scan(ApplicationMissing) \/ Scan(ApplicationAnswers) \/ Scan(ApplicationAnswersInPart)

\* The windows of Core Graphics, the epoch, and then the displays: without an answer the
\* inventory has none of them.
CollectDisplays ==
  /\ scan.phase = "scanned" /\ topologyReady
  /\ \E answered \in BOOLEAN, displayed \in BOOLEAN :
       scan' = [phase |-> "collected", present |-> scan.present, status |-> scan.status,
                read |-> scan.read, kind |-> scan.kind, owner |-> scan.owner,
                launch |-> scan.launch, looked |-> scan.looked,
                complete |-> scan.complete /\ answered /\ displayed,
                epoch |-> displayEpoch, displays |-> IF displayed THEN displays ELSE 0]
       /\ IF displayed THEN UNCHANGED changes ELSE changes < MaxChanges /\ changes' = changes + 1
  /\ UNCHANGED <<process, born, listed, attached, displays, untold, handleVars, refreshNumber,
                 displayEpoch, topologyReady, recordVars, closing, verdict, historyVars>>

-----------------------------------------------------------------------------
(* The registry. *)

OfKind(kind) == {e \in scan.read : scan.kind[e] = kind}

\* exact_sheet_owner: one window of the same incarnation, in the same input, and known as
\* a window.
ExactOwner(e) == scan.owner[e] \in OfKind("window")

Publishable(e) == scan.kind[e] = "sheet" => ExactOwner(e)

\* correlate_window: the only one with that frame, or the only one that has the title too,
\* if the title was read.
Correlate(e, near, titled) ==
  LET frames == {c \in CGWindows : <<e, c>> \in near}
      titles == {c \in frames : e \in titled /\ TitleOf[c] = TitleOf[e]} IN
  IF Cardinality(frames) = 1 THEN CHOOSE c \in frames : TRUE
  ELSE IF Cardinality(titles) = 1 THEN CHOOSE c \in titles : TRUE
  ELSE IF frames # {} THEN "ambiguous" ELSE "unavailable"

\* What another window may be as well is ambiguous.
Disputed(mapping, e, near) ==
  /\ mapping[e] \in CGWindows
  /\ \E other \in DOMAIN mapping \ {e} :
       <<other, mapping[e]>> \in near /\ mapping[other] \in {mapping[e], "ambiguous"}

Mapping(windows, disputed, near, titled) ==
  [w \in windows |-> IF w \in disputed THEN "ambiguous" ELSE Correlate(w, near, titled)]

\* The pass works in place: a window sees what became of those that come before it.
PassDisputes(windows, disputed, near, titled) ==
  LET order == Numbering(windows) IN
  \A e \in windows :
    e \in disputed <=>
      Disputed(Mapping(windows, {w \in disputed : order[w] < order[e]}, near, titled), e, near)

\* window_identity: the same window as in the revision before.
SameIdentity(e) ==
  identities[e].token = handles[e] /\ identities[e].token # 0 /\ identities[e].seen = inventoryRevision

\* retain_uncertain_window_identities: not finding it proves nothing.
Uncertain(e) ==
  /\ identities[e].seen = inventoryRevision
  /\ IF scan.present /\ scan.launch = LaunchOf[e] THEN scan.status \notin Certain
     ELSE ~scan.complete

Serials(published) ==
  LET order == Numbering({e \in published : ~SameIdentity(e)}) IN
  [e \in published |->
     IF SameIdentity(e) THEN identities[e].serial ELSE nextSerial + order[e] - 1]

Identify(published, serial) ==
  /\ identities' =
       [e \in Elements |->
          IF e \in published THEN [token |-> handles[e], serial |-> serial[e], seen |-> inventoryRevision + 1]
          ELSE IF Uncertain(e) THEN [identities[e] EXCEPT !.seen = inventoryRevision + 1] ELSE identities[e]]
  /\ nextSerial' = nextSerial + Cardinality({e \in published : ~SameIdentity(e)})

\* display_layout_changed.
LayoutChanged == inventory.epoch # scan.epoch \/ inventory.displays # scan.displays

PrunesWhatIsUncertain(e) == FALSE  \* mutant

\* meta_observer_retain_unseen_ax_handle.
RetainUnseen(e) ==
  ~Reused(e) /\ ~(scan.present /\ scan.launch = LaunchOf[e] /\ scan.status \in Certain)

\* prune_handles.
PruneHandles ==
  /\ handles' = [e \in Elements |->
       IF e \in scan.read \/ RetainUnseen(e) THEN handles[e] ELSE 0]
  /\ UNCHANGED nextToken

\* History: what a window is called until a certain scan misses it, and who was called so.
Remember(published, serial) ==
  /\ named' = [e \in Elements |->
       IF e \in published THEN IF named[e] = 0 THEN serial[e] ELSE named[e]
       ELSE IF (scan.present /\ scan.launch = LaunchOf[e] /\ scan.status \in Certain)
               \/ (scan.complete /\ ~(scan.present /\ scan.launch = LaunchOf[e])) THEN 0
       ELSE named[e]]
  /\ bearer' = [n \in 1..MaxSerial |->
       IF bearer[n] = "none" /\ \E e \in published : serial[e] = n
       THEN CHOOSE e \in published : serial[e] = n ELSE bearer[n]]
  /\ LET reported == inventory'.layout IN
     layouts' = (IF layouts[reported] = <<0, 0>>
                 THEN [layouts EXCEPT ![reported] = <<scan.epoch, scan.displays>>] ELSE layouts)

\* meta_window_classify_close, on the fresh inventory of the same incarnation:
\* exact_current_window finds only what is known as a window.
ClassifyClose(refreshed) ==
  /\ closing' = NoClose
  /\ verdict' =
       IF /\ closing # NoClose /\ refreshed /\ closing.dispatched
          /\ process = LaunchOf[closing.element]
          /\ scan.present /\ scan.launch = LaunchOf[closing.element] /\ scan.status \in Certain
          /\ \A e \in inventory'.windows :
               inventory'.kind[e] = "window" => inventory'.serial[e] # closing.serial
       THEN [element |-> closing.element, listed |-> closing.element \in scan.looked,
             unread |-> closing.element \in OfKind("unknown")]
       ELSE Unanswered

\* The epoch is still the same: meta_registry_refresh replaces the snapshot as a whole.
RefreshPublishes ==
  LET published == {e \in scan.read : Publishable(e)}
      windows == OfKind("window")
      serial == Serials(published) IN
  /\ scan.phase = "collected" /\ topologyReady /\ displayEpoch = scan.epoch
  /\ \E near \in SUBSET (windows \X CGWindows), disputed \in SUBSET windows, titled \in SUBSET windows :
       LET mapping == Mapping(windows, disputed, near, titled) IN
       /\ PassDisputes(windows, disputed, near, titled)
       /\ inventory' =
            [revision |-> inventoryRevision + 1, windows |-> published,
             kind |-> [e \in published |-> scan.kind[e]], serial |-> serial,
             token |-> [e \in published |-> handles[e]],
             owner |-> [e \in published |-> scan.owner[e]],
             contested |-> {c \in CGWindows : \E e, f \in windows :
                              e # f /\ {mapping[e], mapping[f]} = {c}},
             layout |-> inventory.layout + (IF LayoutChanged THEN 1 ELSE 0),
             epoch |-> scan.epoch, displays |-> scan.displays]
  /\ inventoryRevision' = inventoryRevision + 1 /\ Identify(published, serial) /\ PruneHandles
  /\ Remember(published, serial) /\ ClassifyClose(TRUE) /\ scan' = NoScan
  /\ UNCHANGED <<worldVarsOfRegistry, refreshNumber, displayEpoch, topologyReady>>

\* The epoch moved, the observer is gone, time is up or memory is short: the previous
\* snapshot stays, and so do the handles.
RefreshFails ==
  /\ scan.phase = "collected" \/ (scan.phase = "scanned" /\ ~topologyReady)
  /\ ClassifyClose(FALSE) /\ scan' = NoScan
  /\ UNCHANGED <<worldVarsOfRegistry, handleVars, refreshNumber, displayEpoch, topologyReady,
                 recordVars, historyVars>>

-----------------------------------------------------------------------------
(* A command on a window. *)

\* executeWindow and resolve_transition_target: the record of a window, its handle, and the
\* same process incarnation.
Resolves(e) ==
  /\ e \in inventory.windows /\ inventory.kind[e] = "window"
  /\ handles[e] = inventory.token[e] /\ process = LaunchOf[e]

\* meta_macos_close_window: the button is pressed, or not; then a fresh inventory.
CloseWindow(e) ==
  /\ Resolves(e) /\ closing = NoClose /\ BeginsRefresh
  /\ \E dispatched \in BOOLEAN, gone \in BOOLEAN :
       /\ gone => dispatched
       /\ closing' = [element |-> e, serial |-> inventory.serial[e], dispatched |-> dispatched]
       /\ listed' = (IF gone THEN listed \ {e} ELSE listed)
  /\ verdict' = Unanswered
  /\ UNCHANGED <<process, born, attached, displays, untold, changes, handleVars, displayEpoch, topologyReady,
                 recordVars, historyVars>>

RegistryNext ==
  \/ RegistryWorld \/ DisplayTopologyChanged
  \/ RefreshBegins \/ ScanApplication \/ CollectDisplays \/ RefreshPublishes \/ RefreshFails
  \/ \E e \in Elements : CloseWindow(e)

RegistrySpec == RegistryInit /\ [][RegistryNext]_registryVars

-----------------------------------------------------------------------------
(* Properties. *)

\* The number of a reference names one window for good, and a window keeps its number until
\* a scan that its application answered leaves it out (window_identity,
\* retain_uncertain_window_identities, prune_handles).  Whether the number makes a window
\* reference or a surface reference is another matter: it does not make a window reference
\* while the role is unread.
RefsNameTheirWindows ==
  \A e \in inventory.windows :
    inventory.serial[e] = named[e] /\ bearer[inventory.serial[e]] = e

\* A published window can be acted on: its AX element is held while its process runs.
PublishedWindowsAreHeld ==
  \A e \in inventory.windows : LaunchOf[e] = process => handles[e] = inventory.token[e]

\* A window that a close command reports closed was no longer listed when its
\* application was asked, or its role was not read then (copy_string_attribute); nothing
\* else takes a listed window for a closed one.
ClosedIsGone == verdict.listed => verdict.unread

\* No window of Core Graphics is taken for two windows of Accessibility.
MatchesAreExclusive == inventory.contested = {}

\* What is published as a sheet is published with its one owner, as a window.
SheetsHaveOwners ==
  \A e \in inventory.windows : inventory.kind[e] = "sheet" =>
    /\ inventory.owner[e] \in inventory.windows
    /\ inventory.kind[inventory.owner[e]] = "window"

\* The same layout reference means the same displays.
LayoutIsOneLayout ==
  inventory.layout # 0 => layouts[inventory.layout] = <<inventory.epoch, inventory.displays>>

\* What the inventory says of windows and displays is true of them.
InventoryIsTrue ==
  /\ RefsNameTheirWindows /\ PublishedWindowsAreHeld /\ MatchesAreExclusive /\ SheetsHaveOwners
  /\ LayoutIsOneLayout /\ ClosedIsGone
=============================================================================
