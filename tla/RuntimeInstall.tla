---------------------------- MODULE RuntimeInstall ----------------------------
(***************************************************************************)
(* The update of an installed runtime (scripts/runtime-install.ts): the    *)
(* journal "pending-update" that makes the change of the application, the  *)
(* "current" link and the LaunchAgent plist recoverable, the drain and     *)
(* bootout of the old service, the switch, the doctor, the rollback, and   *)
(* the recovery a later installer makes of what an earlier one left.       *)
(*                                                                         *)
(* The model follows one update from the release "old" to the release      *)
(* "new", attempted any number of times.  An installer may die at any      *)
(* point; the kernel then frees its lock.  A file operation that the code  *)
(* makes atomic (rename, atomicText) is one step; the removal of a         *)
(* directory tree is one step per entry, in any order.  The releases       *)
(* directory and the checks of manifests and signatures, which change      *)
(* nothing, are an outcome: they fail or they do not.                      *)
(***************************************************************************)
EXTENDS Naturals, FiniteSets

CONSTANTS
  MaxInstallFaults,   \* bound: commands and file operations that fail
  MaxInstallCrashes   \* bound: deaths of an installer

ASSUME InstallAssumption == MaxInstallFaults \in Nat /\ MaxInstallCrashes \in Nat

VARIABLES
  stage,      \* where the installer that holds the lock stands
  mode,       \* whose steps these are: the update, its rollback, or a recovery
  rollbackErrors,  \* rollback has collected an error
  application, link, plist,   \* the stable application, "current", the plist
  journal,    \* the entries of the directory pending-update
  witness,    \* shutdownWitness of its record
  previous,   \* the rest of its record: what was installed before
  service,    \* the label in launchd
  processes,  \* processes of the loaded runtime that are alive
  running,    \* the release those processes run
  installFaults, installCrashes

fileVars    == <<application, link, plist>>
journalVars == <<journal, witness, previous>>
serviceVars == <<service, processes, running>>
installVars == <<stage, mode, rollbackErrors, fileVars, journalVars, serviceVars,
                 installFaults, installCrashes>>

-----------------------------------------------------------------------------
(* State. *)

Release == {"none", "old", "new"}
Trees == {"backup", "next", "displaced", "failed"}  \* copies of an application
Entries == Trees \cup {"record", "plist"}

\* pending-update: whether the directory is there, and each entry in it.  A
\* tree whose removal was interrupted is "partial".
NoJournal == [dir |-> FALSE, entry |-> [e \in Entries |-> "none"]]
Journal == [dir : BOOLEAN, entry : [Entries -> Release \cup {"partial"}]]
Holds(e) == journal.entry[e] # "none"

Nothing == [application |-> "none", link |-> "none", plist |-> "none", loaded |-> FALSE]
Snapshot == [application : Release, link : Release, plist : Release, loaded : BOOLEAN]

Stages ==
  {"idle", "locked", "inspect", "capture", "bootout", "converge", "restore", "put_back",
   "link", "plist", "bootstrap", "doctor", "discard", "candidate", "prepare", "prepare_next",
   "drain", "promote", "promote_next"}

InstallTypeOK ==
  /\ stage \in Stages /\ mode \in {"update", "abandon", "rollback", "recovery"}
  /\ rollbackErrors \in BOOLEAN
  /\ application \in Release /\ link \in Release /\ plist \in Release
  /\ journal \in Journal /\ witness \in {"none", "prepared", "issued"}
  /\ previous \in Snapshot
  /\ service \in {"absent", "running", "removing"}
  /\ processes \subseteq {"parent", "helper"} /\ running \in Release
  /\ installFaults \in 0..MaxInstallFaults /\ installCrashes \in 0..MaxInstallCrashes

\* Nothing is installed; a release of the older format, which has no stable
\* application; or a release of the present one.  The last two may be loaded.
InstallInit ==
  /\ \E loaded \in BOOLEAN, kind \in {"nothing", "legacy", "application"} :
       /\ kind = "nothing" => ~loaded
       /\ application = IF kind = "application" THEN "old" ELSE "none"
       /\ link = IF kind = "nothing" THEN "none" ELSE "old"
       /\ plist = link
       /\ service = IF loaded THEN "running" ELSE "absent"
       /\ processes = IF loaded THEN {"parent", "helper"} ELSE {}
       /\ running = IF loaded THEN "old" ELSE "none"
  /\ stage = "idle" /\ mode = "update" /\ rollbackErrors = FALSE
  /\ journal = NoJournal /\ witness = "none" /\ previous = Nothing
  /\ installFaults = 0 /\ installCrashes = 0

\* The next stage; everything else about the installer stays.
Proceed(s) == stage' = s /\ UNCHANGED <<mode, rollbackErrors>>

\* A command or a file operation fails.
MayFail == installFaults < MaxInstallFaults /\ installFaults' = installFaults + 1
Fine == UNCHANGED installFaults

\* The installer ends with an error; a journal stays.
GiveUp == stage' = "idle" /\ rollbackErrors' = FALSE /\ UNCHANGED mode

\* Mutant: the drain counts as incomplete until the switch.
DropTheJournal ==
  IF mode # "update" \/ stage \in {"candidate", "prepare", "prepare_next"} THEN GiveUp
  ELSE UNCHANGED rollbackErrors /\ stage' = "discard" /\ mode' = "abandon"

\* What an error does: an update whose drain failed drops its journal, because
\* no file has changed; once drained it is rolled back; everything else ends.
Throw ==
  IF mode # "update" \/ stage \in {"candidate", "prepare", "prepare_next"} THEN GiveUp
  ELSE /\ UNCHANGED rollbackErrors
       /\ IF stage = "drain" THEN stage' = "discard" /\ mode' = "abandon"
          ELSE stage' = "inspect" /\ mode' = "rollback"

Failing == MayFail /\ Throw

-----------------------------------------------------------------------------
(* The start of an installer, and the recovery of a journal it finds. *)

\* applyRuntimeInstall takes the lock and finds no journal, or one with a record
\* it can read; a journal without its record stops it.
StartInstall ==
  /\ stage = "idle"
  /\ stage' = IF ~journal.dir THEN "candidate" ELSE IF Holds("record") THEN "locked" ELSE "idle"
  /\ mode' = IF journal.dir THEN "recovery" ELSE "update"
  /\ rollbackErrors' = FALSE
  /\ UNCHANGED <<fileVars, journalVars, serviceVars, installFaults, installCrashes>>

\* A recorded shutdown is completed first.  Otherwise a loaded service is
\* drained through the runtime before anything is undone; a label that is being
\* removed has no process id and is refused, and so is a journal that has lost
\* its copy of the plist.
RecoverPending ==
  /\ stage = "locked"
  /\ LET unreadable == previous.plist # "none" /\ ~Holds("plist")
         removing   == witness = "none" /\ service = "removing"
     IN \/ (unreadable \/ removing) /\ Fine /\ GiveUp
        \/ ~unreadable /\ ~removing /\ Fine
           /\ Proceed(IF witness = "none" /\ service = "running" THEN "capture" ELSE "inspect")
        \/ Failing
  /\ UNCHANGED <<fileVars, journalVars, serviceVars, installCrashes>>

-----------------------------------------------------------------------------
(* Stopping the service. *)

\* awaitRecordedShutdownWitness, and the inspection of the service that a
\* rollback makes after it.  A prepared bootout is issued again while the
\* label is running; an issued one is only awaited.  A rollback first reads the
\* record.
FinishShutdown ==
  /\ stage = "inspect" /\ Holds("record")
  /\ \/ /\ witness # "none" /\ Fine
        /\ service' = IF witness = "prepared" /\ service = "running" THEN "removing" ELSE service
        /\ witness' = "issued" /\ Proceed("converge")
     \/ /\ witness = "none" /\ Fine /\ UNCHANGED <<service, witness>>
        /\ CASE service = "running" -> Proceed("capture")
             [] service = "absent" -> Proceed("restore")
             [] service = "removing" -> GiveUp
     \/ /\ Failing /\ UNCHANGED witness
        /\ service' \in {service} \cup {s \in {"removing"} : witness = "prepared" /\ service = "running"}
  /\ UNCHANGED <<fileVars, journal, previous, processes, running, installCrashes>>

RollbackUnreadable ==
  /\ stage = "inspect" /\ ~Holds("record") /\ GiveUp
  /\ UNCHANGED <<fileVars, journalVars, serviceVars, installFaults, installCrashes>>

\* bootoutAndAwaitConvergence: the exact runtime process and its one helper are
\* captured and recorded before the bootout is issued.
CaptureProcesses ==
  /\ stage = "capture"
  /\ \/ processes = {"parent", "helper"} /\ witness' = "prepared" /\ Fine /\ Proceed("bootout")
     \/ Failing /\ UNCHANGED witness
  /\ UNCHANGED <<fileVars, journal, previous, serviceVars, installCrashes>>

\* launchctl may time out after it began to remove the label.
Bootout ==
  /\ stage = "bootout"
  /\ \/ service' = "removing" /\ witness' = "issued" /\ Fine /\ Proceed("converge")
     \/ Failing /\ service' \in {service, "removing"} /\ UNCHANGED witness
  /\ UNCHANGED <<fileVars, journal, previous, processes, running, installCrashes>>

\* awaitBootoutConvergence: the label and both captured processes are gone, or
\* the deadline passes; only the former clears the witness, and the latter is not
\* followed by a rollback.
LabelGone == service = "absent"  \* mutant: the processes are not awaited
Stopped == service = "absent" /\ processes = {}
Converge ==
  /\ stage = "converge"
  /\ \/ /\ Stopped /\ witness' = "none" /\ Fine
        /\ Proceed(IF mode = "update" THEN "promote" ELSE IF mode = "rollback" THEN "inspect" ELSE "restore")
     \/ ~Stopped /\ GiveUp /\ Fine /\ UNCHANGED witness
     \/ Failing /\ UNCHANGED witness
  /\ UNCHANGED <<fileVars, journal, previous, serviceVars, installCrashes>>

-----------------------------------------------------------------------------
(* Putting the previous installation back. *)

With(f, v) == [f EXCEPT !.entry = [e \in Entries |-> IF e \in DOMAIN v THEN v[e] ELSE f.entry[e]]]
Put(e, r) == [x \in {e} |-> r]

\* A rollback collects its errors and goes on.
Error(s) ==
  IF mode = "rollback" THEN rollbackErrors' = TRUE /\ stage' = s /\ UNCHANGED mode ELSE Throw
Trouble(s) == MayFail /\ Error(s)

\* restoreStableApplication when the previous application is gone from the
\* journal, and what was displaced by it as well.
EvidenceLost ==
  /\ previous.application # "none" /\ ~Holds("backup")
  /\ application = "none" \/ ~Holds("failed")

\* restoreStableApplication: a backup first makes room; without one the previous
\* application must be in place with the displaced one beside it, and without a
\* previous application the new one goes.
Restore ==
  /\ stage = "restore"
  /\ \/ /\ journal.entry["backup"] = "old" /\ Fine
        /\ journal' = With(journal, Put("failed", application))
        /\ application' = "none" /\ Proceed("put_back")
     \/ /\ ~Holds("backup") /\ ~EvidenceLost /\ Fine
        /\ journal' = With(journal, Put("failed", "none"))
        /\ application' = IF previous.application = "none" THEN "none" ELSE application
        /\ Proceed("link")
     \/ /\ EvidenceLost \/ journal.entry["backup"] = "partial"
        /\ Fine /\ Error("link") /\ UNCHANGED <<application, journal>>
     \/ Trouble("link") /\ UNCHANGED <<application, journal>>
  /\ UNCHANGED <<link, plist, witness, previous, serviceVars, installCrashes>>

\* The backup becomes the stable application.
PutBack ==
  /\ stage = "put_back"
  /\ \/ /\ application' = journal.entry["backup"] /\ Fine
        /\ journal' = With(journal, Put("backup", "none")) /\ Proceed("link")
     \/ Trouble("link") /\ UNCHANGED <<application, journal>>
  /\ UNCHANGED <<link, plist, witness, previous, serviceVars, installCrashes>>

Target(field) == IF mode = "update" THEN "new" ELSE previous[field]

\* The link "current" and then the plist, of the new release or the previous one.
SwitchLink ==
  /\ stage = "link"
  /\ \/ link' = Target("link") /\ Fine /\ Proceed("plist")
     \/ UNCHANGED link /\ Trouble("plist")
  /\ UNCHANGED <<application, plist, journalVars, serviceVars, installCrashes>>

SwitchPlist ==
  /\ stage = "plist"
  /\ LET next == IF mode = "update" \/ (previous.loaded /\ previous.plist # "none")
                 THEN "bootstrap" ELSE "discard"
     IN \/ plist' = Target("plist") /\ Fine /\ Proceed(next)
        \/ UNCHANGED plist /\ Trouble(next)
  /\ UNCHANGED <<application, link, journalVars, serviceVars, installCrashes>>

\* launchctl bootstrap may time out after it loaded the service.
Load == service' = "running" /\ processes' = {"parent", "helper"}
        /\ running' = IF application = "none" THEN link ELSE application
Bootstrap ==
  /\ stage = "bootstrap" /\ service = "absent"
  /\ \/ Load /\ Fine /\ Proceed("doctor")
     \/ (Load \/ UNCHANGED serviceVars) /\ Trouble("discard")
  /\ UNCHANGED <<fileVars, journalVars, installCrashes>>

\* runDoctor reads the build of the running release: another one than the
\* expected one is refused at once.
Doctor ==
  /\ stage = "doctor"
  /\ \/ running = Target("link") /\ Fine /\ Proceed("discard")
     \/ running # Target("link") /\ Fine /\ Error("discard")
     \/ Trouble("discard")
  /\ UNCHANGED <<fileVars, journalVars, serviceVars, installCrashes>>

\* discardPendingUpdate: the tree is removed entry by entry, and an application
\* in it file by file.  A removal that fails is an error like any other, also
\* after a doctor that passed.  A rollback with errors keeps the journal.
NeverKept == FALSE  \* mutant: the errors of a rollback are forgotten
KeepsJournal == mode = "rollback" /\ rollbackErrors
Discard ==
  /\ stage = "discard" /\ ~KeepsJournal
  /\ \/ /\ \E e \in Entries : /\ Holds(e)
                              /\ journal' = With(journal, Put(e,
                                   IF e \in Trees /\ journal.entry[e] # "partial" THEN "partial" ELSE "none"))
        /\ Proceed("discard") /\ Fine /\ UNCHANGED <<witness, previous>>
     \/ /\ \A e \in Entries : ~Holds(e)
        /\ journal' = NoJournal /\ witness' = "none" /\ previous' = Nothing
        /\ mode' = "update" /\ Fine /\ UNCHANGED rollbackErrors
        /\ stage' = IF mode = "recovery" THEN "candidate" ELSE "idle"
     \/ Failing /\ UNCHANGED journalVars
  /\ UNCHANGED <<fileVars, serviceVars, installCrashes>>

RollbackIncomplete ==
  /\ stage = "discard" /\ KeepsJournal /\ GiveUp
  /\ UNCHANGED <<fileVars, journalVars, serviceVars, installFaults, installCrashes>>

-----------------------------------------------------------------------------
(* The update. *)

\* The candidate release is verified where it is already built; otherwise it is
\* built, signed and measured in a staging directory, which one rename publishes
\* and an error removes.
EnsureRelease ==
  /\ stage = "candidate"
  /\ (Fine /\ Proceed("prepare")) \/ Failing
  /\ UNCHANGED <<fileVars, journalVars, serviceVars, installCrashes>>

\* The installed state is read.  The same release, loaded, needs only its doctor.
\* Otherwise prepareRollback publishes the journal with one rename.
SameRelease == service = "running" /\ application = "new" /\ link = "new" /\ plist = "new"
PrepareRollback ==
  /\ stage = "prepare"
  /\ \/ /\ service # "removing" /\ ~SameRelease /\ Fine /\ Proceed("prepare_next")
        /\ previous' = [application |-> application, link |-> link, plist |-> plist,
                        loaded |-> service = "running"]
        /\ journal' = [dir |-> TRUE, entry |-> [e \in Entries |->
             CASE e = "record" -> "old"
               [] e = "plist" -> plist
               [] e = "backup" -> application
               [] OTHER -> "none"]]
     \/ (service = "removing" \/ SameRelease) /\ Fine /\ Throw /\ UNCHANGED <<journal, previous>>
     \/ Failing /\ UNCHANGED <<journal, previous>>
  /\ UNCHANGED <<fileVars, witness, serviceVars, installCrashes>>

\* Mutant: a copy that fails is taken for a whole one.
PrepareAnyway ==
  /\ stage = "prepare_next"
  /\ journal' \in {With(journal, Put("next", v)) : v \in {"new", "partial"}}
  /\ Fine /\ Proceed(IF previous.loaded THEN "drain" ELSE "promote")
  /\ UNCHANGED <<fileVars, witness, previous, serviceVars, installCrashes>>

\* prepareNextStableApplication copies the new application into the journal.
PrepareNext ==
  /\ stage = "prepare_next"
  /\ \/ journal' = With(journal, Put("next", "new")) /\ Fine
        /\ Proceed(IF previous.loaded THEN "drain" ELSE "promote")
     \/ Failing /\ journal' \in {journal, With(journal, Put("next", "partial"))}
  /\ UNCHANGED <<fileVars, witness, previous, serviceVars, installCrashes>>

\* The loaded runtime confirms a clean drain of the exact generation.
Drain ==
  /\ stage = "drain"
  /\ \/ Fine /\ Proceed("capture")
     \/ Failing
  /\ UNCHANGED <<fileVars, journalVars, serviceVars, installCrashes>>

\* promoteNextStableApplication: the old application moves into the journal, the
\* new one out of it.
Promote ==
  /\ stage = "promote"
  /\ \/ journal' = With(journal, Put("displaced", application)) /\ application' = "none"
        /\ Fine /\ Proceed("promote_next")
     \/ Failing /\ UNCHANGED <<application, journal>>
  /\ UNCHANGED <<link, plist, witness, previous, serviceVars, installCrashes>>

PromoteNext ==
  /\ stage = "promote_next"
  /\ \/ journal' = With(journal, Put("next", "none")) /\ application' = journal.entry["next"]
        /\ Fine /\ Proceed("link")
     \/ Failing /\ UNCHANGED <<application, journal>>
  /\ UNCHANGED <<link, plist, witness, previous, serviceVars, installCrashes>>

-----------------------------------------------------------------------------
(* Outside of the installer. *)

\* A label that is being removed: its processes end, and at last it is gone.
ProcessEnds ==
  /\ service = "removing"
  /\ \/ \E p \in processes : processes' = processes \ {p} /\ UNCHANGED <<service, running>>
     \/ service' = "absent" /\ UNCHANGED <<processes, running>>
  /\ UNCHANGED <<stage, mode, rollbackErrors, fileVars, journalVars, installFaults, installCrashes>>

\* launchd has removed the label and an orphan of the runtime ends later.
OrphanEnds ==
  /\ service = "absent" /\ \E p \in processes : processes' = processes \ {p}
  /\ UNCHANGED <<stage, mode, rollbackErrors, fileVars, journalVars, service, running,
                 installFaults, installCrashes>>

InstallerDies ==
  /\ stage # "idle" /\ installCrashes < MaxInstallCrashes
  /\ installCrashes' = installCrashes + 1 /\ stage' = "idle" /\ rollbackErrors' = FALSE
  /\ UNCHANGED <<mode, fileVars, journalVars, serviceVars, installFaults>>

InstallerStep ==
  \/ RecoverPending \/ FinishShutdown \/ RollbackUnreadable \/ CaptureProcesses
  \/ Bootout \/ Converge \/ Restore \/ PutBack \/ SwitchLink \/ SwitchPlist \/ Bootstrap
  \/ Doctor \/ Discard \/ RollbackIncomplete \/ EnsureRelease \/ PrepareRollback \/ PrepareNext \/ Drain
  \/ Promote \/ PromoteNext

InstallNext ==
  StartInstall \/ InstallerStep \/ ProcessEnds \/ OrphanEnds \/ InstallerDies
-----------------------------------------------------------------------------
(* Properties. *)

\* When no journal is left, the application, the link and the plist are those of
\* one release, or nothing is installed, and so is what is loaded: a crash, a
\* failed command or a failed removal never leaves a mixture behind that no
\* later installer would repair.
OneRelease(r) ==
  /\ link = r /\ plist = r /\ application \in {r, "none"}
  /\ r = "new" => application = "new"
  /\ service = "running" => running = r
AtRestOneRelease == ~journal.dir => \E r \in Release : OneRelease(r)

Kept == application = "old" \/ \E e \in Trees : journal.entry[e] = "old"

\* The switch of a release can be undone wherever it is interrupted: without a journal
\* there is one release.  The files change only while the label is gone and both
\* processes of the loaded runtime have ended, whatever the bootout command answered and
\* whichever installer issued it.  And the last whole copy of the previous application
\* goes only with a journal that is discarded while the new release runs: no error,
\* rollback or recovery removes it before.
SwitchesReversibly ==
  /\ AtRestOneRelease'
  /\ fileVars' # fileVars => service = "absent" /\ processes = {}
  /\ Kept /\ ~Kept' => stage = "discard" /\ mode = "update" /\ running = "new"

\* What a test of the restore says: it continues idempotently from the journal,
\* so a recovery finds the evidence it needs wherever the one before it stopped.
RestoreIsRepeatable == stage = "restore" => ~EvidenceLost
=============================================================================
