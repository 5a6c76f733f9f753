----------------------------- MODULE MCServices -----------------------------
(***************************************************************************)
(* Instances of the services around the core for TLC: views of agents,     *)
(* events, the host's life, permissions, the installer and its neighbours, *)
(* the browser of a device and the session of a page.  They share no state, *)
(* so one run explores each of them on its own: component says which, and   *)
(* the others rest in an initial state.                                    *)
(***************************************************************************)
EXTENDS AgentViewGuard, ObserverHub, HostLifecycle,
        StartupPermissions, RuntimeInstall, InstallDoctor, ObserverPreparation,
        LegacyRetirement, DeviceBrowser, BrowserSession, TLC

\* Two views of the same screen differ in nothing.
InterchangeableViews == Permutations(Views)

VARIABLE component

servicesVars ==
  <<component, viewVars, hubVars, hostVars, permissionVars, installVars, doctorVars, preparationVars,
    legacyVars, deviceVars, sessionVars>>

\* The component whose turn it is starts anywhere it may.
RestingHost == admission = "open"
RestingPermissions == granted = "all"
RestingInstaller == link = "none"
RestingPage == ~page.loading
RestingLegacy == legacy = [s \in Ports |-> Service]

ServicesInit ==
  /\ component \in {"views", "hub", "host", "permissions", "installer", "doctor", "preparation",
                    "legacy", "device", "session"}
  /\ ViewInit /\ HubInit /\ HostInit /\ PermissionInit /\ InstallInit /\ DoctorInit
  /\ PreparationInit /\ LegacyInit /\ DeviceInit /\ SessionInit
  /\ component # "host" => RestingHost
  /\ component # "permissions" => RestingPermissions
  /\ component # "installer" => RestingInstaller
  /\ component # "legacy" => RestingLegacy
  /\ component # "session" => RestingPage

ServicesNext ==
  /\ UNCHANGED component
  /\ \/ /\ component = "views" /\ ViewNext
        /\ UNCHANGED <<hubVars, hostVars, permissionVars, installVars, doctorVars,
                       preparationVars, legacyVars, deviceVars, sessionVars>>
     \/ /\ component = "hub" /\ HubNext
        /\ UNCHANGED <<viewVars, hostVars, permissionVars, installVars, doctorVars,
                       preparationVars, legacyVars, deviceVars, sessionVars>>
     \/ /\ component = "host" /\ HostNext
        /\ UNCHANGED <<viewVars, hubVars, permissionVars, installVars, doctorVars,
                       preparationVars, legacyVars, deviceVars, sessionVars>>
     \/ /\ component = "permissions" /\ PermissionNext
        /\ UNCHANGED <<viewVars, hubVars, hostVars, installVars, doctorVars,
                       preparationVars, legacyVars, deviceVars, sessionVars>>
     \/ /\ component = "installer" /\ InstallNext
        /\ UNCHANGED <<viewVars, hubVars, hostVars, permissionVars, doctorVars,
                       preparationVars, legacyVars, deviceVars, sessionVars>>
     \/ /\ component = "doctor" /\ DoctorNext
        /\ UNCHANGED <<viewVars, hubVars, hostVars, permissionVars, installVars,
                       preparationVars, legacyVars, deviceVars, sessionVars>>
     \/ /\ component = "preparation" /\ PreparationNext
        /\ UNCHANGED <<viewVars, hubVars, hostVars, permissionVars, installVars,
                       doctorVars, legacyVars, deviceVars, sessionVars>>
     \/ /\ component = "legacy" /\ LegacyNext
        /\ UNCHANGED <<viewVars, hubVars, hostVars, permissionVars, installVars,
                       doctorVars, preparationVars, deviceVars, sessionVars>>
     \/ /\ component = "device" /\ DeviceNext
        /\ UNCHANGED <<viewVars, hubVars, hostVars, permissionVars, installVars,
                       doctorVars, preparationVars, legacyVars, sessionVars>>
     \/ /\ component = "session" /\ SessionNext
        /\ UNCHANGED <<viewVars, hubVars, hostVars, permissionVars, installVars,
                       doctorVars, preparationVars, legacyVars, deviceVars>>

ServicesSpec == ServicesInit /\ [][ServicesNext]_servicesVars

\* The variables of the component that runs keep their types, and the installer's
\* patience its bound.  Those that rest stay as they are.
ServicesTypeOK ==
  CASE component = "views" -> ViewTypeOK
    [] component = "hub" -> HubTypeOK
    [] component = "host" -> HostTypeOK
    [] component = "permissions" -> PermissionTypeOK
    [] component = "installer" -> InstallTypeOK
    [] component = "doctor" -> DoctorIsBounded
    [] component = "preparation" -> PreparationTypeOK
    [] component = "legacy" -> LegacyTypeOK
    [] component = "device" -> DeviceTypeOK
    [] component = "session" -> SessionTypeOK

\* Those who use a browser are told the truth about it: what the forward of a device and
\* the session of a page promise.
BrowserIsTold ==
  /\ component = "device" => DeviceIsTrue
  /\ component = "session" => SessionIsTrue

\* A preparation opens admission only after a true grant, and calls ready only the one
\* observer the host is bound to: what the startup permissions and the preparation promise.
AdmissionIsGuarded ==
  [][/\ component = "permissions" => GuardsAdmission
     /\ component = "preparation" => PreparesSafely]_servicesVars

\* The scripts that change the installed software can be undone or end whole: what the
\* switch of a release and the retirement of the previous services promise.
AdministrationIsSafe ==
  [][/\ component = "installer" => SwitchesReversibly
     /\ component = "legacy" => RetiresSafely]_servicesVars
=============================================================================
