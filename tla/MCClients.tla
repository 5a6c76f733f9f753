------------------------------ MODULE MCClients ------------------------------
(***************************************************************************)
(* Instances of what serves one client for TLC: its sessions, the browser  *)
(* it holds exclusively, its requests and the renewal of its credential,   *)
(* and a capture made for it.  They share no state, so one run explores     *)
(* each of them on its own: component says which, and the others rest.     *)
(***************************************************************************)
EXTENDS MCClientSessions, BrowserLifetime, ClientTransport, ScreenCapture

CONSTANTS o1, o2, o3, o4, o5, o6

\* One client connects, uses, disconnects, recovers and connects again; then the
\* runtime shuts down.
OneOfEach ==
  o1 :> "connect" @@ o2 :> "child" @@ o3 :> "disconnect" @@ o4 :> "recover"
    @@ o5 :> "connect" @@ o6 :> "shutdown"
OneClient == [o \in LifeOps |-> "l"]

VARIABLE component

clientsVars == <<component, vars, lifeVars, transportVars, screenVars>>

ClientsInit ==
  /\ component \in {"sessions", "browser", "transport", "screen"}
  /\ Init /\ LifeInit /\ TransportInit /\ ScreenInit

ClientsNext ==
  /\ UNCHANGED component
  /\ \/ component = "sessions" /\ Next /\ UNCHANGED <<lifeVars, transportVars, screenVars>>
     \/ component = "browser" /\ LifeNext /\ UNCHANGED <<vars, transportVars, screenVars>>
     \/ component = "transport" /\ TransportNext /\ UNCHANGED <<vars, lifeVars, screenVars>>
     \/ component = "screen" /\ ScreenNext /\ UNCHANGED <<vars, lifeVars, transportVars>>

ClientsSpec == ClientsInit /\ [][ClientsNext]_clientsVars

\* The variables of the component that runs keep their types.  Those that rest stay as
\* they are.
ClientsTypeOK ==
  CASE component = "sessions" -> TypeOK
    [] component = "browser" -> LifeTypeOK
    [] component = "transport" -> TransportTypeOK
    [] component = "screen" -> ScreenTypeOK
=============================================================================
