------------------------------ MODULE MCHelper ------------------------------
(***************************************************************************)
(* Instances of the components inside the native helper for TLC.  They     *)
(* share no state, so one run explores each of them on its own: component  *)
(* says which, and the others rest in their initial states.                *)
(***************************************************************************)
EXTENDS NativeExecutor, CaptureRouter, HelperObserver, ObserverSubscriptions, NativeRegistry, TLC

CONSTANTS actions, results, control, plain, layout, first, second, sheet, cgFirst, cgSecond

\* The helper's three queues use the router, as meta_command_loop wires them.
CallsOfQueues ==
  [c \in {actions, results, control} |->
     IF c = actions THEN RouterOps ELSE IF c = results THEN {"result"} ELSE {"tasks"}]
KidsOfCaptures == [e \in {plain, layout} |-> IF e = plain THEN 1 ELSE 2]

\* One application with two windows and a sheet that may be under either; all but one
\* of the windows have the same title.
EitherWindow == {sheet} \X {first, second}
OneIncarnation == [e \in Elements |-> 1]
TwoTitles == [w \in Elements \cup CGWindows |-> IF w = cgSecond THEN "other" ELSE "title"]

\* Two authorities, and two windows of the observer, differ in nothing.
Interchangeable == Permutations(Authorities) \cup Permutations(Windows)

VARIABLE component

helperVars == <<component, executorVars, routerVars, observerVars, subscriptionVars, registryVars>>

\* The foreground process and the sheets are of no interest while something else runs.
RestingSubscriptions == front = CHOOSE p \in Pids : TRUE
RestingRegistry == attached = {}

HelperInit ==
  /\ component \in {"executor", "router", "observer", "subscriptions", "registry"}
  /\ ExecutorInit /\ RouterInit /\ ObserverInit /\ SubscriptionsInit
  /\ RegistryInit
  /\ component # "subscriptions" => RestingSubscriptions
  /\ component # "registry" => RestingRegistry

HelperNext ==
  \/ /\ component = "executor" /\ ExecutorNext
     /\ UNCHANGED <<component, routerVars, observerVars, subscriptionVars, registryVars>>
  \/ /\ component = "router" /\ RouterNext
     /\ UNCHANGED <<component, executorVars, observerVars, subscriptionVars, registryVars>>
  \/ /\ component = "observer" /\ ObserverNext
     /\ UNCHANGED <<component, executorVars, routerVars, subscriptionVars, registryVars>>
  \/ /\ component = "subscriptions" /\ SubscriptionsNext
     /\ UNCHANGED <<component, executorVars, routerVars, observerVars, registryVars>>
  \/ /\ component = "registry" /\ RegistryNext
     /\ UNCHANGED <<component, executorVars, routerVars, observerVars, subscriptionVars>>

HelperSpec == HelperInit /\ [][HelperNext]_helperVars

\* The variables of the component that runs keep their types.  Those that rest stay as
\* they are.
HelperTypeOK ==
  CASE component = "executor" -> ExecutorTypeOK
    [] component = "router" -> RouterTypeOK
    [] component = "observer" -> ObserverTypeOK
    [] component = "subscriptions" -> SubscriptionsTypeOK
    [] component = "registry" -> RegistryTypeOK

\* What the helper says of user activity is true: of its observer, of the events, and
\* of the processes and windows it listens to.
ObservationIsTrue ==
  [][/\ component = "observer" => ObserverIsTrue'
     /\ component = "subscriptions" => SubscriptionsStayTrue]_helperVars
=============================================================================
