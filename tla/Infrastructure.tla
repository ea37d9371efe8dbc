--------------------------- MODULE Infrastructure ---------------------------
(***************************************************************************)
(* The Infrastructure screen: the health of the services, polled every ten *)
(* seconds, and the buttons that start, stop and restart their containers  *)
(* (system-health/application, api/health_handler.go,                      *)
(* api/container_actions_handler.go).                                      *)
(*                                                                         *)
(* What is known of a container is its state and how many actions had been *)
(* carried out on it when it was looked at: `at` orders two looks. One     *)
(* visit of the screen is modelled; what an earlier visit left is whatever *)
(* the query cache holds when it opens.                                    *)
(***************************************************************************)
EXTENDS Integers

CONSTANTS
  Services,
  MaxActions      \* bound: actions on one container in a visit

ASSUME InfrastructureAssumption == MaxActions \in Nat

VARIABLES
  docker,         \* the containers themselves
  health,         \* the summary that is shown, and the fetch under way
  buttons         \* each row's own mutation

infraVars == <<docker, health, buttons>>

Actions == {"start", "stop", "restart"}

\* A container runs and is well, runs and is not (starting or unhealthy), or
\* does not run.
Conditions == {"well", "ailing", "down"}
Look == [is : Conditions, at : 0..MaxActions]
Looks == [Services -> Look]
Down == [is |-> "down", at |-> 0]
Unseen == [s \in Services |-> Down]

\* A fetch: the containers still to be inspected, and what was found of the rest.
Fetch == [is : {"none", "asked"}, left : SUBSET Services, look : Looks]
NoAnswer == [is |-> "none", left |-> {}, look |-> Unseen]
Asked == [is |-> "asked", left |-> Services, look |-> Unseen]

HealthClosed == [st |-> "closed", shown |-> Unseen, fetch |-> NoAnswer]
Idle(seen) == [is |-> "idle", action |-> "start", look |-> Down, seen |-> seen]
Rest == [s \in Services |-> Idle(0)]

InfraInit == docker = Unseen /\ health = HealthClosed /\ buttons = Rest

States == {l \in Looks : \A s \in Services : l[s].at = 0}

OpenInfrastructure ==
  /\ health.st = "closed"
  /\ docker' \in States
  /\ \/ health' = [HealthClosed EXCEPT !.st = "loading"]
     \/ \E l \in States : health' = [HealthClosed EXCEPT !.st = "ok", !.shown = l]
  /\ buttons' = Rest

LeaveInfrastructure ==
  /\ health.st # "closed"
  /\ docker' = Unseen /\ health' = HealthClosed /\ buttons' = Rest

InfraUp == health.st # "closed"

(***************************************************************************)
(* The poll: at most one fetch is under way.                               *)
(***************************************************************************)
fetchSummary ==
  /\ InfraUp /\ health.fetch.is = "none"
  /\ health' = [health EXCEPT !.fetch = Asked]
  /\ UNCHANGED <<docker, buttons>>

\* A container that cannot be inspected counts as one that does not run.
Inspected(look) == {look, [look EXCEPT !.is = "down"]}

\* The containers are inspected one after the other.
CheckNext(s) ==
  /\ InfraUp /\ s \in health.fetch.left
  /\ \E look \in Inspected(docker[s]) :
       health' = [health EXCEPT !.fetch.left = @ \ {s}, !.fetch.look[s] = look]
  /\ UNCHANGED <<docker, buttons>>

SummaryArrives ==
  /\ InfraUp /\ health.fetch.is = "asked" /\ health.fetch.left = {}
  /\ health' = [st |-> "ok", shown |-> health.fetch.look, fetch |-> NoAnswer]
  /\ UNCHANGED <<docker, buttons>>

\* The rows of an earlier answer stay on the screen.
SummaryFails ==
  /\ InfraUp /\ health.fetch.is # "none"
  /\ health' = [health EXCEPT !.fetch = NoAnswer,
                              !.st = IF @ = "loading" THEN "error" ELSE @]
  /\ UNCHANGED <<docker, buttons>>

(***************************************************************************)
(* The buttons of one row, disabled while its action is under way.         *)
(***************************************************************************)
Press(s, action) ==
  /\ InfraUp /\ health.st = "ok" /\ buttons[s].is = "idle"
  /\ docker[s].at < MaxActions
  /\ action = "stop" => health.shown[s].is # "down"
  /\ action = "start" => health.shown[s].is = "down"
  /\ buttons' = [buttons EXCEPT ![s].is = "asked", ![s].action = action]
  /\ UNCHANGED <<docker, health>>

\* Docker carries the action out. Its health check may still say anything.
perform(s) ==
  /\ buttons[s].is = "asked"
  /\ \E is \in Conditions :
       /\ is = "down" <=> buttons[s].action = "stop"
       /\ docker' = [docker EXCEPT ![s] = [is |-> is, at |-> @.at + 1]]
  /\ buttons' = [buttons EXCEPT ![s].is = "done"]
  /\ UNCHANGED health

\* It is looked at again, within the same request.
CheckOne(s) ==
  /\ buttons[s].is = "done"
  /\ \E look \in Inspected(docker[s]) :
       buttons' = [buttons EXCEPT ![s].is = "read", ![s].look = look]
  /\ UNCHANGED <<docker, health>>

\* Settled: the queries of the summary are invalidated. A fetch that is under
\* way is given up, its answer with it, and another one is asked for.
Invalidated(h) == [h EXCEPT !.fetch = Asked]

\* Mutant: the fetch under way is kept, as without onSettled.
ActionAnsweredOnly(s) ==
  /\ buttons[s].is = "read"
  /\ health' = [health EXCEPT !.shown[s] = buttons[s].look]
  /\ buttons' = [buttons EXCEPT ![s] = Idle(buttons[s].look.at)]
  /\ UNCHANGED docker

\* The answer is put into the summary at once.
ActionAnswered(s) ==
  /\ buttons[s].is = "read"
  /\ health' = Invalidated([health EXCEPT !.shown[s] = buttons[s].look])
  /\ buttons' = [buttons EXCEPT ![s] = Idle(buttons[s].look.at)]
  /\ UNCHANGED docker

\* An error or a timeout, with the action carried out or not.
ActionFails(s) ==
  /\ buttons[s].is # "idle"
  /\ health' = Invalidated(health)
  /\ buttons' = [buttons EXCEPT ![s] = Idle(@.seen)]
  /\ UNCHANGED docker

\* A container settles, stops or comes back by itself.
ContainerChanges(s) ==
  /\ InfraUp
  /\ \E is \in Conditions \ {docker[s].is} :
       docker' = [docker EXCEPT ![s].is = is]
  /\ UNCHANGED <<health, buttons>>

InfraStep ==
  \/ fetchSummary \/ SummaryArrives \/ SummaryFails
  \/ \E s \in Services :
       \/ CheckNext(s)
       \/ \E action \in Actions : Press(s, action)
       \/ perform(s) \/ CheckOne(s) \/ ActionAnswered(s) \/ ActionFails(s)
       \/ ContainerChanges(s)

InfraNext == OpenInfrastructure \/ LeaveInfrastructure \/ InfraStep
InfraSpec == InfraInit /\ [][InfraNext]_infraVars

InfraTypeOK ==
  /\ docker \in Looks
  /\ health \in [st : {"closed", "loading", "error", "ok"}, shown : Looks, fetch : Fetch]
  /\ buttons \in [Services -> [is : {"idle", "asked", "done", "read"}, look : Look,
                               action : Actions, seen : 0..MaxActions]]

\* A row never falls back behind the answer of its last action: no poll that
\* looked at the container before the action, and is answered after it, takes
\* the row back to the state the user has just left
\* (useServiceControl.ts:20-34).
ShownFresh ==
  \A s \in Services : InfraUp => health.shown[s].at >= buttons[s].seen
=============================================================================
