------------------------------- MODULE MCNode -------------------------------
(* Two parts of a node that share no state: the router with its matches,    *)
(* and the scheduler of callbacks.  A behaviour is of one or the other.     *)
EXTENDS MatchRouter, MCTournamentSchedule

CONSTANTS m1, m2

CONSTANT Scenes
ASSUME Scenes \subseteq {"router", "schedule"}

VARIABLE scene

nodeVars == <<routerVars, schedVars, scene>>

\* The part that is not played keeps one of its initial states, the scheduler
\* one with nothing due.
Init ==
  /\ RouterInit /\ ScheduleInit /\ scene \in Scenes
  /\ scene = "schedule" => \A v \in Visitor : visited[v] = m1
  /\ scene = "router" => deploy.table = <<BoardOf(1, 0, 1, 2)>>

RouterScene == scene = "router" /\ UNCHANGED <<schedVars, scene>>
ScheduleScene == scene = "schedule" /\ UNCHANGED <<routerVars, scene>>

Next == \/ RouterScene /\ RouterNext
        \/ ScheduleScene /\ ScheduleNext

\* The fairness of the router and of the scheduler, each where it is played.
RouterFairness ==
  /\ \A m \in Match : WF_nodeVars(RouterScene /\ (MatchSteps(m) \/ ListSteps(m)))
  /\ \A p \in Lister : WF_nodeVars(RouterScene /\ ListSteps(p))
  /\ \A v \in Visitor : WF_nodeVars(RouterScene /\ Visit(v))

SchedulerFairness ==
  /\ WF_nodeVars(ScheduleScene /\ TimePasses)
  /\ \A n \in Node :
       /\ WF_nodeVars(ScheduleScene /\ Start(n))
       /\ WF_nodeVars(ScheduleScene /\ Update(n, {}))
       /\ WF_nodeVars(ScheduleScene /\ \E cb \in pushing[n] : Push(n, cb))
  /\ \A w \in Worker : /\ WF_nodeVars(ScheduleScene /\ WorkerStep(w))
                       /\ SF_nodeVars(ScheduleScene /\ Acquire(w))

Spec == Init /\ [][Next]_nodeVars /\ RouterFairness /\ SchedulerFairness
=============================================================================
