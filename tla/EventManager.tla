----------------------------- MODULE EventManager -----------------------------
(***************************************************************************)
(* The event loop (EventManager::run, EventBase::execute), the restart     *)
(* files its events write (fileIO/Outputs/RestartOutput), the processes    *)
(* that resume from them, and pygeosx, which an event may return to.       *)
(*                                                                         *)
(* The target of an event is a "solver", the "restart" output, "python" or *)
(* an "output" of another kind; no target is "none".  A solver is seen     *)
(* through the time step it asks for: "plan" gives it for each step.       *)
(***************************************************************************)
EXTENDS EventBase, TLC

CONSTANTS MinTime, MaxTime, MaxCycle,  \* attributes of the Events block
          Requests,     \* the time steps a solver may ask for
          PlanLength,   \* after this many steps it starts the plan again
          Functions,    \* the sets of times an optional function may select
          MaxRestarts   \* bound: how often a process ends and another resumes

\* Never is -1e100, long before everything.
ASSUME TimesAssumption ==
    /\ MinTime \in Int /\ MaxTime \in Int /\ MaxCycle \in Nat
    /\ \A e \in Event : Never + Attributes[e].timeFrequency <= MinTime
ASSUME BoundsAssumption ==
    PlanLength \in Nat \ {0} /\ MaxRestarts \in Nat /\ Requests \subseteq Nat \ {0}

VARIABLES
    data,      \* what a restart file holds of the manager and its events
    exitFlags, \* m_exitFlag of the events, which it does not hold
    exitFlag,  \* the local variable of run()
    phase,     \* where run() is
    stack,     \* the events whose execute() has begun, outermost first
    early,     \* earlyReturn
    file,      \* the last restart file
    restarts,
    plan, above,
    log,       \* history: the executions of targets, in order
    at         \* history: how many of them this process and those before did

vars == <<data, exitFlags, exitFlag, phase, stack, early, file, restarts, plan, above, log, at>>
world == <<restarts, plan, above>>

NoFile == [at |-> -1]
Target(e) == Attributes[e].target
Subs(e) == Attributes[e].events

\* PeriodicEvent::validate(), which run() calls for the events of the main loop:
\* a solver chooses the time step itself, and takes a turn in each cycle.  Other
\* input is an error.
Valid(e) ==
    Attributes[e].kind = "periodic" /\ Target(e) = "solver" =>
        Attributes[e].timeFrequency <= 0 /\ Attributes[e].cycleFrequency = 1
ASSUME ValidAssumption == \A e \in Range(Main) : Valid(e)

Init ==
    /\ data = [time |-> 0, dt |-> 0, cycle |-> 0, current |-> 0,
               lastTime  |-> [e \in Event |-> Never],
               lastCycle |-> [e \in Event |-> Never],
               forecast  |-> [e \in Event |-> 0],
               sub       |-> [e \in Event |-> 0],
               executing |-> [e \in Event |-> FALSE],
               steps     |-> [e \in Event |-> 0]]
    /\ exitFlags = [e \in Event |-> FALSE] /\ exitFlag = FALSE
    /\ phase = "ready" /\ stack = << >> /\ early = FALSE
    /\ file = NoFile /\ restarts = 0
    /\ plan \in [0 .. PlanLength - 1 -> Requests] /\ above \in Functions
    /\ log = << >> /\ at = 0
-----------------------------------------------------------------------------
(* EventManager::run().                                                      *)

\* A run that does not resume inside a cycle starts at minTime.
Run ==
    /\ phase \in {"ready", "returned"}
    /\ phase' = "loop"
    /\ exitFlag' = FALSE
    /\ data' = IF data.current = 0 /\ MinTime # 0
               THEN [data EXCEPT !.time = MinTime] ELSE data
    /\ UNCHANGED <<exitFlags, stack, early, file, world, log, at>>

Continues == data.time < MaxTime /\ data.cycle < MaxCycle /\ ~exitFlag

\* SolverBase::getTimestepRequest(): m_nextDt
NextDt(e, steps) == plan[steps[e] % PlanLength]

Asked == [e \in Event |-> IF Target(e) = "solver" THEN NextDt(e, data.steps) ELSE Unlimited]

CycleDt == Min({MaxTime - data.time}
               \cup {TimestepRequest(data, Asked)[e] : e \in Range(Main)})

StartCycle ==
    /\ phase = "loop" /\ Continues
    /\ phase' = "check"
    /\ data' = IF data.current = 0 THEN [data EXCEPT !.dt = CycleDt] ELSE data
    /\ UNCHANGED <<exitFlags, exitFlag, stack, early, file, world, log, at>>

\* checkEvents() on the current event, which is executed when it is ready; to
\* prepare it otherwise changes nothing, no target implements it.
CheckEvent(clock) ==
    LET e == Main[data.current + 1]
        checked == Checked(e, data.time)
        forecast == [x \in Event |->
            IF x \in checked THEN Forecast(x, data, above, clock) ELSE data.forecast[x]]
    IN /\ phase = "check" /\ data.current < Len(Main)
       /\ data' = [data EXCEPT !.forecast = forecast]
       /\ exitFlags' = [x \in Event |-> exitFlags[x] \/
              /\ x \in checked /\ Attributes[x].kind = "halt"
              /\ IsActive(x, data.time) /\ IsReadyForExec(forecast[x])]
       /\ IF IsReadyForExec(forecast[e])
          THEN stack' = <<e>> /\ phase' = "execute"
          ELSE stack' = stack /\ phase' = "collect"
       /\ UNCHANGED <<exitFlag, early, file, world, log, at>>

\* getExitFlag() adds the flags of the sub-events to that of the event.
ExitFlagOwn(e)   == exitFlags[e]
ExitFlagBelow(e) == \E d \in Subtree[e] : exitFlags[d]

CollectExitFlag ==
    LET e == Main[data.current + 1]
    IN /\ phase = "collect"
       /\ exitFlags' = [x \in Event |-> IF x \in Subtree[e] THEN ExitFlagBelow(x) ELSE exitFlags[x]]
       /\ exitFlag' = (exitFlag \/ ExitFlagBelow(e))
       /\ data' = [data EXCEPT !.current = @ + 1]
       /\ phase' = IF early THEN "returned" ELSE "check"
       /\ early' = FALSE
       /\ UNCHANGED <<stack, file, world, log, at>>

EndCycle ==
    /\ phase = "check" /\ data.current = Len(Main)
    /\ data' = [data EXCEPT !.time = @ + data.dt, !.cycle = @ + 1, !.current = 0]
    /\ phase' = "loop"
    /\ UNCHANGED <<exitFlags, exitFlag, stack, early, file, world, log, at>>

\* After the loop, cleanup(): restart outputs write a last file.
CleansUp[e \in Event] ==
    IF IsReadyForCleanup(e, data.time) /\ Attributes[e].kind = "periodic"
    THEN {e} \cup UNION {CleansUp[s] : s \in Children(e)} ELSE {}

Finish ==
    /\ phase = "loop" /\ ~Continues
    /\ phase' = "done"
    /\ file' = IF \E e \in UNION {CleansUp[m] : m \in Range(Main)} : Target(e) = "restart"
               THEN [at |-> at, data |-> data] ELSE file
    /\ UNCHANGED <<data, exitFlags, exitFlag, stack, early, world, log, at>>
-----------------------------------------------------------------------------
(* EventBase::execute() of the event on top of the stack.                    *)

Executing == stack[Len(stack)]

Execution(e) == [event |-> e, cycle |-> data.cycle, time |-> data.time, dt |-> data.dt]

\* m_targetExecFlag is set before the target executes: a restart file that the
\* target writes says that it has executed.
MarkedNone(e) == data
Marked(e)     == [data EXCEPT !.executing[e] = TRUE]

ExecuteTarget ==
    LET e == Executing
    IN /\ phase = "execute" /\ Target(e) # "none" /\ ~data.executing[e]
       /\ data' = [data EXCEPT !.executing[e] = TRUE,
                               !.steps[e] = IF Target(e) = "solver" THEN @ + 1 ELSE @]
       /\ file' = IF Target(e) = "restart" THEN [at |-> at + 1, data |-> Marked(e)] ELSE file
       /\ early' = (Target(e) = "python")
       /\ log' = IF at < Len(log) THEN [log EXCEPT ![at + 1] = Execution(e)]
                 ELSE Append(log, Execution(e))
       /\ at' = at + 1
       /\ UNCHANGED <<exitFlags, exitFlag, phase, stack, world>>

\* The loop over the sub-events, from m_currentSubEvent.
TargetExecuted(e) == Target(e) = "none" \/ data.executing[e]

ExecuteSubEvent ==
    LET e == Executing
        s == Subs(e)[data.sub[e] + 1]
    IN /\ phase = "execute" /\ TargetExecuted(e) /\ data.sub[e] < Len(Subs(e))
       /\ IF IsReadyForExec(data.forecast[s]) /\ ~early
          THEN stack' = Append(stack, s) /\ data' = data
          ELSE stack' = stack /\ data' = [data EXCEPT !.sub[e] = @ + 1]
       /\ UNCHANGED <<exitFlags, exitFlag, phase, early, file, world, log, at>>

\* The status of the event is updated; its caller goes to its next sub-event.
UpdatedLate(e) == [data EXCEPT !.executing[e] = FALSE, !.sub[e] = 0,
                               !.lastTime[e] = data.time + data.dt, !.lastCycle[e] = data.cycle]
UpdatedKept(e) == [data EXCEPT !.executing[e] = FALSE,
                               !.lastTime[e] = data.time, !.lastCycle[e] = data.cycle]
UpdatedNone(e) == [data EXCEPT !.sub[e] = 0,
                               !.lastTime[e] = data.time, !.lastCycle[e] = data.cycle]
Updated(e)     == [data EXCEPT !.executing[e] = FALSE, !.sub[e] = 0,
                               !.lastTime[e] = data.time, !.lastCycle[e] = data.cycle]
Returned(e) ==
    IF Len(stack) = 1 THEN Updated(e)
    ELSE [Updated(e) EXCEPT !.sub[stack[Len(stack) - 1]] = @ + 1]

ReturnFromExecute ==
    LET e == Executing
    IN /\ phase = "execute" /\ TargetExecuted(e) /\ data.sub[e] = Len(Subs(e))
       /\ data' = Returned(e)
       /\ stack' = SubSeq(stack, 1, Len(stack) - 1)
       /\ phase' = IF Len(stack) = 1 THEN "collect" ELSE phase
       /\ UNCHANGED <<exitFlags, exitFlag, early, file, world, log, at>>
-----------------------------------------------------------------------------
\* The process ends, at any point, and another one resumes from the last file:
\* GeosxState loads it, ProblemManager::readRestartOverwrite() takes its values.
Restart ==
    /\ file # NoFile /\ restarts < MaxRestarts
    /\ restarts' = restarts + 1
    /\ data' = file.data /\ at' = file.at
    /\ exitFlags' = [e \in Event |-> FALSE] /\ exitFlag' = FALSE
    /\ phase' = "ready" /\ stack' = << >> /\ early' = FALSE
    /\ UNCHANGED <<file, plan, above, log>>

Step ==
    \/ Run \/ StartCycle \/ EndCycle \/ CollectExitFlag \/ Finish
    \/ \E clock \in 0 .. 2 : CheckEvent(clock)
    \/ ExecuteTarget \/ ExecuteSubEvent \/ ReturnFromExecute

Ended == phase = "done" /\ UNCHANGED vars

Next == Step \/ Restart \/ Ended

Spec == Init /\ [][Next]_vars

\* The process goes on, and whoever pygeosx returns to calls run() again.
FairSpec == Spec /\ WF_vars(Step)
=============================================================================
