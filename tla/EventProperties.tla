---------------------------- MODULE EventProperties ----------------------------
(* What the event loop promises.                                             *)
EXTENDS EventManager

IsPrefixOf(s, t) == Len(s) <= Len(t) /\ \A i \in DOMAIN s : s[i] = t[i]

TypeOK ==
    /\ data.time \in Int /\ data.dt \in Int /\ data.cycle \in Nat
    /\ data.current \in 0 .. Len(Main)
    /\ \A e \in Event :
        /\ data.lastTime[e] \in Int /\ data.lastCycle[e] \in Int /\ data.forecast[e] \in Int
        /\ data.sub[e] \in 0 .. Len(Subs(e)) /\ data.executing[e] \in BOOLEAN
        /\ data.steps[e] \in Nat /\ exitFlags[e] \in BOOLEAN
    /\ exitFlag \in BOOLEAN /\ early \in BOOLEAN
    /\ phase \in {"ready", "loop", "check", "execute", "collect", "returned", "done"}
    /\ \A i \in DOMAIN stack : stack[i] \in Event
    /\ at \in 0 .. Len(log)
    \* only the current event of the loop and those below it are half executed
    /\ \A e \in Event : data.executing[e] \/ data.sub[e] # 0 =>
        data.current < Len(Main) /\ e \in Subtree[Main[data.current + 1]]
    /\ stack # << >> => phase = "execute" /\ stack[1] = Main[data.current + 1]
    /\ \A i \in 1 .. Len(stack) - 1 : stack[i + 1] = Subs(stack[i])[data.sub[stack[i]] + 1]
-----------------------------------------------------------------------------
(* A process that resumes from a restart file does again what the first one  *)
(* did after it wrote that file: the same targets, at the same times, with   *)
(* the same steps.  Docs: "if the code is resuming from a restart file, the  *)
(* EventManager will pick up exactly where it left off in the execution      *)
(* loop".                                                                    *)
ResumesExactly ==
    [][IsPrefixOf(log, log') /\ (at > 0 /\ at' > at => log[at].time <= log'[at'].time)]_vars

Times(e) == {log[i].time : i \in {j \in 1 .. at : log[j].event = e}}

FirstTime(e) == GreatestOf(MinTime, Attributes[e].beginTime)

\* When events with exact times are due: every timeFrequency from the start of
\* their window on, or once, at targetTime.
DuePeriodic(e) == {t \in FirstTime(e) .. Attributes[e].endTime - 1 :
                      (t - FirstTime(e)) % Attributes[e].timeFrequency = 0}
DueSolo(e) == {t \in {Attributes[e].targetTime} : IsActive(e, t)}

\* A step to a time that is due is not stretched beyond it, to the end of the
\* window, when the step has at most this length.
NotStretched(e, due, length) ==
    Attributes[e].targetExactStartStop =>
        \A t \in due : length * Attributes[e].finalDtStretch <= 100 * (Attributes[e].endTime - t)

IsExact(e) ==
    /\ Attributes[e].forceDt <= 0 /\ ~Attributes[e].function
    /\ Attributes[e].targetExactTimestep
    /\ Attributes[e].targetExactStartStop \/ Attributes[e].beginTime <= MinTime

ExactPeriodic(e) ==
    /\ Attributes[e].kind = "periodic" /\ Attributes[e].timeFrequency > 0 /\ IsExact(e)
    /\ NotStretched(e, DuePeriodic(e), Attributes[e].timeFrequency)
ExactSolo(e) ==
    /\ Attributes[e].kind = "solo" /\ IsExact(e)
    /\ Attributes[e].targetTime >= FirstTime(e)
    \* at a negative time none asks for a step to time 0
    /\ Attributes[e].targetTime > 0 \/ (Attributes[e].targetTime = 0 /\ MinTime = 0)
    /\ NotStretched(e, DueSolo(e), Attributes[e].targetTime - FirstTime(e))

ExecutedWhenDue(e, due) == Times(e) = {t \in due : t < data.time}

\* A process that resumes in the middle of its first event is not between cycles.
BetweenCycles ==
    phase \in {"loop", "done"} /\ data.current = 0 /\ \A e \in Event : ~data.executing[e]

(* Between cycles, every event of the main loop that targets exact times has *)
(* executed at all of its due times and at no other                          *)
(* (PeriodicEvent.cpp, SoloEvent.cpp: "the event will reduce its timestep    *)
(* requests to match the specified ... exactly").                            *)
OnTime ==
    BetweenCycles =>
        \A e \in Range(Main) : Target(e) # "none" =>
            /\ ExactPeriodic(e) => ExecutedWhenDue(e, DuePeriodic(e))
            /\ ExactSolo(e) => ExecutedWhenDue(e, DueSolo(e))

(* No cycle steps over the begin or the end of the window of an event of the *)
(* main loop that asked for a cycle there (EventBase.cpp: "match any         *)
(* specified beginTime/endTimes exactly"), and no cycle has no length.       *)
StepsToWindows ==
    phase \in {"check", "execute", "collect"} =>
        /\ data.dt > 0
        /\ \A e \in Range(Main) : Attributes[e].targetExactStartStop =>
            \A t \in {Attributes[e].beginTime, Attributes[e].endTime} :
                ~(data.time < t /\ t < data.time + data.dt)

(* A solver of the main loop is never given a longer step than it asked for, *)
(* but for the stretch of the last one: EventManager.rst, "The maximum dt    *)
(* specified via the target's GetTimestepRequest method".                    *)
SolverStepKept(e) ==
    Target(e) = "solver" /\ Attributes[e].forceDt <= 0 =>
        100 * data.dt <= NextDt(e, data.steps) * (100 + Attributes[e].finalDtStretch)
SolverStepsKept ==
    [][\A e \in Range(Main) : data'.steps[e] > data.steps[e] => SolverStepKept(e)]_vars

(* When an event has executed, so have the targets of all of its sub-events  *)
(* that were ready                                                           *)
(* (EventManager.rst: "execute them following the same rules as in the main  *)
(* loop").                                                                   *)
SubEventsExecuted ==
    [][ReturnFromExecute =>
        \A s \in Children(Executing) :
            IsReadyForExec(data.forecast[s]) /\ Target(s) # "none" =>
                data.lastCycle[s] = data.cycle]_vars

(* A halt event that triggers ends the loop with the current cycle           *)
(* (EventManager.rst: "instructs the main EventManager loop to cleanly exit  *)
(* at the end of the current cycle").                                        *)
HaltsWithCycle ==
    [][StartCycle /\ data.current = 0 => \A e \in Event : ~exitFlags[e]]_vars

(* Whatever the events ask for, time advances to maxTime: "to prevent the    *)
(* event manager from falling into a dt=0 loop" (SoloEvent.cpp).             *)
ReachesMaxTime == <>(phase = "done" /\ data.time = MaxTime)
=============================================================================
