-------------------------------- MODULE MCEvents --------------------------------
(* Blocks of events for TLC, named after what they put together.             *)
EXTENDS EventProperties

Periodic == [kind |-> "periodic", target |-> "none", events |-> << >>,
             beginTime |-> 0, endTime |-> 1000, targetExactStartStop |-> TRUE,
             forceDt |-> -1, maxEventDt |-> -1, finalDtStretch |-> 0,
             timeFrequency |-> -1, cycleFrequency |-> 1, targetExactTimestep |-> TRUE,
             function |-> FALSE, targetTime |-> -1, targetCycle |-> -1]
Solo == [Periodic EXCEPT !.kind = "solo"]
Halt == [Periodic EXCEPT !.kind = "halt"]

\* An output at exact times, a solver with a window and a stretched last step,
\* a solo event, an output that a function selects, returns to Python, and the
\* restarts last.
RestartLast ==
    [plot    |-> [Periodic EXCEPT !.target = "output", !.timeFrequency = 5, !.finalDtStretch = 20],
     flow    |-> [Periodic EXCEPT !.target = "solver", !.endTime = 8, !.finalDtStretch = 60],
     once    |-> [Solo EXCEPT !.target = "output", !.targetTime = 9],
     alarm   |-> [Periodic EXCEPT !.target = "output", !.timeFrequency = 3,
                                  !.targetExactTimestep = FALSE, !.function = TRUE],
     script  |-> [Periodic EXCEPT !.target = "python", !.cycleFrequency = 2],
     save    |-> [Periodic EXCEPT !.target = "restart", !.cycleFrequency = 2]]
RestartLastMain == <<"plot", "flow", "once", "alarm", "script", "save">>

\* A time-driven event with a solver, a halt event, the restarts and an output
\* below it.
Nested ==
    [wells   |-> [Periodic EXCEPT !.target = "solver", !.beginTime = 2, !.endTime = 7,
                                  !.maxEventDt = 3],
     parent  |-> [Periodic EXCEPT !.target = "output", !.timeFrequency = 2,
                                  !.events = <<"flow", "halt", "save", "plot">>],
     flow    |-> [Periodic EXCEPT !.target = "solver"],
     halt    |-> Halt,
     save    |-> [Periodic EXCEPT !.target = "restart", !.cycleFrequency = 2],
     plot    |-> [Periodic EXCEPT !.target = "output", !.cycleFrequency = 2]]
NestedMain == <<"wells", "parent">>

MinusThousand == -1000
NoTime  == {{}}
SomeTimes == {{}, 5 .. 8}
=============================================================================
