------------------------------ MODULE EventBase ------------------------------
(***************************************************************************)
(* When an event is expected to execute, and which time step it asks for   *)
(* (events/EventBase.cpp, PeriodicEvent.cpp, SoloEvent.cpp).  Times are    *)
(* integers.  The attributes of an event carry the names they have in the  *)
(* input file.  On integers the comparisons of the code with               *)
(* std::nextafter( time ) are comparisons with the time itself, and the    *)
(* 1e-10 it adds to a forecast before truncating changes no comparison     *)
(* with 0 or 1.  (Operators ending in None, At, Alone, Late, Kept or Own    *)
(* here and in EventManager are deliberate errors: they show that the      *)
(* properties notice them.)                                                *)
(***************************************************************************)
EXTENDS Integers, Sequences, FiniteSetsExt, Functions

CONSTANTS Attributes,   \* the attributes of every event
          Main,         \* the children of the Events block, in order
          Idle,         \* the forecast of setIdle()
          Unlimited,    \* no limit to a time step
          Never         \* the last time and cycle of what never executed

Event == DOMAIN Attributes
Children(e) == Range(Attributes[e].events)

\* The events of the subtree of each event.
Subtree[e \in Event] == {e} \cup UNION {Subtree[s] : s \in Children(e)}

\* The block of events is a tree: an event is in one list, at one place.
ASSUME EventsAssumption ==
    /\ IsFiniteSet(Event) /\ Main \in Seq(Event) /\ IsInjective(Main)
    /\ \A e \in Event :
        /\ Attributes[e].events \in Seq(Event) /\ IsInjective(Attributes[e].events)
        /\ Children(e) \cap Range(Main) = {}
        /\ \A f \in Event \ {e} : Children(e) \cap Children(f) = {}
    /\ \E height \in [Event -> 0 .. Cardinality(Event)] :
          \A e \in Event : \A s \in Children(e) : height[s] < height[e]
ASSUME NumbersAssumption ==
    /\ Idle \in Nat /\ Idle > 1 /\ Unlimited \in Nat \ {0} /\ Never \in Int /\ Never < 0
    /\ \A e \in Event :
        LET a == Attributes[e] IN
        /\ a.kind \in {"periodic", "solo", "halt"}
        /\ {a.beginTime, a.endTime, a.forceDt, a.maxEventDt, a.finalDtStretch, a.timeFrequency,
            a.cycleFrequency, a.targetTime, a.targetCycle} \subseteq Int
        /\ {a.targetExactStartStop, a.targetExactTimestep, a.function} \subseteq BOOLEAN

LeastOf(a, b)    == IF a < b THEN a ELSE b
GreatestOf(a, b) == IF a > b THEN a ELSE b

\* How many cycles of length dt fit into a duration: the conversion from
\* double to int rounds towards zero.
Cycles(duration, dt) ==
    IF dt <= 0 THEN Idle
    ELSE IF duration >= 0 THEN duration \div dt ELSE -((-duration) \div dt)

IsActive(e, time) ==
    Attributes[e].beginTime <= time /\ time < Attributes[e].endTime
IsReadyForCleanup(e, time) ==
    IsActive(e, time) \/ time = Attributes[e].endTime

IsReadyForExec(forecast) == forecast <= 0
IsIdle(forecast)         == forecast > 1
-----------------------------------------------------------------------------
(* estimateEventTiming() of the three kinds.  "data" is the state that the   *)
(* event manager and its events keep, "above" the times at which an optional *)
(* function exceeds its threshold, "clock" what a halt event reads.          *)

PeriodicTiming(e, data) ==
    IF data.cycle = 0 THEN 0
    ELSE IF Attributes[e].timeFrequency >= 0
         THEN Cycles(GreatestOf(0, Attributes[e].timeFrequency - (data.time - data.lastTime[e])),
                     data.dt)
         ELSE Attributes[e].cycleFrequency - (data.cycle - data.lastCycle[e])

ThresholdTiming(e, data, above) ==
    IF Attributes[e].function /\ IsReadyForExec(PeriodicTiming(e, data))
    THEN IF data.time \in above THEN 0 ELSE Idle
    ELSE PeriodicTiming(e, data)

SoloTiming(e, data) ==
    IF data.lastCycle[e] >= 0 THEN Idle
    ELSE IF Attributes[e].targetTime >= 0
         THEN Cycles(Attributes[e].targetTime - data.time, data.dt)
         ELSE Attributes[e].targetCycle - data.cycle

EventTiming(e, data, above, clock) ==
    CASE Attributes[e].kind = "periodic" -> ThresholdTiming(e, data, above)
      [] Attributes[e].kind = "solo"     -> SoloTiming(e, data)
      [] Attributes[e].kind = "halt"     -> clock

\* checkEvents(): sub-events are looked at only below active events.
Forecast(e, data, above, clock) ==
    IF data.time < Attributes[e].beginTime
    THEN Cycles(Attributes[e].beginTime - data.time, data.dt)
    ELSE IF IsActive(e, data.time) THEN EventTiming(e, data, above, clock) ELSE Idle

Checked(top, time) ==
    LET below[e \in Event] ==
            {e} \cup IF IsActive(e, time) THEN UNION {below[s] : s \in Children(e)} ELSE {}
    IN below[top]
-----------------------------------------------------------------------------
(* getEventTypeDtRequest() and getTimestepRequest().  "asked" is what the    *)
(* solver that an event targets asks for, or Unlimited.                      *)

PeriodicRequest(e, data) ==
    LET next == data.lastTime[e] + Attributes[e].timeFrequency
    IN IF Attributes[e].timeFrequency <= 0 \/ ~Attributes[e].targetExactTimestep
       THEN Unlimited
       ELSE IF data.time < next THEN next - data.time ELSE Attributes[e].timeFrequency

SoloRequestAt(e, data) ==
    IF data.lastCycle[e] < 0 /\ data.time <= Attributes[e].targetTime
    THEN Attributes[e].targetTime - data.time
    ELSE Unlimited
SoloRequest(e, data) ==
    IF /\ data.lastCycle[e] < 0 /\ Attributes[e].targetExactTimestep
       /\ Attributes[e].targetTime > 0 /\ data.time < Attributes[e].targetTime
    THEN Attributes[e].targetTime - data.time
    ELSE Unlimited

EventTypeRequest(e, data) ==
    CASE Attributes[e].kind = "periodic" -> PeriodicRequest(e, data)
      [] Attributes[e].kind = "solo"     -> SoloRequest(e, data)
      [] Attributes[e].kind = "halt"     -> Unlimited

\* The limits an event adds to those of its children.
OwnRequestsAlone(e, data, asked) == {Unlimited, EventTypeRequest(e, data)}
OwnRequests(e, data, asked) ==
    {Unlimited, EventTypeRequest(e, data)}
    \cup (IF Attributes[e].maxEventDt > 0 THEN {Attributes[e].maxEventDt} ELSE {})
    \cup (IF IsIdle(data.forecast[e]) THEN {} ELSE {asked})

\* Cut the request at the begin time, and cut or stretch it to the end time;
\* finalDtStretch is in percent.
InWindowNone(e, time, request) == request
InWindow(e, time, request) ==
    IF ~Attributes[e].targetExactStartStop THEN request
    ELSE IF time < Attributes[e].beginTime
         THEN LeastOf(Attributes[e].beginTime - time, request)
         ELSE IF /\ time < Attributes[e].endTime
                 /\ 100 * time + request * (100 + Attributes[e].finalDtStretch)
                        > 100 * Attributes[e].endTime
              THEN Attributes[e].endTime - time
              ELSE request

TimestepRequest(data, asked) ==
    LET request[e \in Event] ==
            InWindow(e, data.time,
                IF ~IsActive(e, data.time) THEN Unlimited
                ELSE IF Attributes[e].forceDt > 0 THEN Attributes[e].forceDt
                ELSE Min(OwnRequests(e, data, asked[e]) \cup {request[s] : s \in Children(e)}))
    IN request
=============================================================================
