---------------------------- MODULE MCNextTimes ----------------------------
(* Instances of NextTimes for TLC: an hour has six minutes, a day two hours. *)
EXTENDS NextTimes

CalendarSizes == <<6, 2, 31, 12, 7>>

Always == <<Star, Star, Star, Star, Star>>

\* Every minute, every two minutes, every four, once an hour, once a day in
\* the hour of the change and in the other one, on one weekday, and never.
HealthyRules ==
    {ByCron(Always), ByInterval(5)}
        \cup {ByCron([Always EXCEPT ![1] = p]) : p \in {Every(2), Every(4), Value(3), Value(7)}}
        \cup {ByCron([Always EXCEPT ![1] = Value(4), ![2] = Value(h)]) : h \in {0, 1}}
        \cup {ByCron([Always EXCEPT ![1] = List(<<5, 1>>), ![5] = Value(1)])}

\* "5,x", "4 0,x", which throws in hour 1 only, "4 0-0/0", which loops there, a
\* number that is none, and a schedule with neither expression nor interval.
MalformedRules ==
    {ByCron([Always EXCEPT ![1] = p]) : p \in {List(<<5, Bad>>), Value(Bad)}}
        \cup {ByCron([Always EXCEPT ![1] = Value(4), ![2] = p]) :
                  p \in {List(<<0, Bad>>), Steps(0, 0, 0)}}
        \cup {ByInterval(Null)}

ScheduleRules == HealthyRules \cup MalformedRules

\* IPersistentScheduleInterval.EveryMinute
MinuteRule == {ByCron(Always)}

MinuteParts ==
    {Star, Every(2), Every(3), Every(4), Every(0), Every(Bad), Value(3), Value(Bad),
     List(<<1, 4>>), List(<<1, Bad>>), Span(1, 3), Span(3, 1), Span(2, Bad),
     Steps(1, 5, 2), Steps(1, 5, 0), Steps(5, 1, 0), [form |-> "mixed"]}

WeekDayParts ==
    {Star, Value(1), Value(Bad), List(<<1, 2>>), List(<<2, Bad>>), Span(2, 4), Steps(1, 6, 2),
     Every(3)}

EventTexts ==
    {[Always EXCEPT ![1] = p, ![5] = q] : p \in MinuteParts, q \in WeekDayParts}

\* Ticks: RetryDelay is any TimeSpan, also above the maximum delay.
RetryDelays == {-5000, -50, 0, 3, 30, 100, 3000}

EventTimes == {<<m, h, 1, 1, d>> : m \in 0 .. 5, h \in {1}, d \in 0 .. 6}
=============================================================================
