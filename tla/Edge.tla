--------------------------------- MODULE Edge ---------------------------------
(***************************************************************************)
(* Edge computing for one point: the moving average (SignalFilter) and the *)
(* hysteresis alarm (RuleEngine), fed by Gateway::processPoint with the    *)
(* readings whose quality is Good.  Points share nothing.                  *)
(*                                                                         *)
(* A reading of a floating-point register can be infinite or no number; a  *)
(* finite one, like the limits, is a whole number of some unit.  Their sums *)
(* are exact, and a mean is kept as sum and number of its readings: what   *)
(* doubles lose when a sum, a mean or the edge of a band is rounded, or    *)
(* when large and small readings cancel, is left out.  Names, texts and    *)
(* time stamps are left out.                                               *)
(***************************************************************************)
EXTENDS Integers, Sequences, SequencesExt, Selection

\* An operator introduced by "Mutant:" is not part of the model: it is what a
\* plausible bug would make of the definition that follows it.

CONSTANTS
    Readings,     \* physical values of a reading, of the kinds of a double
    Windows,      \* values of filterWindow
    Limits,       \* <<lowAlarm, highAlarm>> of a point
    Hystereses,   \* widths of the hysteresis band; nothing keeps it from being negative
    MaxReadings   \* bound: readings since the filter or the rules were cleared

\* A double: finite, infinite or no number.
Double ==
    {d \in [kind : {"finite", "inf", "-inf", "nan"}, num : Int] :
        d.kind # "finite" => d.num = 0}

ASSUME EdgeAssumption ==
    /\ Readings \subseteq Double /\ Windows \subseteq Nat /\ Windows # {}
    /\ Limits \subseteq Int \X Int /\ Limits # {}
    /\ Hystereses \subseteq Int /\ Hystereses # {}
    /\ MaxReadings \in Nat

VARIABLES
    config,   \* the point's entry in the configuration file, and filterWindow
    filter,   \* SignalFilter: [window, buf, head, count, sum]
    rule,     \* RuleEngine::PointState: [highActive, lowActive]
    readings, \* history: readings since the filter was last empty
    means,    \* history: values evaluated since the flags were last cleared
    events    \* history: the events of these evaluations

edgeVars == <<config, filter, rule, readings, means, events>>

Configs ==
    [window : Windows, limits : Limits, hysteresis : Hystereses,
     highEnabled : BOOLEAN, lowEnabled : BOOLEAN]

lowAlarm  == config.limits[1]
highAlarm == config.limits[2]

\* Numbers as IEEE 754 adds them.
Number(kind, n) == [kind |-> kind, num |-> IF kind = "finite" THEN n ELSE 0]
Zero == Number("finite", 0)
NaN == Number("nan", 0)

\* What a sum is of terms of these kinds.
KindOfSum(kinds) ==
    IF "nan" \in kinds \/ {"inf", "-inf"} \subseteq kinds THEN "nan"
    ELSE IF "inf" \in kinds THEN "inf"
    ELSE IF "-inf" \in kinds THEN "-inf" ELSE "finite"

Plus(a, b) == Number(KindOfSum({a.kind, b.kind}), a.num + b.num)

Negative(a) ==
    Number(IF a.kind = "inf" THEN "-inf" ELSE IF a.kind = "-inf" THEN "inf" ELSE a.kind, -a.num)

\* A window of zero counts as one.
EmptyFilter(window) ==
    LET w == IF window = 0 THEN 1 ELSE window
    IN [window |-> w, buf |-> [i \in 0 .. w - 1 |-> Zero], head |-> 0, count |-> 0,
        sum |-> Zero]

Quiet == [highActive |-> FALSE, lowActive |-> FALSE]

EdgeInit ==
    /\ config \in Configs
    /\ filter = EmptyFilter(config.window)
    /\ rule = Quiet
    /\ readings = <<>> /\ means = <<>> /\ events = <<>>
-----------------------------------------------------------------------------
(* The moving average.                                                     *)

\* The reading that falls out of a full window is subtracted from the running
\* sum.
Remaining(f) == IF f.count = f.window THEN Plus(f.sum, Negative(f.buf[f.head])) ELSE f.sum

Pushed(f, v) ==
    [f EXCEPT !.buf[f.head] = v,
              !.head = (@ + 1) % f.window,
              !.count = IF @ = f.window THEN @ ELSE @ + 1,
              !.sum = Plus(Remaining(f), v)]

Mean(f) == [sum |-> f.sum, den |-> f.count]
-----------------------------------------------------------------------------
(* The alarms.                                                             *)

\* Comparisons of a mean with a limit; NaN is on neither side.
AtLeast(x, limit) == x.sum.kind = "inf" \/ (x.sum.kind = "finite" /\ x.sum.num >= limit * x.den)
Below(x, limit) == x.sum.kind = "-inf" \/ (x.sum.kind = "finite" /\ x.sum.num < limit * x.den)
AtMost(x, limit) == x.sum.kind = "-inf" \/ (x.sum.kind = "finite" /\ x.sum.num <= limit * x.den)
Above(x, limit) == x.sum.kind = "inf" \/ (x.sum.kind = "finite" /\ x.sum.num > limit * x.den)

EntersHigh(x) == AtLeast(x, highAlarm)
LeavesHigh(x) == Below(x, highAlarm - config.hysteresis)
EntersLow(x)  == AtMost(x, lowAlarm)
LeavesLow(x)  == Above(x, lowAlarm + config.hysteresis)

\* Mutant: a limit that is switched off raises its alarm.
FlagAfterDisabled(enabled, active, enters, leaves) ==
    (active \/ enters) /\ ~(enabled /\ leaves)
\* A flag after an evaluation.
FlagAfter(enabled, active, enters, leaves) ==
    IF enabled /\ ~active THEN enters
    ELSE active /\ ~(enabled /\ leaves)

\* An event for a flag that flips, none for one that stays.
Flip(level, before, after, x) ==
    IF before = after THEN <<>> ELSE <<[level |-> level, active |-> after, value |-> x]>>

Evaluate(x) ==
    LET high == FlagAfter(config.highEnabled, rule.highActive, EntersHigh(x), LeavesHigh(x))
        low  == FlagAfter(config.lowEnabled, rule.lowActive, EntersLow(x), LeavesLow(x))
    IN /\ rule' = [highActive |-> high, lowActive |-> low]
       /\ events' = events \o Flip("high", rule.highActive, high, x)
                           \o Flip("low", rule.lowActive, low, x)
       /\ means' = Append(means, x)
-----------------------------------------------------------------------------
\* A reading of good quality: filtered, then evaluated.  The two lock sections
\* are one step, since only the acquisition thread uses filters and rules.
ProcessPoint(v) ==
    /\ Len(readings) < MaxReadings /\ Len(means) < MaxReadings
    /\ filter' = Pushed(filter, v)
    /\ readings' = Append(readings, v)
    /\ Evaluate(Mean(filter'))
    /\ UNCHANGED config

\* Start of the gateway: new filters, and configure() clears the flags.
SetupSerialClears ==
    /\ filter' = EmptyFilter(config.window)
    /\ rule' = Quiet
    /\ readings' = <<>> /\ means' = <<>> /\ events' = <<>>
    /\ UNCHANGED config

\* SignalFilter::reset.
FilterReset ==
    /\ filter' = EmptyFilter(config.window)
    /\ readings' = <<>>
    /\ UNCHANGED <<config, rule, means, events>>

\* RuleEngine::reset.
RuleReset ==
    /\ rule' = Quiet
    /\ means' = <<>> /\ events' = <<>>
    /\ UNCHANGED <<config, filter, readings>>

EdgeNext ==
    \/ \E v \in Readings : ProcessPoint(v)
    \/ SetupSerialClears
    \/ FilterReset
    \/ RuleReset

EdgeSpec == EdgeInit /\ [][EdgeNext]_edgeVars
-----------------------------------------------------------------------------
LastOf(n, s) == SubSeq(s, IF Len(s) > n THEN Len(s) - n + 1 ELSE 1, Len(s))

\* The sum of the elements, from the first to the last.
Total(s) ==
    LET total[n \in 0 .. Len(s)] == IF n = 0 THEN 0 ELSE total[n - 1] + s[n]
    IN  total[Len(s)]

\* The sum of readings, by the rules of IEEE 754.
SumOf(s) == Number(KindOfSum({s[i].kind : i \in DOMAIN s}), Total([i \in DOMAIN s |-> s[i].num]))

\* The ring and the running sum of SignalFilter give the mean of the last
\* readings, as many as the window holds, however often the ring has wrapped
\* around and whenever the filter was cleared; but what an infinite reading or
\* NaN leaves in the sum stays when the reading has left the window, until the
\* filter is cleared.
MeanOfWindow ==
    LET window == LastOf(filter.window, readings)
        gone == Len(readings) - Len(window)
    IN  /\ filter.count = Len(window)
        /\ filter.sum = IF \E i \in 1 .. gone : readings[i].kind # "finite"
                        THEN NaN ELSE SumOf(window)

\* An alarm by its history, from the numbers of the values that ask to raise and
\* to clear it: the last value that asks for one of the two only has set it, and
\* those since that ask for both, in a band of negative width, have flipped it.
Alarmed(raising, clearing, n) ==
    \E k \in 0 .. n :
        /\ k = 0 \/ (k \in raising) # (k \in clearing)
        /\ \A i \in k + 1 .. n : (i \in raising) = (i \in clearing)
        /\ (k \in raising) # (Cardinality({i \in k + 1 .. n : i \in raising}) % 2 = 1)

\* The flags the history calls for after n values.
ReferenceHigh(n) ==
    /\ config.highEnabled
    /\ Alarmed({i \in DOMAIN means : EntersHigh(means[i])},
               {i \in DOMAIN means : LeavesHigh(means[i])}, n)
ReferenceLow(n) ==
    /\ config.lowEnabled
    /\ Alarmed({i \in DOMAIN means : EntersLow(means[i])},
               {i \in DOMAIN means : LeavesLow(means[i])}, n)

\* The events that a flag calls for which has these values, one after the other:
\* one where it changes, with the value that is the cause.
EventsOf(level, flag) ==
    FlattenSeq([n \in 1 .. Len(means) |-> Flip(level, flag[n - 1], flag[n], means[n])])

Raised(level) ==
    Kept(events, [level : {level}, active : BOOLEAN, value : [sum : Double, den : Nat]])

\* RuleEngine::evaluate computes the alarms from one flag per limit and one
\* value at a time; flags and events are those the whole history calls for,
\* with exactly one event per change and with the value that caused it.
AlarmsFollowHistory ==
    LET high == [n \in 0 .. Len(means) |-> ReferenceHigh(n)]
        low  == [n \in 0 .. Len(means) |-> ReferenceLow(n)]
    IN  /\ rule.highActive = high[Len(means)] /\ Raised("high") = EventsOf("high", high)
        /\ rule.lowActive = low[Len(means)] /\ Raised("low") = EventsOf("low", low)

\* Together: a point's means and alarms are functions of what has been read.
PointFollowsHistory == MeanOfWindow /\ AlarmsFollowHistory

\* signal_filter.h:38 says that the running sum is the sum of the readings in the
\* window.  It is not once an infinite reading or NaN has left the window: the
\* difference is NaN and stays NaN, so that the mean is lost and no limit raises
\* or clears an alarm any more.  Not carried as a run; see the README.
SumIsOfWindow == filter.sum = SumOf(LastOf(filter.window, readings))
=============================================================================
