------------------------------ MODULE TimeStamps ------------------------------
(***************************************************************************)
(* The times of an event's meta data and the three ways to give them:        *)
(* rsb/MetaData.cpp.  A time is a number of microseconds, 0 if it is not set.  *)
(* A double is given in tenths of microseconds; a posix time may lie before    *)
(* the epoch.                                                              *)
(***************************************************************************)
EXTENDS Integers

CONSTANTS TimeKeys,    \* user times
          Moments,     \* the times that are given, as integers
          CurrentTime

ASSUME MomentsAssumption == Moments \subseteq Int
ASSUME CurrentTimeAssumption == CurrentTime \in Nat \ {0}

StandardTimes == {"create", "send", "receive", "deliver"}
Representations == {"uint64", "double", "ptime"}

VARIABLES times,     \* createTime, sendTime, receiveTime, deliverTime
          userTimes,
          outcome    \* of the last setter: "set", "thrown", or "epoch": a posix
                     \* time at the epoch was set, which is no time

timeVars == <<times, userTimes, outcome>>

TimesInit ==
    /\ times = [t \in StandardTimes |-> IF t = "create" THEN CurrentTime ELSE 0]
    /\ userTimes = [k \in {} |-> 0]
    /\ outcome = "set"

\* Does checkedTimeStampSet throw?  A number without sign is never negative.
Refuses(representation, moment) == representation # "uint64" /\ moment < 0

\* Mutated: there is no time before the first microsecond.
Checked_double(representation, moment) ==
    IF representation = "double" THEN (moment + 5) \div 10
    ELSE IF representation = "uint64" /\ moment = 0 THEN CurrentTime ELSE moment

\* checkedTimeStampSet: no time means now, but not for a posix time
Checked(representation, moment) ==
    IF representation = "ptime" THEN moment
    ELSE IF representation = "double"
    THEN IF moment < 10 THEN CurrentTime ELSE (moment + 5) \div 10
    ELSE IF moment = 0 THEN CurrentTime ELSE moment

Effect(representation, moment) ==
    IF Refuses(representation, moment) THEN "thrown"
    ELSE IF representation = "ptime" /\ moment = 0 THEN "epoch" ELSE "set"

Givable(representation, moment) == representation = "uint64" => moment >= 0

\* setCreateTime, setSendTime, setReceiveTime, setDeliverTime
SetTime(time, representation, moment) ==
    /\ Givable(representation, moment)
    /\ outcome' = Effect(representation, moment)
    /\ times' = IF Refuses(representation, moment) THEN times
                ELSE [times EXCEPT ![time] = Checked(representation, moment)]
    /\ UNCHANGED userTimes

Entry(key, value) == [k \in DOMAIN userTimes \cup {key} |-> IF k = key THEN value ELSE userTimes[k]]

\* setUserTime erases the time that was, and makes an entry before it checks.
SetUserTime(key, representation, moment) ==
    /\ Givable(representation, moment)
    /\ outcome' = Effect(representation, moment)
    /\ userTimes' = Entry(key, IF Refuses(representation, moment) THEN 0
                               ELSE Checked(representation, moment))
    /\ UNCHANGED times

TimesNext ==
    \E representation \in Representations, moment \in Moments :
        \/ \E time \in StandardTimes : SetTime(time, representation, moment)
        \/ \E key \in TimeKeys : SetUserTime(key, representation, moment)

TimesSpec == TimesInit /\ [][TimesNext]_timeVars

-----------------------------------------------------------------------------
(* Properties *)

\* A time that is set stays set whatever is given for it, in whatever way, but
\* for a posix time at the epoch; a user time also goes when the new one is
\* refused, and is then there without a value (MetaData.cpp:97, 186).
TimesStaySet ==
    [][/\ \A t \in StandardTimes :
             times[t] # 0 /\ times'[t] = 0 => outcome' = "epoch"
       /\ \A k \in DOMAIN userTimes :
             userTimes[k] # 0 /\ userTimes'[k] = 0 => outcome' \in {"epoch", "thrown"}]_timeVars
===============================================================================
