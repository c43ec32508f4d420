------------------------------ MODULE TrioClock ------------------------------
(***************************************************************************)
(* infohub: the clock the parts of the trio panel share.  Moments are a    *)
(* few minutes apart and a day has DayLength of them.                      *)
(***************************************************************************)
EXTENDS UsagePeriod

CONSTANTS
  FirstDay,   \* the day of moment 0
  DayLength,  \* moments of a day
  LastMoment  \* bound: the clock

ASSUME ClockConstants == FirstDay \in Int /\ DayLength \in Nat \ {0} /\ LastMoment \in Nat

VARIABLE now

Moments == 0..LastMoment
Never == -LastMoment - 1

DayOf(t) == FirstDay + (t \div DayLength)

Days == FirstDay..DayOf(LastMoment)

Tick == now < LastMoment /\ now' = now + 1
=============================================================================
