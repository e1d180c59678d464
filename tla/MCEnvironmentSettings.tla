----------------------- MODULE MCEnvironmentSettings -----------------------
(* Instances of EnvironmentSettings for TLC. *)
EXTENDS EnvironmentSettings, TLC

CONSTANTS p, q   \* the names of schedules

Daily(days, hour, n) ==
  [cadence |-> "DAILY", days |-> days, hour |-> hour, at |-> Nil, replicas |-> n]
Hourly(days) ==
  [cadence |-> "HOURLY", days |-> days, hour |-> Nil, at |-> Nil, replicas |-> 1]
Once(offset, days) ==
  [cadence |-> "ONE_TIME", days |-> days, hour |-> Nil,
   at |-> [instant |-> 0, offset |-> offset], replicas |-> 1]

(* As Baseten stores them: other orders and offsets than in the spec. *)
MCContents == {Daily(<<"MON", "TUE">>, 9, 1), Daily(<<"MON", "TUE">>, 9, 0),
               Hourly(<<"MON">>), Once(0, <<>>), Once(7, <<>>)}

Unmanaged == [auto |-> 1, ramp |-> Nil, surge |-> 0, managed |-> FALSE,
              timezone |-> Nil, schedules |-> [n \in {} |-> Nil]]
Recurring == [auto |-> 1, ramp |-> 1, surge |-> Nil, managed |-> TRUE, timezone |-> 1,
              schedules |-> p :> Daily(<<"TUE", "MON">>, 9, 1) @@ q :> Hourly(<<"MON">>)]
OneTime == [auto |-> Nil, ramp |-> 0, surge |-> 1, managed |-> TRUE, timezone |-> Nil,
            schedules |-> p :> Once(5, <<"MON">>)]

MCSpecs == {Unmanaged, Recurring, OneTime}
=============================================================================
