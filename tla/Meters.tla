------------------------------- MODULE Meters -------------------------------
(***************************************************************************)
(* A meter (meters.cpp, meters.h): an N rate, N + 1 color marker shared by *)
(* the threads of the data plane and configured by the clients.  A packet  *)
(* reads the clock before it takes the meter's mutex.  The configuration   *)
(* can be saved, and restored when the switch is started again.            *)
(***************************************************************************)
EXTENDS Integers, Sequences, SequencesExt, FiniteSets, FiniteSetsExt

CONSTANTS
  MtrThreads,     \* threads that execute the meter
  MtrCount,       \* rate_count
  MtrConfigs,     \* the lists of [rate, burst] that clients send
  MtrSizes,       \* what a packet takes: 1, or its bytes
  MtrMaxTime,     \* bound on the clock, in microseconds since init
  MtrMaxPassed    \* bound on the history of what was let through

ASSUME MtrAssumption ==
  /\ MtrCount \in Nat /\ MtrMaxTime \in Nat /\ MtrMaxPassed \in Nat /\ MtrSizes \subseteq Nat
  /\ \A configs \in MtrConfigs : configs \in Seq([rate : Nat, burst : Nat])

VARIABLES
  mtrRates,       \* the rates, in the order in which they are tried
  mtrOn,          \* configured
  mtrTime,        \* the clock
  mtrThread,      \* for each thread the time it read, or NotExecuting
  mtrAborted,     \* an assertion failed
  mtrFile,        \* the saved configuration, <<>> for none
  mtrGiven,       \* history: the client's rates, smallest first
  mtrFrom,        \* history: "set", "restored" or "other" origin of the rates
  mtrSince,       \* history: the first time the rates were used or set
  mtrPassed       \* history: for each rate, what was let through below its color

mtrVars == <<mtrRates, mtrOn, mtrTime, mtrThread, mtrAborted, mtrFile,
             mtrGiven, mtrFrom, mtrSince, mtrPassed>>

NotExecuting == -1
NoRate == [rate |-> 0, burst |-> 0, tokens |-> 0, last |-> 0, color |-> 0]
NonePassed == [c \in 1..MtrCount |-> 0]

MtrInit ==
  /\ mtrRates = [i \in 1..MtrCount |-> NoRate] /\ mtrOn = FALSE
  /\ mtrTime = 0 /\ mtrThread = [t \in MtrThreads |-> NotExecuting]
  /\ mtrAborted = FALSE /\ mtrFile = <<>>
  /\ mtrGiven = <<>> /\ mtrFrom = "other" /\ mtrSince = 0 /\ mtrPassed = NonePassed

-----------------------------------------------------------------------------
\* Meter::set_rate: the bucket is full and the clock of the bucket is reset.
SetRate(config, idx) ==
  [rate |-> config.rate, burst |-> config.burst, tokens |-> config.burst,
   last |-> 0, color |-> idx]

\* set_rate of every rate in turn, until one is smaller than the one before it:
\* the rates that were written stay written.
Written(rates, configs) ==
  LET bad == {i \in 2..MtrCount : configs[i - 1].rate > configs[i].rate}
      upto == IF bad = {} THEN MtrCount ELSE Min(bad)
  IN [i \in 1..MtrCount |-> IF i <= upto THEN SetRate(configs[i], i) ELSE rates[i]]

Sorted(configs) == \A i \in 2..MtrCount : configs[i - 1].rate <= configs[i].rate

\* What was counted for the rates before is forgotten.
Forget(given, from, now) ==
  mtrGiven' = given /\ mtrFrom' = from /\ mtrSince' = now /\ mtrPassed' = NonePassed

\* A mutation of SetRates: the rates are tried from the smallest.
SetRatesNotReversed(configs) ==
  /\ ~mtrAborted /\ Len(configs) = MtrCount
  /\ IF Sorted(configs)
     THEN /\ mtrRates' = Written(mtrRates, configs)
          /\ mtrOn' = TRUE
          /\ Forget(configs, "set", mtrTime)
     ELSE /\ mtrRates' = Written(mtrRates, configs)
          /\ Forget(<<>>, "other", mtrTime)
          /\ UNCHANGED mtrOn
  /\ UNCHANGED <<mtrTime, mtrThread, mtrAborted, mtrFile>>

\* Meter::set_rates: BAD_RATES_LIST changes nothing; INVALID_INFO_RATE_VALUE
\* leaves the rates as written and the meter as configured as it was.
SetRates(configs) ==
  /\ ~mtrAborted /\ Len(configs) = MtrCount
  /\ IF Sorted(configs)
     THEN /\ mtrRates' = Reverse(Written(mtrRates, configs))
          /\ mtrOn' = TRUE
          /\ Forget(configs, "set", mtrTime)
     ELSE /\ mtrRates' = Written(mtrRates, configs)
          /\ Forget(<<>>, "other", mtrTime)
          /\ UNCHANGED mtrOn
  /\ UNCHANGED <<mtrTime, mtrThread, mtrAborted, mtrFile>>

\* Meter::reset_rates.
ResetRates ==
  /\ ~mtrAborted /\ mtrOn' = FALSE
  /\ Forget(<<>>, "other", mtrTime)
  /\ UNCHANGED <<mtrRates, mtrTime, mtrThread, mtrAborted, mtrFile>>

-----------------------------------------------------------------------------
Tick ==
  /\ ~mtrAborted /\ mtrTime < MtrMaxTime
  /\ mtrTime' = mtrTime + 1
  /\ UNCHANGED <<mtrRates, mtrOn, mtrThread, mtrAborted, mtrFile,
                 mtrGiven, mtrFrom, mtrSince, mtrPassed>>

\* Meter::execute until the lock: a packet of a meter that is not configured
\* is green, and the clock is read.
ReadClock(t) ==
  /\ ~mtrAborted /\ mtrThread[t] = NotExecuting /\ mtrOn
  /\ mtrThread' = [mtrThread EXCEPT ![t] = mtrTime]
  /\ UNCHANGED <<mtrRates, mtrOn, mtrTime, mtrAborted, mtrFile,
                 mtrGiven, mtrFrom, mtrSince, mtrPassed>>

\* One rate is filled up for time now.
Filled(r, now) ==
  [r EXCEPT !.tokens = Min({r.tokens + now * r.rate - r.last, r.burst}),
            !.last = now * r.rate]

\* The first rate that has too few tokens, or MtrCount + 1.
Stops(now, input) ==
  Min({i \in 1..MtrCount : Filled(mtrRates[i], now).tokens < input} \cup {MtrCount + 1})

\* The assertion on the rates that are reached.
ClockGoesOn(now, input) ==
  \A i \in 1..MtrCount : i <= Stops(now, input) => now * mtrRates[i].rate >= mtrRates[i].last

\* Meter::execute under the lock; the answer is at least pre_color.
ExecuteMeter(t, input, pre_color) ==
  LET now == mtrThread[t]
      stop == Stops(now, input)
      packet_color == IF stop <= MtrCount THEN mtrRates[stop].color ELSE 0
      color == Max({pre_color, packet_color})
  IN /\ ~mtrAborted /\ now # NotExecuting
     /\ mtrThread' = [mtrThread EXCEPT ![t] = NotExecuting]
     /\ \/ /\ ~ClockGoesOn(now, input) /\ mtrAborted' = TRUE
           /\ UNCHANGED <<mtrRates, mtrSince, mtrPassed>>
        \/ /\ ClockGoesOn(now, input)
           /\ mtrRates' = [i \in 1..MtrCount |->
                CASE i < stop -> [Filled(mtrRates[i], now) EXCEPT !.tokens = @ - input]
                  [] i = stop -> Filled(mtrRates[i], now)
                  [] i > stop -> mtrRates[i]]
           /\ mtrSince' = Min({mtrSince, now})
           /\ mtrPassed' = [c \in 1..MtrCount |->
                IF color < c /\ mtrFrom # "other"
                THEN Min({mtrPassed[c] + input, MtrMaxPassed}) ELSE mtrPassed[c]]
           /\ UNCHANGED mtrAborted
     /\ UNCHANGED <<mtrOn, mtrTime, mtrFile, mtrGiven, mtrFrom>>

-----------------------------------------------------------------------------
\* Meter::serialize: the rates in the order in which they are kept.
SaveMeter ==
  /\ ~mtrAborted /\ mtrFile = <<>> /\ mtrOn
  /\ mtrFile' = [i \in 1..MtrCount |-> [rate |-> mtrRates[i].rate, burst |-> mtrRates[i].burst]]
  /\ UNCHANGED <<mtrRates, mtrOn, mtrTime, mtrThread, mtrAborted,
                 mtrGiven, mtrFrom, mtrSince, mtrPassed>>

\* A new process: the clock starts again and Meter::deserialize calls set_rate
\* for the saved rates, whatever it answers.
RestoreMeter ==
  /\ mtrFile # <<>>
  /\ mtrRates' = [i \in 1..MtrCount |-> SetRate(mtrFile[i], i)]
  /\ mtrOn' = TRUE /\ mtrTime' = 0 /\ mtrAborted' = FALSE /\ mtrFile' = <<>>
  /\ mtrThread' = [t \in MtrThreads |-> NotExecuting]
  /\ Forget(Reverse(mtrFile), "restored", 0)

MtrNext ==
  \/ \E configs \in MtrConfigs : SetRates(configs)
  \/ ResetRates \/ Tick \/ SaveMeter \/ RestoreMeter
  \/ \E t \in MtrThreads :
       ReadClock(t) \/ \E input \in MtrSizes, pre \in 0..1 : ExecuteMeter(t, input, pre)

MtrSpec == MtrInit /\ [][MtrNext]_mtrVars

-----------------------------------------------------------------------------
MtrTypeOK ==
  /\ mtrTime \in 0..MtrMaxTime
  /\ \A i \in 1..MtrCount : mtrRates[i].tokens \in 0..mtrRates[i].burst
  /\ \A t \in MtrThreads : mtrThread[t] \in NotExecuting..mtrTime

\* Below the color of a rate no more is let through than the rate's burst size
\* and what it earns in the time the rates are in use.
Within ==
  \A c \in 1..MtrCount :
    mtrPassed[c] <= mtrGiven[c].burst + mtrGiven[c].rate * (mtrTime - mtrSince)

\* "A higher value means that the meter is "busier"" (meters.h, Meter::execute):
\* as long as the rates are the ones the last set_rates accepted, whichever
\* threads executed the meter with whichever clock values, the packets that get
\* a color below a rate's own are within that rate.
ColorsWithinRates == mtrFrom = "set" => Within

\* What a meter lets through is within the client's rates (meters.cpp).
MetersSound == MtrTypeOK /\ ColorsWithinRates

-----------------------------------------------------------------------------
(* The inductive invariant behind MetersSound.                             *)

MtrRate == [rate : Nat, burst : Nat, tokens : Nat, last : Nat, color : Nat]
MtrConfig == [rate : Nat, burst : Nat]

MtrTypes ==
  /\ mtrTime \in 0..MtrMaxTime /\ mtrSince \in 0..mtrTime
  /\ mtrThread \in [MtrThreads -> NotExecuting..mtrTime]
  /\ mtrRates \in [1..MtrCount -> MtrRate]
  /\ \A i \in 1..MtrCount : mtrRates[i].tokens <= mtrRates[i].burst
  /\ mtrFile # <<>> => mtrFile \in [1..MtrCount -> MtrConfig]
  /\ mtrPassed \in [1..MtrCount -> Nat]

\* Once the bucket of rate r has been filled since the rates were set, what was
\* let through and what it still holds is its burst and what it has earned;
\* before that nothing was let through.
Accounted(r, passed, since) ==
  IF r.last >= since * r.rate THEN passed + r.tokens <= r.burst + (r.last - since * r.rate)
  ELSE passed = 0

\* The client's c-th rate is tried in the place that reversing gave it, and is
\* accounted for.
RateSound(c) ==
  LET r == mtrRates[MtrCount + 1 - c]
  IN /\ r.color = c /\ r.rate = mtrGiven[c].rate /\ r.burst = mtrGiven[c].burst
     /\ r.last <= mtrTime * r.rate
     /\ Accounted(r, mtrPassed[c], mtrSince)

MtrInv == MtrTypes /\ (mtrFrom = "set" => \A c \in 1..MtrCount : RateSound(c))
=============================================================================
