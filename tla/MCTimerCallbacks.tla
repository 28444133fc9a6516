-------------------------- MODULE MCTimerCallbacks --------------------------
(* Times and environments for the instances of TimerCallbacks.             *)
EXTENDS TimerCallbacks, TLC

\* Some second of July 2017, when a timer value can be a time.
MCStart == 1500000000

\* Every second a registration of the small instances can be for.
NearTimes == MCStart - 1 .. MCStart + MaxTicks + 2

\* No delay, a delay of one second, and the time of the third second.
MixedValues == {0, 1, MCStart + 2}

AllEnvs == [prompt : BOOLEAN, fresh : BOOLEAN]

DocSymmetry == Permutations(Docs)
=============================================================================
