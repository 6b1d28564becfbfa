----------------------------- MODULE SystemStats -----------------------------
(***************************************************************************)
(* The statistics of the system (Internal.cc) on Linux: netStats() reads   *)
(* the counters of the network interfaces twice and gives rates, cpuStats()*)
(* does so with the ticks of the processors, procStats() compares with the *)
(* call before.  Between two readings the system goes on: interfaces come  *)
(* and go, counters wrap around, ticks and the clock may go back.  The     *)
(* programs dqm4hep-netstats and dqm4hep-cpustats call these for ever.     *)
(*                                                                         *)
(* One counter stands for the six of an interface.  A quotient of floats   *)
(* is kept as a pair; ticks of user and nice are one sum.                  *)
(***************************************************************************)
EXTENDS Integers, TLAPS

CONSTANTS
  Interfaces,   \* the names of network interfaces
  Base,         \* counters are numbers modulo Base (2^64)
  SampleTime,   \* seconds between two readings
  MaxTraffic,   \* bound: packets of an interface between two readings
  MaxTicks,     \* bound: ticks between two readings, and seconds of the clock
  MaxCalls      \* bound: calls of procStats()

ASSUME StatsAssumption ==
  /\ SampleTime \in Nat \ {0}
  /\ Base \in Nat /\ MaxTraffic \in Nat /\ MaxTraffic < Base
  /\ MaxTicks \in Nat /\ MaxCalls \in Nat

VARIABLES
  up,         \* the interfaces there are
  counter,    \* their counters
  traffic,    \* packets since the first reading
  changed,    \* interfaces that came or went since the first reading
  phase,      \* of netStats(): "idle", "sleeping", "done" or "undefined"
  first,      \* tempStats: the counters of the first reading
  net,        \* stats: the total and the rate of interfaces
  cpu,        \* what cpuStats() gave: ticks of user, sys and idle, and all
  process,    \* ProcessStats: seconds used, clock and load of the last call
  used,       \* seconds the process has really used
  clock,      \* gettimeofday()
  program     \* which of the programs runs

system  == <<up, counter, traffic, changed>>
network == <<phase, first, net>>
poll    == <<process, used, clock>>
statsVars == <<system, network, cpu, poll, program>>

NoLoad == <<0, 1>>
BadLoad == <<-1, 1>>

StatsInit ==
  /\ up \in SUBSET Interfaces
  /\ counter \in [Interfaces -> {0, Base - 1}]
  /\ traffic = [i \in Interfaces |-> 0] /\ changed = {}
  /\ phase = "idle" /\ first = <<>> /\ net = <<>>
  /\ cpu = [user |-> 0, sys |-> 0, idle |-> 0, all |-> 0]
  /\ process = [used |-> 0, clock |-> 0, load |-> NoLoad, calls |-> 0]
  /\ used = 0 /\ clock = 0
  /\ program \in {"netstats", "cpustats"}
-----------------------------------------------------------------------------
\* What the system does before netStats() and while it sleeps.
Packet(i) ==
  /\ phase = "sleeping" /\ i \in up /\ traffic[i] < MaxTraffic
  /\ counter' = [counter EXCEPT ![i] = (@ + 1) % Base]
  /\ traffic' = [traffic EXCEPT ![i] = @ + 1]
  /\ UNCHANGED <<up, changed>>

\* An interface that comes back starts to count again.
ComesOrGoes(i) ==
  /\ phase \in {"idle", "sleeping"}
  /\ up' = IF i \in up THEN up \ {i} ELSE up \union {i}
  /\ counter' = [counter EXCEPT ![i] = 0]
  /\ changed' = changed \union {i}
  /\ UNCHANGED traffic

FirstReading(fresh) ==
  /\ phase = "idle"
  /\ phase' = "sleeping"
  /\ first' = [i \in up |-> counter[i]]
  /\ net' = IF fresh THEN <<>> ELSE net
  /\ traffic' = [i \in Interfaces |-> 0] /\ changed' = {}
  /\ UNCHANGED <<up, counter>>

\* stats[iname] = stat: an interface that was there before has no rate now,
\* and one that is gone keeps what it had.
Reading ==
  [i \in DOMAIN net \union up |->
     IF i \in up THEN [total |-> counter[i], rate |-> 0] ELSE net[i]]

\* The difference of two counters, that gives up when the later is less.
Saturating(later, earlier) == IF later >= earlier THEN later - earlier ELSE 0

\* The difference of two unsigned counters.
Difference(later, earlier) == (later - earlier + Base) % Base

\* fillNetRate() follows the end of stats for an interface of the first
\* reading that is not in it.
SecondReading ==
  /\ phase = "sleeping"
  /\ IF DOMAIN first \subseteq DOMAIN Reading
     THEN /\ phase' = "done"
          /\ net' = [i \in DOMAIN Reading |->
               IF i \in DOMAIN first
               THEN [total |-> Reading[i].total,
                     rate |-> Difference(Reading[i].total, first[i]) \div SampleTime]
               ELSE Reading[i]]
     ELSE phase' = "undefined" /\ UNCHANGED net
  /\ UNCHANGED <<first, system>>

NetStatsReturns ==
  /\ phase = "done" /\ phase' = "idle" /\ first' = <<>>
  /\ UNCHANGED <<net, system>>
-----------------------------------------------------------------------------
\* A difference of ticks as it is.
AsCounted(ticks) == ticks

Clamped(ticks) == IF ticks < 0 THEN 0 ELSE ticks

\* cpuStats(): the fields stay as they are when no tick was counted.
CpuStats(user, sys, idle) ==
  LET u == Clamped(user)  s == Clamped(sys)  i == Clamped(idle)
  IN /\ cpu' = IF u + s + i = 0 THEN cpu
               ELSE [user |-> u, sys |-> s, idle |-> i, all |-> u + s + i]

\* procStats(): the first call that finds no time used gives no load; a clock
\* that stood still or went back gives -1.
ProcStats ==
  /\ process.calls < MaxCalls
  /\ process' =
       [used |-> used, clock |-> clock, calls |-> process.calls + 1,
        load |-> IF clock <= process.clock THEN BadLoad
                 ELSE IF process.used = 0 THEN process.load
                 ELSE <<used - process.used, clock - process.clock>>]
  /\ UNCHANGED <<used, clock>>

TimePasses ==
  /\ used' \in used..(used + 1) /\ used' <= MaxTicks
  /\ clock' \in 0..MaxTicks
  /\ UNCHANGED process

NetStats ==
  /\ program = "netstats"
  /\ \/ (\E i \in Interfaces : Packet(i) \/ ComesOrGoes(i)) /\ UNCHANGED network
     \/ (\E fresh \in BOOLEAN : FirstReading(fresh)) \/ SecondReading \/ NetStatsReturns
  /\ UNCHANGED <<cpu, poll, program>>

CpuAndProcess ==
  /\ program = "cpustats"
  /\ \/ (\E u, s, i \in -1..MaxTicks : CpuStats(u, s, i)) /\ UNCHANGED poll
     \/ (ProcStats \/ TimePasses) /\ UNCHANGED cpu
  /\ UNCHANGED <<system, network, program>>

StatsNext == NetStats \/ CpuAndProcess

StatsSpec == StatsInit /\ [][StatsNext]_statsVars
-----------------------------------------------------------------------------
(***************************************************************************)
(* The rate given for an interface that was there all the time is what     *)
(* passed through it between the two readings, also when its counter wraps *)
(* around and when the caller gives statistics of an earlier call          *)
(* (Internal.cc:130-157).                                                  *)
(***************************************************************************)
RatesAreOfTheInterval ==
  phase = "done" =>
    \A i \in up \ changed : net[i].rate = traffic[i] \div SampleTime

(***************************************************************************)
(* The shares of the processors are not negative and add up to the whole,  *)
(* and a load of the process is -1 or a share of a time that passed, also  *)
(* when ticks or the clock went back (Internal.cc:98-122 and 251-270).     *)
(***************************************************************************)
LoadsAreShares ==
  /\ cpu.user >= 0 /\ cpu.sys >= 0 /\ cpu.idle >= 0
  /\ cpu.user + cpu.sys + cpu.idle = cpu.all
  /\ process.load = BadLoad \/ (process.load[1] >= 0 /\ process.load[2] > 0)
-----------------------------------------------------------------------------
\* The counters of the interfaces, before, between and after the readings.
CountersOK ==
  /\ up \subseteq Interfaces
  /\ counter \in [Interfaces -> 0 .. Base - 1]
  /\ traffic \in [Interfaces -> 0 .. MaxTraffic]
  /\ \A i \in DOMAIN first : first[i] \in 0 .. Base - 1

\* While netStats() sleeps, a counter is ahead of the first reading by what
\* passed, one turn of the counter less when it wrapped around.
CountersAgree ==
  phase = "sleeping" =>
    \A i \in up \ changed :
      /\ i \in DOMAIN first
      /\ \/ counter[i] = first[i] + traffic[i]
         \/ counter[i] = first[i] + traffic[i] - Base

RatesInv == CountersOK /\ CountersAgree /\ RatesAreOfTheInterval

\* Numbers below the base are their own remainders, and those of the next
\* turn are one base too large.
LEMMA Remainder ==
  ASSUME NEW b \in Nat \ {0}, NEW x \in Nat
  PROVE  /\ x < b => x % b = x
         /\ b <= x /\ x < 2 * b => x % b = x - b
  OBVIOUS

\* What two readings differ by, modulo the base, is what was counted between.
LEMMA DifferenceIsTraffic ==
  ASSUME NEW f \in 0 .. Base - 1, NEW c \in 0 .. Base - 1, NEW t \in 0 .. MaxTraffic,
         c = f + t \/ c = f + t - Base
  PROVE  Difference(c, f) = t
<1>1. Base \in Nat \ {0} /\ t \in Nat /\ t < Base
  BY StatsAssumption
<1>2. CASE c = f + t
  <2>1. c - f + Base = t + Base /\ t + Base \in Nat /\ t + Base < 2 * Base
    BY <1>1, <1>2
  <2> QED BY <1>1, <2>1, Remainder DEF Difference
<1>3. CASE c = f + t - Base
  <2>1. c - f + Base = t
    BY <1>1, <1>3
  <2> QED BY <1>1, <2>1, Remainder DEF Difference
<1> QED BY <1>2, <1>3

LEMMA RatesInit == StatsInit => RatesInv
<1> SUFFICES ASSUME StatsInit PROVE RatesInv
  OBVIOUS
<1>1. {0, Base - 1} \subseteq 0 .. Base - 1
  BY StatsAssumption
<1>2. CountersOK
  BY <1>1, StatsAssumption DEF StatsInit, CountersOK
<1> QED BY <1>2 DEF StatsInit, RatesInv, CountersAgree, RatesAreOfTheInterval

LEMMA RatesStep == RatesInv /\ [StatsNext]_statsVars => RatesInv'
<1> SUFFICES ASSUME RatesInv, [StatsNext]_statsVars PROVE RatesInv'
  OBVIOUS
<1> USE DEF RatesInv
<1>1. ASSUME NEW i \in Interfaces, Packet(i), UNCHANGED network PROVE RatesInv'
  <2>1. counter[i] \in 0 .. Base - 1 /\ traffic[i] \in 0 .. MaxTraffic
    BY DEF CountersOK
  <2>2. /\ counter'[i] = (counter[i] + 1) % Base
        /\ traffic'[i] = traffic[i] + 1
        /\ \A j \in Interfaces \ {i} : counter'[j] = counter[j] /\ traffic'[j] = traffic[j]
    BY <1>1 DEF Packet, CountersOK
  <2>3. /\ counter'[i] \in 0 .. Base - 1
        /\ counter'[i] = counter[i] + 1 \/ counter'[i] = counter[i] + 1 - Base
    <3>1. Base \in Nat \ {0} /\ counter[i] + 1 \in Nat /\ counter[i] + 1 <= Base
      BY <2>1, StatsAssumption
    <3> QED BY <2>1, <2>2, <3>1, Remainder
  <2>4. traffic'[i] \in 0 .. MaxTraffic
    BY <1>1, <2>1, <2>2, StatsAssumption DEF Packet
  <2>5. CountersOK'
    BY <1>1, <2>3, <2>4 DEF Packet, network, CountersOK
  <2>6. CountersAgree'
    <3>1. SUFFICES ASSUME NEW j \in up \ changed
                   PROVE  /\ j \in DOMAIN first
                          /\ \/ counter'[j] = first[j] + traffic'[j]
                             \/ counter'[j] = first[j] + traffic'[j] - Base
      BY <1>1 DEF Packet, network, CountersAgree
    <3>2. /\ j \in DOMAIN first
          /\ \/ counter[j] = first[j] + traffic[j]
             \/ counter[j] = first[j] + traffic[j] - Base
      BY <1>1, <3>1 DEF Packet, CountersAgree
    <3>3. CASE j # i
      BY <2>2, <3>2, <3>3 DEF CountersOK
    <3>4. CASE j = i
      \* Wrapping around twice would take more than the base of packets.
      <4>1. first[i] \in 0 .. Base - 1
        BY <3>2, <3>4 DEF CountersOK
      <4> QED BY <2>1, <2>2, <2>3, <2>4, <3>2, <3>4, <4>1, StatsAssumption
    <3> QED BY <3>3, <3>4
  <2> QED BY <1>1, <2>5, <2>6 DEF Packet, network, RatesAreOfTheInterval
<1>2. ASSUME NEW i \in Interfaces, ComesOrGoes(i), UNCHANGED network PROVE RatesInv'
  <2>1. 0 \in 0 .. Base - 1
    BY StatsAssumption
  <2>2. CountersOK'
    BY <1>2, <2>1 DEF ComesOrGoes, network, CountersOK
  <2>3. CountersAgree'
    BY <1>2 DEF ComesOrGoes, network, CountersAgree, CountersOK
  <2> QED BY <1>2, <2>2, <2>3 DEF ComesOrGoes, network, RatesAreOfTheInterval
<1>3. ASSUME NEW fresh \in BOOLEAN, FirstReading(fresh) PROVE RatesInv'
  <2>1. 0 \in 0 .. MaxTraffic
    BY StatsAssumption
  <2>2. CountersOK'
    BY <1>3, <2>1 DEF FirstReading, CountersOK
  <2>3. CountersAgree'
    <3> SUFFICES ASSUME NEW i \in up
                 PROVE  i \in DOMAIN first' /\ counter'[i] = first'[i] + traffic'[i]
      BY <1>3 DEF FirstReading, CountersAgree
    <3>1. first'[i] = counter[i] /\ traffic'[i] = 0 /\ counter'[i] = counter[i]
      BY <1>3 DEF FirstReading, CountersOK
    <3>2. counter[i] \in Int
      BY StatsAssumption DEF CountersOK
    <3> QED BY <1>3, <3>1, <3>2 DEF FirstReading
  <2> QED BY <1>3, <2>2, <2>3 DEF FirstReading, RatesAreOfTheInterval
<1>4. CASE SecondReading
  <2>1. CountersOK' /\ CountersAgree'
    BY <1>4 DEF SecondReading, system, CountersOK, CountersAgree
  <2>2. RatesAreOfTheInterval'
    <3> SUFFICES ASSUME phase' = "done", NEW i \in up \ changed
                 PROVE  net'[i].rate = traffic[i] \div SampleTime
      BY <1>4 DEF SecondReading, system, RatesAreOfTheInterval
    <3>1. /\ i \in DOMAIN first
          /\ \/ counter[i] = first[i] + traffic[i]
             \/ counter[i] = first[i] + traffic[i] - Base
      BY <1>4 DEF SecondReading, CountersAgree
    <3>2. i \in DOMAIN Reading /\ Reading[i].total = counter[i]
      BY DEF Reading
    <3>3. net'[i].rate = Difference(counter[i], first[i]) \div SampleTime
      <4>1. net' = [j \in DOMAIN Reading |->
               IF j \in DOMAIN first
               THEN [total |-> Reading[j].total,
                     rate |-> Difference(Reading[j].total, first[j]) \div SampleTime]
               ELSE Reading[j]]
        BY <1>4 DEF SecondReading
      <4> HIDE DEF RatesInv
      <4> QED BY <3>1, <3>2, <4>1
    <3>4. /\ first[i] \in 0 .. Base - 1 /\ counter[i] \in 0 .. Base - 1
          /\ traffic[i] \in 0 .. MaxTraffic
      BY <3>1 DEF CountersOK
    <3> QED BY <3>1, <3>3, <3>4, DifferenceIsTraffic
  <2> QED BY <2>1, <2>2
<1>5. CASE NetStatsReturns
  BY <1>5 DEF NetStatsReturns, system, CountersOK, CountersAgree, RatesAreOfTheInterval
<1>6. CASE UNCHANGED <<system, network>>
  BY <1>6 DEF system, network, CountersOK, CountersAgree, RatesAreOfTheInterval
<1> QED
  BY <1>1, <1>2, <1>3, <1>4, <1>5, <1>6 DEF StatsNext, NetStats, CpuAndProcess, statsVars

(***************************************************************************)
(* netStats() gives the traffic of the interval whatever the width of the  *)
(* counters, as long as less than one turn of them passes between the      *)
(* readings: unsigned arithmetic takes care of the rest (Internal.cc:150). *)
(***************************************************************************)
THEOREM RatesAreExact == StatsSpec => []RatesAreOfTheInterval
<1>1. RatesInv => RatesAreOfTheInterval
  BY DEF RatesInv
<1> QED BY <1>1, RatesInit, RatesStep, PTL DEF StatsSpec
-----------------------------------------------------------------------------
\* The process has used what the last call found, and maybe more since.
UsageOK ==
  /\ used \in Nat /\ clock \in Nat
  /\ process.used \in Nat /\ process.clock \in Nat
  /\ process.used <= used

SharesInv == UsageOK /\ LoadsAreShares

(***************************************************************************)
(* cpuStats() and procStats() give shares whatever the ticks and the clock *)
(* do: negative ticks count as none, and a clock that went back gives -1.  *)
(***************************************************************************)
THEOREM SharesStaySound == StatsSpec => []LoadsAreShares
<1>1. StatsInit => SharesInv
  BY DEF StatsInit, SharesInv, UsageOK, LoadsAreShares, NoLoad
<1>2. SharesInv /\ [StatsNext]_statsVars => SharesInv'
  <2> SUFFICES ASSUME SharesInv, [StatsNext]_statsVars PROVE SharesInv'
    OBVIOUS
  <2> USE DEF SharesInv
  <2>1. ASSUME NEW u \in -1 .. MaxTicks, NEW s \in -1 .. MaxTicks, NEW i \in -1 .. MaxTicks,
               CpuStats(u, s, i), UNCHANGED poll
        PROVE  SharesInv'
    <3>1. Clamped(u) \in Nat /\ Clamped(s) \in Nat /\ Clamped(i) \in Nat
      BY StatsAssumption DEF Clamped
    <3>2. \/ cpu' = cpu
          \/ cpu' = [user |-> Clamped(u), sys |-> Clamped(s), idle |-> Clamped(i),
                     all |-> Clamped(u) + Clamped(s) + Clamped(i)]
      BY <2>1 DEF CpuStats
    <3> QED BY <2>1, <3>1, <3>2 DEF poll, UsageOK, LoadsAreShares
  <2>2. CASE ProcStats /\ UNCHANGED cpu
    <3>1. /\ process'.used = used /\ process'.clock = clock
          /\ UNCHANGED <<used, clock, cpu>>
      BY <2>2 DEF ProcStats
    <3>2. \/ process'.load = BadLoad
          \/ process'.load = process.load
          \/ /\ process'.load = <<used - process.used, clock - process.clock>>
             /\ ~(clock <= process.clock)
      BY <2>2 DEF ProcStats
    <3>3. UsageOK'
      BY <3>1 DEF UsageOK
    <3>4. process'.load = BadLoad \/ (process'.load[1] >= 0 /\ process'.load[2] > 0)
      BY <3>2 DEF UsageOK, LoadsAreShares
    <3> QED BY <3>1, <3>3, <3>4 DEF LoadsAreShares
  <2>3. CASE TimePasses /\ UNCHANGED cpu
    <3>1. used' \in Nat /\ used <= used' /\ clock' \in Nat
      BY <2>3, StatsAssumption DEF TimePasses, UsageOK
    <3> QED BY <2>3, <3>1 DEF TimePasses, UsageOK, LoadsAreShares
  <2>4. CASE UNCHANGED <<cpu, poll>>
    BY <2>4 DEF poll, UsageOK, LoadsAreShares
  <2> QED BY <2>1, <2>2, <2>3, <2>4 DEF StatsNext, NetStats, CpuAndProcess, statsVars
<1>3. SharesInv => LoadsAreShares
  BY DEF SharesInv
<1> QED BY <1>1, <1>2, <1>3, PTL DEF StatsSpec
=============================================================================
