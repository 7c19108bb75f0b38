------------------------ MODULE DiscoverDaemonProofs ------------------------
(***************************************************************************)
(* For all devices, periods and bounds: the type invariant of              *)
(* DiscoverDaemon, and that no wake-up gets lost between udevadm and the   *)
(* select loop (EventOnItsWay).                                            *)
(***************************************************************************)
EXTENDS DiscoverDaemon, TLAPS

(* Before the first update is over there is no monitor, and without one    *)
(* nothing is heard of udevadm.                                            *)
MonitorInv ==
    /\ raw.at = "off" => ~raw.alive /\ ~unheard
    /\ main.at = "down" => main.first
    /\ main.first => mon.at = "off" /\ raw.at = "off"

IInv == TypeOK /\ MonitorInv /\ EventOnItsWay

-----------------------------------------------------------------------------
Mons == [at: {"off", "idle", "collect", "send", "closed"}, timer: 0..Period]

Raws == [at: {"off", "read", "send", "closed"}, alive: BOOLEAN, lines: 0..MaxLines]

LEMMA InitialTypes == Down \in Mains /\ MonOff \in Mons /\ RawOff \in Raws
<1>1. 0 \in 0..ProbeInterval /\ 0 \in 0..Period /\ 0 \in 0..MaxLines
  BY DaemonAssumption
<1>2. NoList \in [Devices -> Entries]
  BY DEF NoList, Entries
<1> QED
  BY <1>1, <1>2 DEF Down, MonOff, RawOff, Mains, Mons, Raws

LEMMA SelectType ==
    ASSUME NEW m \in Mains
    PROVE  /\ Select(m) \in Mains /\ Select(m).first = m.first /\ Select(m).at = "select"
           /\ [m EXCEPT !.at = "check"] \in Mains
           /\ [m EXCEPT !.at = "check"].first = m.first
           /\ [m EXCEPT !.at = "check"].at = "check"
           /\ [Select(m) EXCEPT !.first = FALSE, !.udev = TRUE] \in Mains
           /\ [Select(m) EXCEPT !.first = FALSE, !.udev = TRUE].first = FALSE
           /\ [Select(m) EXCEPT !.first = FALSE, !.udev = TRUE].at = "select"
           /\ [Select(m) EXCEPT !.udev = FALSE] \in Mains
           /\ [Select(m) EXCEPT !.udev = FALSE].first = m.first
           /\ [Select(m) EXCEPT !.udev = FALSE].at = "select"
<1>1. 0 \in 0..ProbeInterval /\ NoList \in [Devices -> Entries]
  BY DaemonAssumption DEF NoList, Entries
<1>2. Select(m) \in Mains /\ Select(m).first = m.first /\ Select(m).at = "select"
  BY <1>1 DEF Select, Mains
<1> HIDE DEF Select
<1> QED
  BY <1>2 DEF Mains

LEMMA FaultType ==
    ASSUME TypeOK, Fault
    PROVE  spent' \in [change: 0..MaxChanges, fault: 0..MaxFaults]
BY DaemonAssumption DEF TypeOK, Fault

LEMMA SoonerType ==
    ASSUME NEW max \in Nat \ {0}, NEW i \in 0..max
    PROVE  Sooner(i, max) \in 0..max /\ Sooner(i, max) > 0
BY DEF Sooner

LEMMA EndProcessStep == EndProcess =>
    /\ main' \in Mains /\ mon' \in Mons /\ raw' \in Raws /\ unheard' \in BOOLEAN
    /\ MonitorInv' /\ EventOnItsWay'
<1> SUFFICES ASSUME EndProcess
             PROVE  /\ main' \in Mains /\ mon' \in Mons /\ raw' \in Raws
                    /\ unheard' \in BOOLEAN /\ MonitorInv' /\ EventOnItsWay'
  OBVIOUS
<1>1. main' \in Mains /\ mon' \in Mons /\ raw' \in Raws
  BY InitialTypes DEF EndProcess
<1>2. ~unheard' /\ unheard' \in BOOLEAN
  BY DEF EndProcess
<1>3. mon'.at = "off" /\ raw'.at = "off" /\ ~raw'.alive /\ main'.first
  BY DEF EndProcess, MonOff, RawOff, Down
<1> QED
  BY <1>1, <1>2, <1>3 DEF MonitorInv, EventOnItsWay

LEMMA InitIInv == Init => IInv
<1> SUFFICES ASSUME Init PROVE IInv
  OBVIOUS
<1>1. /\ main \in Mains /\ mon \in Mons /\ raw \in Raws
      /\ dev \in [Devices -> Kinds] /\ cm \in [list: [Devices -> Entries], ready: BOOLEAN]
  BY InitialTypes DEF Init, Kinds, Entries, NoList
<1>2. spent \in [change: 0..MaxChanges, fault: 0..MaxFaults]
  BY DaemonAssumption DEF Init
<1>3. TypeOK
  BY <1>1, <1>2 DEF TypeOK, Mons, Raws, Init
<1>4. MonitorInv /\ EventOnItsWay
  BY DEF Init, MonitorInv, EventOnItsWay, Down, MonOff, RawOff
<1> QED
  BY <1>3, <1>4 DEF IInv

-----------------------------------------------------------------------------
(* The devices, udevadm and its reader.                                    *)
LEMMA OutsideStep ==
    ASSUME IInv,
           Flap \/ UdevadmDies \/ \E d \in Devices, kind \in Kinds : Change(d, kind)
    PROVE  IInv'
<1>1. raw \in Raws /\ MaxLines \in Nat \ {0}
  BY DaemonAssumption DEF IInv, TypeOK, Raws
<1>2. ASSUME Listening, raw' = [raw EXCEPT !.lines = Sooner(raw.lines, MaxLines)]
      PROVE  raw' \in Raws /\ raw'.lines > 0 /\ raw'.at = raw.at /\ raw'.alive = raw.alive
  <2>1. Sooner(raw.lines, MaxLines) \in 0..MaxLines /\ Sooner(raw.lines, MaxLines) > 0
    BY <1>1, SoonerType DEF Raws
  <2> QED
    BY <1>1, <1>2, <2>1 DEF Raws
<1>3. Listening => ~main.first /\ raw.at # "off"
  BY DEF IInv, MonitorInv, Listening
<1>4. CASE Flap
  BY <1>2, <1>4 DEF Flap, IInv, TypeOK, Raws, MonitorInv, EventOnItsWay
<1>5. CASE UdevadmDies
  <2>1. spent' \in [change: 0..MaxChanges, fault: 0..MaxFaults]
    BY <1>5, FaultType DEF UdevadmDies, IInv
  <2>2. raw' \in Raws /\ raw'.at = raw.at /\ raw'.lines = raw.lines /\ raw'.alive = FALSE
    BY <1>1, <1>5 DEF UdevadmDies, Raws
  <2> QED
    BY <1>5, <2>1, <2>2 DEF UdevadmDies, IInv, TypeOK, Raws, MonitorInv, EventOnItsWay
<1>6. ASSUME NEW d \in Devices, NEW kind \in Kinds, Change(d, kind) PROVE IInv'
  <2>1. spent' \in [change: 0..MaxChanges, fault: 0..MaxFaults]
    BY <1>6, DaemonAssumption DEF Change, IInv, TypeOK
  <2>2. dev' \in [Devices -> Kinds]
    BY <1>6 DEF Change, IInv, TypeOK
  <2>3. CASE Listening /\ matchUdevEvent(dev[d], kind)
    BY <1>2, <1>3, <1>6, <2>1, <2>2, <2>3
       DEF Change, IInv, TypeOK, Raws, MonitorInv, EventOnItsWay
  <2>4. CASE ~(Listening /\ matchUdevEvent(dev[d], kind))
    BY <1>6, <2>1, <2>2, <2>4 DEF Change, IInv, TypeOK, MonitorInv, EventOnItsWay
  <2> QED
    BY <2>3, <2>4
<1> QED
  BY <1>4, <1>5, <1>6

(* The event goes from the pipe to the reader, from there to the monitor.  *)
LEMMA MonitorStepInv == IInv /\ MonitorStep => IInv'
<1> SUFFICES ASSUME IInv, MonitorStep PROVE IInv'
  OBVIOUS
<1> USE DEF Mons, Raws
<1>1. raw \in Raws /\ mon \in Mons /\ MaxLines \in Nat /\ Period \in Nat
  BY DaemonAssumption DEF IInv, TypeOK
<1>2. CASE StartUdevadm
  <2>1. raw' \in Raws /\ raw'.at # "off"
    <3>1. \/ raw' = [at |-> "read", alive |-> TRUE, lines |-> 0]
          \/ raw' = [at |-> "closed", alive |-> FALSE, lines |-> 0]
      BY <1>2 DEF StartUdevadm, RawOff
    <3>2. 0 \in 0..MaxLines
      BY <1>1
    <3>3. ASSUME NEW a \in {"read", "closed"}, NEW b \in BOOLEAN,
                 raw' = [at |-> a, alive |-> b, lines |-> 0]
          PROVE  raw' \in Raws /\ raw'.at # "off"
      BY <3>2, <3>3
    <3> QED
      BY <3>1, <3>3
  <2>2. spent' \in [change: 0..MaxChanges, fault: 0..MaxFaults]
    BY <1>2, FaultType DEF StartUdevadm, IInv, TypeOK
  <2> QED
    BY <1>1, <1>2, <2>1, <2>2 DEF StartUdevadm, IInv, TypeOK, MonitorInv, EventOnItsWay
<1>3. CASE ScanLine
  <2>1. raw' \in Raws /\ raw'.at = "send"
    <3>1. raw.lines - 1 \in 0..MaxLines
      BY <1>1, <1>3 DEF ScanLine
    <3> QED
      BY <1>1, <1>3, <3>1 DEF ScanLine
  <2> QED
    BY <1>3, <2>1 DEF ScanLine, IInv, TypeOK, MonitorInv, EventOnItsWay
<1>4. CASE ScanEnd
  <2>1. raw' \in Raws /\ raw'.at = "closed"
    BY <1>1, <1>4 DEF ScanEnd
  <2> QED
    BY <1>4, <2>1 DEF ScanEnd, IInv, TypeOK, MonitorInv, EventOnItsWay
<1>5. CASE ReceiveEvent
  <2>1. raw' \in Raws /\ raw'.at = "read" /\ mon' \in Mons /\ mon'.at = "collect"
    BY <1>1, <1>5 DEF ReceiveEvent
  <2> QED
    BY <1>5, <2>1 DEF ReceiveEvent, IInv, TypeOK, MonitorInv, EventOnItsWay
<1>6. CASE ReceiveClosed
  <2>1. mon' \in Mons /\ mon'.at = "closed"
    BY <1>1, <1>6 DEF ReceiveClosed, MonOff
  <2> QED
    BY <1>6, <2>1 DEF ReceiveClosed, IInv, TypeOK, MonitorInv, EventOnItsWay
<1>7. CASE PeriodOver
  <2>1. mon' \in Mons /\ mon'.at = "send"
    BY <1>1, <1>7 DEF PeriodOver
  <2> QED
    BY <1>7, <2>1 DEF PeriodOver, IInv, TypeOK, MonitorInv, EventOnItsWay
<1> QED
  BY <1>2, <1>3, <1>4, <1>5, <1>6, <1>7 DEF MonitorStep

-----------------------------------------------------------------------------
(* The select loop.                                                        *)
LEMMA MainStepInv == IInv /\ (MainStep \/ Probe \/ Terminate) => IInv'
<1> SUFFICES ASSUME IInv, MainStep \/ Probe \/ Terminate PROVE IInv'
  OBVIOUS
<1>1. main \in Mains /\ mon \in Mons /\ raw \in Raws /\ TypeOK
  BY DEF IInv, TypeOK, Mons, Raws
<1>2. CASE StartProcess
  <2>1. main' \in Mains /\ main'.at = "first" /\ main'.first
    BY <1>2, InitialTypes DEF StartProcess, Mains, Down
  <2> QED
    BY <1>2, <2>1 DEF StartProcess, IInv, TypeOK, MonitorInv, EventOnItsWay
<1>3. CASE ListDevices
  <2>1. PICK view \in [Devices -> Entries] :
          /\ GetAllDevices(view)
          /\ main' = [main EXCEPT !.at = "publish", !.view = view,
                        !.next = IF main.at = "probe" THEN "check" ELSE "select"]
    BY <1>3 DEF ListDevices
  <2>2. main' \in Mains /\ main'.first = main.first /\ main'.at # "down"
    BY <1>1, <2>1 DEF Mains
  <2>3. spent' \in [change: 0..MaxChanges, fault: 0..MaxFaults]
    BY <1>1, <2>1, FaultType DEF GetAllDevices, TypeOK
  <2> QED
    BY <1>3, <2>2, <2>3 DEF ListDevices, IInv, TypeOK, MonitorInv, EventOnItsWay
<1>4. CASE Publish
  <2>1. cm' \in [list: [Devices -> Entries], ready: BOOLEAN]
    BY <1>1, <1>4 DEF Publish, TypeOK, Mains
  <2>2. CASE main.first
    <3>1. main' \in Mains /\ ~main'.first /\ main'.at # "down"
      <4>1. main' = [Select(main) EXCEPT !.first = FALSE, !.udev = TRUE]
        BY <1>4, <2>2 DEF Publish, AfterUpdate
      <4> QED
        BY <1>1, <4>1, SelectType
    <3>2. mon' \in Mons /\ UNCHANGED <<raw, unheard>> /\ ~unheard
      BY <1>4, <2>2, InitialTypes DEF Publish, AfterUpdate, IInv, MonitorInv, Mons
    <3> QED
      BY <1>4, <2>1, <3>1, <3>2 DEF Publish, IInv, TypeOK, Mons, MonitorInv, EventOnItsWay
  <2>3. CASE ~main.first
    <3>1. main' \in Mains /\ ~main'.first /\ main'.at # "down"
      <4>1. main' = Select(main) \/ main' = [main EXCEPT !.at = "check"]
        BY <1>4, <2>3 DEF Publish, AfterUpdate
      <4>2. main'.first = main.first
        BY <1>1, <4>1, SelectType
      <4>3. main' \in Mains /\ main'.at # "down"
        BY <1>1, <4>1, SelectType
      <4> QED
        BY <2>3, <4>2, <4>3
    <3>2. UNCHANGED <<mon, raw, unheard>>
      BY <1>4, <2>3 DEF Publish, AfterUpdate
    <3> QED
      BY <1>4, <2>1, <3>1, <3>2 DEF Publish, IInv, TypeOK, MonitorInv, EventOnItsWay
  <2> QED
    BY <2>2, <2>3
<1>5. CASE UpdateFails
  <2>1. spent' \in [change: 0..MaxChanges, fault: 0..MaxFaults] /\ UNCHANGED <<dev, cm>>
    BY <1>1, <1>5, FaultType DEF UpdateFails
  <2>2. CASE main.first
    BY <1>1, <1>5, <2>1, <2>2, EndProcessStep DEF UpdateFails, IInv, TypeOK, Mons, Raws
  <2>3. CASE ~main.first
    <3>1. main' \in Mains /\ ~main'.first /\ main'.at # "down"
      <4>1. main' = Select(main) \/ main' = [main EXCEPT !.at = "check"]
        BY <1>5, <2>3 DEF UpdateFails
      <4>2. main'.first = main.first
        BY <1>1, <4>1, SelectType
      <4>3. main' \in Mains /\ main'.at # "down"
        BY <1>1, <4>1, SelectType
      <4> QED
        BY <2>3, <4>2, <4>3
    <3>2. UNCHANGED <<mon, raw>> /\ unheard' = (unheard /\ main.at = "publish")
      BY <1>5, <2>3 DEF UpdateFails
    <3> QED
      BY <1>1, <2>1, <3>1, <3>2 DEF IInv, TypeOK, MonitorInv, EventOnItsWay
  <2> QED
    BY <2>2, <2>3
<1>6. CASE CheckClass
  <2>1. main' \in Mains /\ main'.first = main.first /\ main'.at # "down"
    BY <1>1, <1>6, SelectType DEF CheckClass
  <2>2. spent' \in [change: 0..MaxChanges, fault: 0..MaxFaults]
    BY <1>1, <1>6, FaultType DEF CheckClass, TypeOK
  <2>3. cm' \in [list: [Devices -> Entries], ready: BOOLEAN]
    BY <1>1, <1>6 DEF AllListed, CheckClass, TypeOK
  <2> QED
    BY <1>6, <2>1, <2>2, <2>3 DEF CheckClass, IInv, TypeOK, MonitorInv, EventOnItsWay
<1>7. CASE Probe
  <2>1. main' \in Mains /\ main'.first = main.first /\ main'.at = "probe"
    BY <1>1, <1>7 DEF Probe, Mains
  <2> QED
    BY <1>7, <2>1 DEF Probe, IInv, TypeOK, MonitorInv, EventOnItsWay
<1>8. CASE ProbeOnEvent
  <2>1. main' \in Mains /\ main'.first = main.first /\ main'.at = "event"
    BY <1>1, <1>8 DEF ProbeOnEvent, Mains
  <2>2. mon' \in Mons /\ ~main.first
    BY <1>8, InitialTypes DEF ProbeOnEvent, Mons, MonOff, IInv, MonitorInv
  <2> QED
    BY <1>8, <2>1, <2>2 DEF ProbeOnEvent, IInv, TypeOK, Mons, MonitorInv, EventOnItsWay
<1>9. CASE DisableUdev
  <2>1. main' \in Mains /\ main'.first = main.first /\ main'.at # "down"
    BY <1>1, <1>9, SelectType DEF DisableUdev
  <2> QED
    BY <1>9, <2>1 DEF DisableUdev, IInv, TypeOK, MonitorInv, EventOnItsWay
<1>10. CASE Terminate
  <2>1. spent' \in [change: 0..MaxChanges, fault: 0..MaxFaults] /\ UNCHANGED <<dev, cm>>
    BY <1>1, <1>10, FaultType DEF Terminate
  <2> QED
    BY <1>1, <1>10, <2>1, EndProcessStep DEF Terminate, IInv, TypeOK, Mons, Raws
<1> QED
  BY <1>2, <1>3, <1>4, <1>5, <1>6, <1>7, <1>8, <1>9, <1>10 DEF MainStep

LEMMA TickStep == IInv /\ Tick => IInv'
<1> SUFFICES ASSUME IInv, Tick PROVE IInv'
  OBVIOUS
<1>1. /\ main \in Mains /\ mon \in Mons
      /\ ProbeInterval \in Nat \ {0} /\ Period \in Nat \ {0}
  BY DaemonAssumption DEF IInv, TypeOK, Mons
<1>2. Sooner(main.timer, ProbeInterval) \in 0..ProbeInterval
  BY <1>1, SoonerType DEF Mains
<1>3. Sooner(mon.timer, Period) \in 0..Period
  BY <1>1, SoonerType DEF Mons
<1>4. main' \in Mains /\ main'.at = main.at /\ main'.first = main.first
  BY <1>1, <1>2 DEF Tick, Mains
<1>5. mon' \in Mons /\ mon'.at = mon.at
  BY <1>1, <1>3 DEF Tick, Mons
<1> QED
  BY <1>4, <1>5 DEF Tick, IInv, TypeOK, Mons, MonitorInv, EventOnItsWay

LEMMA StutterStep == IInv /\ UNCHANGED vars => IInv'
BY DEF vars, IInv, TypeOK, MonitorInv, EventOnItsWay

LEMMA Invariance == Spec => []IInv
<1>1. IInv /\ [Next]_vars => IInv'
  BY OutsideStep, MonitorStepInv, MainStepInv, TickStep, StutterStep DEF Next
<1> QED
  BY InitIInv, <1>1, PTL DEF Spec

-----------------------------------------------------------------------------
(* The types of all variables, for any devices, periods and bounds.        *)
THEOREM TypeCorrect == Spec => []TypeOK
BY Invariance, PTL DEF IInv

(* No event is lost between udevadm and the loop, however often the loop   *)
(* is busy, events are collapsed, commands fail and the process dies.      *)
THEOREM EventOnItsWayAlways == Spec => []EventOnItsWay
BY Invariance, PTL DEF IInv
=============================================================================
