------------------------------ MODULE MCEngine ------------------------------
(* Finite instances of Engine. *)
EXTENDS Engine, TLC

CONSTANTS d1, d2, c1, c2, c3

\* A job that lists a device once, and one that lists it twice.
Once(d) == {<<d, 1>>}
Twice(d) == {<<d, 1>>, <<d, 2>>}

Base(devices) ==
  [effect |-> Flash, devices |-> devices, colorA |-> 1, colorB |-> 2, cycles |-> 1,
   brightness |-> 9, endState |-> "off", restore |-> FALSE,
   scenes |-> [e \in Entry |-> 0], cooldown |-> 0]

Of(job) == [job |-> job, mapping |-> "m"]

\* Execution: what one run sends, on one lamp, from every starting look.
SceneOn(d) == [e \in Entry |-> IF e[1] = d THEN 7 ELSE 0]
TestBlink == [Base(Once(d1)) EXCEPT !.restore = TRUE]
SolidRun == [Base(Once(d1)) EXCEPT !.effect = "solid"]
HoldB == [Base(Once(d1)) EXCEPT !.endState = "holdB"]
OnRun == [Base(Once(d1)) EXCEPT !.effect = "on"]
OffRun == [Base(Once(d1)) EXCEPT !.effect = "off"]
OffScene == [OffRun EXCEPT !.scenes = SceneOn(d1), !.restore = TRUE]
OffTwice == [OffRun EXCEPT !.devices = Twice(d1)]

AllOneLampJobs == {Of(j) : j \in {TestBlink, HoldB, SolidRun, OnRun, OffScene, OffTwice}}
TwoLampJobs == {Of([OffRun EXCEPT !.devices = Once(d1) \cup Once(d2)]),
                Of([OffScene EXCEPT !.restore = FALSE])}
ManualColor == {[effect |-> "manual", devices |-> Once(d1), op |-> "color", v |-> 5]}
NoManual == {}

LampOn == [power |-> 1, brightness |-> 3, color |-> 4, scene |-> 0]
LampScene == [LampOn EXCEPT !.scene = 8]
LampOff == [LampOn EXCEPT !.power = 0]
SomeLamps == {LampOn, LampScene, LampOff}
OneLamp == {LampOff}
NoLooks == {}
LateLook == {LampOff}

AllFields == {"power", "brightness", "color", "scene"}
SomeFieldSets == {AllFields, AllFields \ {"scene"}}
FullReport == {AllFields}

\* Admission: cooldowns and the window, on runs of one command.
Mappings == {"m", "n"}
OneMapping == {"m"}
Cooled(k, m) == [job |-> [OffRun EXCEPT !.cooldown = k], mapping |-> m]
StormJobs == {Cooled(0, "m"), Cooled(2, "m"), Cooled(3, "m"), Cooled(2, "n")}

Window(s, e, z) == [enabled |-> TRUE, start |-> s, end |-> e, zone |-> z]
NoSettings == {}
SomeSettings == {Window(1, 3, 0), Window(3, 1, -3), Window(0, 2, NoZone)}

\* Stop is left to EngineLive: it fails a run where perDeviceTimeout would.
NotStopped == stop = "up"

\* The admission runs leave the workers, which no call reads, to the others.
Admission == NotStopped /\ \A w \in Worker : pc[w] \in {"none", "lock"}

Symmetry == Permutations(Call)
=============================================================================
