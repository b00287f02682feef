------------------------------ MODULE LampEffects ------------------------------
(***************************************************************************)
(* What an effect sends to one lamp, and what a lamp does with it.          *)
(*                                                                          *)
(* The plans are the command sequences of internal/effects/engine.go        *)
(* (runFlash, runSolid, runOn, applyAfterScene, restore); the lamp is a     *)
(* physical device, modelled from what those functions and their comments   *)
(* rely on.  Brightness, colours and scenes are numbers; scene 0 is "none". *)
(***************************************************************************)
EXTENDS Integers, Sequences

CONSTANTS Device,
          Listing      \* tells apart the places where one list names a device
ASSUME DeviceAssumption == Device # {} /\ Listing # {}

\* An entry of a job's list of devices; a mapping may list a device twice.
Entry == Device \X Listing

Lamp == [power : {0, 1}, brightness : Nat, color : Nat, scene : Nat]

WriteOps == {"power", "brightness", "color", "scene"}
SleepOps == {"sleep", "settle"}

\* must: a failure of the command aborts the run.  The commands of restore
\* log a failure and go on.
Command == [op : WriteOps \cup SleepOps, v : Nat, must : BOOLEAN]

Do(op, v)  == [op |-> op, v |-> v, must |-> TRUE]
Try(op, v) == [op |-> op, v |-> v, must |-> FALSE]

(***************************************************************************)
(* Jobs.  A job is accepted only after Validate has filled its defaults.    *)
(* devices is job.Devices; scenes[e] is the AfterScene of entry e, which     *)
(* DeviceFor resolved, 0 when it has none; cooldown is the second argument  *)
(* of Enqueue.                                                              *)
(***************************************************************************)
Flash == "flash"
EndStates == {"holdA", "holdB", "off"}

EffectJob ==
  [effect : {Flash, "solid", "on", "off"}, devices : SUBSET Entry,
   colorA : Nat, colorB : Nat, cycles : Nat \ {0}, brightness : Nat,
   endState : EndStates, restore : BOOLEAN, scenes : [Entry -> Nat],
   cooldown : Nat]

\* EnqueueControl: one write the operator asked for, to one device.
ManualJob ==
  [effect : {"manual"}, devices : {{e} : e \in Entry}, op : WriteOps, v : Nat]

Manual(j) == j.effect = "manual"

(***************************************************************************)
(* Captured state.  Unreported stands for a nil field of govee.DeviceState. *)
(***************************************************************************)
Unreported == -1
Field == Nat \cup {Unreported}
Report == [power : {0, 1, Unreported}, brightness : Field, color : Field,
           scene : Field]
NothingReported ==
  [power |-> Unreported, brightness |-> Unreported, color |-> Unreported,
   scene |-> Unreported]

\* State() projects the restorable subset of the look it is told of.  fields is what
\* the transport shows of this device; a scene value that means "no scene" is filtered out.
Reported(lamp, fields) ==
  [power      |-> IF "power" \in fields THEN lamp.power ELSE Unreported,
   brightness |-> IF "brightness" \in fields THEN lamp.brightness ELSE Unreported,
   color      |-> IF "color" \in fields THEN lamp.color ELSE Unreported,
   scene      |-> IF "scene" \in fields /\ lamp.scene # 0
                    THEN lamp.scene ELSE Unreported]

-----------------------------------------------------------------------------
(* Plans. *)

\* Each cycle: colour A, sleep, colour B, sleep.
Blink(j) ==
  [i \in 1 .. 4 * j.cycles |->
     IF i % 2 = 0
       THEN Do("sleep", 0)
       ELSE Do("color", IF i % 4 = 1 THEN j.colorA ELSE j.colorB)]

EndPlan(j) ==
  CASE j.endState = "holdA" -> <<Do("color", j.colorA)>>
    [] j.endState = "holdB" -> <<Do("color", j.colorB)>>
    [] j.endState = "off"   -> <<Do("power", 0)>>

RunFlash(j) ==
  <<Do("power", 1), Do("brightness", j.brightness)>> \o Blink(j) \o EndPlan(j)

RunSolid(j) ==
  <<Do("power", 1), Do("brightness", j.brightness), Do("color", j.colorA)>>

RunOn(j) == <<Do("power", 1), Do("brightness", j.brightness)>>

\* Power on, let the lamp settle, then the scene.
ApplyAfterScene(s) == <<Do("power", 1), Do("settle", 0), Do("scene", s)>>

TryReported(op, v) == IF v = Unreported THEN <<>> ELSE <<Try(op, v)>>

\* Mutant of Restore: the lamp is not powered back on first.
RestoreWithoutPower(r) ==
  IF r.power = 0
    THEN <<Try("power", 0)>>
    ELSE TryReported("brightness", r.brightness)
         \o (IF r.scene # Unreported
               THEN <<Try("scene", r.scene)>>
               ELSE TryReported("color", r.color))

\* A lamp that was off is only switched off again; a scene wins over a colour.
Restore(r) ==
  IF r.power = 0
    THEN <<Try("power", 0)>>
    ELSE TryReported("power", r.power) \o TryReported("brightness", r.brightness)
         \o (IF r.scene # Unreported
               THEN <<Try("scene", r.scene)>>
               ELSE TryReported("color", r.color))

EffectPlan(j) ==
  CASE j.effect = Flash   -> RunFlash(j)
    [] j.effect = "solid" -> RunSolid(j)
    [] j.effect = "on"    -> RunOn(j)
    [] j.effect = "off"   -> <<Do("power", 0)>>

\* Captured state is read and restored only when no after-effect scene is
\* configured for the entry.
Captures(j, e) == ~Manual(j) /\ j.restore /\ j.scenes[e] = 0

\* A failed capture is a report of nothing: the effect runs with no restore.
Execute(j, e, r) ==
  IF Manual(j)
    THEN <<Do(j.op, j.v)>>
    ELSE EffectPlan(j) \o (IF j.scenes[e] # 0
                             THEN ApplyAfterScene(j.scenes[e])
                             ELSE Restore(r))

-----------------------------------------------------------------------------
(* The lamp. *)

\* A lamp switched on from off takes a moment to wake.
Wakes(cmd, lamp) == cmd.op = "power" /\ cmd.v = 1 /\ lamp.power = 0

\* A scene sent to a lamp that is off or still waking is swallowed.
Swallowed(cmd, lamp, waking) == cmd.op = "scene" /\ (waking \/ lamp.power = 0)

\* Colour and brightness do not wake a lamp; a colour ends the scene.
Apply(cmd, lamp, waking) ==
  CASE cmd.op = "power"      -> [lamp EXCEPT !.power = IF cmd.v = 1 THEN 1 ELSE 0]
    [] cmd.op = "brightness" -> [lamp EXCEPT !.brightness = cmd.v]
    [] cmd.op = "color"      -> [lamp EXCEPT !.color = cmd.v, !.scene = 0]
    [] cmd.op = "scene"      -> IF Swallowed(cmd, lamp, waking)
                                  THEN lamp ELSE [lamp EXCEPT !.scene = cmd.v]
    [] OTHER                 -> lamp
=============================================================================
