------------------------------ MODULE AtomicRuns ------------------------------
(***************************************************************************)
(* What the effects engine promises, seen from the room: every accepted run *)
(* changes what its lamp shows in one step, runs on a lamp never overlap,   *)
(* and each run gets one verdict.  A run whose verdict is "ok" leaves the   *)
(* lamp as the job says.  Two kinds of ok promise less: "best effort" is a  *)
(* run whose restore was incomplete (State failed or reported another look, *)
(* or a restoring write was logged and skipped), which the code documents;  *)
(* "unheard" is one of whose writes the transport said it was sent and the  *)
(* lamp never heard, as UDP may.  A failed run promises nothing about its   *)
(* own lamp either.  No run touches another lamp.                           *)
(***************************************************************************)
EXTENDS LampEffects

CONSTANTS Call,
          RunJobs,     \* jobs that may be accepted
          StartLamps   \* what a lamp may show at start

VARIABLES shown,    \* shown[d]: what lamp d shows between runs
          work,     \* work[c]: the job accepted for call c, or NoJob
          verdict   \* verdict[<<c, e>>]: what became of c's run for entry e

runVars == <<shown, work, verdict>>

NoJob == [effect |-> "none"]
Verdict == {"none", "ok", "ok, best effort", "ok, unheard", "failed"}

\* The lamp looks the same to somebody in the room.
SameLook(a, b) ==
  /\ a.power = b.power
  /\ a.power = 1 => /\ a.brightness = b.brightness
                    /\ a.scene = b.scene
                    /\ a.scene = 0 => a.color = b.color

Glows(lamp, color, brightness) ==
  lamp = [power |-> 1, brightness |-> brightness, color |-> color, scene |-> 0]

\* The look an effect ends in when nothing is put back.
EffectLook(j, lamp) ==
  CASE j.effect = "off" \/ (j.effect = Flash /\ j.endState = "off") -> lamp.power = 0
    [] j.effect = "on" -> lamp.power = 1 /\ lamp.brightness = j.brightness
    [] j.effect = Flash /\ j.endState = "holdB" -> Glows(lamp, j.colorB, j.brightness)
    [] OTHER -> Glows(lamp, j.colorA, j.brightness)

\* What an ok verdict promises: the assigned scene playing, or the lamp put
\* back how it was, or the effect's own end.  A manual scene may be swallowed.
Delivered(j, e, before, after) ==
  CASE Manual(j) -> after \in {Apply(Do(j.op, j.v), before, w) : w \in BOOLEAN}
    [] ~Manual(j) /\ j.scenes[e] # 0 -> after.power = 1 /\ after.scene = j.scenes[e]
    [] ~Manual(j) /\ j.scenes[e] = 0 /\ j.restore -> SameLook(before, after)
    [] OTHER -> EffectLook(j, after)

AtomicInit ==
  /\ shown \in [Device -> StartLamps]
  /\ work = [c \in Call |-> NoJob]
  /\ verdict = [w \in Call \X Entry |-> "none"]

Accept(c, j) ==
  /\ work[c] = NoJob
  /\ work' = [work EXCEPT ![c] = j]
  /\ UNCHANGED <<shown, verdict>>

Pending(c, e) == work[c] # NoJob /\ e \in work[c].devices /\ verdict[<<c, e>>] = "none"

Run(c, e, look, v) ==
  /\ Pending(c, e)
  /\ v = "ok" => Delivered(work[c], e, shown[e[1]], look)
  /\ v = "ok, best effort" => Captures(work[c], e)
  /\ shown' = [shown EXCEPT ![e[1]] = look]
  /\ verdict' = [verdict EXCEPT ![<<c, e>>] = v]
  /\ UNCHANGED work

AtomicNext ==
  \/ \E c \in Call, j \in RunJobs : Accept(c, j)
  \/ \E c \in Call, e \in Entry, v \in Verdict \ {"none"} :
       Run(c, e, shown'[e[1]], v)

AtomicSpec == AtomicInit /\ [][AtomicNext]_runVars
=============================================================================
