------------------------------ MODULE Session ------------------------------
(***************************************************************************)
(* What START_PREVIEW and STOP_PREVIEW promise to the master, apart from   *)
(* the frames: one session at a time; a session that is started comes to   *)
(* stream; a session that is stopped gives the camera back, its stream     *)
(* turned off first, so that the next one can be started.                  *)
(***************************************************************************)
VARIABLES
  phase,     \* of the session: "off", "starting", "on" or "stopping"
  device     \* the camera: "free", "reserved" or "streaming"

vars == <<phase, device>>

Init == phase = "off" /\ device = "free"

Start == /\ phase = "off" /\ device = "free"
         /\ phase' = "starting"
         /\ UNCHANGED device

Reserve == /\ phase = "starting" /\ device = "free"
           /\ device' = "reserved"
           /\ UNCHANGED phase

StreamOn == /\ phase = "starting" /\ device = "reserved"
            /\ phase' = "on"
            /\ device' = "streaming"

Stop == /\ phase = "on"
        /\ phase' = "stopping"
        /\ UNCHANGED device

StreamOff == /\ phase = "stopping" /\ device = "streaming"
             /\ device' = "reserved"
             /\ UNCHANGED phase

Release == /\ phase = "stopping" /\ device = "reserved"
           /\ phase' = "off"
           /\ device' = "free"

Next == Start \/ Reserve \/ StreamOn \/ Stop \/ StreamOff \/ Release

(* Starting and stopping finish by themselves; START and STOP come from the master. *)
Spec ==
  /\ Init /\ [][Next]_vars
  /\ WF_vars(Reserve \/ StreamOn \/ StreamOff \/ Release)

=============================================================================
