------------------------------ MODULE Overlap ------------------------------
(***************************************************************************)
(* What is left of overlapping previews once they have ended.              *)
(*                                                                         *)
(* Preview with a history variable: the last preview, if its START came    *)
(* after all earlier ones had ended and given the camera back, whatever    *)
(* they did to each other before.  The variable has no counterpart in the  *)
(* code.                                                                   *)
(***************************************************************************)
EXTENDS Preview

CONSTANT MaxAlive   \* bound on previews that are alive at the same time

ASSUME OverlapAssumption == MaxAlive \in Nat

VARIABLE fresh      \* the preview that found the camera free, or NULL

(* STOP comes to thread t while it is still setting up. *)
ToldEarly(t) == pc[t] \in SetUp /\ t \in cancelled' \ cancelled

Started(t) == pc[t] = "new" /\ pc'[t] # "new"

Track ==
  \/ \E t \in Thread :
       /\ Started(t)
       /\ fresh' = IF NobodyRuns /\ camera.owner = NULL THEN t ELSE NULL
  \/ /\ ~ \E t \in Thread : Started(t)
     /\ fresh' = IF \E t \in Thread : t = fresh /\ ToldEarly(t) THEN NULL ELSE fresh

OverlapInit == Init /\ fresh = NULL

OverlapNext ==
  Next /\ Track /\ Cardinality({t \in Thread : Alive(t)'}) <= MaxAlive

OverlapSpec == OverlapInit /\ [][OverlapNext]_<<vars, fresh>>

-----------------------------------------------------------------------------
(***************************************************************************)
(* Properties.                                                             *)
(***************************************************************************)

(* Only "overlap" and "early" are in the history. *)
OnlyMisused == breach \subseteq {"overlap", "early"}

(* Overlapping previews do lasting harm only by keeping the camera.  If    *)
(* they came to an end and the camera is free, their stale pointers, leaked*)
(* blocks and descriptors and the encoder they left in g_h264 do not hurt  *)
(* the preview that is started next: up to the next START it commits no    *)
(* fault in its loop nor in its cleanup, and a STOP makes it release all   *)
(* that is its own.                                                        *)
FreshIsSafe ==
  fresh # NULL /\ OnlyMisused =>
    /\ running
    /\ pc[fresh] = "cancelled" =>
         /\ camera = NoOwner
         /\ \A kind \in Kind \ {"pframe"} : ~Live(kind, fresh)
=============================================================================
