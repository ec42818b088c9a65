------------------------------ MODULE Process ------------------------------
(***************************************************************************)
(* What the slave process owns and how it can go wrong.                    *)
(*                                                                         *)
(* A resource is named after the preview thread that acquired it: each     *)
(* thread opens the device, calls calloc, malloc, x264_encoder_open and    *)
(* x264_picture_alloc at most once, and holds at most one encoded frame.   *)
(* A pointer variable of the C code is therefore a thread or NULL, and it  *)
(* dangles when the resource it names is no longer held.  free() does not  *)
(* reset the pointers it is given, which is what makes them dangle.        *)
(*                                                                         *)
(* Undefined behaviour and a failed assertion are recorded in faults, and  *)
(* end the behaviour: SIGSEGV and abort() end the process, and after a use *)
(* or a free of freed memory none of the variables describes it any more,  *)
(* so that nothing is claimed about what follows.                          *)
(***************************************************************************)
EXTENDS Integers, FiniteSets

CONSTANTS
  Thread,   \* the preview threads the process can create before EAGAIN
  NULL      \* the null pointer

ASSUME ThreadAssumption == NULL \notin Thread

VARIABLES
  held,     \* resources the process holds
  faults    \* kinds of undefined behaviour and failed assertions met

processVars == <<held, faults>>

Kind == {"fd", "buffers", "frame", "encoder", "picture", "pframe"}

Resource == Kind \X Thread

FaultKind == {"assert", "null_deref", "unmapped", "use_after_free", "double_free",
              "bad_fd", "bad_thread", "clean_unallocated", "overflow"}

ProcessTypeOK ==
  /\ held \subseteq Resource
  /\ faults \subseteq FaultKind

ProcessInit ==
  /\ held = {}
  /\ faults = {}

Live(kind, p)     == <<kind, p>> \in held
Dangling(kind, p) == p # NULL /\ ~Live(kind, p)

If(condition, kind) == IF condition THEN {kind} ELSE {}

running == faults = {}

(* The outcome of a step that commits the faults F (none when F is empty). *)
Raise(F) == faults' = faults \cup F

=============================================================================
