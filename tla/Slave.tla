-------------------------------- MODULE Slave --------------------------------
(***************************************************************************)
(* The running slave: the message loop of module MsgLoop in the main       *)
(* thread, the preview threads of module Preview that its commands start   *)
(* and stop, and the master at the other end of the two sockets.           *)
(*                                                                         *)
(* The two modules meet in msg_do, which executes the command that a recv  *)
(* has left in the message, and in msg_sendto, by which a preview thread   *)
(* sends its frames on socket 0, where the main thread sends its answers.  *)
(*                                                                         *)
(* The calls of the preview do not fail here.  A behaviour ends with the   *)
(* first misuse: what follows one is the matter of module Preview.         *)
(*                                                                         *)
(* patient, asked, wire and torn have no counterpart in the code.          *)
(***************************************************************************)
EXTENDS Integers, Sequences

CONSTANTS
  Thread, NULL, NoFd, Stdin, NoThread, Granted,   \* see module Preview
  Sent, Misread, MaxSent,                         \* see module MsgLoop
  Tolerated,   \* the breaches of module MsgLoop that may occur
  Master       \* the masters that may be at the other end: TRUE for a patient
               \* one, who waits for a preview command to have its effect

VARIABLES
  held, faults, gdev, camera, maps, g_h264,                  \* of Preview,
  where, cancelled, req, buf, pid, shot, misuse,
  inbox, refused, at, ready, msg, fd, blocks, recording,     \* of MsgLoop
  created, owes, sent, served, answered, trouble,
  patient, \* the master is
  asked,   \* "on" or "off": the preview command the master has sent last
  wire,    \* the thread whose frame header was sent last on socket 0, or NULL
  torn     \* a frame was sent behind something else than its header

previewVars == <<held, faults, gdev, camera, maps, g_h264, where, cancelled, req,
                 buf, pid, shot, misuse>>
loopVars    == <<inbox, refused, at, ready, msg, fd, blocks, recording, created,
                 owes, sent, served, answered, trouble>>
wireVars    == <<wire, torn>>
vars == <<previewVars, loopVars, patient, asked, wireVars>>

(* The two modules, with their theorems. *)
P == INSTANCE SessionProofs WITH pc <- where, breach <- misuse,
                                 Allowed <- {"overlap", "early", "nothread", "photo"}
L == INSTANCE CommandsProofs WITH pc <- at, breach <- trouble, Allowed <- Tolerated

ASSUME SlaveAssumption ==
  /\ {NULL, NoFd, Stdin, NoThread} \cap Thread = {} /\ NoFd # Stdin
  /\ Granted \subseteq Nat \ {0}
  /\ Sent \cup Misread \subseteq L!Code /\ Tolerated \subseteq L!Breach /\ MaxSent \in Nat
  /\ Master \subseteq BOOLEAN

TypeOK ==
  /\ P!TypeOK /\ L!TypeOK
  /\ patient \in BOOLEAN /\ asked \in {"on", "off"}
  /\ wire \in Thread \cup {NULL} /\ torn \in BOOLEAN

Init ==
  /\ P!Init /\ L!Init
  /\ patient \in Master /\ asked = "off"
  /\ wire = NULL /\ torn = FALSE

-----------------------------------------------------------------------------
(***************************************************************************)
(* The master and the network.                                             *)
(***************************************************************************)

PreviewCode == {"START_PREVIEW", "STOP_PREVIEW", "TAKE_PHOTO"}

Pending(s) == \E i \in DOMAIN inbox[s] : inbox[s][i].code \in PreviewCode

(* No preview command is under way or still has something to do.  No       *)
(* answer tells a master that the cleanup() of a stopped preview is done:  *)
(* a patient one knows it by other means, for instance from the time that  *)
(* has passed.                                                             *)
Settled ==
  /\ at = "select" /\ shot = NULL
  /\ \A s \in L!Sock : ~Pending(s)
  /\ \A t \in Thread : P!Alive(t) => where[t] \in P!Loop /\ t \notin cancelled

(* START and STOP alternate, photos are taken in between. *)
InTurn(code) ==
  /\ code = "START_PREVIEW" => asked = "off"
  /\ code \in {"STOP_PREVIEW", "TAKE_PHOTO"} => asked = "on"
  /\ code \in PreviewCode /\ patient => Settled

MasterCommand(s, code) ==
  /\ InTurn(code)
  /\ L!Command(s, code)
  /\ asked' = CASE code = "START_PREVIEW" -> "on"
                [] code = "STOP_PREVIEW"  -> "off"
                [] OTHER                  -> asked

MasterPayload == L!SendPayload /\ UNCHANGED asked

Environment ==
  /\ \/ \E s \in L!Sock, code \in Sent : MasterCommand(s, code)
     \/ MasterPayload
     \/ \E s \in L!Sock : L!Refuse(s) /\ UNCHANGED asked
  /\ UNCHANGED <<previewVars, wireVars>>

-----------------------------------------------------------------------------
(***************************************************************************)
(* The main thread.                                                        *)
(***************************************************************************)

Executes(code) == served' # served /\ msg'.code = code

(* msg_do calls the function of the command that was received. *)
Command ==
  \/ Executes("START_PREVIEW") /\ P!do_preview_start
  \/ Executes("STOP_PREVIEW")  /\ P!do_preview_stop
  \/ Executes("TAKE_PHOTO")    /\ P!do_takephoto
  \/ UNCHANGED previewVars /\ \A code \in PreviewCode : ~Executes(code)

(* What the main thread sends on socket 0 goes between the frames. *)
Answers == at \in {"header", "payload"} /\ fd = 0 /\ 0 \notin refused

Main ==
  /\ P!MainIdle
  /\ L!Main
  /\ Command
  /\ wire' = IF Answers THEN NULL ELSE wire
  /\ UNCHANGED <<asked, torn>>

(* The main thread is not back from do_takephoto before this is done. *)
Photo == P!process_photo /\ UNCHANGED <<loopVars, asked, wireVars>>

-----------------------------------------------------------------------------
(***************************************************************************)
(* The preview threads.                                                    *)
(***************************************************************************)

(* A send fails with the pending error of socket 0, or for a reason of its *)
(* own: a frame may be too long for a datagram.                            *)
NotSent == L!SendFrame \/ (0 \notin refused /\ UNCHANGED loopVars)
IsSent  == 0 \notin refused /\ UNCHANGED loopVars

SendHeader(t) ==
  /\ P!SendHeader(t)
  /\ \/ where'[t] = "send_payload" /\ IsSent /\ wire' = t
     \/ where'[t] # "send_payload" /\ NotSent /\ UNCHANGED wire
  /\ UNCHANGED torn

SendPayload(t) ==
  /\ P!SendPayload(t)
  /\ \/ IsSent /\ torn' = (torn \/ wire # t) /\ wire' = NULL
     \/ NotSent /\ UNCHANGED wireVars

Sends(t) == where[t] \in {"send_header", "send_payload"} /\ t \notin cancelled

Step(t) ==
  /\ \/ Sends(t) /\ (SendHeader(t) \/ SendPayload(t))
     \/ ~Sends(t) /\ P!Step(t) /\ UNCHANGED <<loopVars, wireVars>>
  /\ UNCHANGED asked

-----------------------------------------------------------------------------
Within(A) ==
  /\ misuse = {}
  /\ A
  /\ misuse' \subseteq P!Misuse /\ trouble' \subseteq Tolerated
  /\ UNCHANGED patient

Next == Within(Main \/ Photo \/ Environment \/ \E t \in Thread : Step(t))

Spec == Init /\ [][Next]_vars

(* As in the two modules: the threads are scheduled, and the master sends  *)
(* the payload whose header it has sent.                                   *)
FairSpec ==
  /\ Spec
  /\ WF_vars(Within(Main \/ Photo))
  /\ WF_vars(Within(MasterPayload /\ UNCHANGED <<previewVars, wireVars>>))
  /\ \A t \in Thread : WF_vars(Within(Step(t)))

-----------------------------------------------------------------------------
(***************************************************************************)
(* Properties.                                                             *)
(***************************************************************************)

(* What it takes in the network, besides a patient master, to misuse the   *)
(* preview: a lost START or STOP makes the master and the slave disagree;  *)
(* an error on socket 1 in the round of a START on socket 0 executes it    *)
(* twice.  Nothing makes a patient master's STOP come too early.           *)
Causes(m) ==
  CASE m = "overlap"  -> {{"lost"}, {"refused", "both"}}
    [] m = "nothread" -> {{"lost"}}
    [] m = "photo"    -> {{"lost"}}
    [] m = "early"    -> {}

(* Between a patient master and a network without errors the whole slave   *)
(* never misuses its preview, SETTINGs and their payloads in between       *)
(* included, so that no fault of module Preview occurs (Faultless in       *)
(* SlaveProofs); with errors, only those above, unless a payload was       *)
(* mistaken.                                                               *)
MisuseCause ==
  patient /\ trouble \cap L!Garbling = {} =>
    \A m \in misuse : \E cause \in Causes(m) : cause \subseteq trouble

(* Lets a command overtake an earlier one.  Two of these are the slave's:  *)
(* when both sockets are ready in a round, their commands are executed in  *)
(* the order of the sockets; and when a preview thread's send takes the    *)
(* error that made select report socket 0, the recv there takes what has   *)
(* arrived since.                                                          *)
Overtaking == {"reordered", "both", "refused"}

(* Once everything has settled the preview runs if and only if the master  *)
(* has asked for it, unless a datagram was lost or mistaken or a command   *)
(* misused; or, if the master has not waited, one command has overtaken    *)
(* another.                                                                *)
Agrees ==
  /\ Settled /\ misuse = {} /\ trouble \cap ({"lost"} \cup L!Garbling) = {}
  /\ patient \/ trouble \cap Overtaking = {}
  => (asked = "on" <=> \E t \in Thread : where[t] \in P!Loop)

(* Even if the master does not wait, a START is executed while a preview   *)
(* is alive only if every live preview was told to stop: commands are      *)
(* executed in the order they were sent, on whichever sockets, while none  *)
(* is lost, mistaken or overtaken.                                         *)
StartsInTurn ==
  [][\A t \in Thread :
       where[t] = "new" /\ where'[t] # "new" =>
         \/ {u \in Thread : P!Alive(u)} \subseteq cancelled
         \/ trouble \cap (Overtaking \cup {"lost"} \cup L!Garbling) # {}]_vars

(* The payload of every frame comes right behind its header while no       *)
(* command or error arrives on socket 0: the answers to commands on socket *)
(* 1 stay out of the stream of frames.  The two sends are not one, and     *)
(* nothing else keeps an answer on socket 0 from between them.  A command   *)
(* that finds no memory for its payload is answered without being served.  *)
FramesWhole == torn => served[0] > 0 \/ "memory" \in trouble

(* The STOP of a patient master gives the camera back, in spite of the     *)
(* other commands and of what they make the main thread wait for.          *)
StopReachesCamera == patient /\ asked = "off" ~> camera.owner = NULL

=============================================================================
