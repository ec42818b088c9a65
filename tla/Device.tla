------------------------------- MODULE Device -------------------------------
(***************************************************************************)
(* device.c: the capture device behind the static gdev, and the V4L2       *)
(* driver it talks to.                                                     *)
(*                                                                         *)
(* gdev is shared, without a lock, by every preview thread and by the main *)
(* thread (TAKE_PHOTO).  Each operator below is one step of the thread     *)
(* that runs the function: between two ioctls, and where gdev.buffers and  *)
(* n_buffers are set one after the other, other threads can interleave.    *)
(* One step are the accesses to gdev around a single ioctl, in particular  *)
(* an iteration of a loop over buffers[], and the whole of device_uninit.  *)
(* The steps that report failures and return early take their outcome as a *)
(* parameter; the caller decides where control goes next.                  *)
(***************************************************************************)
EXTENDS Process

CONSTANTS
  NoFd,      \* -1, what device_close leaves in gdev.fd
  Stdin,     \* 0, what the static gdev.fd starts with
  Granted    \* the buffer counts the driver may answer VIDIOC_REQBUFS with

ASSUME DeviceAssumption ==
  /\ {NoFd, Stdin, NULL} \cap Thread = {}
  /\ NoFd # Stdin
  /\ Granted \subseteq Nat \ {0}

VARIABLES
  gdev,      \* the static device_t
  camera,    \* the driver: which descriptor owns its buffer queue, how many
             \* buffers it granted, which of them are queued, streaming or not
  maps       \* indices of each thread's buffers[] that hold a live mmap

deviceVars == <<gdev, camera, maps>>

NoOwner == [owner |-> NULL, count |-> 0, queued |-> {}, streaming |-> FALSE]

DeviceTypeOK ==
  /\ gdev \in [fd: Thread \cup {NoFd, Stdin}, n_buffers: Nat,
               buffers: Thread \cup {NULL}, frame: Thread \cup {NULL},
               length: {0, 1}]
  /\ camera \in [owner: Thread \cup {NULL}, count: Nat,
                 queued: SUBSET Nat, streaming: BOOLEAN]
  /\ maps \in [Thread -> SUBSET Nat]

Asked == 4   \* req.count as init_mmap sets it

(* gdev is a zeroed static: its fd is 0, not -1.  length is 0 or, after    *)
(* init_mmap, the size of one frame, written 1.                            *)
DeviceInit ==
  /\ gdev = [fd |-> Stdin, n_buffers |-> 0, buffers |-> NULL,
             frame |-> NULL, length |-> 0]
  /\ camera = NoOwner
  /\ maps = [t \in Thread |-> {}]

FdOpen == gdev.fd \in Thread /\ Live("fd", gdev.fd)

(* gdev.fd is the descriptor the driver lets work on its buffer queue. *)
Owns == FdOpen /\ camera.owner = gdev.fd

Indices(n) == 0 .. n - 1

(***************************************************************************)
(* When the driver lets a call through.  A new format needs a queue that   *)
(* no descriptor has allocated; buffers are refused with EBUSY while       *)
(* another descriptor owns the queue, or while it streams or is mapped.    *)
(***************************************************************************)
CanConfigure  == FdOpen /\ camera.owner = NULL
CanRequest    == \/ CanConfigure
                 \/ Owns /\ ~camera.streaming /\ \A t \in Thread : maps[t] = {}
CanMap        == Owns /\ gdev.n_buffers < camera.count
CanEnqueue(i) == Owns /\ i \in Indices(camera.count) \ camera.queued
CanDequeue    == Owns /\ camera.streaming /\ camera.queued # {}

-----------------------------------------------------------------------------
(***************************************************************************)
(* Opening and configuring.                                                *)
(***************************************************************************)

(* Mutated: a descriptor that is still open is kept. *)
device_open_keeping(t) ==
  /\ gdev' = IF FdOpen THEN gdev ELSE [gdev EXCEPT !.fd = t]
  /\ held' = IF FdOpen THEN held ELSE held \cup {<<"fd", t>>}
  /\ UNCHANGED <<camera, maps>>

device_open(t) ==
  /\ gdev' = [gdev EXCEPT !.fd = t]
  /\ held' = held \cup {<<"fd", t>>}
  /\ UNCHANGED <<camera, maps>>

(* open() fails: gdev.fd is -1.  stat() fails before it, or names no       *)
(* character device: gdev.fd keeps its old value.  An earlier descriptor   *)
(* is never closed.                                                        *)
device_open_fails(found) ==
  /\ gdev' = IF found THEN [gdev EXCEPT !.fd = NoFd] ELSE gdev
  /\ UNCHANGED <<camera, maps, held>>

(* device_init down to VIDIOC_S_FMT. *)
device_init(ok) ==
  /\ ok => CanConfigure
  /\ gdev' = [gdev EXCEPT !.n_buffers = 0]
  /\ UNCHANGED <<camera, maps, held>>

(* init_mmap, VIDIOC_REQBUFS and calloc; count is what req.count holds     *)
(* after the call.  After "error" (any errno but EINVAL) the code goes on  *)
(* with the Asked buffers it wanted; without room calloc's NULL stays in   *)
(* gdev.buffers.                                                           *)
request_buffers(t, answer, count, room) ==
  /\ IF answer = "granted"
       THEN /\ CanRequest /\ count \in Granted
            /\ camera' = [NoOwner EXCEPT !.owner = gdev.fd, !.count = count]
       ELSE count = Asked /\ UNCHANGED camera
  /\ IF answer = "einval" \/ count < 2
       THEN UNCHANGED <<gdev, held>>
       ELSE IF room
         THEN /\ gdev' = [gdev EXCEPT !.buffers = t]
              /\ held' = held \cup {<<"buffers", t>>}
         ELSE gdev' = [gdev EXCEPT !.buffers = NULL] /\ UNCHANGED held
  /\ UNCHANGED maps

(* The start of init_mmap's loop: until now n_buffers may have counted the *)
(* elements of another array.                                              *)
reset_count ==
  /\ gdev' = [gdev EXCEPT !.n_buffers = 0]
  /\ UNCHANGED <<camera, maps, held>>

(* One iteration of init_mmap's loop, whose variable is gdev.n_buffers     *)
(* itself: VIDIOC_QUERYBUF, mmap, ++n_buffers, up to the local req.count.  *)
map_buffer(count) ==
  /\ CanMap
  /\ gdev.n_buffers < count
  /\ gdev' = [gdev EXCEPT !.n_buffers = @ + 1]
  /\ maps' = IF Live("buffers", gdev.buffers)
               THEN [maps EXCEPT ![gdev.buffers] = @ \cup {gdev.n_buffers}]
               ELSE maps
  /\ Raise(If(gdev.buffers = NULL, "null_deref")
           \cup If(Dangling("buffers", gdev.buffers), "use_after_free"))
  /\ UNCHANGED <<camera, held>>

(* Mutated: the copy is only allocated if its pointer is NULL. *)
alloc_frame_once(t, count, ok) ==
  /\ gdev.n_buffers >= count
  /\ LET fresh == gdev.frame = NULL /\ ok
     IN  /\ gdev' = [gdev EXCEPT !.frame = IF fresh THEN t ELSE @,
                                 !.length = IF ok THEN 1 ELSE @]
         /\ held' = held \cup (IF fresh THEN {<<"frame", t>>} ELSE {})
  /\ UNCHANGED <<camera, maps>>

(* The end of init_mmap: the copy of the current frame that TAKE_PHOTO     *)
(* reads.  length is set only when malloc succeeds.                        *)
alloc_frame(t, count, ok) ==
  /\ gdev.n_buffers >= count
  /\ IF ok
       THEN /\ gdev' = [gdev EXCEPT !.frame = t, !.length = 1]
            /\ held' = held \cup {<<"frame", t>>}
       ELSE /\ gdev' = [gdev EXCEPT !.frame = NULL]
            /\ UNCHANGED held
  /\ UNCHANGED <<camera, maps>>

-----------------------------------------------------------------------------
(***************************************************************************)
(* Capturing.                                                              *)
(***************************************************************************)

(* capture_start once it has queued every buffer: VIDIOC_STREAMON.         *)
stream_on ==
  /\ Owns
  /\ camera' = [camera EXCEPT !.streaming = TRUE]
  /\ UNCHANGED <<gdev, maps, held>>

(* Mutated: STREAMOFF is forgotten. *)
capture_stop_without_streamoff == UNCHANGED <<deviceVars, held>>

capture_stop ==
  /\ camera' = IF Owns THEN [camera EXCEPT !.queued = {}, !.streaming = FALSE]
                       ELSE camera
  /\ UNCHANGED <<gdev, maps, held>>

(* VIDIOC_DQBUF hands out one filled buffer. *)
dequeue(i) ==
  /\ CanDequeue
  /\ i \in camera.queued
  /\ camera' = [camera EXCEPT !.queued = @ \ {i}]
  /\ UNCHANGED <<gdev, maps, held>>

(* The assertion of read_frame on the index, then its memcpy into          *)
(* current_frame, which copies nothing while length is 0.                  *)
copy_frame(i) ==
  LET source == gdev.buffers
      copies == gdev.length > 0
  IN  /\ Raise(IF i >= gdev.n_buffers
                 THEN {"assert"}
                 ELSE If(source = NULL \/ (copies /\ gdev.frame = NULL), "null_deref")
                      \cup If(\/ Dangling("buffers", source)
                              \/ copies /\ Dangling("frame", gdev.frame),
                              "use_after_free")
                      \cup If(copies /\ Live("buffers", source) /\ i \notin maps[source],
                              "unmapped"))
      /\ UNCHANGED <<deviceVars, held>>

(* Mutated: the dequeued buffer is not given back. *)
enqueue_nothing(i) == CanEnqueue(i) /\ UNCHANGED <<deviceVars, held>>

(* VIDIOC_QBUF, in capture_start and at the end of read_frame. *)
enqueue(i) ==
  /\ CanEnqueue(i)
  /\ camera' = [camera EXCEPT !.queued = @ \cup {i}]
  /\ UNCHANGED <<gdev, maps, held>>

-----------------------------------------------------------------------------
(***************************************************************************)
(* Releasing.                                                              *)
(***************************************************************************)

(* The driver drops the queue once neither a descriptor nor a mapping      *)
(* keeps the file of its owner open.                                       *)
Settle(resources, mappings) ==
  camera' = IF /\ <<"fd", camera.owner>> \notin resources
               /\ \A t \in Thread : mappings[t] = {}
              THEN NoOwner ELSE camera

(* Elements of buffers[] below n_buffers that calloc left NULL, because    *)
(* another thread has not yet reset n_buffers: munmap fails on the first   *)
(* of them, and device_uninit returns.                                     *)
Unmappable == IF Live("buffers", gdev.buffers)
                THEN Indices(gdev.n_buffers) \ maps[gdev.buffers] ELSE {}

munmap_buffers ==
  maps' = IF Live("buffers", gdev.buffers)
            THEN [maps EXCEPT ![gdev.buffers] =
                    @ \ {i \in Indices(gdev.n_buffers) : \A j \in Unmappable : i < j}]
            ELSE maps

(* Mutated: the copy of the current frame is not freed. *)
device_uninit_without_frame ==
  /\ munmap_buffers
  /\ Raise(If(gdev.n_buffers > 0 /\ ~Live("buffers", gdev.buffers), "use_after_free")
           \cup If(Dangling("buffers", gdev.buffers), "double_free"))
  /\ gdev' = [gdev EXCEPT !.length = 0]
  /\ held' = held \ {<<"buffers", gdev.buffers>>}
  /\ Settle(held, maps')

(* munmap and free: n_buffers, frame and buffers keep their values. *)
device_uninit ==
  /\ munmap_buffers
  /\ IF Unmappable # {}
       THEN UNCHANGED <<faults, gdev, held>>
       ELSE /\ Raise(If(gdev.n_buffers > 0 /\ ~Live("buffers", gdev.buffers),
                        "use_after_free")
                     \cup If(\/ Dangling("frame", gdev.frame)
                             \/ Dangling("buffers", gdev.buffers), "double_free"))
            /\ gdev' = [gdev EXCEPT !.length = 0]
            /\ held' = held \ {<<"frame", gdev.frame>>, <<"buffers", gdev.buffers>>}
  /\ Settle(held, maps')

(* Mutated: gdev.fd is reset to NULL. *)
device_close_to_null ==
  /\ held' = held \ {<<"fd", gdev.fd>>}
  /\ Settle(held', maps)
  /\ gdev' = [gdev EXCEPT !.fd = NULL]
  /\ UNCHANGED maps

device_close ==
  /\ held' = held \ {<<"fd", gdev.fd>>}
  /\ Settle(held', maps)
  /\ gdev' = [gdev EXCEPT !.fd = NoFd]
  /\ UNCHANGED maps

=============================================================================
