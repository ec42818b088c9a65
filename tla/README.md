# Formal model of net-cvr-slave

net-cvr-slave captures video from a V4L2 camera, encodes it with x264 and sends
the frames in UDP datagrams to a master, which commands it over two UDP
sockets. This directory holds TLA+ modules translated from the C code, TLC
configurations that check them, and TLAPS proofs of what they check, for all
values of the constants.

Contents: [inventory](#inventory) · [modules](#modules-and-the-code) ·
[runs](#runs-and-what-they-show) · [fairness](#fairness) · [proofs](#proofs) ·
[limits](#what-is-not-modelled) · [plan](#plan)

## Inventory

| component | source | state | operations |
|---|---|---|---|
| process start | `main.c` | – | connect, then loop for ever; `msg_conn_destroy` is never reached |
| message loop | `msg.c`, `msg.h` | `msg_fd[2]`; locals `fd`, `rset`, `msg` of a round | `msg_conn_create`, `msg_wait`, `msg_do`, `msg_done`, `msg_recvfrom`, `msg_sendto` |
| preview | `do_preview.c` | `pid` | START_PREVIEW, STOP_PREVIEW, thread `preview`, handler `cleanup` |
| capture device | `device.c` | `gdev`: fd, buffers[], n_buffers, current_frame; in the kernel, the driver's buffer queue | `device_open/init/uninit/close`, `capture_start/loop/once/stop` |
| encoder | `h264.c` | `g_h264`: handle, picture, list of NALs | `h264_encode_begin`, `h264_encode`, `h264_encode_end` |
| photo | `do_takephoto.c`, `jpeg.c` | `picid` | TAKE_PHOTO: convert the current frame, write a JPEG file |
| setting | `do_setting.c` | – | SETTING: receive a payload, log it |
| record | `do_record.c` | `enable` | START_RECORD, STOP_RECORD |
| stubs | `do_file.c`, `do_format.c`, `do_playback.c` | – | return at once |

How they interact. The main thread runs the message loop and calls each
command's `do_` function, one at a time. START_PREVIEW creates a preview
thread and returns; STOP_PREVIEW cancels the thread named by `pid` and
returns. From then on the preview thread, the main thread (TAKE_PHOTO reads
`current_frame`) and possibly further preview threads share `gdev` and
`g_h264`. There is no lock and no join anywhere. Frames leave through the
callback `send_frame` on socket 0, which the main thread also answers on.

What is hard, and what makes each part correct:

* *preview + device + encoder* – cancellation at any cancellation point;
  `cleanup()` that works on whatever the globals hold; commands at the wrong
  time; failures that are logged and then ignored; pointers that stay behind
  after `free`. Correct means: no bad use of memory, a STOP gives everything
  back, a stopped preview can be started again, no capture buffer gets lost.
* *message loop* – UDP loses and reorders; `select` reports two sockets at a
  time; a failed `recv` goes unnoticed; SETTING takes a second datagram from
  socket 0 in the middle of a round. Correct means: every command is executed
  once and in order, every round gives an answer and frees its payload, and
  the main thread does not hang.
* *photo, conversions* – the frame may be freed or change under the
  conversion; a name may be taken again; arithmetic at the edges of the pixel
  range and of the frame. Correct means: a photo shows what the camera saw
  after TAKE_PHOTO, stays as it was stored, and every byte ends up where it
  belongs.
* *all together* – a datagram that is lost, repeated or read as something else
  in the message loop becomes an overlapping preview or a preview nobody
  stops; the main thread and the preview thread send on one socket. Correct
  means: the preview runs when the master thinks so, and the datagrams of a
  frame stay together.

The hazards are listed line by line in `PROJECT.json`, each with the
properties that cover it or the reason why none does.

## Modules and the code

```
Process ── Device ─┐            ┌ PreviewMC
       └── H264 ───┴─ Preview ── PreviewProofs ── FailureProofs ── SessionProofs ─┐
                       │ └ implements Session                                     │
                       └── Overlap ── OverlapMC                                   │
                                                                                  ├─ Slave ── SlaveProofs
MsgLoop ── MsgLoopProofs ── CommandsProofs ───────────────────────────────────────┘
   └ implements Commands

Photo ───── PhotoProofs
Convert ─┬─ Conversions ── ConversionsProofs
Yuv2rgb ─┘
```

**Process** – what the process owns (`held`) and how it can go wrong
(`faults`). A resource (descriptor, buffers[], frame, encoder, picture, encoded
frame) is named after the preview thread that acquired it, so that a pointer
variable of the code is a thread or `NULL`, and it dangles when that resource
is no longer held. Undefined behaviour and a failed assertion are recorded
as a fault and end the behaviour; nothing is claimed about what follows.

**Device** – `device.c`, one operator per function. Where other threads can
interleave with the accesses to `gdev`, the function is cut into steps:
`device_init` is `device_init`, `request_buffers`, `reset_count`, `map_buffer`
(one iteration) and `alloc_frame`; `capture_start` is one `enqueue` for each
buffer and `stream_on`; `read_frame` is `dequeue`, `copy_frame` and `enqueue`,
with the encoding between the last two. The variable `camera` and the
operators `Can...` and `Settle` are the driver: one descriptor owns the buffer
queue, a format or buffers are refused with EBUSY meanwhile, and a
mapping keeps the file open after `close`. The buffer that is mapped when an
error is returned is not counted by `n_buffers`, as in the code.

**H264** – `h264.c`, as far as the lifetime of handle, picture, list of NALs
and encoded frame goes. `h264_encode` and the copying of the NALs (`copy_nals`)
are two steps: the list is in `g_h264`, where a second preview may have
replaced it by that of a longer frame, or zeroed it, in between. libx264 is external.

**Preview** – `do_preview.c` and the thread that TAKE_PHOTO shares the
device with. `pc` says where each preview thread is; its labels are named
after the calls of the code:

| labels | code |
|---|---|
| `device_open`, `open_error`, `device_init`, `init_mmap`, `reset_count`, `map_buffers`, `h264_begin`, `capture_start` | `preview()` up to `capture_start()`; the three in the middle are `init_mmap` |
| `select`, `dequeue`, `copy`, `encode`, `copy_nals`, `send_header`, `send_payload`, `pace`, `requeue` | `capture_loop`, `read_frame`, `process_frame`, `h264_encode`, `send_frame` |
| `capture_stop` ... `device_close` | `cleanup()` |
| `cancelled`, `returned` | the thread ended after its cleanup; on its own, without one |

A cancellation request is honoured in `open`, `select` and `send`
(`MustCancel`, `MayCancel`; `open` only if `stat` succeeded) and may be honoured
where logging or `usleep` is reached (`MayCancel`); the thread continues at
`capture_stop`. `copy_frame`, `device_uninit` and `process_photo` are each one
step. `select` on the -1 that a failed `open` or another thread's
`device_close` left in `gdev.fd` is a fault (*bad_fd*): `FD_SET` writes outside
of the set.

`breach` is a history variable: which obligation the environment has broken so
far. *overlap*: START while a preview thread is alive; *early*: STOP before the
preview is capturing; *nothread*: STOP before any START; *photo*: TAKE_PHOTO
while none is capturing; *thread*, *open*, *buffers*, *encoder*, *capture*: the
call of that kind failed although it could have succeeded. (A driver that
answers EBUSY because of what the code left behind is not a breach but a
consequence.) `Allowed` bounds the breaches of a run.

**Session** – what START and STOP promise: sessions one after the other, each
of which reserves the camera, streams, and when stopped turns the stream off
and frees the camera.

**MsgLoop** – `msg.c` with `do_setting.c`, `do_record.c` and the stubs. `Recv`
is one visit of `msg_wait`'s loop: `msg_recvfrom`, whose failure leaves the
header of an earlier visit in place, then `msg_do` with its `malloc`; a SETTING
continues in `do_setting`. `msg_done` is two steps, the header and the payload.
The queues, the pending ICMP error of a socket and the master are external.
START_PREVIEW stands for every command that neither carries a payload nor
touches the message, DELETE_FILE for the stubs whose command carries one. A
payload that is received as a header may read as any code of `Misread`. Its
`breach` names what the master, the network and the heap have done; *toolong*
is a datalen that fits no datagram, so that the answer fails with EMSGSIZE and
the payload stays allocated. `served`,
`answered` and `breach` are history variables.

**Commands** – what the loop promises: the commands of each socket are executed
once each, in order, and no socket starves. The commands of a queue are its
headers; the mapping says which one is the n-th by counting (`Nth`, `Codes`)
and not by recursion, so that it can be reasoned about.

**Slave** – the running program: instances of Preview and MsgLoop joined where
the code joins them. `Main` is a step of the main thread in which the command
that `msg_do` executes is also the preview's action (`Command`); the main
thread does not go on before a photo is taken (`Photo`). `SendHeader` and
`SendPayload` are the two sends of `msg_sendto`, which take a pending error of
socket 0 away and fail with it. `wire` and `torn` record in which order headers,
payloads and answers leave on socket 0. The master alternates START and STOP;
a *patient* one waits until a preview command has had its effect
(`Settled`) before it sends the next one. Calls of the preview do not fail here
and a behaviour ends with the first misuse: what follows is Preview's matter.
Slave instantiates the two modules through their proofs (SessionProofs and
CommandsProofs), so that `SlaveProofs` can use the theorems.
Misuse is Preview's breach (*overlap*, *early*, *nothread*, *photo*), `trouble`
is MsgLoop's.

**Photo** – `do_takephoto.c` and `jpeg.c` against the `memcpy` of `read_frame`.
A line is the unit that is copied and converted at once, and its content is the
number of the frame it is of, so that a torn photo can be told from a
whole one. The file is created, written line by line and finished; an error of
`fopen` returns early, one of a write ends the process through libjpeg's
error handler. `Restart` ends the process anywhere; the files survive.

**Convert** – the loop of `convert()`, a byte of the frame being its offset.
The driver may grant any stride and number of lines, as VIDIOC_S_FMT may.
**Yuv2rgb** – the loop of `yuv2rgb`, its doubles as integers in thousandths;
where the exact value is an integer the double may lie just beside it, and both
truncations are possible. **Conversions** runs one or the other.

**Overlap** – Preview with one history variable, `fresh`: the last preview,
if its START found all earlier ones ended and the camera free. It is what a
property about the time after an overlap needs. `MaxAlive` bounds the previews
that are alive at a time.

**PreviewMC**, **OverlapMC** add the symmetry of threads for the runs without
liveness.

Definitions marked *Mutated* are variants of the definition they precede,
with one plausible bug; no specification uses them. Each property is violated
when one of them takes its original's place (`PROJECT.json`, "mutants").

## Runs and what they show

| run | bounds | states | shows |
|---|---|---|---|
| orderly | 3 threads, 1–3 buffers; early STOP, photo and STOP without a preview, threads and encoders that do not start allowed | 239 000 | `TypeOK`, `FaultCause`, `StopReleasesAll`, `BuffersConserved`, `StopCompletes`, `SessionSteps` |
| session | 3 threads, 2–3 buffers, nothing allowed | 7 000 | `ImplementsSession`: the preview implements Session, fairness included |
| failure | 3 threads, 1–2 buffers; every failure, early STOP, no overlap | 7 000 000 | `FaultCause` under failing calls, `SelfEndKeepsCamera` |
| overlap | 3 threads, 2 of them alive at a time, 2 buffers; overlapping previews, early STOP | 6 700 000 | `FreshIsSafe`, `OverlapEndsCapture`: what an overlap leaves behind |
| assertion | 2 threads, overlap | – | the assertion of `device.c:44` fails (finding) |
| clean | 2 threads, early | – | `x264_picture_clean` of a picture never allocated (finding) |
| conforming | 5 commands on two sockets | 25 000 | `ImplementsCommands` |
| rough | 3 commands and ICMP errors together; all breaches | 2 700 000 | `RecvNeverBlocks`, `RoundsBalance`, `RepeatsWithinRound`, `Drains`, `ServiceSteps`, `TypeOK` |
| patient | 2 threads, 4 commands of 4 kinds, both sockets; a patient master, no errors | 290 000 | `MisuseCause`, `Agrees`, `StopReachesCamera`, `TypeOK` |
| trouble | 2 threads, 4 preview commands and errors; lost, reordered, ICMP errors; patient or not | 2 700 000 | `MisuseCause`, `Agrees`, `StartsInTurn`, `FramesWhole` |
| photo | 3 lines, 3 frames, 2 photos, 2 lives | 10 300 000 | `PhotoCoherent`, `KeepsPhotos`, `TypeOK` |
| conversions | pictures up to 6×6 with every mix of 4 strides and 3 heights; 4 pixels of 4 byte values | 392 000 | `ConvertsI420`, `PlanesFit`, `ReadsInside`, `ColoursRight`, `TypeOK` |

`SessionSteps` is the safety part of the refinement under weaker conditions
than `ImplementsSession`: whatever photos are taken and whether threads and
encoders start or not, the steps of the preview are Session's as long as no
START overlaps, no STOP comes too early and no call on the device fails.

`ServiceSteps` is the same for the message loop, under weaker conditions than
`ImplementsCommands`: rounds may find both sockets ready, answers may be too
long, and commands without a payload may be lost, between a SETTING and its
payload for instance; still every command received is executed once and in the
order of its socket. Only what tears a command and its payload apart (breach
*severed*: one of the two datagrams is lost) is excluded.

`FaultCause` is the centre of the preview's safety. For each kind of fault it
lists the minimal sets of breaches that can lead to it: an assertion failure,
for instance, takes an overlap, or a capture loop that ended on its own *and*
a device file that is gone when the next preview starts; a frame read
through a mapping that is not there and one copied over the end of its block
each take an overlap; `FD_SET` of -1 takes an overlap or an `open` that fails.
All other combinations are excluded: the runs search them all without an
overlap, the theorem with one, too.

`SelfEndKeepsCamera` states a weakness exactly: when a capture loop ends on an
error or its two seconds' timeout, `pthread_cleanup_pop(0)` drops the handler,
and as long as previews do not overlap, none is stopped too early and the
device file can be opened, no command makes the driver's queue available again.

What two previews do to each other while both are alive is, by `FaultCause`,
anything. The run *overlap* is about what comes of it. `OverlapEndsCapture`:
once a START has overwritten the descriptor that holds the driver's queue, no
preview gets a frame any more, the older one included, and nothing gives the
queue back; a START that opens the device before the `cleanup()` of the stopped
preview has closed it is not a glitch but the end of the video until the
process is restarted. `FreshIsSafe`: if the previews, whatever they did, ended
without a fault and the camera is free, the next one is safe from all that they
left behind (dangling `frame` and `buffers`, an `n_buffers` of another array,
an encoder nobody closed, arrays that a failed `munmap` kept): it commits no
fault and a STOP gives back all that is its own.

`RoundsBalance` and `RecvNeverBlocks` say what is robust in the message loop:
however datagrams get lost, reordered or misplaced, a round that visited one
socket without an ICMP error answers what it executed and frees its payload,
and a `recv` after `select` sleeps only when the preview thread's send took
the pending error of socket 0 in between. `RepeatsWithinRound` bounds what the
unchecked result of `recv` can do: an ICMP error may execute a command a second
time, but only for socket 1 and only the one socket 0 delivered in the same
round. `Drains` says that the thread
hangs only waiting for socket 0.

The composition answers what the two parts leave open. `MisuseCause` lists what
it takes in the network to misuse the preview although the master waits for each
of its commands: a lost START or STOP, or an ICMP error on socket 1 in the
round of a START, which executes it twice. With neither, no misuse occurs and
the slave commits no fault (theorem `EndToEnd`). `Agrees` says
that when everything has settled the preview runs if and only if the master has asked for
it, unless a datagram was lost or, with a master that does not wait, one
command has overtaken another. All of this is said of a network that lets no
datagram be mistaken for another: `Garbling` lists what does (a payload on the
wrong socket, one that nobody reads or has memory for, one that is lost or
whose header is, and, if there are payloads at all, a datagram that is overtaken
or a `recv` that fails). There are two ways the slave itself lets a command overtake: a round that finds both sockets ready executes them in the order of the
sockets; and when a preview thread's send takes the error that made `select`
report socket 0, the `recv` there sleeps and takes a later command before an
earlier one on socket 1. `StartsInTurn` says of a single START, whether the
master waits or not, that it takes effect while a preview is alive only if every live
preview has been told to stop, with the same exceptions.
`FramesWhole` says that answers on socket 1 never come between the two
datagrams of a frame; those on socket 0 do, and nothing in the code prevents it.
A command without memory for its payload is answered there without having been
served, which is the second excuse in the property.
`StopReachesCamera` is the liveness that the master sees.

`PhotoCoherent`: a photo may mix frames, but no line of it is older than the
frame that was complete at TAKE_PHOTO, and a lower line is at most one frame
older than an upper one; before the first frame it may show memory that was
never written. `KeepsPhotos`: a stored photo is replaced only after a restart,
when `picid` starts from 0 again.

`ConvertsI420` and `PlanesFit` hold although `is_u` is never set at the start of
a line, because an even width gives each even line as many U as V. The picture is right
only if the driver pads no line, and `convert()` reads beyond the frame
(`ReadsInside`) only if the driver grants less than was asked for; neither is
looked at by the code. `ColoursRight` says what the missing clamp at zero does: a
channel below -1 wraps around and shows as a level of 30 or more instead of
black, one above -1 comes within one of its saturated value. At exactly -1, which
106 and 140 give for G, the double decides: black, or 255. (`yuv2rgb` stores a
pixel as B, G, R while `jpeg.c:33` announces `JCS_RGB`; the model keeps the
order of the stores and makes no claim about which one is meant.)

*Bounds.* A third thread shows what the second one leaves to a later
preview; stale pointers survive at most until they are overwritten, which each
preview does or fails to do in the same steps. `Granted` covers one buffer
(refused by the code), the minimum of two, and three; the four the code asks
for behave alike. The supply of threads is finite: pthread_create can also
fail (breach *thread*), as it does in the program once no stack is left.
`MaxSent` bounds the commands and ICMP errors of a MsgLoop run; two commands on
one socket or one on each meet every case of a round, three add its
successor. In Slave four commands are a START, its STOP and two around them or
in between, of which a duplicate, a lost or an overtaken one is already enough
for each kind of misuse; the second thread is the preview that overlaps or follows.
A third START ends a behaviour of Slave: with four commands that takes a
duplicate after START, STOP and START, which is the duplicate of the first
START once more.
In the run *overlap* two previews are alive at a time, and the third comes
before, after or between their ends; a third one that is alive as well adds
nothing that the second has not overwritten already, and would take the run
beyond any bearable size.
Three lines are the first, one in the middle and the last, three frames a
photo that starts in one and is overtaken twice, two photos and two lives a
name that is taken again. `convert()` repeats itself every two lines and every
four bytes, `yuv2rgb` every two pixels; the pictures hold three such periods,
and the bytes are the extremes and 106 and 140, which make a channel exactly -1.

*Deadlock* is not checked: a preview run ends when the threads are used up or
a fault has ended the process, a MsgLoop or Slave run when the master has sent
all its commands and the main thread sleeps in `select`, a Photo run after
its last frame and photo, a conversion at the end of its loop.

## Fairness

Preview: weak fairness of each thread's steps. The kernel schedules every
runnable thread; `select` returns after two seconds at the latest, and UDP
sends do not block for ever. Nothing forces a command to come.
MsgLoop: weak fairness of the main thread, for the same reason, and of the
master sending the payload whose header it has sent.
Slave: the same for its main thread, its preview threads and the master's
payloads.
Session and Commands carry the fairness this gives them.

## Proofs

The theorems hold for every value of the constants that satisfies the
assumptions below: any set of threads, any set of buffer counts a driver may
grant, any commands, misreadings and bounds, pictures of any even size. Each
assumption is evaluated by TLC in the runs that extend its module.

| assumption | says |
|---|---|
| `ThreadAssumption`, `DeviceAssumption`, `PreviewAssumption` | the special values are no threads, granted buffer counts are positive, `Allowed` are breaches |
| `OverlapAssumption` | `MaxAlive` is a number |
| `MsgAssumption` | what is sent and misread are codes of `msg.h`, `MaxSent` a number |
| `SlaveAssumption` | both of these for the composition |
| `PhotoAssumption` | at least one line, one life; the other bounds are numbers |
| `ConvertAssumption`, `RgbAssumption` | even sizes, as the code's macros give them; bytes are bytes |

Every invariant and action property that a run checks is the subject of a
theorem, `FreshIsSafe` excepted; where a property is not inductive, which is nearly everywhere, the strengthening was
first checked by TLC on a small instance and then proved.

**PreviewProofs** – `TypeCorrect`: `Spec => []TypeOK`, whatever is allowed.
`Releases` and `Conserves`: `Spec => []StopReleasesAll`, `Spec => []BuffersConserved`.
That `cleanup()` frees the right things depends on what the set-up did long
before. The inductive invariant `IInv` says that while `Orderly` holds (no
previews overlap, no call on the device fails; threads and encoders may not
start, STOP may come too early, photos at any time) and no fault occurred, at
most one preview is alive, and for each label of its `pc` what is held, where
`gdev` and `g_h264` point and what the driver has (`Shape`); that with none
alive nothing is held (`Closed`); that encoded frames belong to threads between
encoding and the end of a send, or cancelled in one; and that a photo being
converted belongs to a preview in its loop, unless it was taken at a wrong time.
There are two exceptions. In the cleanup after an early STOP (`TooEarly`) only
"no encoder" is known, which is enough, since `h264_encode_end` faults there.
A preview whose encoder did not start (`EncoderFailed`) has its device as
it should be, and faults at its first frame or in its cleanup.
`MainShaped` and the `...Shaped` lemmas show that each action preserves the
shape, `MainFaults` and `StepFaults` that it commits only faults that have their
cause, `NextIInv` puts them together, and `Invariance` is the temporal step. The
breach history only grows (`History`), so that Orderly after a step gives
Orderly before it.

**FailureProofs** – `Causation`: `Spec => []FaultCause`, with any failures and any
overlap, `KeepsCamera`: `Spec => SelfEndKeepsCamera`, and `EndsCapture`:
`Spec => OverlapEndsCapture`. Without Orderly there
is no shape to speak of: pointers dangle, descriptors stay behind, the driver's
queue may belong to an earlier preview. `FInv` is therefore a conjunction of
small invariants, each under the breaches that it survives: the counted elements
of `buffers[]` are mapped (`Mapping`, without *overlap*, but for a thread
between `calloc` and the reset of `n_buffers`); only a thread in its loop or
later has been told to stop (`InTime`, without *early*); a preview works on
what it has set up itself (`ByItself`, without *overlap*; `OwnDevice`, without
*open* either; `Keeps`, which needs STOP in time as well); a loop that does not
own the driver's queue finds it empty (`Fed`, without *overlap* and *capture*);
only mapped buffers are queued (`Within`); the encoder (`Encodes`) and a
frame to copy to (`Filled`) are there. Without overlap one thread is alive, so
that a step is looked at from that thread alone (`FHere`), leads it `Onward`
and spares what the others have left behind (`Spares`); the
`...Onward` lemmas do this for each action. `StepRaises` and `MainRaises` say which
faults a step can commit and which breaches these take. `EndsCapture` needs little of
this: while a preview's descriptor holds the queue and `gdev.fd` is another one,
every call of every thread goes to that other one, which the driver refuses; nobody
closes the first one (`StillStranded`), and no later `open` returns its number
(`Numbered`: an open descriptor is that of a thread past `device_open`). `Disorder` and
`PreviewProofs` then share the work: the step is either orderly or has one
of the breaches that excuse it.

**SessionProofs** – `SessionsInOrder`: `Spec => Sessions!Init /\ SessionSteps`. Each
step of the preview is a step of Session or changes neither `phaseBar` nor
`deviceBar`. It follows from the shape of PreviewProofs and from `ToldToStop`: only a
thread that STOP named is in `cleanup()`, which a loop that ends on its own
never enters.

**MsgLoopProofs** – `TypeCorrect`, `NeverBlocks`, `Balanced` and `Repeats`. `IInv` says
what a round has done by the time the main thread is at each place (`Stage`),
that a socket still to be visited is readable but for a stolen error
(`StillReadable`), that a message found before the visit of socket 1 is socket
0's (`FirstVisit`), and keeps books of what is allocated and what is still to be
answered (`Books`), which is why the balance at the end of a round is right.

**CommandsProofs** – `ServesInOrder`: `Spec => Service!Init /\ ServiceSteps`. The
invariants `PlainTraffic` and `Framed` say that, as long as nothing garbles the
traffic, each SETTING in the queue has its payload behind it, and that the main
thread in `do_setting` will find one at the head; so a visit of `msg_wait` finds
a header, which `Serve` executes, and `do_setting` a payload, which leaves the
commands as they are. The lemmas on `Codes` rest on `Ranks`: the number of headers
up to a header takes each value up to the number of headers once.

**PhotoProofs** – `TypeCorrect`, `Coherence` and `Keeping`. While a frame is
copied its lines are those of two frames in succession (`Copying`), and what
`picbuf` holds is coherent with the frames seen so far (`Converting`); the file
holds the first lines of `picbuf` (`Writing`); the names of this life are
below `picid` (`NamesUsed`).

**ConversionsProofs** – `TypeCorrect`, `Fit`, `InsideFrame`, `I420` and `Colours`. The
loop invariant of `convert()` counts the bytes of each plane from `i` and `j`
(`Filled`; `is_u` is in step because each line gives an even number of chroma
bytes) and says which byte of the frame each of them is (`Placed`). The rest is
arithmetic on rows and columns. For `yuv2rgb` it is enough that the chroma of a
pair is kept for its second pixel (`PairKept`). The attempt to prove an earlier
form of `ColoursRight`, which claimed the wrap-around at -1 too, failed and led
to the case of exactly -1 and to the bytes 106 and 140 of the run.

**SlaveProofs** – `Components`: a behaviour of Slave is one of Preview and one of
MsgLoop, so that all of the above holds in it. `TypeCorrect`; `Faultless`, that a
slave whose preview was not misused has committed no fault; `WholeFrames`,
`Blame`, `Agreement` and `Turn` for the four properties of the runs;
`EndToEnd`, the sum: a patient master and a network that neither loses, garbles
nor reports errors have no fault from the slave; and, with SessionProofs,
`OrderlySessions`: between these two the previews of the whole slave are
sessions of Session, one after the other. The invariants build on each other
and on the traffic of CommandsProofs:

1. `Named`: a preview that runs is the one `pid` names, and only threads that were told
   to stop are in `cleanup()`.
2. `Answering`, `Frames`: who may send between the two datagrams of a frame.
3. `Patience`: at most one preview command of a patient master is in the air, and
   what it has asked for fits what the preview is doing. It gives `Blame` and half of
   `Agreement`.
4. `Order`: what waits on the two sockets, in line with what the preview is and what
   the master has asked for last, alternates between START and STOP. It gives
   `Turn` and the other half.

*Only model-checked.* `FreshIsSafe`: a proof would have to carry the shape of a
single preview (`Shape`) past arbitrary leftovers of others. The liveness properties `StopCompletes`, `Drains` and
`StopReachesCamera`, and the fairness in `ImplementsSession` and
`ImplementsCommands`: they need ENABLED, which the prover does not have.
`IndexAssertion` and `CleanAllocatedOnly` do not hold.

## What is not modelled

* The parameters of the encoder and the content of an encoded frame; the
  compression of the JPEG file; the order of the colour channels in it.
* Data races at a finer grain than the steps above: with overlapping previews
  libx264 could be entered twice with one handle, and the list of NALs could
  change in the middle of the copy instead of before it.
* Other threads in the middle of `device_uninit`: its `munmap`s and `free`s are
  one step. With overlapping previews `gdev` could change between them. A
  `munmap` that fails is one of an element that is still NULL.
* The network delivers a datagram at most once, and lets it overtake at most the
  one before it; UDP may duplicate datagrams and reorder them at will.
* How a patient master learns that a preview has ended. `Settled` takes it to
  know when the `cleanup()` of a stopped preview is done, but the answer to
  STOP_PREVIEW is sent before that and no other message follows: a real master can
  only wait long enough.
* Reads of `current_frame` beyond its end: `yuv2rgb` reads PIXEL_WIDTH x
  PIXEL_HEIGHT pixels of it, and with a smaller grant of the driver it would
  read too far, as `convert()` does in `ReadsInside`.
* What happens after the first fault; in Slave, after the first misuse.
* Failing calls of the preview together with the network's: Slave leaves
  the former to Preview.
* Lengths: a payload is there or not, fits a datagram or not. A datalen below
  the size of `setting_t` makes `dumpsetting` log bytes beyond the payload.
* A loss of power, which can undo writes that libjpeg has made.
* `sock_destroy`/`msg_conn_destroy`: not reached.
* The declarations in `do.h`, `os.h`, `config.h`, `debug.h`; the vendored
  libx264 headers and the makefiles under `Debug/`.

## Plan

1. *(done)* Preview with Device, H264 and Session; proofs of types, causes of
   faults, release and conservation.
2. *(done)* MsgLoop with Commands.
3. *(done)* Slave: MsgLoop and Preview composed, with the datagrams of frames and
   answers on socket 0.
4. *(done)* Photo, Convert, Yuv2rgb.
5. *(done)* Proofs: all safety properties of the runs but `FreshIsSafe`, the
   causes of faults under failing calls and overlap, the safety parts of the
   refinements of Session and Commands, and the composition.
6. Calls of the preview that fail behind the message loop, in Slave; then which
   of FaultCause's causes remain for a patient master.
7. A proof of `FreshIsSafe`; duplicated datagrams in `Transmit`.
