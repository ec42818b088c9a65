------------------------------- MODULE MsgLoop -------------------------------
(***************************************************************************)
(* msg.c, run by the main thread, with the commands that only involve the  *)
(* message itself: do_setting.c, do_record.c and the stubs.                *)
(*                                                                         *)
(* The slave keeps two UDP sockets connected to the master and waits for   *)
(* commands on both.  One round of msg_loop clears the message, selects,   *)
(* receives a header from each socket that was ready into that one message *)
(* and executes it, and answers to the last of these sockets.  The result  *)
(* of the recv is not looked at.                                           *)
(*                                                                         *)
(* An ICMP error that an earlier send brought about stays pending on its   *)
(* socket.  It makes the socket readable; the next recv or send on the     *)
(* socket fails with it and takes it away.  The preview thread sends its   *)
(* frames on socket 0 meanwhile.                                           *)
(*                                                                         *)
(* served, answered and breach are history variables without a counterpart *)
(* in the code.                                                            *)
(***************************************************************************)
EXTENDS Integers, Sequences, FiniteSets

CONSTANTS
  Sent,      \* the codes of the commands the master sends
  Misread,   \* the codes that the bytes of a payload may read as
  Allowed,   \* what the master, the network and the heap may do
  MaxSent    \* bound on commands of the master and ICMP errors, together

(* The commands told apart.  DELETE_FILE stands for the stubs whose command *)
(* has a payload, which they leave unread.  The preview commands and        *)
(* TAKE_PHOTO do nothing to the message; what they do to the preview is     *)
(* added by module Slave.                                                   *)
Code == {"SETTING", "START_RECORD", "STOP_RECORD", "DELETE_FILE",
         "START_PREVIEW", "STOP_PREVIEW", "TAKE_PHOTO"}

(* The handlers that return at once and leave a payload where it is. *)
Unread == {"DELETE_FILE"}

CarriesPayload == {"SETTING"} \cup Unread

(* lost, reordered: a datagram of the master's.  severed: the lost one is  *)
(* part of a command with a payload.  refused: an ICMP error.              *)
(* othersocket: SETTING, whose payload follows it, is not sent on socket   *)
(* 0.  unread: a payload that no handler reads.  memory: malloc fails.     *)
(* both: two sockets are ready in the same round.  nosocket: one of them   *)
(* cannot be created.  toolong: a header, or what is read as one, has a    *)
(* datalen that no datagram can have, so that it cannot be answered.       *)
Breach == {"nosocket", "lost", "reordered", "severed", "refused", "othersocket", "unread",
           "memory", "both", "toolong"}

ASSUME MsgAssumption ==
  Sent \cup Misread \subseteq Code /\ Allowed \subseteq Breach /\ MaxSent \in Nat

Sock   == {0, 1}   \* MSG_FD_COUNT sockets, in the order msg_wait visits them
NoSock == -1

VARIABLES
  inbox,      \* datagrams received on each socket and not yet read
  refused,    \* sockets with a pending error
  pc,         \* where the main thread is
  ready,      \* the part of rset that msg_wait has not visited yet
  msg,        \* the message of this round
  fd,         \* the socket to answer to, or NoSock
  blocks,     \* payloads allocated and not freed
  recording,  \* the static enable of do_record.c
  created,    \* sockets msg_conn_create has created
  owes,       \* the socket the master has yet to send a payload on
  sent,       \* commands and errors so far
  served, answered, breach

masterVars == <<owes, sent>>
vars == <<inbox, refused, pc, ready, msg, fd, blocks, recording, created,
          masterVars, served, answered, breach>>

(* code is "none" for 0 and for codes without a command.  more stands for  *)
(* 0 < header.datalen, payload for a pointer other than NULL.              *)
NoMessage == [code |-> "none", more |-> FALSE, payload |-> FALSE]

(* A datagram is a header or a payload. *)
Header(code) == [kind |-> "header", code |-> code]
Payload      == [kind |-> "payload", code |-> "none"]

Datagram == [kind: {"header"}, code: Code] \cup {Payload}

TypeOK ==
  /\ inbox \in [Sock -> Seq(Datagram)]
  /\ refused \subseteq created /\ created \subseteq Sock
  /\ pc \in {"connect", "exit", "select", "recv", "setting", "header", "payload"}
  /\ ready \subseteq Sock
  /\ msg \in [code: Code \cup {"none"}, more: BOOLEAN, payload: BOOLEAN]
  /\ fd \in Sock \cup {NoSock} /\ owes \in Sock \cup {NoSock}
  /\ blocks \in Nat /\ sent \in 0 .. MaxSent
  /\ recording \in BOOLEAN
  /\ served \in [Sock -> Nat] /\ answered \in [Sock -> Nat]
  /\ breach \subseteq Breach

Init ==
  /\ inbox = [s \in Sock |-> <<>>] /\ refused = {}
  /\ pc = "connect" /\ ready = {} /\ msg = NoMessage /\ fd = NoSock
  /\ blocks = 0 /\ recording = FALSE /\ created = {}
  /\ owes = NoSock /\ sent = 0
  /\ served = [s \in Sock |-> 0] /\ answered = [s \in Sock |-> 0]
  /\ breach = {}

-----------------------------------------------------------------------------
(***************************************************************************)
(* The master and the network.                                             *)
(***************************************************************************)

(* A part of a command whose header and payload are datagrams of their own. *)
InParts(d) == d.kind = "payload" \/ d.code \in CarriesPayload

(* A datagram on its way to socket s arrives, is lost, or overtakes the    *)
(* one before it.  That it arrives twice or overtakes several is left out. *)
Transmit(s, d, b) ==
  /\ \/ inbox' = [inbox EXCEPT ![s] = Append(@, d)] /\ breach' = breach \cup b
     \/ /\ UNCHANGED inbox
        /\ breach' = breach \cup b \cup {"lost"} \cup (IF InParts(d) THEN {"severed"} ELSE {})
     \/ /\ inbox[s] # <<>>
        /\ inbox' = [inbox EXCEPT ![s] = SubSeq(@, 1, Len(@) - 1) \o <<d, @[Len(@)]>>]
        /\ breach' = breach \cup b \cup {"reordered"}
  /\ UNCHANGED <<refused, pc, ready, msg, fd, blocks, recording, created, served, answered>>

(* conn_check tells the master where a socket can be reached.              *)
Command(s, code) ==
  /\ s \in created /\ owes # s
  /\ sent < MaxSent /\ sent' = sent + 1
  /\ code \in CarriesPayload => owes = NoSock
  /\ owes' = IF code \in CarriesPayload THEN s ELSE owes
  /\ Transmit(s, Header(code),
              {b \in {"othersocket", "unread"} :
                 \/ b = "othersocket" /\ code = "SETTING" /\ s # 0
                 \/ b = "unread" /\ code \in Unread})

SendPayload ==
  /\ owes # NoSock
  /\ owes' = NoSock /\ UNCHANGED sent
  /\ Transmit(owes, Payload, {})

Refuse(s) ==
  /\ s \in created
  /\ sent < MaxSent /\ sent' = sent + 1
  /\ refused' = refused \cup {s}
  /\ breach' = breach \cup {"refused"}
  /\ UNCHANGED <<inbox, pc, ready, msg, fd, blocks, recording, created, owes,
                 served, answered>>

(* A send of the preview thread: only a pending error makes a difference.  *)
SendFrame ==
  /\ 0 \in refused
  /\ refused' = refused \ {0}
  /\ UNCHANGED <<inbox, pc, ready, msg, fd, blocks, recording, created, masterVars,
                 served, answered, breach>>

-----------------------------------------------------------------------------
(***************************************************************************)
(* The main thread.                                                        *)
(***************************************************************************)

(* msg_conn_create, one socket.  Sockets come in the order of their index. *)
(* The result of conn_check is dropped.                                    *)
Connect ==
  /\ pc = "connect"
  /\ \E s \in Sock \ created :
       /\ \A r \in Sock \ created : s <= r
       /\ created' = created \cup {s}
       /\ pc' = IF created' = Sock THEN "select" ELSE "connect"
  /\ UNCHANGED <<inbox, refused, ready, msg, fd, blocks, recording, masterVars,
                 served, answered, breach>>

(* Without one of its sockets main returns. *)
ConnectFails ==
  /\ pc = "connect" /\ pc' = "exit"
  /\ breach' = breach \cup {"nosocket"}
  /\ UNCHANGED <<inbox, refused, ready, msg, fd, blocks, recording, created,
                 masterVars, served, answered>>

Readable(s) == inbox[s] # <<>> \/ s \in refused

(* Mutated: the listeners are set for the first socket alone. *)
set_sock_listeners_first == {0}

set_sock_listeners == Sock

(* Mutated: the message is not cleared. *)
Select_without_memset ==
  /\ pc = "select"
  /\ ready' = {s \in set_sock_listeners : Readable(s)}
  /\ ready' # {}
  /\ pc' = "recv"
  /\ breach' = breach \cup (IF Cardinality(ready') > 1 THEN {"both"} ELSE {})
  /\ UNCHANGED <<inbox, refused, msg, fd, blocks, recording, created, masterVars,
                 served, answered>>

(* The start of a round: memset, then select. *)
Select ==
  /\ pc = "select"
  /\ ready' = {s \in set_sock_listeners : Readable(s)}
  /\ ready' # {}
  /\ msg' = NoMessage
  /\ pc' = "recv"
  /\ breach' = breach \cup (IF Cardinality(ready') > 1 THEN {"both"} ELSE {})
  /\ UNCHANGED <<inbox, refused, fd, blocks, recording, created, masterVars,
                 served, answered>>

(* msg_recvfrom on socket s fails and leaves the queue alone, or takes a   *)
(* datagram off it; without either the caller sleeps.                      *)
Fails(s)    == s \in refused /\ refused' = refused \ {s} /\ UNCHANGED inbox
Receives(s) == /\ s \notin refused /\ inbox[s] # <<>>
               /\ inbox' = [inbox EXCEPT ![s] = Tail(@)]
               /\ UNCHANGED refused

(* What the message holds after a datagram was received over its header:   *)
(* the bytes of a payload may read as other codes and any datalen.         *)
Overwritten(d) ==
  IF d.kind = "header"
    THEN {[msg EXCEPT !.code = d.code, !.more = d.code \in CarriesPayload]}
    ELSE [code: Misread \cup {"none"}, more: BOOLEAN, payload: {msg.payload}]

(* Mutated: msg_wait visits the sockets in the opposite order. *)
Visited_last_first == CHOOSE s \in ready : \A r \in ready : s >= r

Visited == CHOOSE s \in ready : \A r \in ready : s <= r

(* Mutated: *pfd is set after the loop, where i is MSG_FD_COUNT. *)
Visit_then_fd(s) ==
  /\ ready' = ready \ {s}
  /\ fd' = IF ready' = {} THEN Cardinality(Sock) ELSE fd
  /\ pc' = IF ready' = {} THEN "header" ELSE "recv"

(* Mutated: the answer goes to the first socket, wherever the command was. *)
Visit_answer_first(s) ==
  /\ ready' = ready \ {s}
  /\ fd' = 0
  /\ pc' = IF ready' = {} THEN "header" ELSE "recv"

(* The rest of msg_wait's round for socket s. *)
Visit(s) ==
  /\ ready' = ready \ {s}
  /\ fd' = s
  /\ pc' = IF ready' = {} THEN "header" ELSE "recv"

do_record(code) ==
  recording' = CASE code = "START_RECORD" -> TRUE
                 [] code = "STOP_RECORD"  -> FALSE
                 [] OTHER                 -> recording

(* msg_do of the message m.  A payload is allocated for every positive     *)
(* datalen, over whatever pointer a first visit left in the message.       *)
msg_do(s, m) ==
  \E room \in BOOLEAN :
    LET does == IF m.more /\ ~room THEN "nothing" ELSE m.code
    IN  /\ ~room => m.more
        /\ msg' = [m EXCEPT !.payload = IF m.more THEN room ELSE @]
        /\ blocks' = IF m.more /\ room THEN blocks + 1 ELSE blocks
        /\ breach' = IF room THEN breach ELSE breach \cup {"memory"}
        /\ do_record(does)
        /\ served' = [served EXCEPT ![s] = IF does = "nothing" THEN @ ELSE @ + 1]
        /\ IF does = "SETTING" /\ m.more
             THEN pc' = "setting" /\ UNCHANGED <<ready, fd>>
             ELSE Visit(s)

(* Mutated: msg_do comes after the loop over the sockets. *)
Recv_then_do ==
  /\ pc = "recv"
  /\ IF ready # {Visited}
       THEN /\ Fails(Visited) \/ Receives(Visited)
            /\ Visit(Visited)
            /\ UNCHANGED <<msg, blocks, recording, served, breach>>
       ELSE \/ Fails(Visited) /\ msg_do(Visited, msg)
            \/ /\ Receives(Visited)
               /\ \E m \in Overwritten(Head(inbox[Visited])) : msg_do(Visited, m)
  /\ UNCHANGED <<created, masterVars, answered>>

Recv ==
  /\ pc = "recv"
  /\ \/ Fails(Visited) /\ msg_do(Visited, msg)
     \/ /\ Receives(Visited)
        /\ \E m \in Overwritten(Head(inbox[Visited])) : msg_do(Visited, m)
  /\ UNCHANGED <<created, masterVars, answered>>

(* Mutated: do_setting only takes a payload that is there already. *)
do_setting_without_wait ==
  /\ pc = "setting"
  /\ \/ Fails(0) \/ Receives(0)
     \/ ~Readable(0) /\ UNCHANGED <<inbox, refused>>
  /\ Visit(Visited)
  /\ UNCHANGED <<msg, blocks, recording, created, masterVars, served, answered, breach>>

(* do_setting reads its payload from socket 0, whatever is next there.     *)
do_setting ==
  /\ pc = "setting"
  /\ Fails(0) \/ Receives(0)
  /\ Visit(Visited)
  /\ UNCHANGED <<msg, blocks, recording, created, masterVars, served, answered, breach>>

(* msg_done, the header of the answer.  fd and the payload are let go of   *)
(* only once everything was sent.                                          *)
msg_done_header ==
  /\ pc = "header"
  /\ \/ /\ fd \in refused
        /\ refused' = refused \ {fd}
        /\ pc' = "select"
        /\ UNCHANGED <<fd, answered>>
     \/ /\ fd \notin refused
        /\ answered' = [answered EXCEPT ![fd] = @ + 1]
        /\ pc' = IF msg.payload THEN "payload" ELSE "select"
        /\ fd' = IF msg.payload THEN fd ELSE NoSock
        /\ UNCHANGED refused
  /\ UNCHANGED <<inbox, ready, msg, blocks, recording, created, masterVars,
                 served, breach>>

(* Mutated: the payload is not freed. *)
msg_done_payload_without_free ==
  /\ pc = "payload"
  /\ \/ fd \in refused /\ refused' = refused \ {fd} /\ UNCHANGED <<fd, blocks>>
     \/ fd \notin refused /\ fd' = NoSock /\ UNCHANGED <<refused, blocks>>
  /\ pc' = "select"
  /\ UNCHANGED <<inbox, ready, msg, recording, created, masterVars, served, answered, breach>>

msg_done_payload ==
  /\ pc = "payload"
  /\ \/ fd \in refused /\ refused' = refused \ {fd} /\ UNCHANGED <<fd, blocks, breach>>
     \/ /\ fd \notin refused
        /\ breach' = breach \cup {"toolong"}
        /\ UNCHANGED <<refused, fd, blocks>>
     \/ /\ fd \notin refused
        /\ fd' = NoSock /\ blocks' = blocks - 1
        /\ UNCHANGED <<refused, breach>>
  /\ pc' = "select"
  /\ UNCHANGED <<inbox, ready, msg, recording, created, masterVars, served, answered>>

Main == Connect \/ ConnectFails \/ Select \/ Recv \/ do_setting \/ msg_done_header \/ msg_done_payload

Environment ==
  \/ SendPayload \/ SendFrame
  \/ \E s \in Sock : Refuse(s) \/ \E code \in Sent : Command(s, code)

Next == (Main \/ Environment) /\ breach' \subseteq Allowed

Spec == Init /\ [][Next]_vars

(* The main thread is scheduled and sends do not block for ever.  Of the   *)
(* master only this is expected: the payload follows its header.           *)
FairSpec ==
  /\ Spec
  /\ WF_vars(Main /\ breach' \subseteq Allowed)
  /\ WF_vars(SendPayload /\ breach' \subseteq Allowed)

-----------------------------------------------------------------------------
(***************************************************************************)
(* Properties.                                                             *)
(***************************************************************************)

(* Every socket that select found readable still is when its turn comes in *)
(* msg_wait, whatever do_setting read in between, so that the recv there   *)
(* does not sleep.  Only a pending error of socket 0 can disappear from    *)
(* under it: the preview thread's send takes it away after select has      *)
(* reported it.                                                            *)
RecvNeverBlocks ==
  pc = "recv" => Readable(Visited) \/ (Visited = 0 /\ "refused" \in breach)

(* A round that visited one socket, without an error, has answered there   *)
(* to what it executed and freed the payload it allocated, even if some of *)
(* the master's datagrams were lost, reordered or misplaced.  A round that *)
(* visited both may leak the first payload and leaves one side unanswered; *)
(* a payload too long to be sent back is never freed.                      *)
RoundsBalance ==
  pc = "select" /\ breach \cap {"both", "refused"} = {} =>
    /\ "toolong" \notin breach => blocks = 0
    /\ "memory" \notin breach => answered = served

(* A recv that fails may execute a command all the same, but never one of  *)
(* an earlier round: it can only repeat, for socket 1, what socket 0 has   *)
(* delivered in the same round.                                            *)
RepeatsWithinRound ==
  [][\A s \in Sock :
       served'[s] # served[s] /\ inbox'[s] = inbox[s] /\ msg'.code # "none"
       => s = 1 /\ "both" \in breach]_vars

(* No datagram stays unread for ever, except while the thread sleeps for   *)
(* the next one on socket 0: for a payload that do_setting misses, or in a *)
(* recv that the preview thread has taken the error from.                  *)
Drains ==
  []<>\/ \A s \in Sock : inbox[s] = <<>>
      \/ pc \in {"setting", "recv"} /\ ~Readable(0)
      \/ pc = "exit"

-----------------------------------------------------------------------------
(***************************************************************************)
(* The refinement: between a conforming master and a network without       *)
(* errors, the loop implements module Commands.                            *)
(***************************************************************************)

(* What may make the slave take a payload for a command, or a command for  *)
(* a payload; the last two only if there are payloads.                     *)
Garbling == {"othersocket", "unread", "memory", "severed"} \cup
            {b \in {"reordered", "refused"} : Sent \cap CarriesPayload # {}}

(* The headers in a queue, the n-th of them, and their codes: the payloads *)
(* are left out.  (SelectSeq does the same by recursion, which the proof   *)
(* of the refinement could say nothing about.)                             *)
Headers(q) == {i \in DOMAIN q : q[i].kind = "header"}

UpTo(q, i) == {j \in Headers(q) : j <= i}

Nth(q, n) == CHOOSE i \in Headers(q) : Cardinality(UpTo(q, i)) = n

Codes(q) == [n \in 1 .. Cardinality(Headers(q)) |-> q[Nth(q, n)].code]

pendingBar == [s \in Sock |-> Codes(inbox[s])]

Service == INSTANCE Commands WITH pending <- pendingBar

(* Each command is executed once, in the order of its socket, and a        *)
(* SETTING takes its own payload and nothing else off the queue.           *)
ImplementsCommands == Service!Spec

(* Nothing is mistaken, overtakes another, or is received without effect;  *)
(* commands without a payload may be lost.                                 *)
Conforming == breach \cap (Garbling \cup {"reordered", "refused"}) = {}

(* That much is enough for the steps: a round with two sockets ready, an   *)
(* answer too long to be sent, and commands that are lost between those    *)
(* whose payloads are still to come make nothing execute twice, in another *)
(* order or as something else.  A command that is lost is one never sent,  *)
(* as long as it has no payload.                                           *)
ServiceSteps == [][Conforming' => [Service!Next]_(Service!vars)]_vars

=============================================================================
