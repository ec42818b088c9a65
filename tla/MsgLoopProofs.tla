---------------------------- MODULE MsgLoopProofs ----------------------------
(***************************************************************************)
(* Proofs about MsgLoop, for all commands and misreadings, whatever the    *)
(* master, the network and the heap may do, and for any bound MaxSent.     *)
(***************************************************************************)
EXTENDS MsgLoop, FiniteSetTheorems, SequenceTheorems, TLAPS

-----------------------------------------------------------------------------
(***************************************************************************)
(* The inductive invariant.                                                *)
(***************************************************************************)

InRound == {"recv", "setting", "header", "payload"}

(* Where the main thread is goes with what the round has visited, and a    *)
(* message that has a payload has it allocated.                            *)
Stage ==
  /\ pc \in {"connect", "exit"} => blocks = 0 /\ answered = served
  /\ pc \in {"recv", "setting"} => ready # {}
  /\ pc \in {"header", "payload"} => ready = {} /\ fd \in Sock
  /\ pc \in {"setting", "payload"} => msg.payload
  /\ pc \in InRound /\ msg.payload => blocks > 0

(* The sockets whose turn to be received from is still to come. *)
ToReceive == CASE pc = "recv"    -> ready
               [] pc = "setting" -> ready \ {Visited}
               [] OTHER          -> {}

(* They are readable, but for an error of socket 0 that was taken away. *)
StillReadable ==
  /\ refused # {} => "refused" \in breach
  /\ \A s \in ToReceive : Readable(s) \/ (s = 0 /\ "refused" \in breach)

(* A message that is there before a recv is of the same round's socket 0.  *)
FirstVisit ==
  /\ ready = Sock => "both" \in breach
  /\ pc = "recv" /\ msg.code # "none" => ready = {1} /\ "both" \in breach

(* Only one socket is visited in each round, and no error comes. *)
Single == breach \cap {"both", "refused"} = {}

(* What has been executed in this round, at s, and is not yet answered. *)
Due(s) == IF (pc = "setting" /\ s \in ready) \/ (pc = "header" /\ s = fd) THEN 1 ELSE 0

(* What the round keeps allocated. *)
Kept == IF pc \in InRound /\ msg.payload THEN 1 ELSE 0

Books ==
  Single =>
    /\ "toolong" \notin breach => blocks = Kept
    /\ "memory" \notin breach => \A s \in Sock : served[s] = answered[s] + Due(s)
    /\ pc = "recv" => ~msg.payload

IInv == TypeOK /\ Stage /\ StillReadable /\ FirstVisit /\ Books

USE MsgAssumption

-----------------------------------------------------------------------------
(***************************************************************************)
(* Operators.                                                              *)
(***************************************************************************)

LeastOf(S) == CHOOSE s \in S : \A r \in S : s <= r

(* msg_wait visits the sockets in the order of their index. *)
LEMMA Least ==
  ASSUME NEW S \in SUBSET Sock, S # {}
  PROVE  LeastOf(S) \in S /\ LeastOf(S) = IF 0 \in S THEN 0 ELSE 1
<1>0. (\A r \in S : r = 0 \/ r = 1) /\ (0 \in S \/ 1 \in S)
  BY DEF Sock
<1>1. \E s \in S : \A r \in S : s <= r
  <2>1. CASE 0 \in S
    <3>1. \A r \in S : 0 <= r
      BY <1>0
    <3>. QED  BY <2>1, <3>1
  <2>2. CASE 0 \notin S
    <3>1. 1 \in S /\ \A r \in S : 1 <= r
      BY <1>0, <2>2
    <3>. QED  BY <3>1
  <2>. QED  BY <2>1, <2>2
<1>2. LeastOf(S) \in S /\ \A r \in S : LeastOf(S) <= r
  BY <1>1, Zenon DEF LeastOf
<1>3. CASE 0 \in S
  <2>1. LeastOf(S) <= 0
    BY <1>2, <1>3
  <2>. QED  BY <1>0, <1>2, <1>3, <2>1
<1>4. CASE 0 \notin S
  BY <1>0, <1>2, <1>4
<1>. QED  BY <1>3, <1>4

(* Two sockets that are ready are both of them. *)
LEMMA SockCardinality == Cardinality(Sock) = 2
<1>. DEFINE S == {0}
<1>1. IsFiniteSet(S) /\ Cardinality(S) = 1
  BY FS_Singleton
<1>2. Cardinality(S \cup {1}) = 2
  BY <1>1, FS_AddElement
<1>. QED  BY <1>2 DEF Sock

(* A datagram that arrives, in order or not, leaves a queue that is well   *)
(* typed and not empty; reading takes one datagram off it.                 *)
LEMMA QueueType ==
  ASSUME NEW q \in Seq(Datagram), NEW d \in Datagram
  PROVE  /\ Append(q, d) \in Seq(Datagram) /\ Append(q, d) # <<>>
         /\ q # <<>> => LET last == SubSeq(q, 1, Len(q) - 1) \o <<d, q[Len(q)]>>
                       IN  last \in Seq(Datagram) /\ last # <<>>
         /\ q # <<>> => Head(q) \in Datagram /\ Tail(q) \in Seq(Datagram) /\ Tail(q) # q
<1>1. Append(q, d) \in Seq(Datagram) /\ Append(q, d) # <<>>
  BY AppendProperties
<1>2. ASSUME q # <<>>
      PROVE  LET last == SubSeq(q, 1, Len(q) - 1) \o <<d, q[Len(q)]>>
             IN  last \in Seq(Datagram) /\ last # <<>>
  <2>. DEFINE front == SubSeq(q, 1, Len(q) - 1)
              end   == <<d, q[Len(q)]>>
  <2>1. Len(q) \in Nat \ {0}
    BY <1>2, EmptySeq
  <2>2. \A k \in 1 .. Len(q) : q[k] \in Datagram
    BY ElementOfSeq
  <2>3. front \in Seq(Datagram)
    BY <2>1, <2>2, SubSeqProperties
  <2>4. end \in Seq(Datagram) /\ end # <<>>
    BY <2>1, <2>2
  <2>. QED  BY <2>3, <2>4, ConcatProperties, ConcatEqualIffEmpty
<1>3. ASSUME q # <<>>
      PROVE  Head(q) \in Datagram /\ Tail(q) \in Seq(Datagram) /\ Tail(q) # q
  BY <1>3, HeadTailProperties, LenProperties
<1>. QED  BY <1>1, <1>2, <1>3

-----------------------------------------------------------------------------
(***************************************************************************)
(* The steps of the environment.  All that they do to a round is to let    *)
(* queues grow and to let an error of socket 0 disappear.                  *)
(***************************************************************************)

Arrivals ==
  /\ inbox' \in [Sock -> Seq(Datagram)]
  /\ \A s \in Sock : inbox[s] # <<>> => inbox'[s] # <<>>
  /\ breach \subseteq breach' /\ breach' \subseteq Breach

(* What the environment may do to the queues and the pending errors, and   *)
(* that it does nothing else.                                              *)
LEMMA TransmitArrivals ==
  ASSUME TypeOK, NEW s \in Sock, NEW d \in Datagram, NEW b \in SUBSET Breach,
         Transmit(s, d, b)
  PROVE  Arrivals
<1>0. inbox \in [Sock -> Seq(Datagram)] /\ inbox[s] \in Seq(Datagram) /\ breach \subseteq Breach
  BY DEF TypeOK
<1>1. \E q \in Seq(Datagram) :
        (q # <<>> \/ q = inbox[s]) /\ inbox' = [inbox EXCEPT ![s] = q]
  <2>1. CASE inbox' = [inbox EXCEPT ![s] = Append(@, d)]
    BY <1>0, <2>1, QueueType
  <2>2. CASE UNCHANGED inbox
    <3>1. inbox = [inbox EXCEPT ![s] = inbox[s]]
      BY <1>0
    <3>. QED  BY <1>0, <2>2, <3>1
  <2>3. CASE /\ inbox[s] # <<>>
             /\ inbox' = [inbox EXCEPT ![s] = SubSeq(@, 1, Len(@) - 1) \o <<d, @[Len(@)]>>]
    BY <1>0, <2>3, QueueType
  <2>. QED  BY <2>1, <2>2, <2>3 DEF Transmit
<1>2. breach \subseteq breach' /\ breach' \subseteq Breach
  BY <1>0 DEF Transmit, Breach
<1>. QED  BY <1>0, <1>1, <1>2 DEF Arrivals

LEMMA EnvironmentEffect ==
  ASSUME TypeOK, Environment
  PROVE  /\ Arrivals
         /\ refused' \subseteq created
         /\ \A s \in refused : s \in refused' \/ s = 0
         /\ refused' \subseteq refused \/ "refused" \in breach'
         /\ owes' \in Sock \cup {NoSock} /\ sent' \in 0 .. MaxSent
         /\ UNCHANGED <<pc, ready, msg, fd, blocks, recording, created, served, answered>>
<1>1. CASE SendPayload
  <2>1. owes \in Sock /\ Payload \in Datagram /\ {} \in SUBSET Breach
    BY <1>1 DEF SendPayload, TypeOK, Datagram
  <2>2. Arrivals
    BY <1>1, <2>1, TransmitArrivals DEF SendPayload
  <2>. QED  BY <1>1, <2>2 DEF SendPayload, Transmit, TypeOK
<1>2. CASE SendFrame
  BY <1>2 DEF SendFrame, masterVars, Arrivals, TypeOK
<1>3. ASSUME NEW s \in Sock, Refuse(s)
      PROVE  /\ Arrivals /\ refused' \subseteq created /\ refused \subseteq refused'
             /\ "refused" \in breach' /\ sent' \in 0 .. MaxSent
             /\ UNCHANGED <<owes, pc, ready, msg, fd, blocks, recording, created, served, answered>>
  BY <1>3 DEF Refuse, Arrivals, TypeOK, Breach
<1>4. ASSUME NEW s \in Sock, NEW code \in Sent, Command(s, code)
      PROVE  /\ Arrivals /\ UNCHANGED refused
             /\ owes' \in Sock \cup {NoSock} /\ sent' \in 0 .. MaxSent
             /\ UNCHANGED <<pc, ready, msg, fd, blocks, recording, created, served, answered>>
  <2>. DEFINE b == {b \in {"othersocket", "unread"} :
                     \/ b = "othersocket" /\ code = "SETTING" /\ s # 0
                     \/ b = "unread" /\ code \in Unread}
  <2>1. Header(code) \in Datagram
    BY DEF Header, Datagram, MsgAssumption
  <2>2. b \in SUBSET Breach
    BY DEF Breach
  <2>3. Transmit(s, Header(code), b)
    BY <1>4 DEF Command
  <2>4. Arrivals
    BY <2>1, <2>2, <2>3, TransmitArrivals
  <2>5. /\ UNCHANGED refused
        /\ UNCHANGED <<pc, ready, msg, fd, blocks, recording, created, served, answered>>
    BY <2>3 DEF Transmit
  <2>6. owes' \in Sock \cup {NoSock} /\ sent' \in 0 .. MaxSent
    BY <1>4 DEF Command, TypeOK, MsgAssumption
  <2>. QED  BY <2>4, <2>5, <2>6
<1>5. refused \subseteq created
  BY DEF TypeOK
<1>6. CASE \E s \in Sock : Refuse(s)
  BY <1>3, <1>6 DEF TypeOK
<1>7. CASE \E s \in Sock : \E code \in Sent : Command(s, code)
  BY <1>4, <1>5, <1>7
<1>. QED  BY <1>1, <1>2, <1>6, <1>7 DEF Environment

(* Each action preserves the inductive invariant. *)
LEMMA EnvironmentIInv ==
  ASSUME IInv, Environment
  PROVE  IInv'
<1>0. TypeOK /\ Stage /\ StillReadable /\ FirstVisit /\ Books
  BY DEF IInv
<1>1. /\ Arrivals
      /\ refused' \subseteq created
      /\ \A s \in refused : s \in refused' \/ s = 0
      /\ refused' \subseteq refused \/ "refused" \in breach'
      /\ owes' \in Sock \cup {NoSock} /\ sent' \in 0 .. MaxSent
      /\ UNCHANGED <<pc, ready, msg, fd, blocks, recording, created, served, answered>>
  BY <1>0, EnvironmentEffect
<1>2. TypeOK'
  BY <1>0, <1>1 DEF TypeOK, Arrivals
<1>3. Stage'
  BY <1>0, <1>1 DEF Stage, InRound
<1>4. StillReadable'
  <2>1. UNCHANGED ToReceive
    BY <1>1 DEF ToReceive, Visited
  <2>2. ToReceive \subseteq Sock
    BY <1>0 DEF ToReceive, TypeOK
  <2>3. refused' # {} => "refused" \in breach'
    BY <1>0, <1>1 DEF StillReadable, Arrivals
  <2>4. ASSUME NEW s \in ToReceive
        PROVE  Readable(s)' \/ (s = 0 /\ "refused" \in breach')
    BY <1>0, <1>1, <2>2, <2>4 DEF StillReadable, Readable, Arrivals
  <2>. QED  BY <2>1, <2>3, <2>4 DEF StillReadable
<1>5. FirstVisit'
  BY <1>0, <1>1 DEF FirstVisit, Arrivals
<1>6. Books'
  <2>1. Single' => Single /\ ("toolong" \notin breach' => "toolong" \notin breach)
                          /\ ("memory" \notin breach' => "memory" \notin breach)
    BY <1>1 DEF Single, Arrivals
  <2>2. UNCHANGED Kept /\ \A s \in Sock : Due(s)' = Due(s)
    BY <1>1 DEF Kept, Due
  <2>. QED  BY <1>0, <1>1, <2>1, <2>2 DEF Books
<1>. QED  BY <1>2, <1>3, <1>4, <1>5, <1>6 DEF IInv

-----------------------------------------------------------------------------
(***************************************************************************)
(* The steps of the main thread.                                           *)
(***************************************************************************)

LEMMA ConnectIInv ==
  ASSUME IInv, Connect \/ ConnectFails
  PROVE  IInv'
<1>0. TypeOK /\ Stage /\ StillReadable /\ FirstVisit /\ Books
  BY DEF IInv
<1>1. /\ pc = "connect" /\ pc' \in {"connect", "select", "exit"}
      /\ UNCHANGED <<inbox, refused, ready, msg, fd, blocks, recording, masterVars, served, answered>>
      /\ created \subseteq created' /\ created' \subseteq Sock
      /\ breach \subseteq breach' /\ breach' \subseteq Breach
  BY <1>0 DEF Connect, ConnectFails, TypeOK, Breach
<1>2. TypeOK'
  BY <1>0, <1>1 DEF TypeOK, masterVars
<1>3. Stage'
  BY <1>0, <1>1 DEF Stage, InRound
<1>4. StillReadable' /\ FirstVisit'
  BY <1>0, <1>1 DEF StillReadable, FirstVisit, ToReceive
<1>5. Books'
  BY <1>0, <1>1 DEF Books, Stage, Kept, Due, InRound, TypeOK
<1>. QED  BY <1>2, <1>3, <1>4, <1>5 DEF IInv

LEMMA SelectIInv ==
  ASSUME IInv, Select
  PROVE  IInv'
<1>0. TypeOK /\ Stage /\ StillReadable /\ FirstVisit /\ Books
  BY DEF IInv
<1>1. /\ pc = "select" /\ pc' = "recv" /\ msg' = NoMessage
      /\ ready' # {} /\ ready' \subseteq Sock /\ \A s \in ready' : Readable(s)
      /\ UNCHANGED <<inbox, refused, fd, blocks, recording, created, masterVars, served, answered>>
      /\ breach \subseteq breach' /\ breach' \subseteq breach \cup {"both"}
      /\ Cardinality(ready') > 1 => "both" \in breach'
  BY DEF Select, set_sock_listeners
<1>2. TypeOK'
  BY <1>0, <1>1 DEF TypeOK, masterVars, NoMessage, Breach
<1>3. Stage'
  BY <1>0, <1>1 DEF Stage, InRound, NoMessage
<1>4. StillReadable'
  BY <1>0, <1>1 DEF StillReadable, ToReceive, Readable
<1>5. FirstVisit'
  BY <1>1, SockCardinality DEF FirstVisit, NoMessage
<1>6. Books'
  BY <1>0, <1>1 DEF Books, Single, Kept, Due, InRound, NoMessage
<1>. QED  BY <1>2, <1>3, <1>4, <1>5, <1>6 DEF IInv

(* A recv and the end of a visit: what is left of the round. *)
LEMMA VisitEffect ==
  ASSUME ready \in SUBSET Sock, ready # {}, Visit(Visited)
  PROVE  /\ Visited \in ready /\ Visited = IF 0 \in ready THEN 0 ELSE 1
         /\ fd' = Visited
         /\ \/ ready = {Visited} /\ ready' = {} /\ pc' = "header"
            \/ ready = Sock /\ Visited = 0 /\ ready' = {1} /\ pc' = "recv"
<1>1. Visited = LeastOf(ready)
  BY DEF Visited, LeastOf
<1>2. Visited \in ready /\ Visited = IF 0 \in ready THEN 0 ELSE 1
  BY <1>1, Least
<1>3. ready = {0} \/ ready = {1} \/ ready = Sock
  BY DEF Sock
<1>4. CASE ready = Sock
  BY <1>2, <1>4 DEF Visit, Sock
<1>5. CASE ready # Sock
  <2>1. ready = {Visited} /\ ready \ {Visited} = {}
    BY <1>2, <1>3, <1>5
  <2>. QED  BY <1>2, <2>1 DEF Visit
<1>. QED  BY <1>4, <1>5

Message == [code: Code \cup {"none"}, more: BOOLEAN, payload: BOOLEAN]

(* What a recv on socket s does to the queues and the errors. *)
Taken(s) ==
  /\ inbox' \in [Sock -> Seq(Datagram)] /\ refused' \subseteq refused
  /\ \A r \in Sock \ {s} : Readable(r)' = Readable(r)

(* A recv takes one datagram or one error. *)
LEMMA TakenEffect ==
  ASSUME TypeOK, NEW s \in Sock, Fails(s) \/ Receives(s)
  PROVE  Taken(s) /\ (UNCHANGED inbox \/ inbox'[s] # inbox[s])
                  /\ (UNCHANGED inbox => s \in refused)
<1>0. inbox \in [Sock -> Seq(Datagram)] /\ inbox[s] \in Seq(Datagram)
  BY DEF TypeOK
<1>1. CASE Fails(s)
  BY <1>0, <1>1 DEF Fails, Taken, Readable
<1>2. CASE Receives(s)
  <2>1. Tail(inbox[s]) \in Seq(Datagram) /\ Tail(inbox[s]) # inbox[s]
    <3>1. Payload \in Datagram
      BY DEF Datagram
    <3>. QED  BY <1>0, <1>2, <3>1, QueueType DEF Receives
  <2>2. /\ inbox' = [inbox EXCEPT ![s] = Tail(inbox[s])] /\ UNCHANGED refused
    BY <1>2 DEF Receives
  <2>. QED  BY <1>0, <2>1, <2>2 DEF Taken, Readable
<1>. QED  BY <1>1, <1>2

(* A datagram received over the header leaves the payload pointer alone.   *)
LEMMA OverwrittenType ==
  ASSUME TypeOK, NEW d \in Datagram, NEW m \in Overwritten(d)
  PROVE  m \in Message /\ m.payload = msg.payload
<1>1. msg \in Message
  BY DEF TypeOK, Message
<1>2. CASE d.kind = "header"
  <2>. DEFINE over == [msg EXCEPT !.code = d.code, !.more = (d.code \in CarriesPayload)]
  <2>1. d.code \in Code /\ (d.code \in CarriesPayload) \in BOOLEAN
    BY <1>2 DEF Datagram, Payload
  <2>2. over \in Message /\ over.payload = msg.payload
    BY <1>1, <2>1 DEF Message
  <2>3. Overwritten(d) = {over}
    BY <1>2 DEF Overwritten
  <2>. HIDE DEF over
  <2>. QED  BY <2>2, <2>3
<1>3. CASE d.kind # "header"
  BY <1>1, <1>3 DEF Overwritten, Message, MsgAssumption
<1>. QED  BY <1>2, <1>3

(* What msg_do leaves behind: the payload, if it got one, is allocated;    *)
(* what was executed is counted; do_setting follows or the visit ends.     *)
LEMMA DoEffect ==
  ASSUME TypeOK, NEW s \in Sock, NEW m \in Message, msg_do(s, m)
  PROVE  \E new \in {0, 1} :
           /\ msg' \in Message /\ msg'.code = m.code
           /\ msg'.payload \in BOOLEAN /\ (msg'.payload <=> new = 1 \/ (m.payload /\ ~m.more))
           /\ blocks' = blocks + new
           /\ recording' \in BOOLEAN
           /\ breach' = breach \/ breach' = breach \cup {"memory"}
           /\ \/ served' = [served EXCEPT ![s] = @ + 1]
              \/ served' = served /\ "memory" \in breach'
           /\ \/ pc' = "setting" /\ UNCHANGED <<ready, fd>> /\ msg'.payload
              \/ Visit(s)
<1>1. PICK room \in BOOLEAN :
        LET does == IF m.more /\ ~room THEN "nothing" ELSE m.code
        IN  /\ ~room => m.more
            /\ msg' = [m EXCEPT !.payload = IF m.more THEN room ELSE @]
            /\ blocks' = IF m.more /\ room THEN blocks + 1 ELSE blocks
            /\ breach' = IF room THEN breach ELSE breach \cup {"memory"}
            /\ do_record(does)
            /\ served' = [served EXCEPT ![s] = IF does = "nothing" THEN @ ELSE @ + 1]
            /\ IF does = "SETTING" /\ m.more
                 THEN pc' = "setting" /\ UNCHANGED <<ready, fd>>
                 ELSE Visit(s)
  BY DEF msg_do
<1>. DEFINE does == IF m.more /\ ~room THEN "nothing" ELSE m.code
<1>2. served \in [Sock -> Nat] /\ blocks \in Nat /\ recording \in BOOLEAN
  BY DEF TypeOK
<1>3. recording' \in BOOLEAN
  BY <1>1, <1>2 DEF do_record
<1>4. msg' \in Message /\ msg'.code = m.code /\ msg'.payload = (IF m.more THEN room ELSE m.payload)
  BY <1>1 DEF Message
<1>5. does = "nothing" <=> m.more /\ ~room
  BY DEF Message, Code
<1>6. CASE m.more /\ ~room
  <2>1. served' = served
    BY <1>1, <1>2, <1>6
  <2>. QED  BY <1>1, <1>2, <1>3, <1>4, <1>5, <1>6, <2>1
<1>7. CASE ~(m.more /\ ~room)
  <2>1. room
    BY <1>1, <1>7
  <2>2. served' = [served EXCEPT ![s] = @ + 1] /\ breach' = breach
    BY <1>1, <1>5, <1>7, <2>1
  <2>3. \/ pc' = "setting" /\ UNCHANGED <<ready, fd>> /\ m.more
        \/ Visit(s)
    BY <1>1
  <2>4. CASE m.more
    <3>. DEFINE new == 1
    <3>. SUFFICES /\ msg'.payload /\ blocks' = blocks + new
      BY <1>3, <1>4, <2>2, <2>3
    <3>. QED  BY <1>1, <1>4, <2>1, <2>4
  <2>5. CASE ~m.more
    <3>. DEFINE new == 0
    <3>. SUFFICES /\ msg'.payload = m.payload /\ blocks' = blocks + new
      BY <1>3, <1>4, <2>2, <2>3, <2>5 DEF Message
    <3>. QED  BY <1>1, <1>2, <1>4, <2>5
  <2>. QED  BY <2>4, <2>5
<1>. QED  BY <1>6, <1>7

LEMMA RecvIInv ==
  ASSUME IInv, Recv
  PROVE  IInv'
<1>0. TypeOK /\ Stage /\ StillReadable /\ FirstVisit /\ Books
  BY DEF IInv
<1>1. /\ pc = "recv" /\ ready \in SUBSET Sock /\ ready # {}
      /\ msg \in Message /\ blocks \in Nat /\ served \in [Sock -> Nat]
  BY <1>0 DEF Recv, TypeOK, Stage, Message
<1>2. Visited \in ready /\ Visited = IF 0 \in ready THEN 0 ELSE 1
  BY <1>1, Least DEF Visited, LeastOf
<1>3. Visited \in Sock
  BY <1>1, <1>2
<1>4. PICK m \in Message :
        /\ m.payload = msg.payload
        /\ Taken(Visited) /\ (m = msg \/ ~UNCHANGED inbox)
        /\ Fails(Visited) \/ Receives(Visited)
        /\ msg_do(Visited, m)
  <2>1. CASE Fails(Visited) /\ msg_do(Visited, msg)
    BY <1>0, <1>1, <1>3, <2>1, TakenEffect
  <2>2. CASE /\ Receives(Visited)
             /\ \E m \in Overwritten(Head(inbox[Visited])) : msg_do(Visited, m)
    <3>1. inbox[Visited] \in Seq(Datagram) /\ inbox[Visited] # <<>>
      BY <1>0, <1>3, <2>2 DEF TypeOK, Receives
    <3>2. Head(inbox[Visited]) \in Datagram
      BY <3>1, HeadTailProperties
    <3>3. inbox'[Visited] # inbox[Visited] /\ Taken(Visited)
      <4>1. inbox' # inbox
        <5>1. Payload \in Datagram
          BY DEF Datagram
        <5>2. Tail(inbox[Visited]) # inbox[Visited]
          BY <3>1, <5>1, QueueType
        <5>. QED  BY <1>0, <1>3, <2>2, <5>2 DEF Receives, TypeOK
      <4>. QED  BY <1>0, <1>3, <2>2, <4>1, TakenEffect
    <3>4. PICK m \in Overwritten(Head(inbox[Visited])) : msg_do(Visited, m)
      BY <2>2
    <3>5. m \in Message /\ m.payload = msg.payload
      BY <1>0, <3>2, <3>4, OverwrittenType
    <3>. QED  BY <2>2, <3>3, <3>4, <3>5
  <2>. QED  BY <2>1, <2>2 DEF Recv
<1>5. PICK new \in {0, 1} :
        /\ msg' \in Message /\ msg'.code = m.code
        /\ msg'.payload \in BOOLEAN /\ (msg'.payload <=> new = 1 \/ (m.payload /\ ~m.more))
        /\ blocks' = blocks + new
        /\ recording' \in BOOLEAN
        /\ breach' = breach \/ breach' = breach \cup {"memory"}
        /\ \/ served' = [served EXCEPT ![Visited] = @ + 1]
           \/ served' = served /\ "memory" \in breach'
        /\ \/ pc' = "setting" /\ UNCHANGED <<ready, fd>> /\ msg'.payload
           \/ Visit(Visited)
  BY <1>0, <1>3, <1>4, DoEffect
<1>6. UNCHANGED <<created, owes, sent, answered>>
  BY DEF Recv, masterVars
<1>7. \/ pc' = "setting" /\ UNCHANGED <<ready, fd>> /\ msg'.payload
      \/ /\ fd' = Visited
         /\ \/ ready = {Visited} /\ ready' = {} /\ pc' = "header"
            \/ ready = Sock /\ Visited = 0 /\ ready' = {1} /\ pc' = "recv"
  BY <1>1, <1>5, VisitEffect
<1>8. TypeOK'
  <2>1. /\ pc' \in {"setting", "header", "recv"} /\ ready' \subseteq Sock
        /\ fd' \in Sock \cup {NoSock}
    BY <1>0, <1>3, <1>7 DEF TypeOK, Sock
  <2>2. inbox' \in [Sock -> Seq(Datagram)] /\ refused' \subseteq created'
    BY <1>0, <1>4, <1>6 DEF Taken, TypeOK
  <2>3. msg' \in Message /\ blocks' \in Nat /\ recording' \in BOOLEAN
    BY <1>1, <1>5
  <2>4. served' \in [Sock -> Nat] /\ breach' \subseteq Breach
    <3>1. served' \in [Sock -> Nat]
      <4>1. [served EXCEPT ![Visited] = @ + 1] \in [Sock -> Nat]
        BY <1>1, <1>3
      <4>. QED  BY <1>1, <1>5, <4>1
    <3>2. breach' \subseteq Breach
      BY <1>0, <1>5 DEF TypeOK, Breach
    <3>. QED  BY <3>1, <3>2
  <2>. QED  BY <1>0, <1>6, <2>1, <2>2, <2>3, <2>4 DEF TypeOK, Message
<1>9. Stage'
  <2>1. msg.payload => blocks > 0
    BY <1>0, <1>1 DEF Stage, InRound
  <2>2. msg'.payload => blocks' > 0
    BY <1>1, <1>4, <1>5, <2>1
  <2>. QED  BY <1>1, <1>3, <1>7, <2>2 DEF Stage
<1>10. StillReadable'
  <2>1. ToReceive = ready
    BY <1>1 DEF ToReceive
  <2>2. ToReceive' = ready \ {Visited}
    <3>1. CASE pc' = "setting" /\ UNCHANGED ready
      BY <3>1 DEF ToReceive, Visited
    <3>2. CASE ready = {Visited} /\ ready' = {} /\ pc' = "header"
      BY <3>2 DEF ToReceive
    <3>3. CASE ready = Sock /\ Visited = 0 /\ ready' = {1} /\ pc' = "recv"
      BY <3>3 DEF ToReceive, Sock
    <3>. QED  BY <1>7, <3>1, <3>2, <3>3
  <2>3. breach \subseteq breach' /\ refused' \subseteq refused
    BY <1>4, <1>5 DEF Taken
  <2>4. ASSUME NEW s \in ready \ {Visited}
        PROVE  Readable(s)' \/ (s = 0 /\ "refused" \in breach')
    <3>1. s \in Sock \ {Visited}
      BY <1>1
    <3>2. Readable(s)' = Readable(s)
      BY <1>4, <3>1 DEF Taken
    <3>. QED  BY <1>0, <2>1, <2>3, <3>2 DEF StillReadable
  <2>5. refused' # {} => "refused" \in breach'
    BY <1>0, <2>3 DEF StillReadable
  <2>. QED  BY <2>2, <2>4, <2>5 DEF StillReadable
<1>11. FirstVisit'
  BY <1>0, <1>5, <1>7 DEF FirstVisit, Sock
<1>12. Books'
  <2>. SUFFICES ASSUME Single'
                PROVE  /\ "toolong" \notin breach' => blocks' = Kept'
                       /\ "memory" \notin breach' => \A s \in Sock : (served[s] = answered[s] + Due(s))'
                       /\ pc' = "recv" => ~msg'.payload
    BY DEF Books
  <2>1. Single /\ (breach \subseteq breach')
    BY <1>5 DEF Single
  <2>2. ready = {Visited}
    BY <1>0, <1>1, <1>2, <2>1 DEF FirstVisit, Single, Sock
  <2>3. /\ ~msg.payload /\ Kept = 0
        /\ "toolong" \notin breach => blocks = 0
        /\ "memory" \notin breach => \A s \in Sock : served[s] = answered[s]
    BY <1>0, <1>1, <2>1 DEF Books, Kept, Due, TypeOK
  <2>4. ready # Sock
    BY <2>2 DEF Sock
  <2>5. /\ pc' \in {"setting", "header"}
        /\ \A s \in Sock : Due(s)' = IF s = Visited THEN 1 ELSE 0
    <3>1. CASE pc' = "setting" /\ UNCHANGED ready
      BY <2>2, <3>1 DEF Due
    <3>2. CASE pc' = "header" /\ fd' = Visited
      BY <3>2 DEF Due
    <3>. QED  BY <1>7, <2>4, <3>1, <3>2
  <2>6. blocks' = blocks + Kept'
    BY <1>1, <1>4, <1>5, <2>3, <2>5 DEF Kept, InRound
  <2>7. Kept' \in {0, 1}
    BY DEF Kept
  <2>8. "toolong" \notin breach' => blocks' = Kept'
    BY <2>1, <2>3, <2>6, <2>7
  <2>9. ASSUME "memory" \notin breach', NEW s \in Sock
        PROVE  (served[s] = answered[s] + Due(s))'
    <3>1. served[s] = answered[s] /\ served' = [served EXCEPT ![Visited] = @ + 1]
      BY <1>5, <2>1, <2>3, <2>9
    <3>2. served'[s] = IF s = Visited THEN served[s] + 1 ELSE served[s]
      BY <1>1, <3>1
    <3>3. served[s] \in Nat /\ answered'[s] = answered[s]
      BY <1>1, <1>6
    <3>. QED  BY <2>5, <3>1, <3>2, <3>3
  <2>. QED  BY <2>5, <2>8, <2>9
<1>. QED  BY <1>8, <1>9, <1>10, <1>11, <1>12 DEF IInv

LEMMA SettingIInv ==
  ASSUME IInv, do_setting
  PROVE  IInv'
<1>0. TypeOK /\ Stage /\ StillReadable /\ FirstVisit /\ Books
  BY DEF IInv
<1>1. /\ pc = "setting" /\ ready \in SUBSET Sock /\ ready # {} /\ msg.payload
      /\ Fails(0) \/ Receives(0)
      /\ Visit(Visited)
      /\ UNCHANGED <<msg, blocks, recording, created, owes, sent, served, answered, breach>>
  BY <1>0 DEF do_setting, TypeOK, Stage, masterVars
<1>2. Taken(0)
  BY <1>0, <1>1, TakenEffect DEF Sock
<1>3. /\ Visited \in Sock /\ fd' = Visited
      /\ \/ ready = {Visited} /\ ready' = {} /\ pc' = "header"
         \/ ready = Sock /\ Visited = 0 /\ ready' = {1} /\ pc' = "recv"
  BY <1>1, VisitEffect
<1>4. TypeOK'
  <2>1. pc' \in {"header", "recv"} /\ ready' \subseteq Sock /\ fd' \in Sock
    BY <1>3 DEF Sock
  <2>2. inbox' \in [Sock -> Seq(Datagram)] /\ refused' \subseteq created'
    BY <1>0, <1>1, <1>2 DEF Taken, TypeOK
  <2>. QED  BY <1>0, <1>1, <2>1, <2>2 DEF TypeOK
<1>5. Stage'
  BY <1>0, <1>1, <1>3 DEF Stage, InRound
<1>6. StillReadable'
  <2>1. CASE ready' = {} /\ pc' = "header"
    BY <1>0, <1>1, <1>2, <2>1 DEF StillReadable, ToReceive, Taken
  <2>2. CASE ready = Sock /\ Visited = 0 /\ ready' = {1} /\ pc' = "recv"
    <3>1. 1 \in ToReceive /\ ToReceive' = {1}
      BY <1>1, <2>2 DEF ToReceive, Sock
    <3>2. Readable(1)
      BY <1>0, <3>1 DEF StillReadable
    <3>3. Readable(1)'
      BY <1>2, <3>2 DEF Taken, Sock
    <3>. QED  BY <1>0, <1>1, <1>2, <3>1, <3>3 DEF StillReadable, Taken
  <2>. QED  BY <1>3, <2>1, <2>2
<1>7. FirstVisit'
  BY <1>0, <1>1, <1>3 DEF FirstVisit, Sock
<1>8. Books'
  <2>. SUFFICES ASSUME Single'
                PROVE  /\ "toolong" \notin breach' => blocks' = Kept'
                       /\ "memory" \notin breach' => \A s \in Sock : (served[s] = answered[s] + Due(s))'
                       /\ pc' = "recv" => ~msg'.payload
    BY DEF Books
  <2>1. Single
    BY <1>1 DEF Single
  <2>2. ready = {Visited} /\ pc' = "header"
    BY <1>0, <1>3, <2>1 DEF FirstVisit, Single
  <2>3. UNCHANGED Kept
    BY <1>1, <2>2 DEF Kept, InRound
  <2>4. ASSUME NEW s \in Sock
        PROVE  Due(s)' = Due(s)
    BY <1>1, <1>3, <2>2 DEF Due
  <2>. QED  BY <1>0, <1>1, <2>1, <2>2, <2>3, <2>4 DEF Books
<1>. QED  BY <1>4, <1>5, <1>6, <1>7, <1>8 DEF IInv

LEMMA DoneHeaderIInv ==
  ASSUME IInv, msg_done_header
  PROVE  IInv'
<1>0. TypeOK /\ Stage /\ StillReadable /\ FirstVisit /\ Books
  BY DEF IInv
<1>1. /\ pc = "header" /\ ready = {} /\ fd \in Sock
      /\ pc' \in {"select", "payload"}
      /\ UNCHANGED <<inbox, ready, msg, blocks, recording, created, owes, sent, served, breach>>
      /\ fd' \in {fd, NoSock} /\ refused' \subseteq refused
      /\ pc' = "payload" => msg.payload /\ fd' = fd
      /\ \/ fd \in refused
         \/ answered' = [answered EXCEPT ![fd] = @ + 1] /\ (pc' = "payload" <=> msg.payload)
      /\ answered' = answered \/ answered' = [answered EXCEPT ![fd] = @ + 1]
  BY <1>0 DEF msg_done_header, Stage, masterVars
<1>2. answered' \in [Sock -> Nat]
  <2>1. answered \in [Sock -> Nat]
    BY <1>0 DEF TypeOK
  <2>2. [answered EXCEPT ![fd] = @ + 1] \in [Sock -> Nat]
    BY <1>1, <2>1
  <2>. QED  BY <1>1, <2>1, <2>2
<1>3. TypeOK'
  BY <1>0, <1>1, <1>2 DEF TypeOK
<1>4. Stage'
  BY <1>0, <1>1 DEF Stage, InRound
<1>5. StillReadable'
  BY <1>0, <1>1 DEF StillReadable, ToReceive
<1>6. FirstVisit'
  BY <1>0, <1>1 DEF FirstVisit
<1>7. Books'
  <2>. SUFFICES ASSUME Single'
                PROVE  /\ "toolong" \notin breach' => blocks' = Kept'
                       /\ "memory" \notin breach' => \A s \in Sock : (served[s] = answered[s] + Due(s))'
    BY <1>1 DEF Books
  <2>1. Single /\ fd \notin refused
    BY <1>0, <1>1 DEF Single, StillReadable
  <2>2. answered' = [answered EXCEPT ![fd] = @ + 1] /\ (pc' = "payload" <=> msg.payload)
    BY <1>1, <2>1
  <2>3. UNCHANGED Kept
    BY <1>1, <2>2 DEF Kept, InRound
  <2>4. ASSUME NEW s \in Sock
        PROVE  answered'[s] + Due(s)' = answered[s] + Due(s)
    <3>1. Due(s)' = 0 /\ Due(s) = IF s = fd THEN 1 ELSE 0
      BY <1>1 DEF Due
    <3>. QED  BY <1>0, <1>1, <2>2, <3>1 DEF TypeOK
  <2>. QED  BY <1>0, <1>1, <2>1, <2>3, <2>4 DEF Books
<1>. QED  BY <1>3, <1>4, <1>5, <1>6, <1>7 DEF IInv

LEMMA DonePayloadIInv ==
  ASSUME IInv, msg_done_payload
  PROVE  IInv'
<1>0. TypeOK /\ Stage /\ StillReadable /\ FirstVisit /\ Books
  BY DEF IInv
<1>1. /\ pc = "payload" /\ ready = {} /\ msg.payload /\ blocks \in Nat \ {0} /\ pc' = "select"
      /\ UNCHANGED <<inbox, ready, msg, recording, created, owes, sent, served, answered>>
      /\ fd' \in {fd, NoSock} /\ refused' \subseteq refused
      /\ breach \subseteq breach' /\ breach' \subseteq breach \cup {"toolong"}
      /\ blocks' \in {blocks, blocks - 1}
      /\ fd \in refused \/ "toolong" \in breach' \/ blocks' = blocks - 1
  BY <1>0 DEF msg_done_payload, Stage, TypeOK, InRound, masterVars
<1>2. TypeOK'
  BY <1>0, <1>1 DEF TypeOK, Breach
<1>3. Stage'
  BY <1>1 DEF Stage, InRound
<1>4. StillReadable'
  BY <1>0, <1>1 DEF StillReadable, ToReceive
<1>5. FirstVisit'
  BY <1>0, <1>1 DEF FirstVisit
<1>6. Books'
  <2>. SUFFICES ASSUME Single'
                PROVE  /\ "toolong" \notin breach' => blocks' = Kept'
                       /\ "memory" \notin breach' => \A s \in Sock : (served[s] = answered[s] + Due(s))'
    BY <1>1 DEF Books
  <2>1. Single /\ fd \notin refused /\ breach \subseteq breach'
    BY <1>0, <1>1 DEF Single, StillReadable, Stage
  <2>2. Kept = 1 /\ Kept' = 0
    BY <1>1 DEF Kept, InRound
  <2>3. \A s \in Sock : Due(s)' = Due(s)
    BY <1>1 DEF Due
  <2>. QED  BY <1>0, <1>1, <2>1, <2>2, <2>3 DEF Books
<1>. QED  BY <1>2, <1>3, <1>4, <1>5, <1>6 DEF IInv

-----------------------------------------------------------------------------
(***************************************************************************)
(* The theorems.                                                           *)
(***************************************************************************)

LEMMA InitIInv == Init => IInv
<1>. SUFFICES ASSUME Init PROVE IInv
  OBVIOUS
<1>1. TypeOK
  <2>1. inbox \in [Sock -> Seq(Datagram)]
    BY DEF Init
  <2>2. msg \in [code: Code \cup {"none"}, more: BOOLEAN, payload: BOOLEAN]
    BY DEF Init, NoMessage
  <2>3. blocks \in Nat /\ sent \in 0 .. MaxSent
    BY DEF Init, MsgAssumption
  <2>4. served \in [Sock -> Nat] /\ answered \in [Sock -> Nat]
    BY DEF Init
  <2>. QED  BY <2>1, <2>2, <2>3, <2>4 DEF Init, TypeOK
<1>2. Stage /\ StillReadable
  BY DEF Init, Stage, StillReadable, ToReceive, InRound
<1>3. FirstVisit /\ Books
  BY DEF Init, FirstVisit, Books, Kept, Due, InRound, Sock
<1>. QED  BY <1>1, <1>2, <1>3 DEF IInv

LEMMA NextIInv == IInv /\ [Next]_vars => IInv'
<1>. SUFFICES ASSUME IInv, [Next]_vars PROVE IInv'
  OBVIOUS
<1>1. CASE Environment
  BY <1>1, EnvironmentIInv
<1>2. CASE Connect \/ ConnectFails
  BY <1>2, ConnectIInv
<1>3. CASE Select
  BY <1>3, SelectIInv
<1>4. CASE Recv
  BY <1>4, RecvIInv
<1>5. CASE do_setting
  BY <1>5, SettingIInv
<1>6. CASE msg_done_header
  BY <1>6, DoneHeaderIInv
<1>7. CASE msg_done_payload
  BY <1>7, DonePayloadIInv
<1>8. CASE UNCHANGED vars
  BY <1>8 DEF vars, masterVars, IInv, TypeOK, Stage, StillReadable, ToReceive, Readable,
              Visited, FirstVisit, Books, Single, Kept, Due, InRound
<1>. QED  BY <1>1, <1>2, <1>3, <1>4, <1>5, <1>6, <1>7, <1>8 DEF Next, Main

LEMMA Invariance == Spec => []IInv
BY InitIInv, NextIInv, PTL DEF Spec

(* Every variable of the message loop keeps its type: in particular no     *)
(* payload is freed that is not allocated.                                 *)
THEOREM TypeCorrect == Spec => []TypeOK
<1>1. IInv => TypeOK
  BY DEF IInv
<1>. QED  BY <1>1, Invariance, PTL

(* A recv in msg_wait finds something to read, unless it is for an error   *)
(* that the preview thread's send has taken away since select.             *)
THEOREM NeverBlocks == Spec => []RecvNeverBlocks
<1>1. IInv => RecvNeverBlocks
  <2>. SUFFICES ASSUME IInv, pc = "recv"
                PROVE  Readable(Visited) \/ (Visited = 0 /\ "refused" \in breach)
    BY DEF RecvNeverBlocks
  <2>1. ready \in SUBSET Sock /\ ready # {}
    BY DEF IInv, TypeOK, Stage
  <2>2. Visited \in ToReceive
    BY <2>1, Least DEF Visited, LeastOf, ToReceive
  <2>. QED  BY <2>2 DEF IInv, StillReadable
<1>. QED  BY <1>1, Invariance, PTL

(* Without an ICMP error, rounds that visit one socket answer there to     *)
(* what they executed and free what they allocated.                        *)
THEOREM Balanced == Spec => []RoundsBalance
<1>1. IInv => RoundsBalance
  <2>. SUFFICES ASSUME IInv, pc = "select", Single
                PROVE  /\ "toolong" \notin breach => blocks = 0
                       /\ "memory" \notin breach => answered = served
    BY DEF RoundsBalance, Single
  <2>1. Kept = 0 /\ \A s \in Sock : Due(s) = 0
    BY DEF Kept, Due, InRound
  <2>2. answered \in [Sock -> Nat] /\ served \in [Sock -> Nat]
    BY DEF IInv, TypeOK
  <2>. QED  BY <2>1, <2>2 DEF IInv, Books
<1>. QED  BY <1>1, Invariance, PTL

(* A recv that fails executes at most, for socket 1, the command that      *)
(* socket 0 has delivered in the same round.                               *)
THEOREM Repeats == Spec => RepeatsWithinRound
<1>1. ASSUME IInv, Next, NEW s \in Sock,
             served'[s] # served[s], inbox'[s] = inbox[s], msg'.code # "none"
      PROVE  s = 1 /\ "both" \in breach
  <2>1. Recv
    <3>1. Environment => UNCHANGED served
      BY <1>1, EnvironmentEffect DEF IInv
    <3>. QED  BY <1>1, <3>1 DEF Next, Main, Connect, ConnectFails, Select, do_setting,
                               msg_done_header, msg_done_payload
  <2>2. /\ TypeOK /\ FirstVisit /\ pc = "recv" /\ ready \in SUBSET Sock /\ ready # {}
        /\ msg \in Message /\ served \in [Sock -> Nat]
    BY <1>1, <2>1 DEF IInv, Recv, TypeOK, Stage, Message
  <2>3. Visited \in Sock /\ Visited = IF 0 \in ready THEN 0 ELSE 1
    BY <2>2, Least DEF Visited, LeastOf
  <2>4. ASSUME NEW m \in Message, msg_do(Visited, m)
        PROVE  s = Visited /\ msg'.code = m.code
    <3>1. /\ msg'.code = m.code
          /\ served' = [served EXCEPT ![Visited] = @ + 1] \/ served' = served
      BY <2>2, <2>3, <2>4, DoEffect
    <3>. QED  BY <1>1, <2>2, <3>1
  <2>5. CASE Fails(Visited) /\ msg_do(Visited, msg)
    <3>1. s = Visited /\ msg.code # "none"
      BY <1>1, <2>2, <2>4, <2>5
    <3>. QED  BY <2>2, <2>3, <3>1 DEF FirstVisit
  <2>6. CASE /\ Receives(Visited)
             /\ \E m \in Overwritten(Head(inbox[Visited])) : msg_do(Visited, m)
    <3>1. inbox[Visited] \in Seq(Datagram) /\ inbox[Visited] # <<>> /\ Payload \in Datagram
      BY <2>2, <2>3, <2>6 DEF TypeOK, Receives, Datagram
    <3>2. Head(inbox[Visited]) \in Datagram /\ Tail(inbox[Visited]) # inbox[Visited]
      BY <3>1, QueueType
    <3>3. PICK m \in Message : msg_do(Visited, m)
      BY <2>2, <2>6, <3>2, OverwrittenType
    <3>4. s = Visited
      BY <2>4, <3>3
    <3>5. inbox'[Visited] = Tail(inbox[Visited])
      BY <2>2, <2>3, <2>6 DEF Receives, TypeOK
    <3>. QED  BY <1>1, <3>2, <3>4, <3>5
  <2>. QED  BY <2>1, <2>5, <2>6 DEF Recv
<1>2. IInv /\ [Next]_vars =>
        [\A s \in Sock :
           served'[s] # served[s] /\ inbox'[s] = inbox[s] /\ msg'.code # "none"
           => s = 1 /\ "both" \in breach]_vars
  BY <1>1
<1>. QED  BY <1>2, Invariance, PTL DEF Spec, RepeatsWithinRound

=============================================================================
