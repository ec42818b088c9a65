--------------------------- MODULE CommandsProofs ---------------------------
(***************************************************************************)
(* Proof that MsgLoop takes only the steps of module Commands, for all     *)
(* commands the master may send and any number of them; and, on the way,   *)
(* what is in the queues as long as no datagram can be mistaken.           *)
(***************************************************************************)
EXTENDS MsgLoopProofs

USE MsgAssumption

-----------------------------------------------------------------------------
(***************************************************************************)
(* The main thread's steps.                                                *)
(***************************************************************************)

(* A recv in msg_wait, with the message m that it leaves: either m is      *)
(* executed or there is no memory for its payload; a SETTING then waits    *)
(* for its payload, with everything else the visit is over.                *)
Receiving(s, m) ==
  /\ \/ Fails(s) /\ m = msg
     \/ Receives(s) /\ m \in Overwritten(Head(inbox[s]))
  /\ m \in Message /\ msg'.code = m.code /\ msg'.more = m.more
  /\ \/ breach' = breach /\ served' = [served EXCEPT ![s] = @ + 1] /\ do_record(m.code)
     \/ breach' = breach \cup {"memory"} /\ served' = served /\ m.more
  /\ \/ /\ pc' = "setting" /\ UNCHANGED <<ready, fd>>
        /\ m.code = "SETTING" /\ m.more /\ served' = [served EXCEPT ![s] = @ + 1]
     \/ Visit(s) /\ ~(m.code = "SETTING" /\ m.more /\ served' # served)
  /\ UNCHANGED <<created, owes, sent, answered>>

(* A visit of msg_wait, as far as these proofs look into it. *)
LEMMA Recvs ==
  ASSUME IInv, Recv
  PROVE  /\ pc = "recv" /\ ready \in SUBSET Sock /\ ready # {}
         /\ Visited \in ready /\ Visited = IF 0 \in ready THEN 0 ELSE 1
         /\ \E m \in Message : Receiving(Visited, m)
<1>1. pc = "recv" /\ ready \in SUBSET Sock /\ ready # {} /\ msg \in Message
      /\ served \in [Sock -> Nat] /\ breach \subseteq Breach /\ TypeOK
  BY DEF IInv, TypeOK, Stage, Recv, Message
<1>2. Visited \in ready /\ Visited = IF 0 \in ready THEN 0 ELSE 1
  BY <1>1, Least DEF Visited, LeastOf
<1>3. PICK m : /\ \/ Fails(Visited) /\ m = msg
                  \/ Receives(Visited) /\ m \in Overwritten(Head(inbox[Visited]))
               /\ msg_do(Visited, m)
  BY DEF Recv
<1>4. m \in Message
  <2>1. CASE Receives(Visited) /\ m \in Overwritten(Head(inbox[Visited]))
    <3>1. inbox[Visited] \in Seq(Datagram) /\ inbox[Visited] # <<>>
      BY <1>1, <1>2, <2>1 DEF TypeOK, Receives
    <3>2. Head(inbox[Visited]) \in Datagram
      BY <3>1, HeadTailProperties
    <3>. QED  BY <1>1, <2>1, <3>2, OverwrittenType
  <2>. QED  BY <1>1, <1>3, <2>1
<1>5. PICK room \in BOOLEAN :
        LET does == IF m.more /\ ~room THEN "nothing" ELSE m.code
        IN  /\ ~room => m.more
            /\ msg' = [m EXCEPT !.payload = IF m.more THEN room ELSE @]
            /\ breach' = IF room THEN breach ELSE breach \cup {"memory"}
            /\ do_record(does)
            /\ served' = [served EXCEPT ![Visited] = IF does = "nothing" THEN @ ELSE @ + 1]
            /\ IF does = "SETTING" /\ m.more
                 THEN pc' = "setting" /\ UNCHANGED <<ready, fd>>
                 ELSE Visit(Visited)
  BY <1>3 DEF msg_do
<1>6. msg'.code = m.code /\ msg'.more = m.more
  BY <1>4, <1>5 DEF Message
<1>7. m.code # "nothing"
  BY <1>4 DEF Message, Code
<1>8. CASE room
  <2>1. /\ breach' = breach /\ served' = [served EXCEPT ![Visited] = @ + 1]
        /\ do_record(m.code)
    BY <1>5, <1>7, <1>8
  <2>2. \/ pc' = "setting" /\ UNCHANGED <<ready, fd>> /\ m.code = "SETTING" /\ m.more
        \/ Visit(Visited) /\ ~(m.code = "SETTING" /\ m.more)
    BY <1>5, <1>8
  <2>3. Receiving(Visited, m)
    BY <1>3, <1>4, <1>6, <2>1, <2>2 DEF Receiving, Recv, masterVars
  <2>. QED  BY <1>1, <1>2, <1>4, <2>3
<1>9. CASE ~room
  <2>1. breach' = breach \cup {"memory"} /\ m.more /\ Visit(Visited)
    BY <1>5, <1>9
  <2>2. served' = [served EXCEPT ![Visited] = @]
    BY <1>5, <1>9
  <2>3. served' = served
    BY <1>1, <1>2, <2>2
  <2>4. Receiving(Visited, m)
    BY <1>3, <1>4, <1>6, <2>1, <2>3 DEF Receiving, Recv, masterVars
  <2>. QED  BY <1>1, <1>2, <1>4, <2>4
<1>. QED  BY <1>8, <1>9

(* The breaches and what has been served only grow. *)
LEMMA Grows ==
  ASSUME IInv, [Next]_vars
  PROVE  breach \subseteq breach' /\ \A s \in Sock : served'[s] >= served[s]
<1>0. TypeOK /\ served \in [Sock -> Nat]
  BY DEF IInv, TypeOK
<1>1. CASE Recv
  <2>1. PICK m \in Message : Receiving(Visited, m)
    BY <1>1, Recvs
  <2>2. Visited \in Sock
    BY <1>1, Recvs
  <2>3. breach \subseteq breach'
    BY <2>1 DEF Receiving
  <2>4. served' = [served EXCEPT ![Visited] = @ + 1] \/ served' = served
    BY <2>1 DEF Receiving
  <2>. QED  BY <1>0, <2>2, <2>3, <2>4
<1>2. CASE Environment
  BY <1>0, <1>2, EnvironmentEffect DEF Arrivals
<1>3. CASE UNCHANGED vars
  BY <1>0, <1>3 DEF vars
<1>4. CASE Connect \/ ConnectFails \/ Select \/ do_setting \/ msg_done_header
           \/ msg_done_payload
  BY <1>0, <1>4 DEF Connect, ConnectFails, Select, do_setting, msg_done_header,
                    msg_done_payload
<1>. QED  BY <1>1, <1>2, <1>3, <1>4 DEF Next, Main

-----------------------------------------------------------------------------
(***************************************************************************)
(* Queues of datagrams.                                                    *)
(***************************************************************************)

(* What tells the datagrams apart. *)
LEMMA Datagrams ==
  /\ Payload \in Datagram /\ Payload.code = "none" /\ Payload.kind # "header"
  /\ \A c \in Code : Header(c) \in Datagram /\ Header(c) # Payload /\ Header(c).code = c
  /\ \A d \in Datagram : d # Payload => d.kind = "header" /\ d.code \in Code
BY DEF Datagram, Payload, Header

(* The datagram d comes into the queue q at its end, or overtakes the last.*)
LEMMA Appends ==
  ASSUME NEW q \in Seq(Datagram), NEW d \in Datagram, NEW r, r = Append(q, d)
  PROVE  /\ r \in Seq(Datagram) /\ Len(q) \in Nat /\ Len(r) = Len(q) + 1 /\ r # <<>>
         /\ DOMAIN q = 1 .. Len(q) /\ DOMAIN r = 1 .. Len(r)
         /\ \A i \in 1 .. Len(q) : r[i] = q[i]
         /\ r[Len(q) + 1] = d
BY AppendProperties, LenProperties

(* The positions in a queue whose last datagram has been overtaken by d. *)
LEMMA Overtakes ==
  ASSUME NEW q \in Seq(Datagram), q # <<>>, NEW d \in Datagram,
         NEW r, r = SubSeq(q, 1, Len(q) - 1) \o <<d, q[Len(q)]>>
  PROVE  /\ r \in Seq(Datagram) /\ Len(q) \in Nat \ {0} /\ Len(r) = Len(q) + 1
         /\ DOMAIN q = 1 .. Len(q) /\ DOMAIN r = 1 .. Len(r)
         /\ \A i \in 1 .. Len(q) - 1 : r[i] = q[i]
         /\ r[Len(q)] = d /\ r[Len(q) + 1] = q[Len(q)]
<1>. DEFINE front == SubSeq(q, 1, Len(q) - 1)
            end   == <<d, q[Len(q)]>>
<1>1. Len(q) \in Nat \ {0} /\ DOMAIN q = 1 .. Len(q)
  BY EmptySeq, LenProperties
<1>2. \A i \in 1 .. Len(q) : q[i] \in Datagram
  BY ElementOfSeq
<1>3. /\ front \in Seq(Datagram) /\ Len(front) = Len(q) - 1
      /\ \A i \in 1 .. Len(q) - 1 : front[i] = q[i]
  <2>1. \A i \in 1 .. Len(q) - 1 : q[i] \in Datagram
    BY <1>1, <1>2
  <2>2. /\ front \in Seq(Datagram)
        /\ Len(front) = IF 1 <= Len(q) - 1 THEN Len(q) - 1 - 1 + 1 ELSE 0
        /\ \A i \in 1 .. Len(q) - 1 - 1 + 1 : front[i] = q[1 + i - 1]
    BY <1>1, <2>1, SubSeqProperties
  <2>. QED  BY <1>1, <2>2
<1>4. end \in Seq(Datagram) /\ Len(end) = 2 /\ end[1] = d /\ end[2] = q[Len(q)]
  BY <1>1, <1>2
<1>5. /\ r \in Seq(Datagram) /\ Len(r) = Len(front) + Len(end)
      /\ \A i \in 1 .. Len(front) + Len(end) :
           r[i] = IF i <= Len(front) THEN front[i] ELSE end[i - Len(front)]
  <2>. HIDE DEF front, end
  <2>1. r = front \o end
    BY DEF front, end
  <2>2. /\ front \o end \in Seq(Datagram)
        /\ Len(front \o end) = Len(front) + Len(end)
        /\ \A i \in 1 .. Len(front) + Len(end) :
             (front \o end)[i] = IF i <= Len(front) THEN front[i] ELSE end[i - Len(front)]
    <3>1. front \in Seq(Datagram) /\ end \in Seq(Datagram)
      BY <1>3, <1>4
    <3>. QED  BY <3>1, ConcatProperties, Zenon
  <2>. QED  BY <2>1, <2>2
<1>. HIDE DEF front, end
<1>6. Len(r) = Len(q) + 1 /\ DOMAIN r = 1 .. Len(r)
  BY <1>1, <1>3, <1>4, <1>5, LenProperties
<1>7. \A i \in 1 .. Len(q) - 1 : r[i] = q[i]
  BY <1>1, <1>3, <1>4, <1>5
<1>8. r[Len(q)] = d /\ r[Len(q) + 1] = q[Len(q)]
  <2>1. ASSUME NEW n \in 1 .. Len(front) + Len(end), NEW k \in {1, 2}, n = Len(front) + k
        PROVE  r[n] = end[k]
    <3>1. ~(n <= Len(front)) /\ n - Len(front) = k
      BY <1>1, <1>3, <2>1
    <3>. QED  BY <1>5, <3>1
  <2>2. /\ Len(q) \in 1 .. Len(front) + Len(end) /\ Len(q) + 1 \in 1 .. Len(front) + Len(end)
        /\ Len(q) = Len(front) + 1 /\ Len(q) + 1 = Len(front) + 2
    BY <1>1, <1>3, <1>4
  <2>3. r[Len(q)] = end[1] /\ r[Len(q) + 1] = end[2]
    BY <2>1, <2>2
  <2>. QED  BY <1>4, <2>3
<1>. QED  BY <1>1, <1>5, <1>6, <1>7, <1>8

(* The positions in a queue whose first datagram has been received. *)
LEMMA Takes ==
  ASSUME NEW q \in Seq(Datagram), q # <<>>, NEW r, r = Tail(q)
  PROVE  /\ r \in Seq(Datagram) /\ Len(q) \in Nat \ {0} /\ Len(r) = Len(q) - 1
         /\ Head(q) = q[1] /\ q[1] \in Datagram
         /\ DOMAIN q = 1 .. Len(q) /\ DOMAIN r = 1 .. Len(r)
         /\ \A i \in 1 .. Len(r) : r[i] = q[i + 1]
BY HeadTailProperties, LenProperties, EmptySeq

-----------------------------------------------------------------------------
(***************************************************************************)
(* Commands and payloads.                                                  *)
(***************************************************************************)

(* The master sends no command that has a payload. *)
Plain == Sent \cap CarriesPayload = {}

(* Nothing has made the slave mistake a payload. *)
Clean == breach \cap Garbling = {}

PlainTraffic ==
  Plain => /\ \A s \in Sock : \A i \in DOMAIN inbox[s] :
                inbox[s][i] # Payload /\ inbox[s][i].code \notin CarriesPayload
           /\ owes = NoSock /\ pc # "setting" /\ ~msg.more

(* A payload comes behind position i of q, where position 0 is the command *)
(* that is being executed.                                                 *)
Awaits(q, i, setting) == IF i = 0 THEN setting ELSE q[i].code = "SETTING"

(* Every SETTING is followed by its payload, and the last one's is yet to  *)
(* be sent if open.                                                        *)
Framing(q, setting, open) ==
  /\ \A i \in 1 .. Len(q) : /\ q[i].code # "DELETE_FILE"
                            /\ q[i] = Payload <=> Awaits(q, i - 1, setting)
  /\ open <=> Awaits(q, Len(q), setting)

Framed ==
  ~Plain /\ Clean =>
    /\ \A i \in DOMAIN inbox[1] :
         inbox[1][i] # Payload /\ inbox[1][i].code \notin CarriesPayload
    /\ Framing(inbox[0], pc = "setting", owes # NoSock) /\ owes # 1
    /\ pc = "setting" => 0 \in ready

(* do_setting is the function of SETTING. *)
Setting == pc = "setting" => msg.code = "SETTING"

(* Framing survives what the master sends and what the slave receives, in  *)
(* order.                                                                  *)
LEMMA FramingAppend ==
  ASSUME NEW q \in Seq(Datagram), NEW d \in Datagram, NEW setting, NEW open,
         Framing(q, setting, open), d.code # "DELETE_FILE", d = Payload <=> open
  PROVE  Framing(Append(q, d), setting, d.code = "SETTING")
<1>. DEFINE r == Append(q, d)
<1>1. /\ Len(q) \in Nat /\ Len(r) = Len(q) + 1
      /\ \A i \in 1 .. Len(q) : r[i] = q[i]
      /\ r[Len(q) + 1] = d
  BY Appends
<1>. HIDE DEF r
<1>2. \A i \in 0 .. Len(q) : Awaits(r, i, setting) = Awaits(q, i, setting)
  BY <1>1 DEF Awaits
<1>3. Awaits(r, Len(r), setting) <=> d.code = "SETTING"
  BY <1>1 DEF Awaits
<1>4. ASSUME NEW i \in 1 .. Len(r)
      PROVE  r[i].code # "DELETE_FILE" /\ (r[i] = Payload <=> Awaits(r, i - 1, setting))
  <2>1. CASE i \in 1 .. Len(q)
    <3>1. i - 1 \in 0 .. Len(q)
      BY <1>1, <2>1
    <3>. QED  BY <1>1, <1>2, <2>1, <3>1 DEF Framing
  <2>2. CASE i = Len(q) + 1
    <3>1. i - 1 = Len(q) /\ Len(q) \in 0 .. Len(q)
      BY <1>1, <2>2
    <3>2. Awaits(r, i - 1, setting) = Awaits(q, Len(q), setting)
      BY <1>2, <3>1
    <3>. QED  BY <1>1, <2>2, <3>2 DEF Framing
  <2>. QED  BY <1>1, <2>1, <2>2
<1>. QED  BY <1>3, <1>4 DEF Framing, r

LEMMA FramingTail ==
  ASSUME NEW q \in Seq(Datagram), q # <<>>, NEW setting, NEW open, Framing(q, setting, open)
  PROVE  /\ Framing(Tail(q), q[1].code = "SETTING", open)
         /\ q[1].code # "DELETE_FILE" /\ (q[1] = Payload <=> setting)
<1>. DEFINE r == Tail(q)
<1>1. /\ Len(q) \in Nat \ {0} /\ Len(r) = Len(q) - 1
      /\ \A i \in 1 .. Len(r) : r[i] = q[i + 1]
  BY Takes
<1>. HIDE DEF r
<1>2. \A i \in 0 .. Len(r) : Awaits(r, i, q[1].code = "SETTING") <=> Awaits(q, i + 1, setting)
  BY <1>1 DEF Awaits
<1>3. ASSUME NEW i \in 1 .. Len(r)
      PROVE  /\ r[i].code # "DELETE_FILE"
             /\ r[i] = Payload <=> Awaits(r, i - 1, q[1].code = "SETTING")
  <2>1. i + 1 \in 1 .. Len(q) /\ i - 1 \in 0 .. Len(r) /\ (i - 1) + 1 = (i + 1) - 1
    BY <1>1
  <2>2. Awaits(r, i - 1, q[1].code = "SETTING") <=> Awaits(q, (i + 1) - 1, setting)
    BY <1>2, <2>1
  <2>. QED  BY <1>1, <2>1, <2>2 DEF Framing
<1>4. open <=> Awaits(r, Len(r), q[1].code = "SETTING")
  <2>1. Len(r) \in 0 .. Len(r) /\ Len(r) + 1 = Len(q)
    BY <1>1
  <2>. QED  BY <1>2, <2>1 DEF Framing
<1>5. q[1].code # "DELETE_FILE" /\ (q[1] = Payload <=> setting)
  <2>1. 1 \in 1 .. Len(q)
    BY <1>1
  <2>. QED  BY <2>1 DEF Framing, Awaits
<1>. QED  BY <1>3, <1>4, <1>5 DEF Framing, r

(* The datagram d is in r at position p, among those of q. *)
Inserted(q, d, p, r) ==
  /\ r \in Seq(Datagram) /\ p \in 1 .. Len(q) + 1
  /\ Len(q) \in Nat /\ Len(r) = Len(q) + 1
  /\ DOMAIN q = 1 .. Len(q) /\ DOMAIN r = 1 .. Len(r)
  /\ \A i \in 1 .. p - 1 : r[i] = q[i]
  /\ r[p] = d
  /\ \A i \in p .. Len(q) : r[i + 1] = q[i]

(* A datagram that overtakes the last one is inserted before it. *)
LEMMA OvertakesAt ==
  ASSUME NEW q \in Seq(Datagram), q # <<>>, NEW d \in Datagram
  PROVE  /\ Inserted(q, d, Len(q), SubSeq(q, 1, Len(q) - 1) \o <<d, q[Len(q)]>>)
         /\ Len(q) \in Nat \ {0}
<1>. DEFINE r == SubSeq(q, 1, Len(q) - 1) \o <<d, q[Len(q)]>>
<1>1. /\ r \in Seq(Datagram) /\ Len(q) \in Nat \ {0} /\ Len(r) = Len(q) + 1
      /\ DOMAIN q = 1 .. Len(q) /\ DOMAIN r = 1 .. Len(r)
      /\ \A i \in 1 .. Len(q) - 1 : r[i] = q[i]
      /\ r[Len(q)] = d /\ r[Len(q) + 1] = q[Len(q)]
  BY Overtakes
<1>. HIDE DEF r
<1>2. \A i \in Len(q) .. Len(q) : r[i + 1] = q[i]
  BY <1>1
<1>3. Inserted(q, d, Len(q), r)
  BY <1>1, <1>2 DEF Inserted
<1>. QED  BY <1>1, <1>3 DEF r

(* A datagram is lost or inserted somewhere, at the end unless it          *)
(* overtakes.                                                              *)
LEMMA Transmits ==
  ASSUME TypeOK, NEW s \in Sock, NEW d \in Datagram, NEW b, Transmit(s, d, b)
  PROVE  /\ breach \subseteq breach' /\ b \subseteq breach'
         /\ \/ UNCHANGED inbox /\ "lost" \in breach'
            \/ /\ \E p \in 1 .. Len(inbox[s]) + 1 : Inserted(inbox[s], d, p, inbox'[s])
               /\ \A r \in Sock : r # s => inbox'[r] = inbox[r]
         /\ \/ UNCHANGED inbox /\ (InParts(d) => "severed" \in breach')
            \/ "reordered" \in breach'
            \/ inbox' = [inbox EXCEPT ![s] = Append(@, d)]
<1>0. inbox \in [Sock -> Seq(Datagram)] /\ inbox[s] \in Seq(Datagram)
  BY DEF TypeOK
<1>1. CASE inbox' = [inbox EXCEPT ![s] = Append(@, d)] /\ breach' = breach \cup b
  <2>1. inbox'[s] = Append(inbox[s], d)
    BY <1>0, <1>1
  <2>2. Inserted(inbox[s], d, Len(inbox[s]) + 1, inbox'[s]) /\ Len(inbox[s]) \in Nat
    BY <1>0, <2>1, Appends DEF Inserted
  <2>3. Len(inbox[s]) + 1 \in 1 .. Len(inbox[s]) + 1
    BY <2>2
  <2>. QED  BY <1>0, <1>1, <2>2, <2>3
<1>2. CASE /\ UNCHANGED inbox
           /\ breach' = breach \cup b \cup {"lost"} \cup (IF InParts(d) THEN {"severed"} ELSE {})
  BY <1>2
<1>3. CASE /\ inbox[s] # <<>>
           /\ inbox' = [inbox EXCEPT ![s] = SubSeq(@, 1, Len(@) - 1) \o <<d, @[Len(@)]>>]
           /\ breach' = breach \cup b \cup {"reordered"}
  <2>1. inbox'[s] = SubSeq(inbox[s], 1, Len(inbox[s]) - 1) \o <<d, inbox[s][Len(inbox[s])]>>
    BY <1>0, <1>3
  <2>2. Inserted(inbox[s], d, Len(inbox[s]), inbox'[s]) /\ Len(inbox[s]) \in Nat \ {0}
    BY <1>0, <1>3, <2>1, OvertakesAt
  <2>3. Len(inbox[s]) \in 1 .. Len(inbox[s]) + 1
    BY <2>2
  <2>. QED  BY <1>0, <1>3, <2>2, <2>3
<1>. QED  BY <1>1, <1>2, <1>3 DEF Transmit

(* All that is in a queue was there before or is what has come. *)
LEMMA Arrives ==
  ASSUME TypeOK, NEW s \in Sock, NEW d \in Datagram, NEW b, Transmit(s, d, b),
         NEW r \in Sock, NEW i \in DOMAIN inbox'[r]
  PROVE  (r = s /\ inbox'[r][i] = d) \/ \E j \in DOMAIN inbox[r] : inbox'[r][i] = inbox[r][j]
<1>1. CASE inbox'[r] = inbox[r]
  BY <1>1
<1>2. CASE r = s /\ \E p \in 1 .. Len(inbox[s]) + 1 : Inserted(inbox[s], d, p, inbox'[s])
  <2>1. PICK p \in 1 .. Len(inbox[s]) + 1 : Inserted(inbox[s], d, p, inbox'[s])
    BY <1>2
  <2>2. /\ i \in 1 .. Len(inbox[s]) + 1 /\ Len(inbox[s]) \in Nat
        /\ DOMAIN inbox[s] = 1 .. Len(inbox[s])
    BY <1>2, <2>1 DEF Inserted
  <2>3. CASE i < p
    <3>1. i \in 1 .. p - 1 /\ i \in 1 .. Len(inbox[s])
      BY <2>1, <2>2, <2>3
    <3>. QED  BY <1>2, <2>1, <2>2, <3>1 DEF Inserted
  <2>4. CASE i = p
    BY <1>2, <2>1, <2>4 DEF Inserted
  <2>5. CASE i > p
    <3>1. i - 1 \in p .. Len(inbox[s]) /\ i - 1 \in 1 .. Len(inbox[s]) /\ (i - 1) + 1 = i
      BY <2>1, <2>2, <2>5
    <3>2. inbox'[s][(i - 1) + 1] = inbox[s][i - 1]
      BY <2>1, <3>1 DEF Inserted
    <3>. QED  BY <1>2, <2>2, <3>1, <3>2
  <2>. QED  BY <2>1, <2>2, <2>3, <2>4, <2>5
<1>. QED  BY <1>1, <1>2, Transmits

(* A recv takes the first datagram off. *)
LEMMA Leaves ==
  ASSUME TypeOK, NEW s \in Sock, Receives(s)
  PROVE  /\ inbox[s] \in Seq(Datagram) /\ inbox[s] # <<>> /\ inbox'[s] = Tail(inbox[s])
         /\ Head(inbox[s]) = inbox[s][1] /\ 1 \in DOMAIN inbox[s]
         /\ inbox[s][1] \in Datagram
         /\ \A i \in DOMAIN inbox'[s] :
              i \in Nat \ {0} /\ i + 1 \in DOMAIN inbox[s] /\ inbox'[s][i] = inbox[s][i + 1]
         /\ \A r \in Sock : r # s => inbox'[r] = inbox[r]
         /\ UNCHANGED refused /\ s \notin refused
<1>1. /\ inbox[s] \in Seq(Datagram) /\ inbox[s] # <<>> /\ inbox'[s] = Tail(inbox[s])
      /\ \A r \in Sock : r # s => inbox'[r] = inbox[r]
      /\ UNCHANGED refused /\ s \notin refused
  BY DEF TypeOK, Receives
<1>2. /\ Len(inbox[s]) \in Nat \ {0} /\ Len(inbox'[s]) = Len(inbox[s]) - 1
      /\ Head(inbox[s]) = inbox[s][1] /\ inbox[s][1] \in Datagram
      /\ DOMAIN inbox[s] = 1 .. Len(inbox[s]) /\ DOMAIN inbox'[s] = 1 .. Len(inbox'[s])
      /\ \A i \in 1 .. Len(inbox'[s]) : inbox'[s][i] = inbox[s][i + 1]
  BY <1>1, Takes
<1>. QED  BY <1>1, <1>2

(* What msg_recvfrom makes of a header. *)
LEMMA Reads ==
  ASSUME TypeOK, NEW s \in Sock, Receives(s), inbox[s][1] # Payload,
         NEW m \in Overwritten(Head(inbox[s]))
  PROVE  m.code = inbox[s][1].code /\ (m.more <=> m.code \in CarriesPayload)
<1>1. Head(inbox[s]) = inbox[s][1] /\ inbox[s][1] \in Datagram
  BY Leaves
<1>2. inbox[s][1].kind = "header"
  BY <1>1, Datagrams
<1>3. m = [msg EXCEPT !.code = inbox[s][1].code, !.more = inbox[s][1].code \in CarriesPayload]
  BY <1>1, <1>2 DEF Overwritten
<1>4. msg \in [code: Code \cup {"none"}, more: BOOLEAN, payload: BOOLEAN]
  BY DEF TypeOK
<1>. QED  BY <1>3, <1>4

(* Of the main thread's steps only those that receive touch a queue, and   *)
(* only a recv executes a command.                                         *)
LEMMA OtherSteps ==
  ASSUME Connect \/ ConnectFails \/ Select \/ msg_done_header \/ msg_done_payload
  PROVE  /\ UNCHANGED <<inbox, owes, served, recording>>
         /\ pc \notin {"recv", "setting"} /\ pc' # "setting"
         /\ msg' \in {msg, NoMessage} /\ refused' \subseteq refused
         /\ pc' = "recv" => Select
BY DEF Connect, ConnectFails, Select, msg_done_header, msg_done_payload, masterVars

(* PlainTraffic, Setting and Framed are inductive. *)
LEMMA PlainStep ==
  ASSUME IInv, PlainTraffic, [Next]_vars
  PROVE  PlainTraffic'
<1>. SUFFICES ASSUME Plain  PROVE PlainTraffic'
  BY DEF PlainTraffic, Plain
<1>0. /\ \A s \in Sock : \A i \in DOMAIN inbox[s] :
           inbox[s][i] # Payload /\ inbox[s][i].code \notin CarriesPayload
      /\ owes = NoSock /\ pc # "setting" /\ ~msg.more /\ TypeOK
  BY DEF PlainTraffic, IInv
<1>1. CASE Environment
  <2>0. UNCHANGED <<pc, msg>>
    BY <1>0, <1>1, EnvironmentEffect
  <2>1. ASSUME NEW s \in Sock, NEW code \in Sent, Command(s, code)  PROVE PlainTraffic'
    <3>1. code \in Code /\ code \notin CarriesPayload
      BY DEF Plain
    <3>2. Header(code) \in Datagram /\ Header(code) # Payload /\ Header(code).code = code
      BY <3>1, Datagrams
    <3>3. PICK b : Transmit(s, Header(code), b)
      BY <2>1 DEF Command
    <3>4. owes' = NoSock
      BY <1>0, <2>1, <3>1 DEF Command
    <3>5. ASSUME NEW r \in Sock, NEW i \in DOMAIN inbox'[r]
          PROVE  inbox'[r][i] # Payload /\ inbox'[r][i].code \notin CarriesPayload
      <4>1. \/ inbox'[r][i] = Header(code)
            \/ \E j \in DOMAIN inbox[r] : inbox'[r][i] = inbox[r][j]
        BY <1>0, <3>2, <3>3, <3>5, Arrives
      <4>. QED  BY <1>0, <3>1, <3>2, <4>1
    <3>. QED  BY <1>0, <2>0, <3>4, <3>5 DEF PlainTraffic
  <2>2. CASE SendPayload
    BY <1>0, <2>2 DEF SendPayload
  <2>3. ASSUME SendFrame \/ \E s \in Sock : Refuse(s)  PROVE PlainTraffic'
    BY <1>0, <2>0, <2>3 DEF PlainTraffic, SendFrame, Refuse, masterVars
  <2>. QED  BY <1>1, <2>1, <2>2, <2>3 DEF Environment
<1>2. CASE Recv
  <2>1. PICK m \in Message : Receiving(Visited, m)
    BY <1>2, Recvs
  <2>2. Visited \in Sock
    BY <1>2, Recvs
  <2>3. pc' = "setting" => m.more
    BY <1>2, <2>1, Recvs, VisitEffect DEF Receiving
  <2>4. CASE Fails(Visited) /\ m = msg
    BY <1>0, <2>1, <2>3, <2>4 DEF Receiving, PlainTraffic, Fails
  <2>5. CASE Receives(Visited) /\ m \in Overwritten(Head(inbox[Visited]))
    <3>1. m.code = inbox[Visited][1].code /\ (m.more <=> m.code \in CarriesPayload)
      BY <1>0, <2>2, <2>5, Leaves, Reads
    <3>2. ~m.more
      BY <1>0, <2>2, <2>5, <3>1, Leaves
    <3>3. ASSUME NEW r \in Sock, NEW i \in DOMAIN inbox'[r]
          PROVE  inbox'[r][i] # Payload /\ inbox'[r][i].code \notin CarriesPayload
      BY <1>0, <2>2, <2>5, <3>3, Leaves
    <3>. QED  BY <1>0, <2>1, <2>3, <3>2, <3>3 DEF Receiving, PlainTraffic
  <2>. QED  BY <2>1, <2>4, <2>5 DEF Receiving
<1>3. CASE do_setting
  BY <1>0, <1>3 DEF do_setting
<1>4. CASE Connect \/ ConnectFails \/ Select \/ msg_done_header \/ msg_done_payload
  BY <1>0, <1>4, OtherSteps DEF PlainTraffic, NoMessage
<1>5. CASE UNCHANGED vars
  BY <1>0, <1>5 DEF PlainTraffic, vars, masterVars
<1>. QED  BY <1>1, <1>2, <1>3, <1>4, <1>5 DEF Next, Main

LEMMA SettingStep ==
  ASSUME IInv, Setting, [Next]_vars
  PROVE  Setting'
<1>1. CASE Environment \/ UNCHANGED vars
  BY <1>1, EnvironmentEffect DEF IInv, vars, Setting
<1>2. CASE Recv
  <2>1. PICK m \in Message : Receiving(Visited, m)
    BY <1>2, Recvs
  <2>. QED  BY <1>2, <2>1, Recvs, VisitEffect DEF Receiving, Setting
<1>3. CASE do_setting
  BY <1>3, VisitEffect DEF do_setting, IInv, Stage, TypeOK, Setting
<1>4. CASE Connect \/ ConnectFails \/ Select \/ msg_done_header \/ msg_done_payload
  BY <1>4, OtherSteps DEF Setting
<1>. QED  BY <1>1, <1>2, <1>3, <1>4 DEF Next, Main

(* A network that is clean now has been clean all along. *)
LEMMA CleanStays ==
  ASSUME IInv, [Next]_vars, Clean'
  PROVE  Clean
BY Grows DEF Clean, Garbling

(* With payloads under way, errors and the loss of one half of a command   *)
(* would garble the traffic.                                               *)
LEMMA Orderly ==
  ASSUME IInv, ~Plain, Clean
  PROVE  /\ refused = {}
         /\ breach \cap {"severed", "reordered", "refused", "memory", "othersocket", "unread"} = {}
<1>1. breach \cap {"severed", "reordered", "refused", "memory", "othersocket", "unread"} = {}
  BY DEF Clean, Garbling, Plain
<1>. QED  BY <1>1 DEF IInv, StillReadable

LEMMA FramedEnvironment ==
  ASSUME IInv, Framed, [Next]_vars, Environment
  PROVE  Framed'
<1>. SUFFICES ASSUME ~Plain, Clean'  PROVE Framed'
  BY DEF Framed, Plain
<1>0. /\ Clean /\ TypeOK /\ 0 \in Sock /\ 1 \in Sock
      /\ inbox[0] \in Seq(Datagram) /\ inbox[1] \in Seq(Datagram)
  BY CleanStays DEF IInv, TypeOK, Sock
<1>1. /\ \A i \in DOMAIN inbox[1] :
           inbox[1][i] # Payload /\ inbox[1][i].code \notin CarriesPayload
      /\ Framing(inbox[0], pc = "setting", owes # NoSock) /\ owes # 1
      /\ pc = "setting" => 0 \in ready
  BY <1>0 DEF Framed
<1>2. UNCHANGED <<pc, ready>>
  BY <1>0, EnvironmentEffect
<1>3. breach' \cap {"severed", "reordered", "refused", "memory", "othersocket", "unread"} = {}
  BY DEF Clean, Garbling, Plain
<1>4. ASSUME NEW s \in Sock, NEW code \in Sent, Command(s, code)  PROVE Framed'
  <2>1. code \in Code
    OBVIOUS
  <2>. DEFINE d == Header(code)
  <2>2. d \in Datagram /\ d # Payload /\ d.code = code
    BY <2>1, Datagrams
  <2>. HIDE DEF d
  <2>3. PICK b : /\ Transmit(s, d, b)
                 /\ code = "SETTING" /\ s # 0 => "othersocket" \in b
                 /\ code \in Unread => "unread" \in b
    BY <1>4 DEF Command, d
  <2>4. /\ b \subseteq breach'
        /\ \/ UNCHANGED inbox /\ code \notin CarriesPayload
           \/ inbox' = [inbox EXCEPT ![s] = Append(@, d)]
    BY <1>0, <1>3, <2>2, <2>3, Transmits DEF InParts
  <2>5. code # "DELETE_FILE" /\ (code = "SETTING" => s = 0)
    BY <1>3, <2>3, <2>4 DEF Unread
  <2>6. /\ owes # s /\ (code = "SETTING" => owes = NoSock)
        /\ owes' = IF code = "SETTING" THEN s ELSE owes
    BY <1>4, <2>5 DEF Command, CarriesPayload, Unread
  <2>7. CASE UNCHANGED inbox /\ code \notin CarriesPayload
    <3>1. UNCHANGED owes
      BY <2>6, <2>7 DEF CarriesPayload
    <3>. QED  BY <1>1, <1>2, <2>7, <3>1 DEF Framed, Framing
  <2>8. CASE s = 0 /\ inbox' = [inbox EXCEPT ![s] = Append(@, d)]
    <3>1. owes = NoSock /\ owes' # 1 /\ (owes' # NoSock <=> code = "SETTING")
      BY <1>0, <1>1, <2>6, <2>8 DEF TypeOK, Sock, NoSock
    <3>2. Framing(Append(inbox[0], d), pc = "setting", code = "SETTING")
      BY <1>0, <1>1, <2>2, <2>5, <3>1, FramingAppend
    <3>3. inbox'[0] = Append(inbox[0], d) /\ inbox'[1] = inbox[1]
      BY <1>0, <2>4, <2>8 DEF TypeOK, Sock
    <3>. QED  BY <1>1, <1>2, <3>1, <3>2, <3>3 DEF Framed, Framing
  <2>9. CASE s = 1 /\ inbox' = [inbox EXCEPT ![s] = Append(@, d)]
    <3>1. inbox'[0] = inbox[0] /\ UNCHANGED owes /\ code \notin CarriesPayload
      BY <1>0, <2>4, <2>5, <2>6, <2>9 DEF TypeOK, Sock, CarriesPayload, Unread
    <3>2. ASSUME NEW i \in DOMAIN inbox'[1]
          PROVE  inbox'[1][i] # Payload /\ inbox'[1][i].code \notin CarriesPayload
      <4>1. inbox'[1][i] = d \/ \E j \in DOMAIN inbox[1] : inbox'[1][i] = inbox[1][j]
        BY <1>0, <2>2, <2>3, <2>9, <3>2, Arrives
      <4>. QED  BY <1>1, <2>2, <3>1, <4>1
    <3>. QED  BY <1>1, <1>2, <3>1, <3>2 DEF Framed, Framing
  <2>. QED  BY <2>4, <2>7, <2>8, <2>9 DEF Sock
<1>5. CASE SendPayload
  <2>1. owes = 0 /\ owes' = NoSock /\ Transmit(0, Payload, {})
    BY <1>0, <1>1, <1>5 DEF SendPayload, TypeOK, Sock, NoSock
  <2>2. inbox' = [inbox EXCEPT ![0] = Append(@, Payload)]
    BY <1>0, <1>3, <2>1, Transmits, Datagrams DEF InParts, Payload
  <2>3. inbox'[0] = Append(inbox[0], Payload) /\ inbox'[1] = inbox[1]
    BY <1>0, <2>2 DEF TypeOK, Sock
  <2>4. Framing(Append(inbox[0], Payload), pc = "setting", FALSE)
    <3>1. owes # NoSock /\ Payload \in Datagram /\ Payload.code = "none"
      BY <2>1, Datagrams DEF NoSock
    <3>2. Framing(Append(inbox[0], Payload), pc = "setting", Payload.code = "SETTING")
      BY <1>0, <1>1, <3>1, FramingAppend
    <3>. QED  BY <3>1, <3>2
  <2>. QED  BY <1>1, <1>2, <2>1, <2>3, <2>4 DEF Framed, Framing, NoSock
<1>6. ASSUME SendFrame \/ \E s \in Sock : Refuse(s)  PROVE Framed'
  <2>1. UNCHANGED <<inbox, owes>>
    BY <1>6 DEF SendFrame, Refuse, masterVars
  <2>. QED  BY <1>1, <1>2, <2>1 DEF Framed, Framing
<1>. QED  BY <1>4, <1>5, <1>6 DEF Environment

LEMMA FramedStep ==
  ASSUME IInv, Framed, [Next]_vars
  PROVE  Framed'
<1>. SUFFICES ASSUME ~Plain, Clean'  PROVE Framed'
  BY DEF Framed, Plain
<1>0. /\ Clean /\ TypeOK /\ 0 \in Sock /\ 1 \in Sock
      /\ inbox[0] \in Seq(Datagram) /\ inbox[1] \in Seq(Datagram)
  BY CleanStays DEF IInv, TypeOK, Sock
<1>1. /\ \A i \in DOMAIN inbox[1] :
           inbox[1][i] # Payload /\ inbox[1][i].code \notin CarriesPayload
      /\ Framing(inbox[0], pc = "setting", owes # NoSock) /\ owes # 1
      /\ pc = "setting" => 0 \in ready
  BY <1>0 DEF Framed
<1>2. refused = {} /\ "memory" \notin breach'
  BY <1>0, Orderly DEF Clean, Garbling
<1>3. CASE Recv
  <2>. DEFINE v == Visited
  <2>1. PICK m \in Message : Receiving(v, m)
    BY <1>3, Recvs
  <2>2. v \in ready /\ v \in Sock /\ v = (IF 0 \in ready THEN 0 ELSE 1) /\ pc = "recv"
    BY <1>3, Recvs
  <2>. HIDE DEF v
  <2>3. Receives(v) /\ m \in Overwritten(Head(inbox[v]))
    BY <1>2, <2>1 DEF Receiving, Fails
  <2>4. /\ inbox[v] # <<>> /\ inbox'[v] = Tail(inbox[v]) /\ inbox[v][1] \in Datagram
        /\ 1 \in DOMAIN inbox[v] /\ UNCHANGED owes
        /\ \A i \in DOMAIN inbox'[v] :
             i \in Nat \ {0} /\ i + 1 \in DOMAIN inbox[v] /\ inbox'[v][i] = inbox[v][i + 1]
        /\ \A r \in Sock : r # v => inbox'[r] = inbox[r]
    BY <1>0, <2>1, <2>2, <2>3, Leaves DEF Receiving
  <2>5. served' # served
    <3>1. served \in [Sock -> Nat]
      BY <1>0 DEF TypeOK
    <3>2. served' = [served EXCEPT ![v] = @ + 1]
      BY <1>2, <2>1 DEF Receiving
    <3>. QED  BY <2>2, <3>1, <3>2
  <2>6. pc' = "setting" <=> m.code = "SETTING" /\ m.more
    <3>1. Visit(v) => pc' # "setting"
      BY <1>3, Recvs, VisitEffect DEF v
    <3>. QED  BY <2>1, <2>5, <3>1 DEF Receiving
  <2>7. CASE v = 0
    <3>1. /\ Framing(Tail(inbox[0]), inbox[0][1].code = "SETTING", owes # NoSock)
          /\ inbox[0][1] # Payload
      <4>1. pc # "setting"
        BY <2>2
      <4>2. inbox[0] # <<>>
        BY <2>4, <2>7
      <4>. QED  BY <1>0, <1>1, <4>1, <4>2, FramingTail
    <3>2. m.code = inbox[0][1].code /\ (m.more <=> m.code \in CarriesPayload)
      BY <1>0, <2>3, <2>7, <3>1, Reads
    <3>3. pc' = "setting" <=> inbox[0][1].code = "SETTING"
      BY <2>6, <3>2 DEF CarriesPayload
    <3>4. Framing(inbox'[0], pc' = "setting", owes' # NoSock)
      BY <2>4, <2>7, <3>1, <3>3 DEF Framing, Awaits
    <3>5. inbox'[1] = inbox[1] /\ (pc' = "setting" => 0 \in ready')
      <4>1. Visit(v) => pc' # "setting"
        BY <1>3, Recvs, VisitEffect DEF v
      <4>. QED  BY <1>0, <2>1, <2>2, <2>4, <2>7, <4>1 DEF Receiving
    <3>. QED  BY <1>1, <2>4, <3>4, <3>5 DEF Framed
  <2>8. CASE v = 1
    <3>1. inbox[1][1] # Payload /\ inbox[1][1].code \notin CarriesPayload
      BY <1>1, <2>4, <2>8
    <3>2. m.code # "SETTING"
      BY <1>0, <2>3, <2>8, <3>1, Reads DEF CarriesPayload
    <3>3. pc' # "setting" /\ inbox'[0] = inbox[0] /\ pc # "setting"
      BY <1>0, <2>2, <2>4, <2>6, <2>8, <3>2
    <3>4. Framing(inbox'[0], pc' = "setting", owes' # NoSock)
      BY <1>1, <2>4, <3>3 DEF Framing, Awaits
    <3>5. ASSUME NEW i \in DOMAIN inbox'[1]
          PROVE  inbox'[1][i] # Payload /\ inbox'[1][i].code \notin CarriesPayload
      <4>1. i + 1 \in DOMAIN inbox[1] /\ inbox'[1][i] = inbox[1][i + 1]
        BY <2>4, <2>8, <3>5
      <4>. QED  BY <1>1, <4>1
    <3>. QED  BY <1>1, <2>4, <3>3, <3>4, <3>5 DEF Framed
  <2>. QED  BY <2>2, <2>7, <2>8
<1>4. CASE do_setting
  <2>1. pc = "setting" /\ Receives(0) /\ UNCHANGED owes
    BY <1>2, <1>4 DEF do_setting, Fails, masterVars
  <2>2. pc' # "setting"
    BY <1>4, VisitEffect DEF do_setting, IInv, Stage, TypeOK
  <2>3. inbox[0] # <<>> /\ inbox'[0] = Tail(inbox[0]) /\ inbox'[1] = inbox[1]
    BY <1>0, <2>1, Leaves
  <2>4. /\ Framing(Tail(inbox[0]), inbox[0][1].code = "SETTING", owes # NoSock)
        /\ inbox[0][1] = Payload
    BY <1>0, <1>1, <2>1, <2>3, FramingTail
  <2>5. inbox[0][1].code # "SETTING"
    BY <2>4, Datagrams
  <2>6. Framing(inbox'[0], pc' = "setting", owes' # NoSock)
    BY <2>1, <2>2, <2>3, <2>4, <2>5 DEF Framing, Awaits
  <2>. QED  BY <1>1, <2>1, <2>2, <2>3, <2>6 DEF Framed
<1>5. CASE Connect \/ ConnectFails \/ Select \/ msg_done_header \/ msg_done_payload
  <2>1. UNCHANGED <<inbox, owes>> /\ pc # "setting" /\ pc' # "setting"
    BY <1>5, OtherSteps
  <2>2. Framing(inbox'[0], pc' = "setting", owes' # NoSock)
    BY <1>1, <2>1 DEF Framing, Awaits
  <2>. QED  BY <1>1, <2>1, <2>2 DEF Framed
<1>6. CASE UNCHANGED vars
  <2>1. UNCHANGED <<inbox, owes, pc, ready>>
    BY <1>6 DEF vars, masterVars
  <2>2. Framing(inbox'[0], pc' = "setting", owes' # NoSock)
    BY <1>1, <2>1 DEF Framing, Awaits
  <2>. QED  BY <1>1, <2>1, <2>2 DEF Framed
<1>. QED  BY <1>3, <1>4, <1>5, <1>6, FramedEnvironment DEF Next, Main

(* What is in the queues, in every state. *)
LEMMA Traffic == Spec => [](PlainTraffic /\ Framed /\ Setting)
<1>1. Init => PlainTraffic /\ Framed /\ Setting
  <2>. SUFFICES ASSUME Init  PROVE PlainTraffic /\ Framed /\ Setting
    OBVIOUS
  <2>1. /\ inbox = [s \in Sock |-> <<>>] /\ pc = "connect" /\ msg = NoMessage
        /\ owes = NoSock /\ NoSock = -1
    BY DEF Init, NoSock
  <2>2. \A s \in Sock : inbox[s] = <<>> /\ DOMAIN inbox[s] = {}
    BY <2>1
  <2>3. Framing(inbox[0], pc = "setting", owes # NoSock)
    BY <2>1, <2>2 DEF Framing, Awaits, Sock
  <2>. QED  BY <2>1, <2>2, <2>3 DEF PlainTraffic, Framed, Setting, NoMessage, Sock
<1>. QED  BY <1>1, PlainStep, FramedStep, SettingStep, Invariance, NextIInv, PTL DEF Spec

-----------------------------------------------------------------------------
(***************************************************************************)
(* The commands in a queue.                                                *)
(***************************************************************************)

Rank(q, i) == Cardinality(UpTo(q, i))

(* A header is the n-th one if n headers come up to it, and there is one   *)
(* such header for each n.                                                 *)
LEMMA Ranks ==
  ASSUME NEW q \in Seq(Datagram)
  PROVE  /\ Headers(q) \subseteq 1 .. Len(q) /\ Len(q) \in Nat
         /\ IsFiniteSet(Headers(q)) /\ Cardinality(Headers(q)) \in Nat
         /\ \A i \in Headers(q) : /\ Rank(q, i) \in 1 .. Cardinality(Headers(q))
                                  /\ Nth(q, Rank(q, i)) = i
         /\ \A n \in 1 .. Cardinality(Headers(q)) :
              Nth(q, n) \in Headers(q) /\ Rank(q, Nth(q, n)) = n
<1>. DEFINE H == Headers(q)
            C == Cardinality(H)
            f == [i \in H |-> Rank(q, i)]
<1>1. Len(q) \in Nat /\ H \subseteq 1 .. Len(q)
  BY LenProperties DEF Headers
<1>2. IsFiniteSet(H) /\ C \in Nat
  <2>1. IsFiniteSet(1 .. Len(q))
    BY <1>1, FS_Interval
  <2>. QED  BY <1>1, <2>1, FS_Subset, FS_CardinalityType
<1>3. \A i \in H : UpTo(q, i) \subseteq H /\ i \in UpTo(q, i)
  BY <1>1 DEF UpTo
<1>. HIDE DEF H
<1>4. ASSUME NEW i \in H
      PROVE  IsFiniteSet(UpTo(q, i)) /\ Rank(q, i) \in 1 .. C
  <2>1. IsFiniteSet(UpTo(q, i)) /\ Cardinality(UpTo(q, i)) <= C
    BY <1>2, <1>3, FS_Subset
  <2>2. Cardinality(UpTo(q, i)) \in Nat /\ Cardinality(UpTo(q, i)) # 0
    BY <1>3, <2>1, FS_CardinalityType, FS_EmptySet
  <2>. QED  BY <1>2, <2>1, <2>2 DEF Rank
<1>5. ASSUME NEW i \in H, NEW j \in H, i < j
      PROVE  Rank(q, i) < Rank(q, j)
  <2>1. j \notin UpTo(q, i) /\ UpTo(q, i) \cup {j} \subseteq UpTo(q, j)
    BY <1>1, <1>5 DEF UpTo, H
  <2>2. /\ IsFiniteSet(UpTo(q, i)) /\ IsFiniteSet(UpTo(q, j))
        /\ Rank(q, i) \in Nat /\ Rank(q, j) \in Nat
    BY <1>2, <1>4
  <2>3. Cardinality(UpTo(q, i) \cup {j}) = Rank(q, i) + 1
    BY <2>1, <2>2, FS_AddElement DEF Rank
  <2>4. Cardinality(UpTo(q, i) \cup {j}) <= Rank(q, j)
    BY <2>1, <2>2, FS_Subset DEF Rank
  <2>. QED  BY <2>2, <2>3, <2>4
<1>6. \A i, j \in H : Rank(q, i) = Rank(q, j) => i = j
  <2>. SUFFICES ASSUME NEW i \in H, NEW j \in H, Rank(q, i) = Rank(q, j), i # j
                PROVE  FALSE
    OBVIOUS
  <2>1. i < j \/ j < i
    BY <1>1
  <2>2. Rank(q, i) \in Nat /\ Rank(q, j) \in Nat
    BY <1>2, <1>4
  <2>. QED  BY <1>5, <2>1, <2>2
<1>7. f \in Injection(H, 1 .. C)
  BY <1>4, <1>6 DEF Injection, IsInjective
<1>8. \A n \in 1 .. C : \E i \in H : Rank(q, i) = n
  <2>1. IsFiniteSet(1 .. C) /\ Cardinality(1 .. C) = C
    BY <1>2, FS_Interval
  <2>2. f \in Surjection(H, 1 .. C)
    BY <1>7, <2>1, FS_Injection
  <2>. QED  BY <2>2 DEF Surjection
<1>9. ASSUME NEW n \in 1 .. C
      PROVE  Nth(q, n) \in H /\ Rank(q, Nth(q, n)) = n
  BY <1>8 DEF Nth, Rank, H
<1>10. ASSUME NEW i \in H
       PROVE  Nth(q, Rank(q, i)) = i
  <2>1. Rank(q, i) \in 1 .. C
    BY <1>4
  <2>2. Nth(q, Rank(q, i)) \in H /\ Rank(q, Nth(q, Rank(q, i))) = Rank(q, i)
    BY <1>9, <2>1
  <2>. QED  BY <1>6, <2>2
<1>. QED  BY <1>1, <1>2, <1>4, <1>9, <1>10 DEF H

(* The sequence of the headers' codes is determined by where each of them  *)
(* is in it.                                                               *)
LEMMA CodesOf ==
  ASSUME NEW q \in Seq(Datagram)
  PROVE  /\ Codes(q) \in Seq(Code) /\ Len(Codes(q)) = Cardinality(Headers(q))
         /\ \A i \in Headers(q) : Codes(q)[Rank(q, i)] = q[i].code
<1>. DEFINE C == Cardinality(Headers(q))
<1>1. /\ C \in Nat /\ Headers(q) \subseteq 1 .. Len(q)
      /\ \A i \in Headers(q) : Rank(q, i) \in 1 .. C /\ Nth(q, Rank(q, i)) = i
      /\ \A n \in 1 .. C : Nth(q, n) \in Headers(q)
  BY Ranks
<1>. HIDE DEF C
<1>2. \A i \in Headers(q) : q[i].code \in Code
  <2>1. \A i \in Headers(q) : q[i] \in Datagram
    BY <1>1, ElementOfSeq
  <2>. QED  BY <2>1, Datagrams DEF Headers
<1>3. Codes(q) = [n \in 1 .. C |-> q[Nth(q, n)].code]
  BY DEF Codes, C
<1>4. \A n \in 1 .. C : q[Nth(q, n)].code \in Code
  BY <1>1, <1>2
<1>5. Codes(q) \in [1 .. C -> Code]
  BY <1>3, <1>4
<1>6. Codes(q) \in Seq(Code) /\ Len(Codes(q)) = C
  BY <1>1, <1>5, LenProperties
<1>. QED  BY <1>1, <1>3, <1>6 DEF C

LEMMA CodesAre ==
  ASSUME NEW q \in Seq(Datagram), NEW c \in Seq(Code), Len(c) = Cardinality(Headers(q)),
         \A i \in Headers(q) : c[Rank(q, i)] = q[i].code
  PROVE  c = Codes(q)
<1>. DEFINE C == Cardinality(Headers(q))
<1>1. \A n \in 1 .. C : Nth(q, n) \in Headers(q) /\ Rank(q, Nth(q, n)) = n
  BY Ranks
<1>2. DOMAIN c = 1 .. C /\ c = [n \in DOMAIN c |-> c[n]]
  BY LenProperties
<1>3. \A n \in 1 .. C : c[n] = q[Nth(q, n)].code
  BY <1>1
<1>. QED  BY <1>2, <1>3 DEF Codes

(* A command that arrives comes last. *)
LEMMA HeaderAppends ==
  ASSUME NEW q \in Seq(Datagram), NEW code \in Code
  PROVE  Codes(Append(q, Header(code))) = Append(Codes(q), code)
<1>. DEFINE r == Append(q, Header(code))
            c == Append(Codes(q), code)
            C == Cardinality(Headers(q))
<1>1. /\ Header(code) \in Datagram /\ Header(code).kind = "header"
      /\ Header(code).code = code
  BY Datagrams DEF Header
<1>2. /\ r \in Seq(Datagram) /\ Len(q) \in Nat /\ r[Len(q) + 1] = Header(code)
      /\ DOMAIN q = 1 .. Len(q) /\ DOMAIN r = 1 .. Len(q) + 1
      /\ \A i \in 1 .. Len(q) : r[i] = q[i]
  BY <1>1, Appends
<1>3. /\ Headers(q) \subseteq 1 .. Len(q) /\ IsFiniteSet(Headers(q)) /\ C \in Nat
      /\ \A i \in Headers(q) : Rank(q, i) \in 1 .. C
  BY Ranks
<1>4. /\ Codes(q) \in Seq(Code) /\ Len(Codes(q)) = C
      /\ \A i \in Headers(q) : Codes(q)[Rank(q, i)] = q[i].code
  BY CodesOf
<1>. HIDE DEF r, C
<1>5. Headers(r) = Headers(q) \cup {Len(q) + 1}
  BY <1>1, <1>2 DEF Headers
<1>6. Cardinality(Headers(r)) = C + 1
  <2>1. Len(q) + 1 \notin Headers(q)
    BY <1>2, <1>3
  <2>. QED  BY <1>3, <1>5, <2>1, FS_AddElement DEF C
<1>7. /\ c \in Seq(Code) /\ Len(c) = C + 1 /\ c[C + 1] = code
      /\ \A n \in 1 .. C : c[n] = Codes(q)[n]
  BY <1>4, AppendProperties, LenProperties
<1>8. ASSUME NEW i \in Headers(r)
      PROVE  c[Rank(r, i)] = r[i].code
  <2>1. CASE i \in Headers(q)
    <3>1. UpTo(r, i) = UpTo(q, i)
      BY <1>2, <1>3, <1>5, <2>1 DEF UpTo
    <3>2. Rank(r, i) = Rank(q, i)
      BY <3>1 DEF Rank
    <3>. QED  BY <1>2, <1>3, <1>4, <1>7, <2>1, <3>2
  <2>2. CASE i = Len(q) + 1
    <3>1. UpTo(r, i) = Headers(r)
      BY <1>2, <1>3, <1>5, <2>2 DEF UpTo
    <3>2. Rank(r, i) = C + 1
      BY <1>6, <3>1 DEF Rank
    <3>. QED  BY <1>1, <1>2, <1>7, <2>2, <3>2
  <2>. QED  BY <1>5, <2>1, <2>2
<1>. HIDE DEF c
<1>9. c = Codes(r)
  BY <1>2, <1>6, <1>7, <1>8, CodesAre
<1>. QED  BY <1>9 DEF c, r

(* A payload that arrives is no command. *)
LEMMA PayloadAppends ==
  ASSUME NEW q \in Seq(Datagram)
  PROVE  Codes(Append(q, Payload)) = Codes(q)
<1>. DEFINE r == Append(q, Payload)
<1>1. Payload \in Datagram /\ Payload.kind # "header"
  BY Datagrams
<1>2. /\ r \in Seq(Datagram) /\ Len(q) \in Nat /\ r[Len(q) + 1] = Payload
      /\ DOMAIN q = 1 .. Len(q) /\ DOMAIN r = 1 .. Len(q) + 1
      /\ \A i \in 1 .. Len(q) : r[i] = q[i]
  BY <1>1, Appends
<1>3. /\ Codes(q) \in Seq(Code) /\ Len(Codes(q)) = Cardinality(Headers(q))
      /\ \A i \in Headers(q) : Codes(q)[Rank(q, i)] = q[i].code
  BY CodesOf
<1>. HIDE DEF r
<1>4. Headers(r) = Headers(q)
  BY <1>1, <1>2 DEF Headers
<1>5. \A i \in Headers(r) : Rank(r, i) = Rank(q, i) /\ r[i] = q[i]
  BY <1>2, <1>4 DEF Rank, UpTo, Headers
<1>6. Codes(q) = Codes(r)
  BY <1>2, <1>3, <1>4, <1>5, CodesAre
<1>. QED  BY <1>6 DEF r

(* Of two sets whose members differ by one. *)
LEMMA Shifted ==
  ASSUME NEW S \in SUBSET (Nat \ {0}), IsFiniteSet(S)
  PROVE  Cardinality({i \in Nat : i + 1 \in S}) = Cardinality(S)
<1>. DEFINE T == {i \in Nat : i + 1 \in S}
            f == [j \in S |-> j - 1]
<1>1. f \in Bijection(S, T)
  <2>1. f \in [S -> T]
    <3>1. \A j \in S : j - 1 \in Nat /\ (j - 1) + 1 = j
      OBVIOUS
    <3>. QED  BY <3>1
  <2>2. \A j, k \in S : f[j] = f[k] => j = k
    OBVIOUS
  <2>3. \A i \in T : \E j \in S : f[j] = i
    <3>1. \A i \in T : i + 1 \in S /\ (i + 1) - 1 = i
      OBVIOUS
    <3>. QED  BY <3>1
  <2>. QED  BY <2>1, <2>2, <2>3 DEF Bijection, Injection, Surjection, IsInjective
<1>. QED  BY <1>1, FS_Bijection DEF ExistsBijection

(* How many headers the first datagram of a queue is. *)
Leading(q) == IF q[1].kind = "header" THEN 1 ELSE 0

(* What receiving the first datagram does to the ranks of the others. *)
LEMMA RanksTail ==
  ASSUME NEW q \in Seq(Datagram), q # <<>>, NEW r, r = Tail(q)
  PROVE  /\ r \in Seq(Datagram) /\ q[1] \in Datagram
         /\ Cardinality(Headers(q)) \in Nat
         /\ Cardinality(Headers(r)) = Cardinality(Headers(q)) - Leading(q)
         /\ Leading(q) = 1 => 1 \in Headers(q) /\ Rank(q, 1) = 1
         /\ \A i \in Headers(r) : /\ i + 1 \in Headers(q) /\ r[i] = q[i + 1]
                                  /\ Rank(r, i) = Rank(q, i + 1) - Leading(q)
                                  /\ Rank(r, i) \in 1 .. Cardinality(Headers(r))
<1>. DEFINE first == Leading(q)
<1>1. /\ r \in Seq(Datagram) /\ Len(q) \in Nat \ {0} /\ Len(r) = Len(q) - 1
      /\ q[1] \in Datagram
      /\ DOMAIN q = 1 .. Len(q) /\ DOMAIN r = 1 .. Len(r)
      /\ \A i \in 1 .. Len(r) : r[i] = q[i + 1]
  BY Takes
<1>2. Headers(q) \subseteq 1 .. Len(q) /\ IsFiniteSet(Headers(q)) /\ Cardinality(Headers(q)) \in Nat
  BY Ranks
<1>3. first = IF 1 \in Headers(q) THEN 1 ELSE 0
  BY <1>1 DEF Headers, Leading
<1>. HIDE DEF first
<1>4. ASSUME NEW S \in SUBSET Headers(q), 1 \in Headers(q) => 1 \in S
      PROVE  /\ IsFiniteSet(S \ {1}) /\ S \ {1} \subseteq Nat \ {0}
             /\ Cardinality(S \ {1}) = Cardinality(S) - first
             /\ Cardinality({i \in Nat : i + 1 \in S \ {1}}) = Cardinality(S) - first
  <2>1. IsFiniteSet(S) /\ Cardinality(S) \in Nat
    BY <1>2, FS_Subset, FS_CardinalityType
  <2>2. IsFiniteSet(S \ {1}) /\ Cardinality(S \ {1}) = Cardinality(S) - first
    <3>1. /\ IsFiniteSet(S \ {1})
          /\ Cardinality(S \ {1}) = IF 1 \in S THEN Cardinality(S) - 1 ELSE Cardinality(S)
      BY <2>1, FS_RemoveElement
    <3>2. first = IF 1 \in S THEN 1 ELSE 0
      BY <1>3, <1>4
    <3>. QED  BY <2>1, <3>1, <3>2
  <2>3. S \ {1} \subseteq Nat \ {0}
    BY <1>2
  <2>4. Cardinality({i \in Nat : i + 1 \in S \ {1}}) = Cardinality(S \ {1})
    BY <2>2, <2>3, Shifted
  <2>. QED  BY <2>2, <2>3, <2>4
<1>5. Headers(r) = {i \in Nat : i + 1 \in Headers(q) \ {1}}
  BY <1>1, <1>2 DEF Headers
<1>6. Cardinality(Headers(r)) = Cardinality(Headers(q)) - first
  BY <1>4, <1>5
<1>7. first = 1 => 1 \in Headers(q) /\ Rank(q, 1) = 1
  <2>1. 1 \in Headers(q) => UpTo(q, 1) = {1}
    BY <1>1, <1>2 DEF UpTo
  <2>2. Cardinality({1}) = 1
    BY FS_Singleton
  <2>3. 1 \in Headers(q) => Rank(q, 1) = 1
    BY <2>1, <2>2, Zenon DEF Rank
  <2>4. first = 1 => 1 \in Headers(q)
    BY <1>3
  <2>. QED  BY <2>3, <2>4
<1>8. ASSUME NEW i \in Headers(r)
      PROVE  /\ i + 1 \in Headers(q) /\ r[i] = q[i + 1]
             /\ Rank(r, i) = Rank(q, i + 1) - first
             /\ Rank(r, i) \in 1 .. Cardinality(Headers(r))
  <2>1. i + 1 \in Headers(q) /\ i \in 1 .. Len(r)
    BY <1>1, <1>5 DEF Headers
  <2>. DEFINE S == UpTo(q, i + 1)
  <2>2. S \in SUBSET Headers(q) /\ (1 \in Headers(q) => 1 \in S)
    BY <2>1, <1>1 DEF UpTo
  <2>3. UpTo(r, i) = {j \in Nat : j + 1 \in S \ {1}}
    BY <1>5, <2>1, <1>1 DEF UpTo
  <2>. HIDE DEF S
  <2>4. Cardinality(UpTo(r, i)) = Cardinality(S) - first
    BY <1>4, <2>2, <2>3
  <2>5. Rank(r, i) = Rank(q, i + 1) - first
    BY <2>4 DEF Rank, S
  <2>6. Rank(r, i) \in 1 .. Cardinality(Headers(r))
    BY <1>1, Ranks
  <2>. QED  BY <1>1, <2>1, <2>5, <2>6
<1>. QED  BY <1>1, <1>2, <1>6, <1>7, <1>8 DEF first

(* A command that is received was the first one. *)
LEMMA HeaderLeaves ==
  ASSUME NEW q \in Seq(Datagram), q # <<>>, q[1].kind = "header"
  PROVE  /\ Codes(q) \in Seq(Code) /\ Codes(q) # <<>>
         /\ Head(Codes(q)) = q[1].code /\ Codes(Tail(q)) = Tail(Codes(q))
<1>. DEFINE r == Tail(q)
            c == Tail(Codes(q))
            C == Cardinality(Headers(q))
<1>0. Leading(q) = 1 /\ r = Tail(q)
  BY DEF Leading
<1>. HIDE DEF r
<1>1. /\ r \in Seq(Datagram) /\ C \in Nat
      /\ Cardinality(Headers(r)) = C - 1 /\ 1 \in Headers(q) /\ Rank(q, 1) = 1
      /\ \A i \in Headers(r) : /\ i + 1 \in Headers(q) /\ r[i] = q[i + 1]
                               /\ Rank(r, i) = Rank(q, i + 1) - 1
                               /\ Rank(r, i) \in 1 .. Cardinality(Headers(r))
  BY <1>0, RanksTail
<1>2. 1 \in 1 .. C
  BY <1>1, Ranks
<1>3. /\ Codes(q) \in Seq(Code) /\ Len(Codes(q)) = C
      /\ \A i \in Headers(q) : Codes(q)[Rank(q, i)] = q[i].code
  BY CodesOf
<1>. HIDE DEF C
<1>4. Codes(q) # <<>>
  BY <1>2, <1>3
<1>5. /\ Head(Codes(q)) = Codes(q)[1] /\ c \in Seq(Code) /\ Len(c) = C - 1
      /\ \A n \in 1 .. C - 1 : c[n] = Codes(q)[n + 1]
  BY <1>3, <1>4, HeadTailProperties
<1>6. Head(Codes(q)) = q[1].code
  BY <1>1, <1>3, <1>5
<1>7. ASSUME NEW i \in Headers(r)
      PROVE  c[Rank(r, i)] = r[i].code
  <2>1. Rank(r, i) \in 1 .. C - 1 /\ Rank(r, i) = Rank(q, i + 1) - 1
    BY <1>1
  <2>2. Rank(q, i + 1) \in 1 .. C
    BY <1>1, Ranks DEF C
  <2>3. Rank(r, i) + 1 = Rank(q, i + 1)
    BY <2>1, <2>2
  <2>. QED  BY <1>1, <1>3, <1>5, <2>1, <2>3
<1>. HIDE DEF c
<1>8. c = Codes(r)
  BY <1>1, <1>5, <1>7, CodesAre
<1>. QED  BY <1>3, <1>4, <1>6, <1>8 DEF c, r

(* Receiving a payload leaves the commands as they are. *)
LEMMA PayloadLeaves ==
  ASSUME NEW q \in Seq(Datagram), q # <<>>, q[1] = Payload
  PROVE  Codes(Tail(q)) = Codes(q)
<1>. DEFINE r == Tail(q)
            C == Cardinality(Headers(q))
<1>0. Leading(q) = 0
  BY Datagrams DEF Leading
<1>1. /\ r \in Seq(Datagram) /\ C \in Nat
      /\ Cardinality(Headers(r)) = C - 0
      /\ \A i \in Headers(r) : /\ i + 1 \in Headers(q) /\ r[i] = q[i + 1]
                               /\ Rank(r, i) = Rank(q, i + 1) - 0
                               /\ Rank(r, i) \in 1 .. Cardinality(Headers(r))
  BY <1>0, RanksTail
<1>2. /\ Codes(q) \in Seq(Code) /\ Len(Codes(q)) = C
      /\ \A i \in Headers(q) : Codes(q)[Rank(q, i)] = q[i].code
  BY CodesOf
<1>3. \A i \in Headers(q) : Rank(q, i) \in 1 .. C
  BY Ranks
<1>. HIDE DEF r, C
<1>4. Cardinality(Headers(r)) = C /\ \A i \in Headers(r) : Rank(r, i) = Rank(q, i + 1)
  BY <1>1, <1>3
<1>5. Codes(q) = Codes(r)
  BY <1>1, <1>2, <1>4, CodesAre
<1>. QED  BY <1>5 DEF r

-----------------------------------------------------------------------------
(***************************************************************************)
(* The refinement of module Commands.                                      *)
(***************************************************************************)

(* The queues of commands when only that of socket s is another one.       *)
LEMMA OneQueue ==
  ASSUME TypeOK, NEW s \in Sock, \A r \in Sock \ {s} : inbox'[r] = inbox[r]
  PROVE  pendingBar' = [pendingBar EXCEPT ![s] = Codes(inbox'[s])]
BY DEF pendingBar

LEMMA SameQueues ==
  ASSUME TypeOK, NEW s \in Sock, \A r \in Sock \ {s} : inbox'[r] = inbox[r],
         Codes(inbox'[s]) = Codes(inbox[s])
  PROVE  UNCHANGED pendingBar
BY DEF pendingBar

(* What the master does is to submit a command or nothing. *)
LEMMA EnvironmentServes ==
  ASSUME IInv, [Next]_vars, Conforming', Environment
  PROVE  [Service!Next]_(Service!vars)
<1>0. /\ TypeOK /\ breach' \cap {"reordered", "refused"} = {}
      /\ \A s \in Sock : inbox[s] \in Seq(Datagram)
  BY DEF IInv, TypeOK, Conforming
<1>1. ASSUME NEW s \in Sock, NEW d \in Datagram, NEW b, Transmit(s, d, b)
      PROVE  /\ UNCHANGED <<served, recording>>
             /\ UNCHANGED inbox \/ (/\ inbox'[s] = Append(inbox[s], d)
                                    /\ \A r \in Sock \ {s} : inbox'[r] = inbox[r])
  <2>1. inbox \in [Sock -> Seq(Datagram)]
    BY <1>0 DEF TypeOK
  <2>2. \/ UNCHANGED inbox
        \/ inbox' = [inbox EXCEPT ![s] = Append(@, d)]
    BY <1>0, <1>1 DEF Transmit
  <2>. QED  BY <1>1, <2>1, <2>2 DEF Transmit
<1>2. UNCHANGED <<inbox, served, recording>> => UNCHANGED Service!vars
  BY DEF Service!vars, pendingBar
<1>3. ASSUME NEW s \in Sock, NEW code \in Sent, Command(s, code)
      PROVE  [Service!Next]_(Service!vars)
  <2>1. code \in Code
    OBVIOUS
  <2>2. Header(code) \in Datagram
    BY <2>1, Datagrams
  <2>3. PICK b : Transmit(s, Header(code), b)
    BY <1>3 DEF Command
  <2>4. CASE UNCHANGED inbox
    BY <1>1, <1>2, <2>2, <2>3, <2>4
  <2>5. CASE /\ inbox'[s] = Append(inbox[s], Header(code))
             /\ \A r \in Sock \ {s} : inbox'[r] = inbox[r]
    <3>1. Codes(inbox'[s]) = Append(Codes(inbox[s]), code)
      BY <1>0, <2>1, <2>5, HeaderAppends
    <3>2. pendingBar' = [pendingBar EXCEPT ![s] = Codes(inbox'[s])]
      BY <1>0, <2>5, OneQueue
    <3>3. pendingBar' = [pendingBar EXCEPT ![s] = Append(@, code)]
      BY <3>1, <3>2 DEF pendingBar
    <3>4. Service!Submit(s)
      BY <1>1, <2>1, <2>2, <2>3, <3>3 DEF Service!Submit
    <3>. QED  BY <3>4 DEF Service!Next
  <2>. QED  BY <1>1, <2>2, <2>3, <2>4, <2>5
<1>4. CASE SendPayload
  <2>1. owes \in Sock /\ Payload \in Datagram /\ Transmit(owes, Payload, {})
    BY <1>0, <1>4, Datagrams DEF SendPayload, TypeOK
  <2>2. CASE UNCHANGED inbox
    BY <1>1, <1>2, <2>1, <2>2
  <2>3. CASE /\ inbox'[owes] = Append(inbox[owes], Payload)
             /\ \A r \in Sock \ {owes} : inbox'[r] = inbox[r]
    <3>1. Codes(inbox'[owes]) = Codes(inbox[owes])
      BY <1>0, <2>1, <2>3, PayloadAppends
    <3>2. UNCHANGED pendingBar
      BY <1>0, <2>1, <2>3, <3>1, SameQueues
    <3>. QED  BY <1>1, <2>1, <3>2 DEF Service!vars
  <2>. QED  BY <1>1, <2>1, <2>2, <2>3
<1>5. ASSUME SendFrame \/ \E s \in Sock : Refuse(s)
      PROVE  UNCHANGED Service!vars
  BY <1>2, <1>5 DEF SendFrame, Refuse
<1>. QED  BY <1>3, <1>4, <1>5 DEF Environment

(* Each visit of msg_wait serves the command that is first in its queue:   *)
(* with the traffic conforming, that queue begins with a header.           *)
LEMMA RecvServes ==
  ASSUME IInv, PlainTraffic, Framed, [Next]_vars, Conforming', Recv
  PROVE  Service!Next
<1>. DEFINE s == Visited
<1>0. /\ TypeOK /\ refused = {} /\ "memory" \notin breach' /\ Clean
  <2>1. breach \subseteq breach'
    BY Grows
  <2>2. Conforming
    BY <2>1 DEF Conforming
  <2>3. Clean
    BY <2>2 DEF Clean, Conforming
  <2>. QED  BY <2>2, <2>3 DEF Conforming, Garbling, IInv, StillReadable
<1>1. PICK m \in Message : Receiving(s, m)
  BY Recvs
<1>2. s \in Sock /\ pc = "recv"
  BY Recvs
<1>. HIDE DEF s
<1>3. /\ Receives(s) /\ m \in Overwritten(Head(inbox[s]))
      /\ served' = [served EXCEPT ![s] = @ + 1] /\ do_record(m.code)
  BY <1>0, <1>1 DEF Receiving, Fails
<1>4. /\ inbox[s] \in Seq(Datagram) /\ inbox[s] # <<>> /\ inbox'[s] = Tail(inbox[s])
      /\ 1 \in DOMAIN inbox[s] /\ inbox[s][1] \in Datagram
      /\ \A r \in Sock : r # s => inbox'[r] = inbox[r]
  BY <1>0, <1>2, <1>3, Leaves
<1>5. inbox[s][1] # Payload
  <2>1. CASE Plain
    BY <1>2, <1>4, <2>1 DEF PlainTraffic
  <2>2. CASE ~Plain /\ s = 1
    BY <1>0, <1>4, <2>2 DEF Framed
  <2>3. CASE ~Plain /\ s = 0
    <3>1. Framing(inbox[0], pc = "setting", owes # NoSock)
      BY <1>0, <2>3 DEF Framed
    <3>. QED  BY <1>2, <1>4, <2>3, <3>1, FramingTail
  <2>. QED  BY <1>2, <2>1, <2>2, <2>3 DEF Sock
<1>6. m.code = inbox[s][1].code /\ inbox[s][1].kind = "header"
  BY <1>0, <1>2, <1>3, <1>4, <1>5, Reads, Datagrams
<1>7. /\ Codes(inbox[s]) # <<>> /\ Head(Codes(inbox[s])) = m.code
      /\ Codes(inbox'[s]) = Tail(Codes(inbox[s]))
  BY <1>4, <1>6, HeaderLeaves
<1>8. pendingBar' = [pendingBar EXCEPT ![s] = Codes(inbox'[s])]
  BY <1>0, <1>2, <1>4, OneQueue
<1>9. pendingBar[s] = Codes(inbox[s])
  BY <1>2 DEF pendingBar
<1>10. Service!Serve(s)
  <2>1. pendingBar' = [pendingBar EXCEPT ![s] = Tail(@)]
    BY <1>7, <1>8, <1>9
  <2>2. recording' = CASE Head(pendingBar[s]) = "START_RECORD" -> TRUE
                       [] Head(pendingBar[s]) = "STOP_RECORD"  -> FALSE
                       [] OTHER                                -> recording
    BY <1>3, <1>7, <1>9 DEF do_record
  <2>. QED  BY <1>3, <1>7, <1>9, <2>1, <2>2 DEF Service!Serve
<1>. QED  BY <1>2, <1>10 DEF Service!Next

(* do_setting takes a payload and leaves the commands as they are. *)
LEMMA SettingServes ==
  ASSUME IInv, PlainTraffic, Framed, [Next]_vars, Conforming', do_setting
  PROVE  UNCHANGED Service!vars
<1>0. /\ TypeOK /\ refused = {} /\ Clean /\ 0 \in Sock /\ pc = "setting"
  <2>1. Conforming
    BY Grows DEF Conforming
  <2>2. Clean
    BY <2>1 DEF Clean, Conforming
  <2>. QED  BY <2>1, <2>2 DEF Conforming, IInv, StillReadable, Sock, do_setting
<1>1. Receives(0) /\ UNCHANGED <<served, recording>>
  BY <1>0 DEF do_setting, Fails
<1>2. /\ inbox[0] \in Seq(Datagram) /\ inbox[0] # <<>> /\ inbox'[0] = Tail(inbox[0])
      /\ \A r \in Sock : r # 0 => inbox'[r] = inbox[r]
  BY <1>0, <1>1, Leaves
<1>3. inbox[0][1] = Payload
  <2>1. ~Plain
    BY <1>0 DEF PlainTraffic
  <2>2. Framing(inbox[0], pc = "setting", owes # NoSock)
    BY <1>0, <2>1 DEF Framed
  <2>. QED  BY <1>0, <1>2, <2>2, FramingTail
<1>4. Codes(inbox'[0]) = Codes(inbox[0])
  BY <1>2, <1>3, PayloadLeaves
<1>5. UNCHANGED pendingBar
  BY <1>0, <1>2, <1>4, SameQueues
<1>. QED  BY <1>1, <1>5 DEF Service!vars

LEMMA ServesStep ==
  ASSUME IInv, PlainTraffic, Framed, [Next]_vars, Conforming'
  PROVE  [Service!Next]_(Service!vars)
<1>1. CASE Environment
  BY <1>1, EnvironmentServes
<1>2. CASE Recv
  BY <1>2, RecvServes
<1>3. CASE do_setting
  BY <1>3, SettingServes
<1>4. CASE Connect \/ ConnectFails \/ Select \/ msg_done_header \/ msg_done_payload
  <2>1. UNCHANGED <<inbox, served, recording>>
    BY <1>4, OtherSteps
  <2>. QED  BY <2>1 DEF Service!vars, pendingBar
<1>5. CASE UNCHANGED vars
  BY <1>5 DEF vars, Service!vars, pendingBar
<1>. QED  BY <1>1, <1>2, <1>3, <1>4, <1>5 DEF Next, Main

LEMMA NothingPending == Init => Service!Init
<1>. SUFFICES ASSUME Init  PROVE Service!Init
  OBVIOUS
<1>1. Codes(<<>>) = <<>>
  <2>1. Headers(<<>>) = {}
    BY DEF Headers
  <2>2. Cardinality(Headers(<<>>)) = 0
    BY <2>1, FS_EmptySet
  <2>3. Codes(<<>>) \in Seq(Code) /\ Len(Codes(<<>>)) = 0
    <3>1. <<>> \in Seq(Datagram)
      BY EmptySeq
    <3>. QED  BY <2>2, <3>1, CodesOf
  <2>. QED  BY <2>3, EmptySeq
<1>. QED  BY <1>1 DEF Init, Service!Init, pendingBar

(* The safety part of ImplementsCommands, for all commands and any number  *)
(* of them: as long as nothing the slave is sent is mistaken, reordered or *)
(* refused, each command is executed once, in the order of its socket, and *)
(* a SETTING takes its own payload and nothing else off the queue.         *)
THEOREM ServesInOrder == Spec => Service!Init /\ ServiceSteps
<1>1. /\ IInv /\ PlainTraffic /\ Framed /\ [Next]_vars
      => [Conforming' => [Service!Next]_(Service!vars)]_vars
  BY ServesStep
<1>. QED  BY <1>1, NothingPending, Invariance, Traffic, PTL DEF Spec, ServiceSteps

=============================================================================
