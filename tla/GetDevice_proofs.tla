-------------------------- MODULE GetDevice_proofs --------------------------
(***************************************************************************)
(* Proofs about get_by_name(), for any devices, cuts of the dump and       *)
(* changes made by others meanwhile.                                       *)
(***************************************************************************)
EXTENDS GetDevice, ParsedDevice_proofs

-----------------------------------------------------------------------------
(* The lists the kernel goes through.                                      *)

\* The allowed IPs of a peer.
LEMMA IpsOfFacts ==
  ASSUME NEW key
  PROVE  Lists(IpsOf(key), {ip \in Ips : device.owner[ip] = key})
<1>1. IsFiniteSet({ip \in Ips : device.owner[ip] = key})
  BY GetAssumption, FS_Subset
<1> QED BY <1>1, SetToSeqLists DEF IpsOf

LEMMA PeersFinite ==
  ASSUME NEW dev
  PROVE  IsFiniteSet(PeersOfDevice(dev))
BY GetAssumption, FS_Subset DEF PeersOfDevice

-----------------------------------------------------------------------------
(* Types and control.                                                      *)

\* The last peer listed has a place in the kernel's list until it is removed.
CursorInv ==
  dump.last # Nobody /\ ~ dump.dead => \E i \in DOMAIN order : order[i] = dump.last

Final == {"done", "failed"}
Failures == {"error", "done_error", "overrun", "undecodable"}

\* Messages come from a dump under way, and what ends it tells how it ended.
RepliesInv ==
  /\ Len(replies) <= 1
  /\ \A i \in DOMAIN replies :
       CASE dump.state = "done" -> replies[i].kind = "done"
         [] dump.state = "failed" -> replies[i].kind \in Failures
         [] OTHER -> replies[i].kind = "message"

\* Nothing happens before the request, and while the call waits, the task holds
\* its end of the stream for exactly as long as something is to come.
WaitingInv ==
  /\ pc \in {"idle", "sending"} =>
       /\ dump.state = "none" /\ dump.last = Nobody /\ ~ dump.begun
       /\ msgs = << >> /\ replies = << >> /\ stream = << >> /\ ~ open
  /\ pc = "waiting" => dump.state # "none"
  /\ pc = "waiting" /\ connected =>
       open <=> replies # << >> \/ dump.state \notin Final
  /\ open => pc = "waiting" /\ connected
  /\ ~ connected => replies = << >>

\* The end of a failed dump is the last thing in the stream.
FailureInv ==
  pc = "waiting" /\ connected /\ dump.state = "failed" /\ replies = << >> =>
    stream # << >> /\ stream[Len(stream)].kind \in Failures

ResultInv ==
  result = "ok" /\ connected => dump.state = "done"

Control == TypeOK /\ CursorInv /\ RepliesInv /\ WaitingInv /\ FailureInv /\ ResultInv

-----------------------------------------------------------------------------

LEMMA OrderLists ==
  ASSUME TypeOK
  PROVE  Lists(order, PeersOfDevice(device)) /\ order \in Seq(Keys)
<1>1. Lists(order, PeersOfDevice(device))
  BY PeersFinite, SetToSeqsLists DEF TypeOK
<1>2. PeersOfDevice(device) \subseteq Keys
  BY DEF PeersOfDevice
<1> QED BY <1>1, <1>2, SeqMonotonic DEF Lists

\* How many peers of the list are listed in full.
Done ==
  IF dump.last = Nobody THEN 0
  ELSE IF dump.dead THEN Len(order)
  ELSE CHOOSE i \in DOMAIN order : order[i] = dump.last

LEMMA RestFacts ==
  ASSUME TypeOK, CursorInv
  PROVE  /\ Done \in 0..Len(order) /\ Len(order) \in Nat
         /\ dump.last # Nobody /\ ~ dump.dead => Done \in DOMAIN order /\ order[Done] = dump.last
         /\ Rest \in Seq(Keys) /\ Len(Rest) = Len(order) - Done
         /\ DOMAIN Rest = 1..Len(order) - Done
         /\ \A i \in DOMAIN Rest : Done + i \in DOMAIN order /\ Rest[i] = order[Done + i]
<1>1. /\ order \in Seq(Keys) /\ Len(order) \in Nat /\ DOMAIN order = 1..Len(order)
      /\ \A i, j \in DOMAIN order : order[i] = order[j] => i = j
  BY OrderLists DEF Lists
<1>2. CASE dump.last = Nobody
  <2>1. Done = 0 /\ Rest = order
    BY <1>2 DEF Done, Rest
  <2> QED BY <1>1, <1>2, <2>1
<1>3. CASE dump.last # Nobody /\ dump.dead
  <2>1. Done = Len(order) /\ Rest = << >>
    BY <1>3 DEF Done, Rest
  <2> QED BY <1>1, <1>3, <2>1
<1>4. CASE dump.last # Nobody /\ ~ dump.dead
  <2>1. Done \in DOMAIN order /\ order[Done] = dump.last
    BY <1>4 DEF Done, CursorInv
  <2> DEFINE next == CHOOSE i \in 1..Len(order) + 1 : i > 1 /\ order[i - 1] = dump.last
  <2>2. Done + 1 \in 1..Len(order) + 1 /\ Done + 1 > 1 /\ (Done + 1) - 1 = Done
    BY <1>1, <2>1
  <2>3. next \in 1..Len(order) + 1 /\ next > 1 /\ order[next - 1] = dump.last
    BY <2>1, <2>2
  <2>4. next - 1 \in DOMAIN order
    BY <1>1, <2>3
  <2>5. next - 1 = Done
    BY <1>1, <2>1, <2>3, <2>4
  <2>6. Rest = SubSeq(order, next, Len(order))
    BY <1>4 DEF Rest
  <2>7. next = Done + 1
    BY <2>1, <2>3, <2>5, <1>1
  <2> HIDE DEF next
  <2>8. Rest = SubSeq(order, Done + 1, Len(order))
    BY <2>6, <2>7
  <2> QED BY <1>1, <2>1, <2>8
<1> QED BY <1>2, <1>3, <1>4

LEMMA RestPeers ==
  ASSUME TypeOK, CursorInv, NEW i \in DOMAIN Rest
  PROVE  Rest[i] \in Keys /\ Rest[i] \in PeersOfDevice(device) /\ Rest[i] # Nobody
<1>1. Done + i \in DOMAIN order /\ Rest[i] = order[Done + i]
  BY RestFacts
<1>2. order[Done + i] \in PeersOfDevice(device)
  BY <1>1, OrderLists DEF Lists
<1> QED BY <1>1, <1>2, SentinelAssumption DEF PeersOfDevice

LEMMA EntryFacts ==
  ASSUME TypeOK, CursorInv, NEW i \in DOMAIN Rest, NEW to \in 0..Len(IpsOf(Rest[i]))
  PROVE  /\ EntryOf(i, to) \in Entry
         /\ EntryOf(i, to).public_key = Rest[i]
         /\ EntryOf(i, to).attrs \in {NoAttrs, device.peers[Rest[i]]}
         /\ \A j \in DOMAIN EntryOf(i, to).allowed_ips :
              device.owner[EntryOf(i, to).allowed_ips[j]] = Rest[i]
<1> DEFINE ips == IpsOf(Rest[i])
           some == IF Stale(i) THEN << >> ELSE SubSeq(ips, From(i) + 1, to)
<1>1. Rest[i] \in Keys /\ device.peers[Rest[i]] \in Attrs
  BY RestPeers DEF TypeOK, PeersOfDevice, Device
<1>2. Lists(ips, {ip \in Ips : device.owner[ip] = Rest[i]})
  BY IpsOfFacts
<1>3. /\ ips \in Seq({ip \in Ips : device.owner[ip] = Rest[i]})
      /\ Len(ips) \in Nat /\ DOMAIN ips = 1..Len(ips)
  BY <1>2 DEF Lists
<1>4. From(i) \in Nat
  BY DEF From, Continues, TypeOK, Cursor
<1> HIDE DEF ips
<1>5. some \in Seq({ip \in Ips : device.owner[ip] = Rest[i]})
  <2>1. \A k \in From(i) + 1..to : ips[k] \in {ip \in Ips : device.owner[ip] = Rest[i]}
    BY <1>3, <1>4 DEF ips
  <2>2. SubSeq(ips, From(i) + 1, to) \in Seq({ip \in Ips : device.owner[ip] = Rest[i]})
    BY <1>4, <2>1, SubSeqProperties
  <2>3. << >> \in Seq({ip \in Ips : device.owner[ip] = Rest[i]})
    OBVIOUS
  <2> QED BY <2>2, <2>3
<1>6. EntryOf(i, to) =
        [public_key |-> Rest[i],
         attrs |-> IF Continues(i) THEN NoAttrs ELSE device.peers[Rest[i]],
         has_allowed_ips |-> ~ Stale(i) /\ ips # << >>,
         allowed_ips |-> some]
  BY DEF EntryOf, ips
<1> HIDE DEF some
<1>7. some \in Seq(Ips)
  BY <1>5
<1>8. (~ Stale(i) /\ ips # << >>) \in BOOLEAN
  OBVIOUS
<1>9. NoAttrs \in Attrs
  BY SentinelAssumption
<1>10. EntryOf(i, to) \in Entry
  BY <1>1, <1>6, <1>7, <1>8, <1>9 DEF Entry
<1>11. \A j \in DOMAIN some : device.owner[some[j]] = Rest[i]
  BY <1>5
<1> QED BY <1>6, <1>10, <1>11

\* Whole entries of the first n peers that are left.
LEMMA WholeEntriesFacts ==
  ASSUME TypeOK, CursorInv, NEW n \in 0..Len(Rest)
  PROVE  /\ WholeEntries(n) \in Seq(Entry) /\ Len(WholeEntries(n)) = n
         /\ DOMAIN WholeEntries(n) = 1..n
         /\ \A i \in 1..n : /\ i \in DOMAIN Rest
                            /\ WholeEntries(n)[i] = EntryOf(i, Len(IpsOf(Rest[i])))
<1>1. n \in Nat /\ \A i \in 1..n : i \in DOMAIN Rest
  BY RestFacts
<1>2. ASSUME NEW i \in 1..n PROVE EntryOf(i, Len(IpsOf(Rest[i]))) \in Entry
  <2>1. Len(IpsOf(Rest[i])) \in Nat
    BY IpsOfFacts DEF Lists
  <2> QED BY <1>1, <2>1, EntryFacts
<1>3. WholeEntries(n) \in [1..n -> Entry]
  BY <1>2 DEF WholeEntries
<1>4. WholeEntries(n) \in Seq(Entry)
  BY <1>1, <1>3, SeqDef
<1>5. Len(WholeEntries(n)) = n /\ DOMAIN WholeEntries(n) = 1..n
  BY <1>1, <1>3, <1>4, LenProperties
<1> QED BY <1>1, <1>4, <1>5 DEF WholeEntries

LEMMA ReplyFacts ==
  ASSUME NEW reply \in Reply
  PROVE  /\ reply.kind \in Failures \cup {"done", "message"}
         /\ reply.kind = "message" => reply.msg \in DumpMessage
         /\ Item(reply) = "message" <=> reply.kind = "message"
         /\ Item(reply) = "none" <=> reply.kind = "done"
         /\ reply.kind \in Failures => Item(reply) \in {"NetlinkError", "Bug", "DecodeError"}
BY DEF Reply, Failures, Item

LEMMA MessageIsReply ==
  ASSUME NEW msg \in DumpMessage
  PROVE  [kind |-> "message", msg |-> msg] \in Reply
BY DEF Reply

\* What the kernel sends goes into an empty queue.
LEMMA SendFacts ==
  ASSUME replies = << >>, NEW entries \in Seq(Entry), Send(entries)
  PROVE  \E reply \in Reply :
           /\ replies' = << reply >> /\ reply.kind = "message"
           /\ reply.msg \in DumpMessage /\ reply.msg.peers = entries
           /\ reply.msg.device <=> dump.last = Nobody
<1>1. PICK first \in BOOLEAN : first = (dump.last = Nobody)
  OBVIOUS
<1> DEFINE msg == [device |-> first, peers |-> entries]
           reply == [kind |-> "message", msg |-> msg]
<1>2. replies' = << reply >>
  <2>1. replies' = Append(<< >>, reply)
    BY <1>1, Zenon DEF Send
  <2> HIDE DEF reply
  <2> QED BY <2>1
<1>3. msg \in DumpMessage /\ msg.peers = entries /\ (msg.device <=> dump.last = Nobody)
  BY <1>1 DEF DumpMessage
<1>4. reply \in Reply /\ reply.kind = "message" /\ reply.msg = msg
  <2> HIDE DEF msg
  <2> QED BY <1>3, MessageIsReply
<1> QED BY <1>2, <1>3, <1>4

\* The cursor after n peers, and in the next peer after a number of allowed IPs.
LastOf(n) == IF n = 0 THEN dump.last ELSE Rest[n]

CursorAt(n) ==
  [dump EXCEPT !.state = "dumping", !.last = LastOf(n), !.begun = FALSE, !.ip = 0]

CursorIn(n, to) ==
  [dump EXCEPT !.state = "dumping", !.last = LastOf(n), !.begun = TRUE, !.ip = to,
               !.seq = ips_seq]

LEMMA CursorFacts ==
  ASSUME TypeOK, NEW n, LastOf(n) \in Keys \cup {Nobody}, NEW to \in Nat
  PROVE  /\ CursorAt(n) \in Cursor /\ CursorAt(n).state = "dumping"
         /\ CursorAt(n).last = LastOf(n) /\ CursorAt(n).dead = dump.dead
         /\ ~ CursorAt(n).begun
         /\ CursorIn(n, to) \in Cursor /\ CursorIn(n, to).state = "dumping"
         /\ CursorIn(n, to).last = LastOf(n) /\ CursorIn(n, to).dead = dump.dead
         /\ CursorIn(n, to).begun /\ CursorIn(n, to).ip = to
         /\ CursorIn(n, to).seq = ips_seq
<1>1. dump \in Cursor /\ ips_seq \in Nat
  BY DEF TypeOK
<1> HIDE DEF TypeOK
<1> QED BY <1>1 DEF Cursor, CursorAt, CursorIn

\* What a message that is full holds, and where it stopped.
ListsSome(n, entries) ==
  \/ /\ n > 0
     /\ entries = WholeEntries(n)
     /\ dump' = CursorAt(n)
  \/ /\ ~ Stale(n + 1)
     /\ \E to \in From(n + 1)..Len(IpsOf(Rest[n + 1])) - 1 :
          /\ n = 0 /\ dump.begun => to > dump.ip
          /\ entries = Append(WholeEntries(n), EntryOf(n + 1, to))
          /\ dump' = CursorIn(n, to)

LEMMA ListsSomeFacts ==
  ASSUME TypeOK, CursorInv, KernelListsSome
  PROVE  \E n \in 0..Len(Rest) - 1, entries \in Seq(Entry) :
           Send(entries) /\ ListsSome(n, entries)
<1>1. PICK n \in 0..Len(Rest) - 1 :
        \/ /\ n > 0
           /\ Send(WholeEntries(n))
           /\ dump' = CursorAt(n)
        \/ /\ ~ Stale(n + 1)
           /\ \E to \in From(n + 1)..Len(IpsOf(Rest[n + 1])) - 1 :
                /\ n = 0 /\ dump.begun => to > dump.ip
                /\ Send(Append(WholeEntries(n), EntryOf(n + 1, to)))
                /\ dump' = CursorIn(n, to)
  BY DEF KernelListsSome, CursorAt, CursorIn, LastOf
<1>2. n \in 0..Len(Rest) /\ n \in Nat /\ n + 1 \in DOMAIN Rest
  BY RestFacts
<1>3. WholeEntries(n) \in Seq(Entry)
  BY <1>2, WholeEntriesFacts
<1>4. ASSUME NEW to \in From(n + 1)..Len(IpsOf(Rest[n + 1])) - 1
      PROVE  Append(WholeEntries(n), EntryOf(n + 1, to)) \in Seq(Entry)
  <2>1. From(n + 1) \in Nat
    BY DEF From, TypeOK, Cursor
  <2>2. Len(IpsOf(Rest[n + 1])) \in Nat
    BY IpsOfFacts DEF Lists
  <2>3. to \in 0..Len(IpsOf(Rest[n + 1]))
    BY <2>1, <2>2
  <2>4. EntryOf(n + 1, to) \in Entry
    BY <1>2, <2>3, EntryFacts
  <2> QED BY <1>3, <2>4, AppendProperties
<1> QED BY <1>1, <1>3, <1>4, Zenon DEF ListsSome

-----------------------------------------------------------------------------
(* Control is inductive: one lemma per action.                             *)

LEMMA InitControl == Init => Control
<1> SUFFICES ASSUME Init PROVE Control
  OBVIOUS
<1>1. device \in Device
  BY GetAssumption DEF Init
<1>2. TypeOK
  <2>1. dump \in Cursor
    BY DEF Init, Cursor
  <2>2. msgs \in Seq(DumpMessage) /\ replies \in Seq(Reply) /\ stream \in Seq(Reply)
    BY DEF Init
  <2>3. changes \in 0..MaxChanges /\ past \subseteq Device
    BY <1>1, GetAssumption DEF Init
  <2> QED BY <1>1, <2>1, <2>2, <2>3 DEF Init, TypeOK
<1>3. CursorInv /\ RepliesInv /\ WaitingInv /\ FailureInv /\ ResultInv
  BY DEF Init, CursorInv, RepliesInv, WaitingInv, FailureInv, ResultInv
<1> QED BY <1>2, <1>3 DEF Control

\* An interface name that cannot be sent is an error before anything happens.
LEMMA GetKeepsControl ==
  ASSUME Control, NEW iface_name \in IfaceNames, Get(iface_name)
  PROVE  Control'
<1> USE DEF Control
<1>1. \/ pc' = "returned" /\ result' = "InvalidInput"
      \/ pc' = "sending" /\ result' = result
  BY GetAssumption DEF Get, Return, MessageError, IfaceError, Request
<1>2. TypeOK'
  BY <1>1 DEF TypeOK, Get, conn, kernel
<1>3. CursorInv' /\ RepliesInv' /\ FailureInv' /\ ResultInv'
  BY <1>1 DEF CursorInv, RepliesInv, FailureInv, ResultInv, Get, conn, kernel
<1>4. WaitingInv'
  BY <1>1 DEF WaitingInv, Get, conn, kernel
<1> QED BY <1>2, <1>3, <1>4

LEMMA AskKeepsControl ==
  ASSUME Control, Ask
  PROVE  Control'
<1> USE DEF Control
<1>1. TypeOK'
  BY DEF TypeOK, Ask, kernel, Cursor
<1>2. CursorInv' /\ ResultInv' /\ FailureInv'
  BY DEF CursorInv, ResultInv, FailureInv, Ask, kernel, TypeOK, Cursor
<1>3. RepliesInv'
  BY DEF RepliesInv, WaitingInv, Ask
<1>4. WaitingInv'
  BY DEF WaitingInv, Ask, TypeOK, Cursor, Final
<1> QED BY <1>1, <1>2, <1>3, <1>4

LEMMA AskFailsKeepsControl ==
  ASSUME Control, AskFails
  PROVE  Control'
<1> USE DEF Control
<1>1. TypeOK' /\ CursorInv' /\ RepliesInv'
  BY DEF TypeOK, CursorInv, RepliesInv, AskFails, Return, conn, kernel
<1>2. WaitingInv' /\ FailureInv' /\ ResultInv'
  BY DEF WaitingInv, FailureInv, ResultInv, AskFails, Return, conn, kernel
<1> QED BY <1>1, <1>2

\* The first item of the stream.
LEMMA ReadingFacts ==
  ASSUME TypeOK, Reading
  PROVE  /\ pc = "waiting" /\ Head(stream) \in Reply /\ Head(stream) = stream[1]
         /\ stream # << >> /\ Len(stream) \in Nat /\ Len(stream) > 0
         /\ Tail(stream) \in Seq(Reply) /\ Len(Tail(stream)) = Len(stream) - 1
         /\ \A i \in 1..Len(stream) - 1 : Tail(stream)[i] = stream[i + 1]
BY HeadTailProperties DEF TypeOK, Reading

\* A reply which is not a failure is taken from the stream.
LEMMA TakenFromStream ==
  ASSUME Control, Reading, Head(stream).kind \notin Failures,
         stream' = Tail(stream), UNCHANGED <<pc, connected, replies, open, dump>>
  PROVE  FailureInv' /\ WaitingInv'
<1>1. FailureInv'
  <2>1. SUFFICES ASSUME connected, dump.state = "failed", replies = << >>
                 PROVE  stream' # << >> /\ stream'[Len(stream')].kind \in Failures
    BY DEF FailureInv
  <2>2. stream[Len(stream)].kind \in Failures
    BY <2>1 DEF Control, FailureInv, Reading
  <2>3. Len(stream) # 1
    BY <2>2, ReadingFacts DEF Control
  <2>4. Len(Tail(stream)) = Len(stream) - 1 /\ Len(stream) - 1 \in 1..Len(stream) - 1
    <3>1. Len(stream) \in Nat /\ Len(stream) > 0 /\ Len(Tail(stream)) = Len(stream) - 1
      BY ReadingFacts DEF Control
    <3>2. \A n \in Nat : n > 0 /\ n # 1 => n - 1 \in 1..n - 1
      OBVIOUS
    <3> QED BY <2>3, <3>1, <3>2
  <2>5. Tail(stream)[Len(stream) - 1] = stream[Len(stream)]
    BY <2>4, ReadingFacts DEF Control
  <2>6. Tail(stream) # << >>
    BY <2>4
  <2> QED BY <2>2, <2>4, <2>5, <2>6
<1>2. WaitingInv'
  BY DEF Control, WaitingInv, Reading
<1> QED BY <1>1, <1>2

LEMMA CollectKeepsControl ==
  ASSUME Control, Collect
  PROVE  Control'
<1> USE DEF Control
<1>1. Head(stream) \in Reply /\ Head(stream).kind = "message" /\ Head(stream).msg \in DumpMessage
  BY ReadingFacts, ReplyFacts DEF Collect
<1>2. Tail(stream) \in Seq(Reply) /\ Append(msgs, Head(stream).msg) \in Seq(DumpMessage)
  BY <1>1, ReadingFacts DEF Collect, TypeOK
<1>3. TypeOK'
  BY <1>2 DEF TypeOK, Collect, kernel
<1>4. FailureInv' /\ WaitingInv'
  BY <1>1, TakenFromStream DEF Collect, Failures
<1>5. CursorInv' /\ RepliesInv' /\ ResultInv'
  BY DEF CursorInv, RepliesInv, ResultInv, Collect, kernel
<1> QED BY <1>3, <1>4, <1>5

LEMMA SkipKeepsControl ==
  ASSUME Control, Skip
  PROVE  Control'
<1> USE DEF Control
<1>1. Head(stream) \in Reply /\ Head(stream).kind = "done"
  BY ReadingFacts, ReplyFacts DEF Skip
<1>2. Tail(stream) \in Seq(Reply)
  BY ReadingFacts DEF Skip
<1>3. TypeOK'
  BY <1>2 DEF TypeOK, Skip, kernel, client
<1>4. FailureInv' /\ WaitingInv'
  BY <1>1, TakenFromStream DEF Skip, Failures, client
<1>5. CursorInv' /\ RepliesInv' /\ ResultInv'
  BY DEF CursorInv, RepliesInv, ResultInv, Skip, kernel, client
<1> QED BY <1>3, <1>4, <1>5

LEMMA ReplyIsErrorKeepsControl ==
  ASSUME Control, ReplyIsError
  PROVE  Control' /\ result' # "ok"
<1> USE DEF Control
<1>1. Item(Head(stream)) \in {"NetlinkError", "Bug", "DecodeError"}
  BY ReadingFacts, ReplyFacts DEF ReplyIsError
<1>2. TypeOK' /\ result' # "ok"
  <2>1. msgs' \in Seq(DumpMessage) /\ stream' \in Seq(Reply) /\ open' \in BOOLEAN
    <3>1. << >> \in Seq(DumpMessage) /\ << >> \in Seq(Reply)
      OBVIOUS
    <3> QED BY <3>1, Zenon DEF ReplyIsError
  <2>2. /\ pc' = "returned"
        /\ result' \in {"NetlinkError", "Bug", "DecodeError"}
    BY <1>1 DEF ReplyIsError, Return
  <2> QED BY <2>1, <2>2 DEF TypeOK, ReplyIsError, kernel
<1>3. CursorInv' /\ RepliesInv'
  BY DEF CursorInv, RepliesInv, ReplyIsError, kernel
<1>4. WaitingInv' /\ FailureInv' /\ ResultInv'
  BY <1>2 DEF WaitingInv, FailureInv, ResultInv, ReplyIsError, Return
<1> QED BY <1>2, <1>3, <1>4

\* The stream ends while the task runs: the dump is done.
LEMMA EndOfStream ==
  ASSUME Control, GetReturns, connected
  PROVE  dump.state = "done" /\ replies = << >> /\ stream = << >> /\ pc = "waiting"
<1>1. replies = << >> /\ dump.state \in Final
  BY DEF GetReturns, Control, WaitingInv
<1>2. dump.state # "failed"
  BY <1>1 DEF GetReturns, Control, FailureInv
<1> QED BY <1>1, <1>2 DEF Final, GetReturns

LEMMA GetReturnsKeepsControl ==
  ASSUME Control, GetReturns
  PROVE  Control'
<1> USE DEF Control
<1>1. TypeOK'
  BY DEF TypeOK, GetReturns, Return, conn, kernel
<1>2. CursorInv' /\ RepliesInv' /\ FailureInv' /\ WaitingInv'
  BY DEF CursorInv, RepliesInv, FailureInv, WaitingInv, GetReturns, Return, conn, kernel
<1>3. ResultInv'
  BY EndOfStream DEF ResultInv, GetReturns, conn
<1> QED BY <1>1, <1>2, <1>3
\* A message from a dump under way.
LEMMA SentKeepsControl ==
  ASSUME Control, Dumping, NEW entries \in Seq(Entry), Send(entries),
         dump' \in Cursor, dump'.state \in {"dumping", "listed"}, CursorInv',
         UNCHANGED <<client, connected, stream, open, kernel>>
  PROVE  Control'
<1> USE DEF Control
<1>1. /\ replies' \in Seq(Reply) /\ Len(replies') = 1 /\ DOMAIN replies' = {1}
      /\ replies' # << >> /\ replies'[1].kind = "message"
  <2>1. replies = << >>
    BY DEF Dumping
  <2>2. PICK reply \in Reply : replies' = << reply >> /\ reply.kind = "message"
    BY <2>1, SendFacts
  <2> QED BY <2>2
<1>2. TypeOK'
  BY <1>1 DEF TypeOK, client, kernel
<1>3. RepliesInv' /\ FailureInv'
  BY <1>1 DEF RepliesInv, FailureInv
<1>4. pc \notin {"idle", "sending"} /\ dump'.state \notin Final \cup {"none"}
  BY DEF WaitingInv, Dumping, Final
<1>5. pc = "waiting" => open
  BY DEF WaitingInv, Dumping, Final
<1>6. WaitingInv'
  BY <1>1, <1>4, <1>5 DEF WaitingInv, client, Dumping
<1>7. ResultInv'
  BY DEF ResultInv, client, Dumping
<1> QED BY <1>2, <1>3, <1>6, <1>7

LEMMA KernelListsRestKeepsControl ==
  ASSUME Control, KernelListsRest
  PROVE  Control'
<1> USE DEF Control
<1>1. WholeEntries(Len(Rest)) \in Seq(Entry)
  BY RestFacts, WholeEntriesFacts
<1>2. dump' \in Cursor /\ dump'.state = "listed" /\ dump'.last = dump.last /\ dump'.dead = dump.dead
  BY DEF KernelListsRest, TypeOK, Cursor
<1>3. CursorInv'
  BY <1>2 DEF CursorInv, KernelListsRest, kernel
<1> QED BY <1>1, <1>2, <1>3, SentKeepsControl DEF KernelListsRest

\* The cursor after a message that is full.
LEMMA NextCursor ==
  ASSUME Control, KernelListsSome
  PROVE  dump' \in Cursor /\ dump'.state = "dumping" /\ CursorInv'
<1> USE DEF Control
<1>1. PICK n \in 0..Len(Rest) - 1, entries \in Seq(Entry) : ListsSome(n, entries)
  BY ListsSomeFacts
<1>2. n \in Nat /\ (n # 0 => n \in DOMAIN Rest /\ Rest[n] \in Keys)
  BY RestFacts, RestPeers
<1>3. LastOf(n) \in Keys \cup {Nobody}
  BY <1>2 DEF LastOf, TypeOK, Cursor
<1>4. dump' \in Cursor /\ dump'.state = "dumping" /\ dump'.dead = dump.dead /\ dump'.last = LastOf(n)
  <2>1. \A to \in From(n + 1)..Len(IpsOf(Rest[n + 1])) - 1 : to \in Nat
    BY IpsOfFacts DEF From, TypeOK, Cursor, Lists
  <2> HIDE DEF Control
  <2>2. TypeOK
    BY DEF Control
  <2> QED BY <1>1, <1>3, <2>1, <2>2, CursorFacts DEF ListsSome
<1>5. order' = order
  BY DEF KernelListsSome, kernel
<1>6. CASE n = 0
  BY <1>4, <1>5, <1>6 DEF CursorInv, LastOf
<1>7. CASE n # 0
  <2>1. Done + n \in DOMAIN order /\ order[Done + n] = Rest[n]
    BY <1>2, <1>7, RestFacts
  <2> QED BY <1>4, <1>5, <1>7, <2>1 DEF CursorInv, LastOf
<1> QED BY <1>4, <1>6, <1>7

LEMMA KernelListsSomeKeepsControl ==
  ASSUME Control, KernelListsSome
  PROVE  Control'
<1>1. PICK entries \in Seq(Entry) : Send(entries)
  BY ListsSomeFacts DEF Control
<1>2. dump' \in Cursor /\ dump'.state = "dumping" /\ CursorInv'
  BY NextCursor
<1> QED BY <1>1, <1>2, SentKeepsControl DEF KernelListsSome

\* The end of the dump goes out as the only message.
LEMMA EndKeepsControl ==
  ASSUME Control, connected, replies = << >>, dump.state \notin Final,
         dump.state # "none",
         NEW reply \in Reply, replies' = << reply >>,
         \/ dump' = [dump EXCEPT !.state = "done"] /\ reply.kind = "done"
         \/ dump' = [dump EXCEPT !.state = "failed"] /\ reply.kind \in Failures,
         UNCHANGED <<client, connected, stream, open, kernel>>
  PROVE  Control'
<1> USE DEF Control
<1>1. /\ dump' \in Cursor /\ dump'.state \in Final
      /\ dump'.last = dump.last /\ dump'.dead = dump.dead
      /\ dump'.state = "done" => reply.kind = "done"
      /\ dump'.state = "failed" => reply.kind \in Failures
  BY DEF TypeOK, Cursor, Final
<1>2. replies' \in Seq(Reply) /\ Len(replies') = 1 /\ DOMAIN replies' = {1} /\ replies'[1] = reply
      /\ replies' # << >>
  OBVIOUS
<1>3. TypeOK'
  BY <1>1, <1>2 DEF TypeOK, client, kernel
<1>4. CursorInv'
  BY <1>1 DEF CursorInv, kernel
<1>5. RepliesInv' /\ FailureInv'
  BY <1>1, <1>2 DEF RepliesInv, FailureInv, Final
<1>6. pc \notin {"idle", "sending"} /\ (pc = "waiting" => open)
  BY DEF WaitingInv
<1>7. WaitingInv'
  BY <1>1, <1>2, <1>6 DEF WaitingInv, client, Final
<1>8. ~ (result = "ok" /\ connected)
  BY DEF ResultInv, Final
<1>9. ResultInv'
  BY <1>8 DEF ResultInv, client
<1> QED BY <1>3, <1>4, <1>5, <1>7, <1>9

LEMMA KernelEndsDumpKeepsControl ==
  ASSUME Control, KernelEndsDump
  PROVE  Control'
<1>1. [kind |-> "done"] \in Reply
  BY DEF Reply
<1> QED BY <1>1, EndKeepsControl DEF KernelEndsDump, Final

LEMMA KernelFailsKeepsControl ==
  ASSUME Control, KernelFails
  PROVE  Control'
<1>1. PICK kind \in Failures : replies' = << [kind |-> kind] >>
  BY DEF KernelFails, Failures
<1>2. [kind |-> kind] \in Reply
  BY DEF Reply, Failures
<1>3. [kind |-> kind].kind = kind
  OBVIOUS
<1> QED BY <1>1, <1>2, <1>3, EndKeepsControl DEF KernelFails, Dumping, Final

-----------------------------------------------------------------------------

LEMMA SingleSeq ==
  ASSUME NEW S, NEW seq \in Seq(S), seq # << >>, Len(seq) <= 1
  PROVE  /\ Head(seq) \in S /\ Tail(seq) = << >> /\ DOMAIN seq = {1}
         /\ Head(seq) = seq[1] /\ seq = << Head(seq) >>
<1>1. Len(seq) = 1
  <2>1. Len(seq) \in Nat /\ Len(seq) # 0
    BY EmptySeq, LenProperties
  <2> QED BY <2>1
<1>2. /\ Head(seq) \in S /\ Head(seq) = seq[1]
      /\ Tail(seq) \in Seq(S) /\ Len(Tail(seq)) = Len(seq) - 1
  BY HeadTailProperties
<1>3. DOMAIN seq = {1}
  BY <1>1
<1>4. Tail(seq) = << >>
  <2>1. Len(Tail(seq)) = 0
    BY <1>1, <1>2
  <2> QED BY <1>2, <2>1, EmptySeq
<1>5. seq = << Head(seq) >>
  BY <1>1, <1>2
<1> QED BY <1>2, <1>3, <1>4, <1>5

\* The queue to the task holds one message.
LEMMA QueueFacts ==
  ASSUME TypeOK, RepliesInv, replies # << >>
  PROVE  /\ Head(replies) \in Reply /\ Tail(replies) = << >> /\ 1 \in DOMAIN replies
         /\ Head(replies) = replies[1] /\ replies = << Head(replies) >>
         /\ Head(replies).kind = "message" <=> dump.state \notin Final
         /\ dump.state = "failed" => Head(replies).kind \in Failures
<1>1. replies \in Seq(Reply) /\ Len(replies) <= 1
  BY DEF TypeOK, RepliesInv
<1>2. /\ Head(replies) \in Reply /\ Tail(replies) = << >> /\ DOMAIN replies = {1}
      /\ Head(replies) = replies[1] /\ replies = << Head(replies) >>
  BY <1>1, SingleSeq
<1> QED BY <1>2 DEF RepliesInv, Final, Failures

LEMMA ConnForwardsKeepsControl ==
  ASSUME Control, ConnForwards
  PROVE  Control'
<1> USE DEF Control
<1>1. /\ Head(replies) \in Reply /\ replies' = << >>
      /\ Head(replies).kind = "message" <=> dump.state \notin Final
      /\ dump.state = "failed" => Head(replies).kind \in Failures
  BY QueueFacts DEF ConnForwards
<1>2. stream' \in Seq(Reply)
  BY <1>1 DEF TypeOK, ConnForwards
<1>3. TypeOK'
  BY <1>1, <1>2 DEF TypeOK, ConnForwards, client, kernel
<1>4. CursorInv' /\ RepliesInv' /\ ResultInv'
  BY <1>1 DEF CursorInv, RepliesInv, ResultInv, ConnForwards, client, kernel
<1>5. pc \notin {"idle", "sending"} /\ (pc = "waiting" => open)
  BY DEF WaitingInv, ConnForwards
<1>6. WaitingInv'
  BY <1>1, <1>5 DEF WaitingInv, ConnForwards, client
<1>7. FailureInv'
  <2>1. SUFFICES ASSUME pc = "waiting", dump.state = "failed"
                 PROVE  stream' # << >> /\ stream'[Len(stream')].kind \in Failures
    BY DEF FailureInv, ConnForwards, client
  <2>2. stream' = Append(stream, Head(replies))
    BY <1>5, <2>1 DEF ConnForwards
  <2>3. stream' # << >> /\ stream'[Len(stream')] = Head(replies)
    BY <1>1, <2>2 DEF TypeOK
  <2> QED BY <1>1, <2>1, <2>3
<1> QED BY <1>3, <1>4, <1>6, <1>7

LEMMA ConnStopsKeepsControl ==
  ASSUME Control, ConnStops
  PROVE  Control'
<1> USE DEF Control
<1>1. TypeOK'
  <2>1. replies' \in Seq(Reply)
    BY EmptySeq DEF ConnStops
  <2> QED BY <2>1 DEF TypeOK, ConnStops, client, kernel
<1>2. CursorInv' /\ RepliesInv' /\ FailureInv' /\ ResultInv'
  BY DEF CursorInv, RepliesInv, FailureInv, ResultInv, ConnStops, client, kernel
<1>3. WaitingInv'
  BY DEF WaitingInv, ConnStops, client
<1> QED BY <1>1, <1>2, <1>3

-----------------------------------------------------------------------------

\* The device others leave behind, and the list of its peers.
LEMMA ChangedKeepsControl ==
  ASSUME Control, NEW dev \in Device, NEW new_order \in SetToSeqs(PeersOfDevice(dev)),
         Changed(dev, new_order), dump' \in Cursor, removed' \in BOOLEAN,
         dump'.state = dump.state, dump'.last = dump.last, dump'.begun = dump.begun,
         CursorInv'
  PROVE  Control'
<1> USE DEF Control
<1>1. TypeOK'
  <2>1. ips_seq' \in Nat /\ changes' \in 0..MaxChanges
    BY GetAssumption DEF TypeOK, Changed
  <2>2. past' \subseteq Device
    BY DEF TypeOK, Changed
  <2>3. device' \in Device /\ order' \in SetToSeqs(PeersOfDevice(device'))
    BY DEF Changed
  <2> QED BY <2>1, <2>2, <2>3 DEF TypeOK, Changed, client, conn
<1>2. RepliesInv' /\ FailureInv' /\ ResultInv'
  BY DEF RepliesInv, FailureInv, ResultInv, Changed, client, conn
<1>3. pc # "idle"
  BY DEF Changed
<1>4. WaitingInv'
  BY DEF WaitingInv, Changed, client, conn
<1> QED BY <1>1, <1>2, <1>4
\* Listing the peers in another order, or others, gives a legal order again.
LEMMA NewOrder ==
  ASSUME NEW dev, NEW seq, Lists(seq, PeersOfDevice(dev))
  PROVE  seq \in SetToSeqs(PeersOfDevice(dev))
BY PeersFinite, ListsIsBijection

\* The device after a peer was added or given other attributes.
LEMMA SetPeerFacts ==
  ASSUME TypeOK, NEW key \in Keys, NEW value \in Attrs
  PROVE  LET dev == [device EXCEPT !.peers[key] = value]
         IN  /\ dev \in Device /\ dev.owner = device.owner
             /\ \A k \in Keys : dev.peers[k] = IF k = key THEN value ELSE device.peers[k]
             /\ PeersOfDevice(dev) = PeersOfDevice(device) \cup {key}
<1> DEFINE dev == [device EXCEPT !.peers[key] = value]
<1>1. device \in Device
  BY DEF TypeOK
<1>2. /\ dev \in Device /\ dev.owner = device.owner
      /\ \A k \in Keys : dev.peers[k] = IF k = key THEN value ELSE device.peers[k]
  BY <1>1 DEF Device
<1> HIDE DEF dev
<1>3. PeersOfDevice(dev) = PeersOfDevice(device) \cup {key}
  BY <1>2, SentinelAssumption DEF PeersOfDevice
<1> QED BY <1>2, <1>3 DEF dev

LEMMA OthersRemoveFacts ==
  ASSUME TypeOK, NEW key \in Keys
  PROVE  LET dev == RemovePeer(device, key)
         IN  /\ dev \in Device
             /\ \A k \in Keys : dev.peers[k] = IF k = key THEN Absent ELSE device.peers[k]
             /\ \A ip \in Ips :
                  dev.owner[ip] = IF device.owner[ip] = key THEN Nobody ELSE device.owner[ip]
             /\ PeersOfDevice(dev) = PeersOfDevice(device) \ {key}
<1> DEFINE dev == RemovePeer(device, key)
<1>1. device \in Device
  BY DEF TypeOK
<1>2. /\ dev \in Device
      /\ \A k \in Keys : dev.peers[k] = IF k = key THEN Absent ELSE device.peers[k]
      /\ \A ip \in Ips :
           dev.owner[ip] = IF device.owner[ip] = key THEN Nobody ELSE device.owner[ip]
  BY <1>1 DEF Device, RemovePeer, DropIps
<1> HIDE DEF dev
<1>3. PeersOfDevice(dev) = PeersOfDevice(device) \ {key}
  BY <1>2 DEF PeersOfDevice
<1> QED BY <1>2, <1>3 DEF dev

\* A new peer comes last, the places of the others stay.
LEMMA OrderAfterSetPeer ==
  ASSUME TypeOK, NEW key \in Keys, NEW value \in Attrs, OthersSetPeer(key, value)
  PROVE  /\ device' = [device EXCEPT !.peers[key] = value]
         /\ order' \in SetToSeqs(PeersOfDevice(device'))
         /\ Len(order) \in Nat /\ Len(order') \in Nat
         /\ DOMAIN order = 1..Len(order) /\ DOMAIN order' = 1..Len(order')
         /\ Len(order) <= Len(order')
         /\ \A i \in DOMAIN order : order'[i] = order[i]
<1> DEFINE dev == [device EXCEPT !.peers[key] = value]
<1>1. device' = dev /\ order' = IF device.peers[key] = Absent THEN Append(order, key) ELSE order
  BY DEF OthersSetPeer, Changed
<1>2. PeersOfDevice(dev) = PeersOfDevice(device) \cup {key}
  BY SetPeerFacts
<1>3. Lists(order, PeersOfDevice(device)) /\ order \in Seq(Keys) /\ Len(order) \in Nat
      /\ DOMAIN order = 1..Len(order)
  BY OrderLists, LenProperties
<1> HIDE DEF dev
<1>4. CASE device.peers[key] = Absent
  <2>1. key \notin PeersOfDevice(device)
    BY <1>4 DEF PeersOfDevice
  <2>2. Lists(Append(order, key), PeersOfDevice(dev))
    BY <1>2, <1>3, <2>1, ListsAppend
  <2>3. order' \in SetToSeqs(PeersOfDevice(device'))
    BY <1>1, <1>4, <2>2, NewOrder
  <2>4. /\ DOMAIN Append(order, key) = 1..Len(Append(order, key))
        /\ Len(Append(order, key)) = Len(order) + 1
        /\ \A i \in DOMAIN order : Append(order, key)[i] = order[i]
    BY <1>3, AppendProperties, LenProperties
  <2> QED BY <1>1, <1>3, <1>4, <2>3, <2>4 DEF dev
<1>5. CASE device.peers[key] # Absent
  <2>1. PeersOfDevice(dev) = PeersOfDevice(device)
    BY <1>2, <1>5 DEF PeersOfDevice
  <2>2. order' \in SetToSeqs(PeersOfDevice(device'))
    BY <1>1, <1>3, <1>5, <2>1, NewOrder
  <2> QED BY <1>1, <1>3, <1>5, <2>2 DEF dev
<1> QED BY <1>4, <1>5

LEMMA SetPeerKeepsControl ==
  ASSUME Control, NEW key \in Keys, NEW value \in Attrs, OthersSetPeer(key, value)
  PROVE  Control'
<1> USE DEF Control
<1>1. device' \in Device /\ Changed(device', order')
  BY SetPeerFacts, OrderAfterSetPeer DEF OthersSetPeer, Changed
<1>2. CursorInv'
  BY OrderAfterSetPeer DEF CursorInv, OthersSetPeer
<1> QED BY <1>1, <1>2, OrderAfterSetPeer, ChangedKeepsControl DEF OthersSetPeer, TypeOK

LEMMA MoveIpKeepsControl ==
  ASSUME Control, NEW key \in Keys, NEW ip \in Ips, OthersMoveIp(ip, key)
  PROVE  Control' /\ order' = order /\ device' = [device EXCEPT !.owner[ip] = key]
<1> USE DEF Control
<1>1. device' = [device EXCEPT !.owner[ip] = key] /\ order' = order
  BY DEF OthersMoveIp, Changed
<1>2. device' \in Device /\ device'.peers = device.peers
  BY <1>1 DEF TypeOK, Device
<1>3. order' \in SetToSeqs(PeersOfDevice(device'))
  BY <1>1, <1>2 DEF TypeOK, PeersOfDevice
<1>4. CursorInv'
  BY <1>1 DEF CursorInv, OthersMoveIp
<1>5. Changed(device', order')
  BY DEF OthersMoveIp, Changed
<1> QED BY <1>1, <1>2, <1>3, <1>4, <1>5, ChangedKeepsControl DEF OthersMoveIp, TypeOK

LEMMA RemovePeerKeepsControl ==
  ASSUME Control, NEW key \in Keys, OthersRemovePeer(key)
  PROVE  Control'
<1> USE DEF Control
<1>1. PICK i \in DOMAIN order :
        order[i] = key /\ Changed(RemovePeer(device, key), RemoveAt(order, i))
  BY DEF OthersRemovePeer
<1>2. device' = RemovePeer(device, key) /\ order' = RemoveAt(order, i)
  BY <1>1 DEF Changed
<1>3. RemovePeer(device, key) \in Device
      /\ PeersOfDevice(RemovePeer(device, key)) = PeersOfDevice(device) \ {key}
  BY OthersRemoveFacts
<1>4. Lists(order', PeersOfDevice(device) \ {key})
  BY <1>1, <1>2, OrderLists, ListsRemove
<1>5. RemoveAt(order, i) \in SetToSeqs(PeersOfDevice(RemovePeer(device, key)))
  BY <1>2, <1>3, <1>4, NewOrder
<1>6. /\ dump' \in Cursor /\ dump'.state = dump.state /\ dump'.last = dump.last
      /\ dump'.begun = dump.begun /\ (dump'.dead <=> dump.dead \/ dump.last = key)
  <2>1. PICK dead \in BOOLEAN : dead = (dump.dead \/ dump.last = key)
    OBVIOUS
  <2>2. dump' = [dump EXCEPT !.dead = dead]
    BY <2>1, Zenon DEF OthersRemovePeer
  <2> QED BY <2>1, <2>2 DEF TypeOK, Cursor
<1>7. CursorInv'
  <2>1. SUFFICES ASSUME dump.last # Nobody, ~ dump.dead, dump.last # key
                 PROVE  \E j \in DOMAIN order' : order'[j] = dump.last
    BY <1>6 DEF CursorInv
  <2>2. PICK j \in DOMAIN order : order[j] = dump.last
    BY <2>1 DEF CursorInv
  <2>3. dump.last \in PeersOfDevice(device) \ {key}
    <3>1. order[j] \in PeersOfDevice(device)
      BY OrderLists, LenProperties, ElementOfSeq DEF Lists
    <3> QED BY <2>1, <2>2, <3>1
  <2> QED BY <1>4, <2>3 DEF Lists
<1>8. removed' \in BOOLEAN
  BY DEF OthersRemovePeer
<1> QED BY <1>1, <1>3, <1>5, <1>6, <1>7, <1>8, ChangedKeepsControl

-----------------------------------------------------------------------------

\* A step is one of these, and each has its lemma.
LEMMA NextKeepsControl ==
  ASSUME Control, [Next]_vars
  PROVE  Control'
<1>1. CASE \E iface_name \in IfaceNames : Get(iface_name)
  BY <1>1, GetKeepsControl
<1>2. CASE ClientStep
  BY <1>2, AskKeepsControl, AskFailsKeepsControl, CollectKeepsControl, SkipKeepsControl,
     ReplyIsErrorKeepsControl, GetReturnsKeepsControl DEF ClientStep
<1>3. CASE KernelStep
  BY <1>3, KernelListsRestKeepsControl, KernelListsSomeKeepsControl,
     KernelEndsDumpKeepsControl, KernelFailsKeepsControl DEF KernelStep
<1>4. CASE ConnForwards \/ ConnStops
  BY <1>4, ConnForwardsKeepsControl, ConnStopsKeepsControl
<1>5. CASE OthersStep
  BY <1>5, SetPeerKeepsControl, MoveIpKeepsControl, RemovePeerKeepsControl DEF OthersStep
<1>6. CASE Returned \/ UNCHANGED vars
  BY <1>6 DEF Returned, vars, client, conn, kernel, Control, TypeOK, CursorInv, RepliesInv,
              WaitingInv, FailureInv, ResultInv
<1> QED BY <1>1, <1>2, <1>3, <1>4, <1>5, <1>6 DEF Next

THEOREM ControlHolds == Spec => []Control
<1>1. Init => Control
  BY InitControl
<1>2. Control /\ [Next]_vars => Control'
  BY NextKeepsControl
<1> QED BY <1>1, <1>2, PTL DEF Spec

\* Types: what is in a queue, a cursor and a list of peers.
THEOREM TypesHold == Spec => []TypeOK
<1>1. Control => TypeOK
  BY DEF Control
<1> QED BY <1>1, ControlHolds, PTL

\* An Ok while the Connection task runs is a complete dump, whatever fails in
\* the kernel and whatever others do: for every number of messages.
THEOREM FailedDumpsAreErrors == Spec => []FailedDumpIsError
<1>1. Control => FailedDumpIsError
  BY DEF Control, ResultInv, FailedDumpIsError
<1> QED BY <1>1, ControlHolds, PTL
-----------------------------------------------------------------------------
(* What is on its way to the caller: the peers of the messages collected,  *)
(* then of those in the stream, then of the one the task has not read.     *)

PushReply(peers, reply) ==
  IF reply.kind = "message" THEN PushMessage(peers, reply.msg) ELSE peers

PushReplies(peers, seq) == FoldLeft(PushReply, peers, seq)

Collected == PushMessages(<< >>, msgs)
Kept == PushReplies(Collected, stream)
Gathered == PushReplies(Kept, replies)

ReplyStep(env, peers, reply) == PushReply(peers, reply)

OverReplies == INSTANCE FoldInduction WITH op <- ReplyStep

LEMMA RepliesFold ==
  \A peers, seq : PushReplies(peers, seq) = OverReplies!Fold(0, peers, seq)
BY DEF PushReplies, ReplyStep, FoldLeft, MapThenFoldSet, Max, OverReplies!Fold,
       OverReplies!FoldLeft, OverReplies!MapThenFoldSet, OverReplies!Max

LEMMA PushRepliesEmpty ==
  \A peers : PushReplies(peers, << >>) = peers
BY RepliesFold, OverReplies!FoldEmpty

LEMMA PushRepliesAppend ==
  ASSUME NEW peers, NEW seq \in Seq(Reply), NEW reply \in Reply
  PROVE  PushReplies(peers, Append(seq, reply)) = PushReply(PushReplies(peers, seq), reply)
<1>1. OverReplies!Fold(0, peers, Append(seq, reply)) =
        ReplyStep(0, OverReplies!Fold(0, peers, seq), reply)
  BY OverReplies!FoldAppend
<1> QED BY <1>1, RepliesFold DEF ReplyStep

LEMMA PushRepliesOne ==
  ASSUME NEW peers, NEW reply \in Reply
  PROVE  PushReplies(peers, << reply >>) = PushReply(peers, reply)
<1>1. << reply >> = Append(<< >>, reply) /\ << >> \in Seq(Reply)
  OBVIOUS
<1> QED BY <1>1, PushRepliesAppend, PushRepliesEmpty

LEMMA PushRepliesHead ==
  ASSUME NEW peers, NEW seq \in Seq(Reply), seq # << >>
  PROVE  PushReplies(peers, seq) = PushReplies(PushReply(peers, Head(seq)), Tail(seq))
<1>1. Head(seq) \in Reply /\ Tail(seq) \in Seq(Reply) /\ seq = << Head(seq) >> \o Tail(seq)
  BY HeadTailProperties
<1>2. << Head(seq) >> \in Seq(Reply)
  BY <1>1
<1>3. OverReplies!Fold(0, peers, << Head(seq) >> \o Tail(seq)) =
        OverReplies!Fold(0, OverReplies!Fold(0, peers, << Head(seq) >>), Tail(seq))
  <2> DEFINE one == << Head(seq) >>
             rest == Tail(seq)
  <2>1. one \in Seq(Reply) /\ rest \in Seq(Reply)
    BY <1>1, <1>2
  <2> HIDE DEF one, rest
  <2>2. OverReplies!Fold(0, peers, one \o rest) =
          OverReplies!Fold(0, OverReplies!Fold(0, peers, one), rest)
    BY <2>1, OverReplies!FoldConcat
  <2> QED BY <2>2 DEF one, rest
<1> QED BY <1>1, <1>3, RepliesFold, PushRepliesOne

-----------------------------------------------------------------------------

\* The kernel sends a message with these entries.
Listing(entries) ==
  \/ KernelListsRest /\ entries = WholeEntries(Len(Rest))
  \/ KernelListsSome /\ \E n \in 0..Len(Rest) - 1 : ListsSome(n, entries)

\* What is gathered moves along, and grows when the kernel lists peers.
Flow ==
  /\ pc' = "waiting" =>
       \/ pc = "sending" /\ Kept' = << >> /\ Gathered' = << >>
       \/ /\ pc = "waiting" /\ Kept' \in {Kept, Gathered}
          /\ \/ Gathered' = Gathered
             \/ Gathered' = Kept /\ ~ connected'
             \/ \E entries \in Seq(Entry) :
                  /\ Listing(entries) /\ Gathered = Kept
                  /\ Gathered' = PushEntries(Gathered, entries)
  /\ result' = "ok" => \/ result = "ok" /\ Collected' = Collected
                       \/ pc = "waiting" /\ Collected' = Kept /\ GetReturns

\* Nothing happens to the queues.
LEMMA QuietFlow ==
  ASSUME UNCHANGED <<client, conn>>
  PROVE  Flow
BY DEF Flow, client, conn, Collected, Kept, Gathered

LEMMA CollectFlow ==
  ASSUME Control, Collect
  PROVE  Flow
<1>1. /\ Head(stream) \in Reply /\ Head(stream).kind = "message"
      /\ Head(stream).msg \in DumpMessage
      /\ pc = "waiting" /\ stream # << >>
  BY ReadingFacts, ReplyFacts DEF Collect, Control
<1>2. msgs \in Seq(DumpMessage) /\ stream \in Seq(Reply)
  BY DEF Control, TypeOK
<1>3. Collected' = PushReply(Collected, Head(stream))
  <2>1. Collected' = PushMessages(<< >>, Append(msgs, Head(stream).msg))
    BY DEF Collect, Collected
  <2> QED BY <1>1, <1>2, <2>1, PushMessagesAppend DEF PushReply, Collected
<1>4. Kept' = Kept
  <2>1. Kept' = PushReplies(Collected', Tail(stream))
    BY DEF Collect, Kept
  <2> QED BY <1>1, <1>2, <1>3, <2>1, PushRepliesHead DEF Kept
<1>5. Gathered' = Gathered
  BY <1>4 DEF Collect, Gathered
<1>6. result' # "ok"
  BY DEF Collect, Reading, Control, TypeOK
<1> QED BY <1>1, <1>4, <1>5, <1>6 DEF Flow

LEMMA SkipFlow ==
  ASSUME Control, Skip
  PROVE  Flow
<1>1. Head(stream) \in Reply /\ Head(stream).kind = "done" /\ pc = "waiting" /\ stream # << >>
  BY ReadingFacts, ReplyFacts DEF Skip, Control
<1>2. stream \in Seq(Reply)
  BY DEF Control, TypeOK
<1>3. Collected' = Collected
  BY DEF Skip, Collected, client
<1>4. PushReply(Collected, Head(stream)) = Collected
  BY <1>1 DEF PushReply
<1>5. Kept' = Kept
  <2>1. Kept' = PushReplies(Collected', Tail(stream))
    BY DEF Skip, Kept
  <2> QED BY <1>1, <1>2, <1>3, <1>4, <2>1, PushRepliesHead DEF Kept
<1>6. Gathered' = Gathered
  BY <1>5 DEF Skip, Gathered
<1>7. result' # "ok"
  BY DEF Skip, Reading, Control, TypeOK, client
<1> QED BY <1>1, <1>5, <1>6, <1>7 DEF Flow

LEMMA GetReturnsFlow ==
  ASSUME Control, GetReturns
  PROVE  Flow
<1>1. Collected' = Collected /\ stream = << >> /\ pc = "waiting" /\ pc' = "returned"
  BY DEF GetReturns, Collected, Return
<1>2. Kept = Collected
  BY <1>1, PushRepliesEmpty DEF Kept
<1> QED BY <1>1, <1>2 DEF Flow

\* What the kernel sends is the only thing the task has not read.
LEMMA KernelFlow ==
  ASSUME TypeOK, replies = << >>, NEW reply \in Reply, replies' = << reply >>,
         UNCHANGED <<client, stream>>
  PROVE  /\ Collected' = Collected /\ Kept' = Kept /\ Gathered = Kept
         /\ Gathered' = PushReply(Gathered, reply)
<1>1. Collected' = Collected
  BY DEF Collected, client
<1>2. Kept' = Kept
  BY <1>1 DEF Kept
<1>3. Gathered = Kept
  BY PushRepliesEmpty DEF Gathered
<1>4. Gathered' = PushReplies(Kept', << reply >>)
  BY DEF Gathered
<1> QED BY <1>1, <1>2, <1>3, <1>4, PushRepliesOne

LEMMA ListingGathers ==
  ASSUME Control, KernelListsRest \/ KernelListsSome
  PROVE  /\ Kept' = Kept /\ Gathered = Kept
         /\ \E entries \in Seq(Entry) :
              Listing(entries) /\ Gathered' = PushEntries(Gathered, entries)
<1>1. PICK entries \in Seq(Entry) : Listing(entries) /\ Send(entries)
  <2>1. CASE KernelListsRest
    BY <2>1, RestFacts, WholeEntriesFacts DEF Listing, KernelListsRest, Control
  <2>2. CASE KernelListsSome
    BY <2>2, ListsSomeFacts DEF Listing, Control
  <2> QED BY <2>1, <2>2
<1>2. replies = << >> /\ UNCHANGED <<client, stream>>
  BY DEF KernelListsRest, KernelListsSome, Dumping
<1>3. PICK reply \in Reply :
        replies' = << reply >> /\ reply.kind = "message" /\ reply.msg.peers = entries
  BY <1>1, <1>2, SendFacts
<1>4. /\ Collected' = Collected /\ Kept' = Kept /\ Gathered = Kept
      /\ Gathered' = PushReply(Gathered, reply)
  BY <1>2, <1>3, KernelFlow DEF Control
<1>5. Gathered' = PushEntries(Gathered, entries)
  BY <1>3, <1>4, PushMessageIsEntries DEF PushReply
<1> QED BY <1>1, <1>4, <1>5

LEMMA ListingFlow ==
  ASSUME Control, KernelListsRest \/ KernelListsSome
  PROVE  Flow
<1>1. UNCHANGED <<client, stream>>
  BY DEF KernelListsRest, KernelListsSome
<1>2. Collected' = Collected
  BY <1>1 DEF Collected, client
<1> QED BY <1>1, <1>2, ListingGathers DEF Flow, client

LEMMA EndFlow ==
  ASSUME Control, KernelEndsDump \/ KernelFails
  PROVE  Flow
<1>1. PICK reply \in Reply : replies' = << reply >> /\ reply.kind # "message"
  <2>1. CASE KernelEndsDump
    <3>1. [kind |-> "done"] \in Reply
      BY DEF Reply
    <3> QED BY <2>1, <3>1 DEF KernelEndsDump
  <2>2. CASE KernelFails
    <3>1. PICK kind \in Failures : replies' = << [kind |-> kind] >>
      BY <2>2 DEF KernelFails, Failures
    <3>2. [kind |-> kind] \in Reply /\ [kind |-> kind].kind # "message"
      BY DEF Reply, Failures
    <3> QED BY <3>1, <3>2
  <2> QED BY <2>1, <2>2
<1>2. replies = << >> /\ UNCHANGED <<client, stream>>
  BY DEF KernelEndsDump, KernelFails, Dumping
<1>3. /\ Collected' = Collected /\ Kept' = Kept /\ Gathered = Kept
      /\ Gathered' = PushReply(Gathered, reply)
  BY <1>1, <1>2, KernelFlow DEF Control
<1>4. Gathered' = Gathered
  BY <1>1, <1>3 DEF PushReply
<1> QED BY <1>2, <1>3, <1>4 DEF Flow, client

LEMMA ConnForwardsFlow ==
  ASSUME Control, ConnForwards
  PROVE  Flow
<1>1. Head(replies) \in Reply /\ replies = << Head(replies) >> /\ replies' = << >>
  BY QueueFacts DEF ConnForwards, Control
<1>2. Collected' = Collected /\ (result' = "ok" => result = "ok") /\ pc' = pc
  BY DEF ConnForwards, Collected, client
<1>3. SUFFICES ASSUME pc = "waiting" PROVE Kept' = Gathered /\ Gathered' = Gathered
  BY <1>2 DEF Flow
<1>4. open
  BY <1>3 DEF Control, WaitingInv, ConnForwards
<1>5. Gathered = PushReply(Kept, Head(replies))
  BY <1>1, PushRepliesOne DEF Gathered
<1>6. Kept' = PushReply(Kept, Head(replies))
  <2>1. Kept' = PushReplies(Collected, Append(stream, Head(replies)))
    BY <1>2, <1>4 DEF Kept, ConnForwards
  <2> QED BY <1>1, <2>1, PushRepliesAppend DEF Kept, Control, TypeOK
<1>7. Gathered' = Kept'
  BY <1>1, PushRepliesEmpty DEF Gathered
<1> QED BY <1>5, <1>6, <1>7

LEMMA ConnStopsFlow ==
  ASSUME Control, ConnStops
  PROVE  Flow
<1>1. Collected' = Collected /\ pc' = pc /\ result' = result
  BY DEF ConnStops, Collected, client
<1>2. Kept' = Kept
  BY <1>1 DEF ConnStops, Kept
<1>3. Gathered' = Kept'
  BY PushRepliesEmpty DEF ConnStops, Gathered
<1> QED BY <1>1, <1>2, <1>3 DEF Flow, ConnStops

LEMMA AskFlow ==
  ASSUME Control, Ask
  PROVE  Flow
<1>1. msgs' = << >> /\ stream' = << >> /\ replies' = << >> /\ pc = "sending" /\ result' # "ok"
  BY DEF Ask, Control, WaitingInv, TypeOK
<1>2. Collected' = << >>
  BY <1>1, PushMessagesEmpty DEF Collected
<1>3. Kept' = << >>
  BY <1>1, <1>2, PushRepliesEmpty DEF Kept
<1>4. Gathered' = << >>
  BY <1>1, <1>3, PushRepliesEmpty DEF Gathered
<1> QED BY <1>1, <1>3, <1>4 DEF Flow

LEMMA NextFlow ==
  ASSUME Control, [Next]_vars
  PROVE  Flow
<1>1. CASE \/ \E iface_name \in IfaceNames : Get(iface_name)
           \/ AskFails \/ ReplyIsError
  <2>1. pc' # "waiting" /\ result' # "ok"
    <3>1. ASSUME NEW iface_name \in IfaceNames, Get(iface_name)
          PROVE  pc' # "waiting" /\ result' # "ok"
      BY <3>1, GetAssumption DEF Get, Return, MessageError, IfaceError, Request, Control, TypeOK
    <3>2. CASE ReplyIsError
      BY <3>2, ReplyIsErrorKeepsControl DEF ReplyIsError, Return
    <3>3. CASE AskFails
      BY <3>3 DEF AskFails, Return
    <3> QED BY <1>1, <3>1, <3>2, <3>3
  <2> QED BY <2>1 DEF Flow
<1>2. CASE Ask \/ Collect \/ Skip \/ GetReturns
  BY <1>2, AskFlow, CollectFlow, SkipFlow, GetReturnsFlow
<1>3. CASE KernelStep
  BY <1>3, ListingFlow, EndFlow DEF KernelStep
<1>4. CASE ConnForwards \/ ConnStops
  BY <1>4, ConnForwardsFlow, ConnStopsFlow
<1>5. CASE OthersStep
  BY <1>5, QuietFlow DEF OthersStep, OthersSetPeer, OthersMoveIp, OthersRemovePeer, Changed
<1>6. CASE Returned \/ UNCHANGED vars
  BY <1>6, QuietFlow DEF Returned, vars
<1> QED BY <1>1, <1>2, <1>3, <1>4, <1>5, <1>6 DEF Next, ClientStep
-----------------------------------------------------------------------------
(* Nothing is made up.                                                     *)

\* What get_by_name() may say of a peer, after the devices there have been.
TruePeers ==
  {p \in ParsedPeers :
     /\ \E dev \in past : dev.peers[p.public_key] # Absent
     /\ p.attrs # NoAttrs => \E dev \in past : dev.peers[p.public_key] = p.attrs
     /\ \A i \in DOMAIN p.allowed_ips :
          \E dev \in past : dev.owner[p.allowed_ips[i].ip] = p.public_key}

TrueInv ==
  /\ device \in past
  /\ pc = "waiting" => Kept \in Seq(TruePeers) /\ Gathered \in Seq(TruePeers)
  /\ result = "ok" => Collected \in Seq(TruePeers)

\* Two true parts of one peer make a true whole.
LEMMA TrueMerge == KeptByMerge(TruePeers)
<1> SUFFICES ASSUME NEW peer \in TruePeers, NEW more \in TruePeers,
                    peer.public_key = more.public_key
             PROVE  MergeContinuation(peer, more) \in TruePeers
  BY DEF KeptByMerge
<1> DEFINE p == MergeContinuation(peer, more)
<1>1. peer \in ParsedPeers /\ more \in ParsedPeers
  BY DEF TruePeers
<1>2. /\ p \in ParsedPeers /\ p.public_key = peer.public_key
      /\ p.attrs = IF peer.attrs = NoAttrs THEN more.attrs ELSE peer.attrs
      /\ p.allowed_ips = peer.allowed_ips \o more.allowed_ips
  BY <1>1, MergeType
<1> HIDE DEF p
<1>3. ASSUME NEW i \in DOMAIN p.allowed_ips
      PROVE  \E dev \in past : dev.owner[p.allowed_ips[i].ip] = p.public_key
  <2>1. peer.allowed_ips \in Seq(AllowedIp) /\ more.allowed_ips \in Seq(AllowedIp)
    BY <1>1 DEF ParsedPeers
  <2>2. \/ i \in DOMAIN peer.allowed_ips /\ p.allowed_ips[i] = peer.allowed_ips[i]
        \/ \E j \in DOMAIN more.allowed_ips : p.allowed_ips[i] = more.allowed_ips[j]
    <3> DEFINE front == peer.allowed_ips
               back == more.allowed_ips
    <3>1. i \in DOMAIN (front \o back)
      BY <1>2
    <3>3. front \in Seq(AllowedIp) /\ back \in Seq(AllowedIp)
      BY <2>1
    <3> HIDE DEF front, back
    <3>2. \/ i \in DOMAIN front /\ (front \o back)[i] = front[i]
          \/ \E j \in DOMAIN back : (front \o back)[i] = back[j]
      BY <3>1, <3>3, ConcatElements
    <3> QED BY <1>2, <3>2 DEF front, back
  <2> QED BY <1>2, <2>2 DEF TruePeers
<1>4. \E dev \in past : dev.peers[p.public_key] # Absent
  BY <1>2 DEF TruePeers
<1>5. p.attrs # NoAttrs => \E dev \in past : dev.peers[p.public_key] = p.attrs
  BY <1>2 DEF TruePeers
<1> QED BY <1>2, <1>3, <1>4, <1>5 DEF TruePeers, p

\* Each entry of a message is that of a peer which is left to list.
LEMMA ListedEntries ==
  ASSUME TypeOK, CursorInv, NEW entries, Listing(entries), NEW j \in DOMAIN entries
  PROVE  \E i \in DOMAIN Rest : \E to \in 0..Len(IpsOf(Rest[i])) : entries[j] = EntryOf(i, to)
<1>1. \A i \in DOMAIN Rest : Len(IpsOf(Rest[i])) \in 0..Len(IpsOf(Rest[i]))
  BY IpsOfFacts DEF Lists
<1>2. ASSUME NEW n \in 0..Len(Rest), NEW m \in 1..n
      PROVE  m \in DOMAIN Rest /\ WholeEntries(n)[m] = EntryOf(m, Len(IpsOf(Rest[m])))
  BY WholeEntriesFacts
<1>3. CASE \E n \in 0..Len(Rest) : entries = WholeEntries(n)
  <2>1. PICK n \in 0..Len(Rest) : entries = WholeEntries(n)
    BY <1>3
  <2>2. j \in 1..n
    BY <2>1, WholeEntriesFacts
  <2> QED BY <1>1, <1>2, <2>1, <2>2
<1>4. CASE \E n \in 0..Len(Rest) - 1 : \E to \in From(n + 1)..Len(IpsOf(Rest[n + 1])) - 1 :
             entries = Append(WholeEntries(n), EntryOf(n + 1, to))
  <2>1. PICK n \in 0..Len(Rest) - 1 : \E to \in From(n + 1)..Len(IpsOf(Rest[n + 1])) - 1 :
               entries = Append(WholeEntries(n), EntryOf(n + 1, to))
    BY <1>4
  <2>2. PICK to \in From(n + 1)..Len(IpsOf(Rest[n + 1])) - 1 :
               entries = Append(WholeEntries(n), EntryOf(n + 1, to))
    BY <2>1
  <2>3. n \in 0..Len(Rest) /\ n \in Nat /\ n + 1 \in DOMAIN Rest
    BY RestFacts
  <2>4. From(n + 1) \in Nat /\ Len(IpsOf(Rest[n + 1])) \in Nat
    BY IpsOfFacts DEF From, TypeOK, Cursor, Lists
  <2>5. to \in 0..Len(IpsOf(Rest[n + 1]))
    BY <2>4
  <2>6. WholeEntries(n) \in Seq(Entry) /\ Len(WholeEntries(n)) = n
    BY <2>3, WholeEntriesFacts
  <2>7. EntryOf(n + 1, to) \in Entry
    BY <2>3, <2>5, EntryFacts
  <2>8. /\ DOMAIN entries = 1..n + 1
        /\ \A i \in 1..n : entries[i] = WholeEntries(n)[i]
        /\ entries[n + 1] = EntryOf(n + 1, to)
    BY <2>2, <2>6, <2>7, AppendProperties, LenProperties
  <2>9. CASE j = n + 1
    BY <2>3, <2>5, <2>8, <2>9
  <2>10. CASE j # n + 1
    <3>1. j \in 1..n
      BY <2>3, <2>8, <2>10
    <3> QED BY <1>1, <1>2, <2>3, <2>8, <3>1
  <2> QED BY <2>9, <2>10
<1>5. Len(Rest) \in 0..Len(Rest) /\ \A n \in 0..Len(Rest) - 1 : n \in 0..Len(Rest)
  BY RestFacts
<1> QED BY <1>3, <1>4, <1>5 DEF Listing, ListsSome

LEMMA TrueListed ==
  ASSUME TypeOK, CursorInv, device \in past, NEW entries, Listing(entries),
         NEW j \in DOMAIN entries
  PROVE  ParsedPeer(entries[j]) \in TruePeers
<1>1. PICK i \in DOMAIN Rest : \E to \in 0..Len(IpsOf(Rest[i])) : entries[j] = EntryOf(i, to)
  BY ListedEntries
<1>2. PICK to \in 0..Len(IpsOf(Rest[i])) : entries[j] = EntryOf(i, to)
  BY <1>1
<1> DEFINE entry == EntryOf(i, to)
           p == ParsedPeer(entry)
<1>3. /\ entry \in Entry /\ entry.public_key = Rest[i]
      /\ entry.attrs \in {NoAttrs, device.peers[Rest[i]]}
      /\ \A k \in DOMAIN entry.allowed_ips : device.owner[entry.allowed_ips[k]] = Rest[i]
  BY EntryFacts
<1> HIDE DEF entry
<1>4. /\ p \in ParsedPeers /\ p.public_key = Rest[i]
      /\ p.attrs = entry.attrs
      /\ DOMAIN p.allowed_ips = DOMAIN entry.allowed_ips
      /\ \A k \in DOMAIN entry.allowed_ips : p.allowed_ips[k] = AddressOf[entry.allowed_ips[k]]
  BY <1>3, ParsedPeerType
<1> HIDE DEF p
<1>5. device.peers[p.public_key] # Absent
  BY <1>4, RestPeers DEF PeersOfDevice
<1>6. p.attrs # NoAttrs => device.peers[p.public_key] = p.attrs
  BY <1>3, <1>4
<1>7. ASSUME NEW k \in DOMAIN p.allowed_ips
      PROVE  device.owner[p.allowed_ips[k].ip] = p.public_key
  <2>1. entry.allowed_ips \in Seq(Ips)
    BY <1>3 DEF Entry
  <2>2. entry.allowed_ips[k] \in Ips
    BY <1>4, <2>1, LenProperties, ElementOfSeq
  <2>3. p.allowed_ips[k].ip = entry.allowed_ips[k]
    BY <1>4, <2>2, AddressAssumption
  <2> QED BY <1>3, <1>4, <2>3
<1>8. p \in TruePeers
  BY <1>4, <1>5, <1>6, <1>7 DEF TruePeers
<1> QED BY <1>2, <1>8 DEF p, entry

\* What was true of the past stays true.
LEMMA PastGrows ==
  ASSUME Control, device \in past, [Next]_vars
  PROVE  device' \in past' /\ past \subseteq past' /\ TruePeers \subseteq TruePeers'
<1>1. device' \in past' /\ past \subseteq past'
  BY DEF Next, vars, client, conn, kernel, Get, ClientStep, Ask, AskFails, Collect, Skip,
         ReplyIsError, GetReturns, KernelStep, KernelListsRest, KernelListsSome,
         KernelEndsDump, KernelFails, ConnForwards, ConnStops, OthersStep, OthersSetPeer,
         OthersMoveIp, OthersRemovePeer, Changed, Returned
<1>2. TruePeers \subseteq TruePeers'
  BY <1>1 DEF TruePeers
<1> QED BY <1>1, <1>2

LEMMA NextKeepsTrue ==
  ASSUME Control, TrueInv, [Next]_vars
  PROVE  TrueInv'
<1>1. device' \in past' /\ TruePeers \subseteq TruePeers'
  BY PastGrows DEF TrueInv
<1>2. \A peers \in Seq(TruePeers) : peers \in Seq(TruePeers')
  BY <1>1, SeqMonotonic
<1>3. Flow
  BY NextFlow
<1>4. ASSUME pc = "waiting", NEW entries \in Seq(Entry), Listing(entries)
      PROVE  PushEntries(Gathered, entries) \in Seq(TruePeers)
  <2>1. \A j \in DOMAIN entries : ParsedPeer(entries[j]) \in TruePeers
    BY <1>4, TrueListed DEF TrueInv, Control
  <2> QED BY <1>4, <2>1, TrueMerge, PushEntriesKeep DEF TrueInv
<1>5. pc' = "waiting" => Kept' \in Seq(TruePeers') /\ Gathered' \in Seq(TruePeers')
  <2>1. << >> \in Seq(TruePeers')
    BY EmptySeq
  <2> QED BY <1>2, <1>3, <1>4, <2>1 DEF Flow, TrueInv
<1>6. result' = "ok" => Collected' \in Seq(TruePeers')
  BY <1>2, <1>3 DEF Flow, TrueInv
<1> QED BY <1>1, <1>5, <1>6 DEF TrueInv

THEOREM TrueHolds == Spec => []TrueInv
<1>1. Init => TrueInv
  BY DEF Init, TrueInv
<1>2. Control /\ TrueInv /\ [Next]_vars => TrueInv'
  BY NextKeepsTrue
<1> QED BY <1>1, <1>2, ControlHolds, PTL DEF Spec

\* Whatever others do between the messages of a dump, an Ok holds nothing that
\* was not in the device at some time during the call, for any number of peers,
\* allowed IPs, cuts and changes.
THEOREM NothingIsMadeUp == Spec => []NothingMadeUp
<1>1. TrueInv => NothingMadeUp
  <2>1. Parsed.peers = Collected
    BY DEF Parsed, ParsedMessages, Collected, PushMessages
  <2>2. PeersOf(Parsed) = {Collected[i] : i \in DOMAIN Collected}
    BY <2>1 DEF PeersOf
  <2>3. SUFFICES ASSUME Collected \in Seq(TruePeers), NEW p \in PeersOf(Parsed)
                 PROVE  p \in TruePeers
    BY DEF TrueInv, NothingMadeUp, TruePeers
  <2> QED BY <2>2, <2>3, LenProperties, ElementOfSeq
<1> QED BY <1>1, TrueHolds, PTL
-----------------------------------------------------------------------------
(* Each peer once.                                                         *)

\* How far into the list of peers the dump has got.
Limit ==
  IF dump.state \in {"asked", "dumping"}
  THEN Done + (IF dump.begun THEN 1 ELSE 0)
  ELSE Len(order)

OnceInv ==
  ~ removed =>
    /\ ~ dump.dead
    /\ dump.begun => Done < Len(order)
    /\ pc = "waiting" => Rising(Kept, order, Limit) /\ Rising(Gathered, order, Limit)
    /\ result = "ok" => Rising(Collected, order, Len(order))

LEMMA OrderOnce ==
  ASSUME TypeOK
  PROVE  Once(order) /\ DOMAIN order = 1..Len(order)
BY OrderLists, LenProperties DEF Lists, Once

\* What Listing sends, by place, and how far it gets.
LEMMA ListingPlaces ==
  ASSUME Control, ~ dump.dead, NEW entries \in Seq(Entry), Listing(entries)
  PROVE  /\ Done + Len(entries) <= Len(order)
         /\ \A j \in 1..Len(entries) : entries[j].public_key = order[Done + j]
         /\ dump'.dead = dump.dead
         /\ \/ /\ KernelListsRest /\ dump' = [dump EXCEPT !.state = "listed"]
               /\ Done + Len(entries) = Len(order)
            \/ /\ KernelListsSome /\ dump'.state = "dumping" /\ entries # << >>
               /\ Done' + (IF dump'.begun THEN 1 ELSE 0) = Done + Len(entries)
               /\ dump'.begun => Done' < Len(order)
<1> USE DEF Control
<1>1. /\ Done \in 0..Len(order) /\ Len(order) \in Nat
      /\ Rest \in Seq(Keys) /\ Len(Rest) = Len(order) - Done
      /\ DOMAIN Rest = 1..Len(order) - Done
      /\ \A i \in DOMAIN Rest : Done + i \in DOMAIN order /\ Rest[i] = order[Done + i]
  BY RestFacts
<1>2. ASSUME NEW n \in 0..Len(Rest)
      PROVE  /\ WholeEntries(n) \in Seq(Entry) /\ Len(WholeEntries(n)) = n
             /\ \A j \in 1..n : WholeEntries(n)[j].public_key = order[Done + j]
  <2>1. \A i \in DOMAIN Rest : Len(IpsOf(Rest[i])) \in 0..Len(IpsOf(Rest[i]))
    BY IpsOfFacts DEF Lists
  <2>2. /\ WholeEntries(n) \in Seq(Entry) /\ Len(WholeEntries(n)) = n
        /\ \A i \in 1..n : i \in DOMAIN Rest
                           /\ WholeEntries(n)[i] = EntryOf(i, Len(IpsOf(Rest[i])))
    BY WholeEntriesFacts
  <2>3. \A i \in 1..n : EntryOf(i, Len(IpsOf(Rest[i]))).public_key = Rest[i]
    BY <2>1, <2>2, EntryFacts
  <2> QED BY <1>1, <2>2, <2>3
<1>3. CASE KernelListsRest /\ entries = WholeEntries(Len(Rest))
  <2>1. Len(Rest) \in 0..Len(Rest)
    BY <1>1
  <2>2. /\ Len(entries) = Len(Rest)
        /\ \A j \in 1..Len(Rest) : entries[j].public_key = order[Done + j]
    BY <1>2, <1>3, <2>1
  <2>3. dump' = [dump EXCEPT !.state = "listed"]
    BY <1>3 DEF KernelListsRest
  <2>4. dump'.dead = dump.dead
    BY <2>3 DEF TypeOK, Cursor
  <2> QED BY <1>1, <1>3, <2>2, <2>3, <2>4
<1>4. CASE KernelListsSome /\ \E n \in 0..Len(Rest) - 1 : ListsSome(n, entries)
  <2>1. PICK n \in 0..Len(Rest) - 1 : ListsSome(n, entries)
    BY <1>4
  <2>2. n \in Nat /\ n \in 0..Len(Rest) /\ n + 1 \in DOMAIN Rest /\ Done + n + 1 <= Len(order)
    BY <1>1
  <2>3. LastOf(n) \in Keys \cup {Nobody}
    <3>1. n # 0 => n \in DOMAIN Rest /\ Rest[n] \in Keys
      BY <1>1, <2>2, RestPeers
    <3> QED BY <3>1 DEF LastOf, TypeOK, Cursor
  <2>4. order' = order
    BY <1>4 DEF KernelListsSome, kernel
  \* The list has each peer once, so the cursor finds its place again.
  <2>5. ASSUME dump'.last = LastOf(n), dump'.dead = dump.dead
        PROVE  Done' = Done + n
    <3>1. CASE n = 0
      BY <1>1, <2>4, <2>5, <3>1 DEF Done, LastOf
    <3>2. CASE n # 0
      <4>1. n \in DOMAIN Rest
        BY <1>1, <2>2, <3>2
      <4>2. Done + n \in DOMAIN order /\ dump'.last = order[Done + n] /\ dump'.last # Nobody
        BY <1>1, <2>5, <3>2, <4>1, RestPeers DEF LastOf
      <4>3. Done' = CHOOSE i \in DOMAIN order : order[i] = order[Done + n]
        BY <2>4, <2>5, <4>2 DEF Done
      <4>4. \A i \in DOMAIN order : order[i] = order[Done + n] => i = Done + n
        BY <4>2, OrderLists DEF Lists
      <4> QED BY <4>2, <4>3, <4>4
    <3> QED BY <3>1, <3>2
  <2>6. CASE n > 0 /\ entries = WholeEntries(n) /\ dump' = CursorAt(n)
    <3>1. /\ dump'.state = "dumping" /\ dump'.last = LastOf(n) /\ dump'.dead = dump.dead
          /\ ~ dump'.begun
      <4>1. 0 \in Nat
        OBVIOUS
      <4> QED BY <2>3, <2>6, <4>1, CursorFacts
    <3>2. /\ Len(entries) = n
          /\ \A j \in 1..n : entries[j].public_key = order[Done + j]
      BY <1>2, <2>2, <2>6
    <3>3. entries # << >>
      BY <2>6, <3>2
    <3>4. Done' = Done + n
      BY <2>5, <3>1
    <3> QED BY <1>1, <1>4, <2>2, <3>1, <3>2, <3>3, <3>4
  <2>7. CASE \E to \in From(n + 1)..Len(IpsOf(Rest[n + 1])) - 1 :
               /\ entries = Append(WholeEntries(n), EntryOf(n + 1, to))
               /\ dump' = CursorIn(n, to)
    <3>1. PICK to \in From(n + 1)..Len(IpsOf(Rest[n + 1])) - 1 :
               /\ entries = Append(WholeEntries(n), EntryOf(n + 1, to))
               /\ dump' = CursorIn(n, to)
      BY <2>7
    <3>2. to \in Nat /\ to \in 0..Len(IpsOf(Rest[n + 1]))
      <4>1. From(n + 1) \in Nat /\ Len(IpsOf(Rest[n + 1])) \in Nat
        BY IpsOfFacts DEF From, TypeOK, Cursor, Lists
      <4> QED BY <4>1
    <3>3. /\ dump'.state = "dumping" /\ dump'.last = LastOf(n) /\ dump'.dead = dump.dead
          /\ dump'.begun
      BY <2>3, <3>1, <3>2, CursorFacts
    <3>4. /\ EntryOf(n + 1, to) \in Entry
          /\ EntryOf(n + 1, to).public_key = order[Done + (n + 1)]
      BY <1>1, <2>2, <3>2, EntryFacts
    <3>5. /\ WholeEntries(n) \in Seq(Entry) /\ Len(WholeEntries(n)) = n
          /\ \A j \in 1..n : WholeEntries(n)[j].public_key = order[Done + j]
      BY <1>2, <2>2
    <3>6. /\ Len(entries) = n + 1
          /\ \A j \in 1..n : entries[j] = WholeEntries(n)[j]
          /\ entries[n + 1] = EntryOf(n + 1, to)
      BY <3>1, <3>4, <3>5, AppendProperties
    <3>7. \A j \in 1..n + 1 : entries[j].public_key = order[Done + j]
      BY <2>2, <3>4, <3>5, <3>6
    <3>8. entries # << >>
      BY <2>2, <3>6
    <3>9. Done' = Done + n
      BY <2>5, <3>3
    <3> QED BY <1>1, <1>4, <2>2, <3>3, <3>6, <3>7, <3>8, <3>9
  <2> QED BY <2>1, <2>6, <2>7 DEF ListsSome
<1> QED BY <1>3, <1>4 DEF Listing
\* As long as nobody is removed, places in the list stay.
LEMMA OrderGrows ==
  ASSUME Control, [Next]_vars, ~ removed'
  PROVE  /\ ~ removed /\ Len(order) \in Nat /\ Len(order') \in Nat
         /\ Len(order) <= Len(order')
         /\ \A i \in 1..Len(order) : order'[i] = order[i]
<1>1. DOMAIN order = 1..Len(order) /\ Len(order) \in Nat
  BY OrderOnce DEF Control, Once
<1>2. CASE \E key \in Keys : \E value \in Attrs : OthersSetPeer(key, value)
  <2>1. PICK key \in Keys : \E value \in Attrs : OthersSetPeer(key, value)
    BY <1>2
  <2>2. PICK value \in Attrs : OthersSetPeer(key, value)
    BY <2>1
  <2> QED BY <1>1, <2>2, OrderAfterSetPeer DEF OthersSetPeer, Control
<1>3. CASE order' = order /\ removed' = removed
  BY <1>1, <1>3
<1>4. ASSUME NEW key \in Keys, NEW ip \in Ips, OthersMoveIp(ip, key)
      PROVE  order' = order /\ removed' = removed
  BY <1>4 DEF OthersMoveIp, Changed
<1>5. ASSUME NEW key \in Keys, OthersRemovePeer(key)
      PROVE  FALSE
  BY <1>5 DEF OthersRemovePeer
<1>6. CASE ~ OthersStep
  <2>1. order' = order /\ removed' = removed
    BY <1>6 DEF Next, vars, client, conn, kernel, Get, ClientStep, Ask, AskFails, Collect,
         Skip, ReplyIsError, GetReturns, KernelStep, KernelListsRest, KernelListsSome,
         KernelEndsDump, KernelFails, ConnForwards, ConnStops, Returned
  <2> QED BY <1>3, <2>1
<1> QED BY <1>2, <1>3, <1>4, <1>5, <1>6 DEF OthersStep

\* A step that lists nothing leaves the cursor where it is.
LEMMA QuietCursor ==
  ASSUME Control, [Next]_vars, ~ removed', ~ (KernelListsRest \/ KernelListsSome)
  PROVE  /\ dump'.last = dump.last /\ dump'.dead = dump.dead /\ dump'.begun = dump.begun
         /\ dump'.ip = dump.ip /\ dump'.seq = dump.seq
         /\ \/ dump'.state = dump.state
            \/ dump'.state = "asked" /\ pc = "sending"
            \/ dump'.state = "failed"
            \/ dump'.state = "done" /\ dump.state = "listed"
<1>1. dump \in Cursor
  BY DEF Control, TypeOK
<1>2. \/ dump' = dump
      \/ dump' = [dump EXCEPT !.state = "asked"] /\ pc = "sending"
      \/ dump' = [dump EXCEPT !.state = "failed"]
      \/ dump' = [dump EXCEPT !.state = "done"] /\ dump.state = "listed"
  <2>1. CASE OthersStep
    BY <2>1 DEF OthersStep, OthersSetPeer, OthersMoveIp, OthersRemovePeer
  <2>2. CASE ~ OthersStep
    BY <2>2 DEF Next, vars, client, conn, kernel, Get, ClientStep, Ask, AskFails, Collect,
         Skip, ReplyIsError, GetReturns, KernelStep, KernelEndsDump, KernelFails,
         ConnForwards, ConnStops, Returned
  <2> QED BY <2>1, <2>2
<1> QED BY <1>1, <1>2 DEF Cursor

\* Its place in a longer list is the same.
LEMMA DoneStays ==
  ASSUME Control, CursorInv', [Next]_vars, ~ removed', ~ dump.dead,
         ~ (KernelListsRest \/ KernelListsSome)
  PROVE  Done' = Done /\ Done \in 0..Len(order)
<1>1. /\ dump'.last = dump.last /\ dump'.dead = dump.dead
  BY QuietCursor
<1>2. /\ Len(order) \in Nat /\ Len(order') \in Nat /\ Len(order) <= Len(order')
      /\ \A i \in 1..Len(order) : order'[i] = order[i]
  BY OrderGrows
<1>3. Done \in 0..Len(order)
  BY RestFacts DEF Control
<1>4. CASE dump.last = Nobody
  BY <1>1, <1>3, <1>4 DEF Done
<1>5. CASE dump.last # Nobody
  <2>1. Done \in DOMAIN order /\ order[Done] = dump.last
    BY <1>5, RestFacts DEF Control
  <2>2. Control'
    BY NextKeepsControl
  <2>3. /\ DOMAIN order = 1..Len(order) /\ DOMAIN order' = 1..Len(order')
        /\ \A i, j \in DOMAIN order' : order'[i] = order'[j] => i = j
    <3>1. TypeOK /\ TypeOK'
      BY <2>2 DEF Control
    <3>2. DOMAIN order = 1..Len(order)
      BY <3>1, OrderOnce
    <3>3. Lists(order, PeersOfDevice(device))'
      BY <3>1, OrderLists, PTL
    <3>4. Once(order)' /\ (DOMAIN order = 1..Len(order))'
      BY <3>1, OrderOnce, PTL
    <3> QED BY <3>2, <3>3, <3>4 DEF Lists
  <2>4. Done \in DOMAIN order' /\ order'[Done] = dump.last
    BY <1>2, <2>1, <2>3
  <2>5. Done' = CHOOSE i \in DOMAIN order' : order'[i] = dump.last
    BY <1>1, <1>5 DEF Done
  <2>6. \A i \in DOMAIN order' : order'[i] = dump.last => i = Done
    BY <2>3, <2>4
  <2> QED BY <1>3, <2>4, <2>5, <2>6
<1> QED BY <1>4, <1>5

LEMMA LimitFacts ==
  ASSUME Control, OnceInv, ~ removed
  PROVE  /\ Limit \in 0..Len(order) /\ Len(order) \in Nat
         /\ dump.state \in {"asked", "dumping"} => Limit <= Done + 1
<1>1. Done \in 0..Len(order) /\ Len(order) \in Nat
  BY RestFacts DEF Control
<1>2. dump.begun => Done < Len(order)
  BY DEF OnceInv
<1> QED BY <1>1, <1>2 DEF Limit

LEMMA NextKeepsOnce ==
  ASSUME Control, TrueInv, OnceInv, [Next]_vars
  PROVE  OnceInv'
<1> SUFFICES ASSUME ~ removed'
             PROVE  OnceInv'
  BY DEF OnceInv
<1>1. /\ ~ removed /\ Len(order) \in Nat /\ Len(order') \in Nat /\ Len(order) <= Len(order')
      /\ \A i \in 1..Len(order) : order'[i] = order[i]
  BY OrderGrows
<1>2. Control' /\ Flow
  BY NextKeepsControl, NextFlow
<1>3. /\ ~ dump.dead /\ (dump.begun => Done < Len(order))
      /\ pc = "waiting" => Rising(Kept, order, Limit) /\ Rising(Gathered, order, Limit)
      /\ result = "ok" => Rising(Collected, order, Len(order))
  BY <1>1 DEF OnceInv
<1>4. Limit \in 0..Len(order) /\ (dump.state \in {"asked", "dumping"} => Limit <= Done + 1)
  BY <1>1, LimitFacts
\* What has risen so far still does, up to a later place of a longer list.
<1>5. ASSUME NEW peers, Rising(peers, order, Limit), NEW more \in Nat, Limit <= more
      PROVE  Rising(peers, order', more)
  <2>1. Limit \in Nat /\ \A i \in 1..Limit : order'[i] = order[i]
    BY <1>1, <1>4
  <2> QED BY <1>5, <2>1, RisingGrows
<1>6. result' = "ok" => Rising(Collected', order', Len(order'))
  <2>1. Rising(Collected, order, Len(order)) => Rising(Collected, order', Len(order'))
    BY <1>1, RisingGrows
  <2>2. Limit <= Len(order')
    BY <1>1, <1>4
  <2> QED BY <1>1, <1>2, <1>3, <1>5, <2>1, <2>2 DEF Flow, GetReturns
<1>7. CASE ~ (KernelListsRest \/ KernelListsSome)
  <2>1. /\ dump'.dead = dump.dead /\ dump'.begun = dump.begun
        /\ \/ dump'.state = dump.state
           \/ dump'.state = "asked" /\ pc = "sending"
           \/ dump'.state = "failed"
           \/ dump'.state = "done" /\ dump.state = "listed"
    BY <1>7, QuietCursor
  <2>2. Done' = Done /\ Done \in 0..Len(order)
    BY <1>2, <1>3, <1>7, DoneStays DEF Control
  <2>3. dump'.begun => Done' < Len(order')
    BY <1>1, <1>3, <2>1, <2>2
  <2>4. Limit' \in Nat
    BY <1>1, <2>2 DEF Limit
  <2>5. pc = "waiting" => Limit <= Limit'
    <3>1. CASE dump'.state \in {"asked", "dumping"} /\ pc = "waiting"
      <4>1. dump'.state = dump.state
        BY <2>1, <3>1
      <4> QED BY <1>1, <2>1, <2>2, <3>1, <4>1 DEF Limit
    <3>2. CASE dump'.state \notin {"asked", "dumping"}
      BY <1>1, <1>4, <3>2 DEF Limit
    <3> QED BY <3>1, <3>2
  <2>6. ASSUME pc' = "waiting"
        PROVE  Rising(Kept', order', Limit') /\ Rising(Gathered', order', Limit')
    <3>1. \/ pc = "sending" /\ Kept' = << >> /\ Gathered' = << >>
          \/ pc = "waiting" /\ Kept' \in {Kept, Gathered} /\ Gathered' \in {Kept, Gathered}
      BY <1>2, <1>7, <2>6 DEF Flow, Listing
    <3> QED BY <1>3, <1>5, <2>4, <2>5, <3>1, RisingEmpty
  <2> QED BY <1>3, <1>6, <2>1, <2>3, <2>6 DEF OnceInv
<1>8. CASE KernelListsRest \/ KernelListsSome
  <2>1. order' = order /\ pc' = pc /\ dump.state \in {"asked", "dumping"}
    BY <1>8 DEF KernelListsRest, KernelListsSome, kernel, client, Dumping
  <2>2. PICK entries \in Seq(Entry) : Listing(entries)
    <3>1. CASE KernelListsRest
      BY <3>1, RestFacts, WholeEntriesFacts DEF Listing, Control
    <3>2. CASE KernelListsSome
      BY <3>2, ListsSomeFacts DEF Listing, Control
    <3> QED BY <1>8, <3>1, <3>2
  <2>3. ASSUME NEW new \in Seq(Entry), Listing(new)
        PROVE  /\ ~ dump'.dead /\ (dump'.begun => Done' < Len(order'))
               /\ Limit' \in Nat /\ Limit <= Limit'
               /\ pc = "waiting" => Rising(PushEntries(Gathered, new), order', Limit')
    <3>1. /\ Done + Len(new) <= Len(order)
          /\ \A j \in 1..Len(new) : new[j].public_key = order[Done + j]
          /\ dump'.dead = dump.dead
          /\ \/ /\ KernelListsRest /\ dump' = [dump EXCEPT !.state = "listed"]
                /\ Done + Len(new) = Len(order)
             \/ /\ KernelListsSome /\ dump'.state = "dumping" /\ new # << >>
                /\ Done' + (IF dump'.begun THEN 1 ELSE 0) = Done + Len(new)
                /\ dump'.begun => Done' < Len(order)
      BY <1>3, <2>3, ListingPlaces
    <3>2. Done \in 0..Len(order) /\ Len(new) \in Nat /\ (new # << >> => Len(new) > 0)
      BY RestFacts, EmptySeq, LenProperties DEF Control
    <3>3. /\ Limit' \in Nat /\ (dump'.begun => Done' < Len(order'))
          /\ Limit' = Done + Len(new)
      <4>1. CASE dump' = [dump EXCEPT !.state = "listed"] /\ Done + Len(new) = Len(order)
        <5>1. /\ dump'.state = "listed" /\ dump'.begun = dump.begun
              /\ dump'.last = dump.last /\ dump'.dead = dump.dead
          BY <4>1 DEF Control, TypeOK, Cursor
        <5>2. Done' = Done
          BY <2>1, <5>1 DEF Done
        <5>3. Limit' = Len(order)
          BY <2>1, <5>1 DEF Limit
        <5> QED BY <1>1, <1>3, <2>1, <4>1, <5>1, <5>2, <5>3
      <4>2. CASE /\ dump'.state = "dumping"
                 /\ Done' + (IF dump'.begun THEN 1 ELSE 0) = Done + Len(new)
                 /\ dump'.begun => Done' < Len(order)
        <5>1. Limit' = Done + Len(new)
          BY <4>2 DEF Limit
        <5> QED BY <1>1, <2>1, <3>2, <4>2, <5>1
      <4> QED BY <3>1, <4>1, <4>2
    <3>4. Limit <= Limit'
      <4>1. CASE new = << >>
        <5>1. Len(new) = 0
          BY <4>1
        <5>2. Done = Len(order)
          BY <3>1, <3>2, <4>1, <5>1
        <5>3. ~ dump.begun
          BY <1>1, <1>3, <5>2
        <5> QED BY <2>1, <3>2, <3>3, <5>1, <5>3 DEF Limit
      <4>2. CASE new # << >>
        BY <1>4, <2>1, <3>2, <3>3, <4>2
      <4> QED BY <4>1, <4>2
    <3>5. ASSUME pc = "waiting" PROVE Rising(PushEntries(Gathered, new), order', Limit')
      <4>1. Rising(Gathered, order, Limit)
        BY <1>3, <3>5
      <4>2. CASE new = << >>
        BY <1>5, <3>3, <3>4, <4>1, <4>2, PushEntriesEmpty
      <4>3. CASE new # << >>
        <5>1. Gathered \in Seq(ParsedPeers)
          <6>1. TruePeers \subseteq ParsedPeers
            BY DEF TruePeers
          <6> QED BY <3>5, <6>1, SeqMonotonic DEF TrueInv
        <5>2. Once(order)
          BY OrderOnce DEF Control
        <5>3. Done \in Nat /\ Limit \in 0..Done + 1
          BY <1>4, <2>1, <3>2
        <5>4. Rising(PushEntries(Gathered, new), order, Done + Len(new))
          BY <3>1, <4>1, <4>3, <5>1, <5>2, <5>3, PushEntriesRise
        <5> QED BY <2>1, <3>3, <5>4
      <4> QED BY <4>2, <4>3
    <3> QED BY <1>3, <3>1, <3>3, <3>4, <3>5
  <2>4. ASSUME pc' = "waiting"
        PROVE  Rising(Kept', order', Limit') /\ Rising(Gathered', order', Limit')
    <3>1. pc = "waiting" /\ Limit' \in Nat /\ Limit <= Limit'
      BY <2>1, <2>2, <2>3, <2>4
    <3>2. Rising(Kept, order', Limit') /\ Rising(Gathered, order', Limit')
      BY <1>3, <1>5, <3>1
    <3> QED BY <1>2, <2>3, <2>4, <3>1, <3>2 DEF Flow
  <2> QED BY <1>6, <2>2, <2>3, <2>4 DEF OnceInv
<1> QED BY <1>7, <1>8

THEOREM OnceHolds == Spec => []OnceInv
<1>1. Init => OnceInv
  BY DEF Init, OnceInv
<1>2. Control /\ TrueInv /\ OnceInv /\ [Next]_vars => OnceInv'
  BY NextKeepsOnce
<1> QED BY <1>1, <1>2, ControlHolds, TrueHolds, PTL DEF Spec

\* Each peer is reported once as long as none is removed meanwhile, wherever
\* the kernel cuts the dump: the dump walks through a list that only grows, and
\* entries next to each other are put together.
THEOREM PeersAreReportedOnce == Spec => []EachPeerOnce
<1>1. Control /\ TrueInv /\ OnceInv => EachPeerOnce
  <2>1. SUFFICES ASSUME Control, TrueInv, OnceInv, result = "ok", ~ removed,
                        NEW i \in DOMAIN Collected, NEW j \in DOMAIN Collected,
                        Collected[i].public_key = Collected[j].public_key
                 PROVE  i = j
    BY DEF EachPeerOnce, Parsed, ParsedMessages, Collected, PushMessages
  <2>2. Collected \in Seq(ParsedPeers)
    <3>1. TruePeers \subseteq ParsedPeers
      BY DEF TruePeers
    <3> QED BY <2>1, <3>1, SeqMonotonic DEF TrueInv
  <2>3. Once(order) /\ Len(order) \in 0..Len(order) /\ Rising(Collected, order, Len(order))
    BY <2>1, OrderOnce DEF OnceInv, Control, Once
  <2> QED BY <2>1, <2>2, <2>3, RisingIsOnce
<1> QED BY <1>1, ControlHolds, TrueHolds, OnceHolds, PTL

-----------------------------------------------------------------------------
(* A device that nobody changes.                                           *)

\* What the parts sent so far make of the device.
ListedSoFar ==
  IF dump.state \in {"listed", "done"} THEN Listed(device, order, Len(order))
  ELSE ListedUpTo(device, order, Done, dump.begun, dump.ip)

DeviceInv ==
  changes = 0 =>
    /\ ~ removed /\ device \in Devices
    /\ pc = "waiting" /\ dump.begun =>
         dump.seq = ips_seq /\ dump.ip <= Len(IpsIn(device, order[Done + 1]))
    /\ pc = "waiting" /\ connected /\ dump.state # "failed" => Gathered = ListedSoFar
    /\ result = "ok" /\ connected => Collected = Listed(device, order, Len(order))

LEMMA OrderIsPeerList ==
  ASSUME TypeOK
  PROVE  PeerList(device, order) /\ Len(order) \in Nat /\ DOMAIN order = 1..Len(order)
<1>1. Once(order) /\ DOMAIN order = 1..Len(order) /\ order \in Seq(PeersOfDevice(device))
  BY OrderOnce, OrderLists DEF Lists
<1>2. \A i \in 1..Len(order) : PeerOf(device, order[i])
  BY <1>1, ElementOfSeq DEF PeerOf, PeersOfDevice
<1> QED BY <1>1, <1>2 DEF PeerList, TypeOK, Once

\* Without changes the device and the lists stay, and the task never comes back.
LEMMA QuietDevice ==
  ASSUME Control, [Next]_vars
  PROVE  /\ changes' = 0 => changes = 0 /\ UNCHANGED <<device, order, ips_seq, removed>>
         /\ connected' => connected
<1>1. changes \in Nat
  BY GetAssumption DEF Control, TypeOK
<1>2. CASE OthersStep
  <2>1. changes' = changes + 1 /\ connected' = connected
    BY <1>2 DEF OthersStep, OthersSetPeer, OthersMoveIp, OthersRemovePeer, Changed, conn
  <2> QED BY <1>1, <2>1
<1>3. CASE ~ OthersStep
  <2>1. /\ changes' = changes /\ device' = device /\ order' = order
        /\ ips_seq' = ips_seq /\ removed' = removed
    BY <1>3 DEF Next, vars, kernel, Get, ClientStep, Ask, AskFails, Collect,
         Skip, ReplyIsError, GetReturns, KernelStep, KernelListsRest, KernelListsSome,
         KernelEndsDump, KernelFails, ConnForwards, ConnStops, Returned
  <2>2. connected' = connected \/ connected' = FALSE
    BY <1>3 DEF Next, vars, conn, Get, ClientStep, Ask, AskFails, Collect,
         Skip, ReplyIsError, GetReturns, KernelStep, KernelListsRest, KernelListsSome,
         KernelEndsDump, KernelFails, ConnForwards, ConnStops, Returned
  <2> QED BY <2>1, <2>2
<1> QED BY <1>2, <1>3

\* An entry of a dump of such a device.
LEMMA EntryIsOfPeer ==
  ASSUME Control, DeviceInv, changes = 0, pc = "waiting", NEW i \in DOMAIN Rest,
         NEW to \in 0..Len(IpsOf(Rest[i]))
  PROVE  IF dump.begun /\ i = 1
         THEN Continuing(EntryOf(i, to), device, order[Done + i], dump.ip, to)
         ELSE Fresh(EntryOf(i, to), device, order[Done + i], to)
<1> DEFINE entry == EntryOf(i, to)
           key == Rest[i]
           ips == IpsIn(device, key)
<1>1. Rest[i] = order[Done + i] /\ IpsOf(key) = ips
  BY RestFacts DEF Control, IpsOf, IpsIn
<1>2. entry \in Entry /\ entry.public_key = key
  BY EntryFacts DEF Control
<1>3. ~ Stale(i)
  BY DEF DeviceInv, Stale, Continues
<1>4. PICK has \in BOOLEAN : has = (~ Stale(i) /\ IpsOf(key) # << >>)
  OBVIOUS
<1>5. entry = [public_key |-> key,
               attrs |-> IF Continues(i) THEN NoAttrs ELSE device.peers[key],
               has_allowed_ips |-> has,
               allowed_ips |-> IF Stale(i) THEN << >> ELSE SubSeq(IpsOf(key), From(i) + 1, to)]
  BY <1>4, Zenon DEF EntryOf
<1>6. /\ entry.attrs = IF Continues(i) THEN NoAttrs ELSE device.peers[key]
      /\ entry.has_allowed_ips = has
      /\ entry.allowed_ips = SubSeq(ips, From(i) + 1, to)
  <2> DEFINE own == IpsOf(key)
             some == IF Stale(i) THEN << >> ELSE SubSeq(own, From(i) + 1, to)
  <2>1. some = SubSeq(ips, From(i) + 1, to)
    BY <1>1, <1>3
  <2> HIDE DEF entry, some, ips
  <2>2. entry = [public_key |-> key,
                 attrs |-> IF Continues(i) THEN NoAttrs ELSE device.peers[key],
                 has_allowed_ips |-> has, allowed_ips |-> some]
    BY <1>5 DEF some
  <2> QED BY <2>1, <2>2
<1>7. entry.has_allowed_ips <=> ips # << >>
  BY <1>1, <1>3, <1>4, <1>6
<1> HIDE DEF entry, ips
<1>8. CASE dump.begun /\ i = 1
  BY <1>1, <1>2, <1>6, <1>7, <1>8 DEF Continuing, Continues, From, ips, entry
<1>9. CASE ~ (dump.begun /\ i = 1)
  <2>1. From(i) + 1 = 1
    BY <1>9 DEF From, Continues
  <2> QED BY <1>1, <1>2, <1>6, <1>7, <1>9, <2>1 DEF Fresh, Continues, ips, entry
<1> QED BY <1>8, <1>9

\* What the peers left, listed in full, add.
LEMMA GatherWhole ==
  ASSUME Control, OnceInv, DeviceInv, changes = 0, pc = "waiting", connected,
         dump.state \in {"asked", "dumping"}, NEW n \in 0..Len(Rest)
  PROVE  PushEntries(Gathered, WholeEntries(n)) =
           IF n = 0 THEN Gathered ELSE Listed(device, order, Done + n)
<1> DEFINE entries == WholeEntries(n)
<1>1. /\ Done \in 0..Len(order) /\ Len(order) \in Nat /\ Len(Rest) = Len(order) - Done
      /\ \A i \in DOMAIN Rest : Rest[i] = order[Done + i]
  BY RestFacts DEF Control
<1>2. /\ entries \in Seq(Entry) /\ Len(entries) = n
      /\ \A i \in 1..n : i \in DOMAIN Rest /\ entries[i] = EntryOf(i, Len(IpsOf(Rest[i])))
  BY WholeEntriesFacts DEF Control
<1>3. PeerList(device, order) /\ IsFiniteSet(Ips)
  BY OrderIsPeerList, GetAssumption DEF Control
<1>4. dump.begun => Done < Len(order) /\ dump.ip <= Len(IpsIn(device, order[Done + 1]))
  BY DEF OnceInv, DeviceInv
<1>5. dump.ip \in Nat
  BY DEF Control, TypeOK, Cursor
<1>6. Gathered = ListedUpTo(device, order, Done, dump.begun, dump.ip)
  BY DEF DeviceInv, ListedSoFar
<1>7. \A i \in DOMAIN Rest : /\ Len(IpsOf(Rest[i])) \in 0..Len(IpsOf(Rest[i]))
                             /\ IpsOf(Rest[i]) = IpsIn(device, order[Done + i])
  <2>1. \A key : IpsOf(key) = IpsIn(device, key)
    BY DEF IpsOf, IpsIn
  <2>2. \A key : Len(IpsOf(key)) \in 0..Len(IpsOf(key))
    BY IpsOfFacts DEF Lists
  <2> QED BY <1>1, <2>1, <2>2
<1>8. WholeRest(entries, device, order, Done, dump.begun, dump.ip)
  <2>1. Done + Len(entries) <= Len(order)
    BY <1>1, <1>2
  <2>2. ASSUME NEW j \in 1..n
        PROVE  LET all == Len(IpsIn(device, order[Done + j]))
               IN  IF dump.begun /\ j = 1
                   THEN Continuing(entries[j], device, order[Done + j], dump.ip, all)
                   ELSE Fresh(entries[j], device, order[Done + j], all)
    BY <1>2, <1>7, EntryIsOfPeer
  <2> HIDE DEF entries
  <2> QED BY <1>2, <2>1, <2>2 DEF WholeRest
<1> HIDE DEF entries
<1>9. PushEntries(ListedUpTo(device, order, Done, dump.begun, dump.ip), entries) =
        IF Len(entries) = 0 THEN ListedUpTo(device, order, Done, dump.begun, dump.ip)
        ELSE Listed(device, order, Done + Len(entries))
  BY <1>1, <1>3, <1>4, <1>5, <1>8, PushWhole
<1> QED BY <1>2, <1>6, <1>9 DEF entries
\* A message that holds all that is left, or that is full.
LEMMA ListingKeepsDevice ==
  ASSUME Control, OnceInv, DeviceInv, changes = 0, pc = "waiting", connected,
         dump.state \in {"asked", "dumping"}, device' = device, order' = order,
         ips_seq' = ips_seq, NEW entries \in Seq(Entry), Listing(entries)
  PROVE  /\ dump'.begun => /\ dump'.seq = ips_seq
                           /\ dump'.ip <= Len(IpsIn(device, order[Done' + 1]))
         /\ PushEntries(Gathered, entries) = ListedSoFar'
<1>1. /\ Done \in 0..Len(order) /\ Len(order) \in Nat /\ Len(Rest) = Len(order) - Done
      /\ DOMAIN Rest = 1..Len(order) - Done
      /\ \A i \in DOMAIN Rest : Rest[i] = order[Done + i]
  BY RestFacts DEF Control
<1>2. PeerList(device, order) /\ IsFiniteSet(Ips) /\ dump \in Cursor
  BY OrderIsPeerList, GetAssumption DEF Control, TypeOK
<1>3. /\ ~ dump.dead /\ (dump.begun => Done < Len(order))
      /\ Gathered = ListedUpTo(device, order, Done, dump.begun, dump.ip)
      /\ dump.begun => /\ dump.seq = ips_seq
                       /\ dump.ip <= Len(IpsIn(device, order[Done + 1]))
  BY DEF OnceInv, DeviceInv, ListedSoFar
<1>4. \/ /\ KernelListsRest /\ dump' = [dump EXCEPT !.state = "listed"]
         /\ Done + Len(entries) = Len(order)
      \/ /\ KernelListsSome /\ dump'.state = "dumping"
         /\ Done' + (IF dump'.begun THEN 1 ELSE 0) = Done + Len(entries)
  BY <1>3, ListingPlaces
<1>5. \A n \in 0..Len(Rest) :
        /\ WholeEntries(n) \in Seq(Entry) /\ Len(WholeEntries(n)) = n
        /\ PushEntries(Gathered, WholeEntries(n)) =
             IF n = 0 THEN Gathered ELSE Listed(device, order, Done + n)
  BY WholeEntriesFacts, GatherWhole DEF Control
<1>6. Done' \in Nat
  <2>1. [Next]_vars
    BY DEF Next, KernelStep, Listing
  <2>2. TypeOK' /\ CursorInv'
    BY <2>1, NextKeepsControl DEF Control
  <2>3. (Done \in 0..Len(order))' /\ (Len(order) \in Nat)'
    BY <2>2, RestFacts, PTL
  <2> QED BY <2>3
<1>7. CASE dump' = [dump EXCEPT !.state = "listed"]
  <2>1. /\ dump'.state = "listed" /\ dump'.begun = dump.begun /\ dump'.ip = dump.ip
        /\ dump'.last = dump.last /\ dump'.dead = dump.dead /\ dump'.seq = dump.seq
    BY <1>2, <1>7 DEF Cursor
  <2>2. Done' = Done
    BY <2>1 DEF Done
  <2>3. ListedSoFar' = Listed(device, order, Len(order))
    BY <2>1 DEF ListedSoFar
  <2>4. entries = WholeEntries(Len(Rest))
    <3>1. CASE KernelListsSome
      BY <1>2, <2>1, <3>1 DEF KernelListsSome, Cursor
    <3> QED BY <3>1 DEF Listing
  <2>5. Len(Rest) \in 0..Len(Rest)
    BY <1>1
  <2>6. CASE Len(Rest) = 0
    <3>1. Done = Len(order) /\ ~ dump.begun
      BY <1>1, <1>3, <2>6
    <3>2. Gathered = Listed(device, order, Len(order))
      BY <1>3, <3>1 DEF ListedUpTo
    <3>3. PushEntries(Gathered, entries) = Gathered
      BY <1>5, <2>4, <2>5, <2>6
    <3> QED BY <1>3, <2>1, <2>2, <2>3, <3>2, <3>3
  <2>7. CASE Len(Rest) # 0
    <3>1. PushEntries(Gathered, entries) = Listed(device, order, Done + Len(Rest))
      BY <1>5, <2>4, <2>5, <2>7
    <3>2. Done + Len(Rest) = Len(order)
      BY <1>1
    <3> QED BY <1>3, <2>1, <2>2, <2>3, <3>1, <3>2
  <2> QED BY <2>6, <2>7
<1>8. CASE /\ KernelListsSome /\ dump'.state = "dumping"
           /\ Done' + (IF dump'.begun THEN 1 ELSE 0) = Done + Len(entries)
  <2>1. PICK n \in 0..Len(Rest) - 1 : ListsSome(n, entries)
    <3>1. CASE KernelListsRest
      BY <1>2, <1>8, <3>1 DEF KernelListsRest, Cursor
    <3> QED BY <1>8, <3>1 DEF Listing
  <2>2. /\ n \in Nat /\ n \in 0..Len(Rest) /\ n + 1 \in DOMAIN Rest
        /\ Done + n \in 0..Len(order) - 1 /\ Rest[n + 1] = order[Done + (n + 1)]
        /\ Done + (n + 1) = (Done + n) + 1
    BY <1>1
  <2>3. LastOf(n) \in Keys \cup {Nobody}
    <3>1. n # 0 => n \in DOMAIN Rest /\ Rest[n] \in Keys
      BY <1>1, <2>2, RestPeers DEF Control
    <3> QED BY <1>2, <3>1 DEF LastOf, Cursor
  <2>4. ListedSoFar' = ListedUpTo(device, order, Done', dump'.begun, dump'.ip)
    BY <1>8 DEF ListedSoFar
  <2>5. CASE n > 0 /\ entries = WholeEntries(n) /\ dump' = CursorAt(n)
    <3>1. ~ dump'.begun
      <4>1. 0 \in Nat
        OBVIOUS
      <4> QED BY <2>3, <2>5, <4>1, CursorFacts DEF Control
    <3>2. Done' = Done + n
      <4>1. Done' + 0 = Done + n
        BY <1>5, <1>8, <2>2, <2>5, <3>1
      <4> QED BY <1>6, <4>1
    <3>3. PushEntries(Gathered, entries) = Listed(device, order, Done + n)
      BY <1>5, <2>2, <2>5
    <3> QED BY <2>4, <3>1, <3>2, <3>3 DEF ListedUpTo
  <2>6. CASE \E to \in From(n + 1)..Len(IpsOf(Rest[n + 1])) - 1 :
               /\ entries = Append(WholeEntries(n), EntryOf(n + 1, to))
               /\ dump' = CursorIn(n, to)
    <3>1. PICK to \in From(n + 1)..Len(IpsOf(Rest[n + 1])) - 1 :
               /\ entries = Append(WholeEntries(n), EntryOf(n + 1, to))
               /\ dump' = CursorIn(n, to)
      BY <2>6
    <3> DEFINE at == Done + n
               entry == EntryOf(n + 1, to)
    <3>2. /\ to \in Nat /\ to \in 0..Len(IpsOf(Rest[n + 1])) /\ From(n + 1) <= to
          /\ to \in 0..Len(IpsIn(device, order[at + 1]))
      <4>1. From(n + 1) \in Nat /\ Len(IpsOf(Rest[n + 1])) \in Nat
        BY <1>2, IpsOfFacts DEF From, Cursor, Lists
      <4>2. IpsOf(Rest[n + 1]) = IpsIn(device, order[at + 1])
        BY <2>2 DEF IpsOf, IpsIn
      <4> QED BY <4>1, <4>2
    <3>3. dump'.begun /\ dump'.ip = to /\ dump'.seq = ips_seq
      BY <2>3, <3>1, <3>2, CursorFacts DEF Control
    <3>4. entry \in Entry
      BY <2>2, <3>2, EntryFacts DEF Control
    <3>5. Len(entries) = n + 1
      BY <1>5, <2>2, <3>1, <3>4, AppendProperties
    <3>6. Done' = at
      <4>1. Done' + 1 = Done + (n + 1)
        BY <1>8, <3>3, <3>5
      <4>2. Done' \in Int /\ Done \in Int /\ n \in Int
        BY <1>1, <1>6, <2>2
      <4> DEFINE then == Done'
                 now == Done
      <4>3. then + 1 = now + (n + 1) /\ then \in Int /\ now \in Int /\ n \in Int
        BY <4>1, <4>2
      <4> HIDE DEF then, now
      <4>4. then = now + n
        BY <4>3
      <4> QED BY <4>4 DEF then, now
    <3>7. PushEntries(Gathered, entries) = PushEntry(PushEntries(Gathered, WholeEntries(n)), entry)
      BY <1>5, <2>2, <3>1, <3>4, PushEntriesAppend
    <3>8. IF dump.begun /\ n + 1 = 1
          THEN Continuing(entry, device, order[at + 1], dump.ip, to)
          ELSE Fresh(entry, device, order[at + 1], to)
      BY <2>2, <3>2, EntryIsOfPeer
    <3>9. PushEntries(Gathered, entries) = ListedInto(device, order, at, to)
      <4>1. CASE dump.begun /\ n = 0
        <5>1. at = Done /\ From(n + 1) = dump.ip /\ dump.ip \in 0..to
          BY <1>1, <1>2, <3>2, <4>1 DEF From, Continues, Cursor
        <5>2. PushEntries(Gathered, WholeEntries(n)) = ListedInto(device, order, at, dump.ip)
          BY <1>3, <1>5, <2>2, <4>1, <5>1 DEF ListedUpTo
        <5>3. Continuing(entry, device, order[at + 1], dump.ip, to)
          BY <3>8, <4>1
        <5>4. at \in 0..Len(order) - 1 /\ to \in 0..Len(IpsIn(device, order[at + 1]))
          BY <2>2, <3>2
        <5> HIDE DEF at, entry
        <5>5. PushEntry(ListedInto(device, order, at, dump.ip), entry) =
                ListedInto(device, order, at, to)
          BY <1>2, <5>1, <5>3, <5>4, PushMore
        <5> QED BY <3>7, <5>2, <5>5
      <4>2. CASE ~ (dump.begun /\ n = 0)
        <5>1. PushEntries(Gathered, WholeEntries(n)) = Listed(device, order, at)
          <6>1. CASE n = 0
            <7>1. ~ dump.begun /\ at = Done
              BY <1>1, <4>2, <6>1
            <7>2. PushEntries(Gathered, WholeEntries(n)) = Gathered
              BY <1>5, <2>2, <6>1
            <7> QED BY <1>3, <7>1, <7>2 DEF ListedUpTo
          <6>2. CASE n # 0
            BY <1>5, <2>2, <6>2
          <6> QED BY <6>1, <6>2
        <5>2. Fresh(entry, device, order[at + 1], to)
          BY <2>2, <3>8, <4>2
        <5> HIDE DEF entry
        <5> QED BY <1>2, <2>2, <3>2, <3>7, <5>1, <5>2, PushFresh
      <4> QED BY <4>1, <4>2
    <3> HIDE DEF at
    <3>10. ListedSoFar' = ListedInto(device, order, at, to)
      BY <2>4, <3>3, <3>6 DEF ListedUpTo
    <3> QED BY <3>2, <3>3, <3>6, <3>9, <3>10
  <2> QED BY <2>1, <2>5, <2>6 DEF ListsSome
<1> QED BY <1>4, <1>7, <1>8
\* When the stream has ended and the task runs, everything has been collected.
LEMMA EndIsComplete ==
  ASSUME Control, GetReturns, connected
  PROVE  dump.state = "done" /\ replies = << >> /\ Gathered = Kept
<1>1. pc = "waiting" /\ stream = << >> /\ ~ open
  BY DEF GetReturns
<1>2. replies = << >> /\ dump.state \in Final
  BY <1>1 DEF Control, WaitingInv
<1>3. dump.state # "failed"
  BY <1>1, <1>2 DEF Control, FailureInv
<1>4. Gathered = Kept
  BY <1>2, PushRepliesEmpty DEF Gathered
<1> QED BY <1>2, <1>3, <1>4 DEF Final

LEMMA NextKeepsDevice ==
  ASSUME Control, OnceInv, DeviceInv, [Next]_vars
  PROVE  DeviceInv'
<1> SUFFICES ASSUME changes' = 0
             PROVE  DeviceInv'
  BY DEF DeviceInv
<1>1. /\ changes = 0 /\ device' = device /\ order' = order /\ ips_seq' = ips_seq
      /\ removed' = removed /\ (connected' => connected)
  BY QuietDevice
<1>2. Control' /\ Flow
  BY NextKeepsControl, NextFlow
<1>3. /\ ~ removed /\ device \in Devices /\ ~ dump.dead
      /\ pc = "waiting" /\ dump.begun =>
           dump.seq = ips_seq /\ dump.ip <= Len(IpsIn(device, order[Done + 1]))
  BY <1>1 DEF DeviceInv, OnceInv
<1>4. ASSUME result' = "ok", connected'
      PROVE  Collected' = Listed(device, order, Len(order))
  <2>1. CASE result = "ok" /\ Collected' = Collected
    BY <1>1, <1>4, <2>1 DEF DeviceInv
  <2>2. CASE pc = "waiting" /\ Collected' = Kept /\ GetReturns
    <3>1. dump.state = "done" /\ Gathered = Kept
      BY <1>1, <1>4, <2>2, EndIsComplete
    <3> QED BY <1>1, <1>4, <2>2, <3>1 DEF DeviceInv, ListedSoFar
  <2> QED BY <1>2, <1>4, <2>1, <2>2 DEF Flow
<1>5. CASE ~ (KernelListsRest \/ KernelListsSome)
  <2>1. /\ dump'.last = dump.last /\ dump'.dead = dump.dead /\ dump'.begun = dump.begun
        /\ dump'.ip = dump.ip /\ dump'.seq = dump.seq
        /\ \/ dump'.state = dump.state
           \/ dump'.state = "asked" /\ pc = "sending"
           \/ dump'.state = "failed"
           \/ dump'.state = "done" /\ dump.state = "listed"
    BY <1>1, <1>3, <1>5, QuietCursor
  <2>2. Done' = Done
    BY <1>1, <1>2, <1>3, <1>5, DoneStays DEF Control
  <2>3. ASSUME pc' = "waiting", connected', dump'.state # "failed"
        PROVE  Gathered' = ListedSoFar'
    <3>1. CASE pc = "sending" /\ Gathered' = << >>
      <4>1. dump.state = "none" /\ dump.last = Nobody /\ ~ dump.begun
        BY <3>1 DEF Control, WaitingInv
      <4>2. dump'.state # "none"
        BY <1>2, <2>3 DEF Control, WaitingInv
      <4>3. dump'.state = "asked" /\ ~ dump'.begun
        BY <2>1, <2>3, <4>1, <4>2
      <4>4. Done' = 0
        BY <2>2, <4>1 DEF Done
      <4>5. ListedSoFar' = Listed(device, order, 0)
        BY <1>1, <4>3, <4>4 DEF ListedSoFar, ListedUpTo
      <4>6. Listed(device, order, 0) = << >>
        <5>1. PeerList(device, order) /\ IsFiniteSet(Ips) /\ 0 \in 0..Len(order)
          BY OrderIsPeerList, GetAssumption DEF Control
        <5>2. Listed(device, order, 0) \in Seq(ParsedPeers) /\ Len(Listed(device, order, 0)) = 0
          BY <5>1, ListedFacts
        <5> HIDE DEF Listed
        <5> QED BY <5>2, EmptySeq
      <4> QED BY <3>1, <4>5, <4>6
    <3>2. CASE pc = "waiting" /\ Gathered' = Gathered
      <4>1. dump'.state = dump.state \/ (dump'.state = "done" /\ dump.state = "listed")
        BY <2>1, <2>3, <3>2
      <4>2. dump.state # "failed"
        BY <2>3, <4>1
      <4>3. Gathered = ListedSoFar
        BY <1>1, <2>3, <3>2, <4>2 DEF DeviceInv
      <4>4. ListedSoFar' = ListedSoFar
        <5>1. CASE dump'.state = dump.state
          BY <1>1, <2>1, <2>2, <5>1 DEF ListedSoFar
        <5>2. CASE dump'.state = "done" /\ dump.state = "listed"
          BY <1>1, <5>2 DEF ListedSoFar
        <5> QED BY <4>1, <5>1, <5>2
      <4> QED BY <3>2, <4>3, <4>4
    <3> QED BY <1>2, <1>5, <2>3, <3>1, <3>2 DEF Flow, Listing
  <2>4. pc' = "waiting" /\ dump'.begun =>
          dump'.seq = ips_seq' /\ dump'.ip <= Len(IpsIn(device', order'[Done' + 1]))
    <3>1. pc' = "waiting" => pc = "waiting" \/ pc = "sending"
      BY <1>2 DEF Flow
    <3>2. pc = "sending" => ~ dump.begun
      BY DEF Control, WaitingInv
    <3> QED BY <1>1, <1>3, <2>1, <2>2, <3>1, <3>2
  <2> QED BY <1>1, <1>3, <1>4, <2>3, <2>4 DEF DeviceInv
<1>6. CASE KernelListsRest \/ KernelListsSome
  <2>1. /\ pc' = pc /\ connected /\ dump.state \in {"asked", "dumping"}
    BY <1>6 DEF KernelListsRest, KernelListsSome, client, Dumping
  <2>2. CASE pc # "waiting"
    BY <1>1, <1>3, <1>4, <2>1, <2>2 DEF DeviceInv
  <2>3. CASE pc = "waiting"
    <3>1. PICK entries \in Seq(Entry) :
            Listing(entries) /\ Gathered' = PushEntries(Gathered, entries)
      BY <1>6, ListingGathers
    <3>2. /\ dump'.begun => /\ dump'.seq = ips_seq
                            /\ dump'.ip <= Len(IpsIn(device, order[Done' + 1]))
          /\ PushEntries(Gathered, entries) = ListedSoFar'
      BY <1>1, <2>1, <2>3, <3>1, ListingKeepsDevice
    <3> QED BY <1>1, <1>3, <1>4, <3>1, <3>2 DEF DeviceInv
  <2> QED BY <2>2, <2>3
<1> QED BY <1>5, <1>6
THEOREM DeviceHolds == Spec => []DeviceInv
<1>1. Init => DeviceInv
  BY DEF Init, DeviceInv
<1>2. Control /\ OnceInv /\ DeviceInv /\ [Next]_vars => DeviceInv'
  BY NextKeepsDevice
<1> QED BY <1>1, <1>2, ControlHolds, OnceHolds, PTL DEF Spec

-----------------------------------------------------------------------------
(* The first message names the interface.                                  *)

Naming(reply) == reply.kind = "message" /\ reply.msg.device

Names(seq) == \E i \in DOMAIN seq : Naming(seq[i])

Named == (\E i \in DOMAIN msgs : msgs[i].device) \/ Names(stream) \/ Names(replies)

NamedInv ==
  /\ dump.state \in {"none", "asked"} => dump.last = Nobody
  /\ pc = "waiting" /\ connected /\ dump.state \in {"dumping", "listed", "done"} => Named
  /\ result = "ok" /\ connected => \E i \in DOMAIN msgs : msgs[i].device

LEMMA NamesNone == ~ Names(<< >>)
<1> DEFINE none == << >>
<1>1. DOMAIN none = {}
  OBVIOUS
<1> HIDE DEF none
<1>2. ~ Names(none)
  BY <1>1 DEF Names
<1> QED BY <1>2 DEF none

LEMMA NamesAppend ==
  ASSUME NEW seq \in Seq(Reply), NEW reply \in Reply
  PROVE  Names(Append(seq, reply)) <=> Names(seq) \/ Naming(reply)
<1> DEFINE longer == Append(seq, reply)
<1>1. /\ DOMAIN seq = 1..Len(seq) /\ DOMAIN longer = 1..Len(seq) + 1 /\ Len(seq) \in Nat
      /\ \A i \in 1..Len(seq) : longer[i] = seq[i]
      /\ longer[Len(seq) + 1] = reply
  BY LenProperties, AppendProperties
<1> HIDE DEF longer
<1>2. /\ \A i \in 1..Len(seq) + 1 : i \in 1..Len(seq) \/ i = Len(seq) + 1
      /\ Len(seq) + 1 \in 1..Len(seq) + 1 /\ 1..Len(seq) \subseteq 1..Len(seq) + 1
  BY <1>1
<1>3. Names(longer) <=> Names(seq) \/ Naming(reply)
  BY <1>1, <1>2 DEF Names
<1> QED BY <1>3 DEF longer

LEMMA NamesHead ==
  ASSUME NEW seq \in Seq(Reply), seq # << >>
  PROVE  Names(seq) <=> Naming(Head(seq)) \/ Names(Tail(seq))
<1> DEFINE rest == Tail(seq)
<1>1. /\ DOMAIN seq = 1..Len(seq) /\ Len(seq) \in Nat \ {0} /\ rest \in Seq(Reply)
      /\ DOMAIN rest = 1..Len(seq) - 1 /\ Head(seq) = seq[1]
      /\ \A i \in 1..Len(seq) - 1 : rest[i] = seq[i + 1]
  BY LenProperties, HeadTailProperties, EmptySeq
<1> HIDE DEF rest
<1>2. ASSUME NEW i \in 1..Len(seq), Naming(seq[i]) PROVE Naming(Head(seq)) \/ Names(rest)
  <2>1. CASE i = 1
    BY <1>1, <1>2, <2>1
  <2>2. CASE i # 1
    <3>1. i - 1 \in 1..Len(seq) - 1 /\ (i - 1) + 1 = i
      BY <1>1, <2>2
    <3>2. rest[i - 1] = seq[i]
      BY <1>1, <3>1
    <3> QED BY <1>1, <1>2, <3>1, <3>2 DEF Names
  <2> QED BY <2>1, <2>2
<1>3. ASSUME Naming(Head(seq)) PROVE Names(seq)
  <2>1. 1 \in 1..Len(seq)
    BY <1>1
  <2> QED BY <1>1, <1>3, <2>1 DEF Names
<1>4. ASSUME NEW i \in 1..Len(seq) - 1, Naming(rest[i]) PROVE Names(seq)
  <2>1. i + 1 \in 1..Len(seq)
    BY <1>1
  <2> QED BY <1>1, <1>4, <2>1 DEF Names
<1>5. Names(seq) <=> Naming(Head(seq)) \/ Names(rest)
  BY <1>1, <1>2, <1>3, <1>4 DEF Names
<1> QED BY <1>5 DEF rest

LEMMA MessagesAppend ==
  ASSUME NEW seq \in Seq(DumpMessage), NEW msg \in DumpMessage
  PROVE  (\E i \in DOMAIN Append(seq, msg) : Append(seq, msg)[i].device)
           <=> (\E i \in DOMAIN seq : seq[i].device) \/ msg.device
<1> DEFINE longer == Append(seq, msg)
<1>1. /\ DOMAIN seq = 1..Len(seq) /\ DOMAIN longer = 1..Len(seq) + 1 /\ Len(seq) \in Nat
      /\ \A i \in 1..Len(seq) : longer[i] = seq[i]
      /\ longer[Len(seq) + 1] = msg
  BY LenProperties, AppendProperties
<1> HIDE DEF longer
<1>2. /\ \A i \in 1..Len(seq) + 1 : i \in 1..Len(seq) \/ i = Len(seq) + 1
      /\ Len(seq) + 1 \in 1..Len(seq) + 1 /\ 1..Len(seq) \subseteq 1..Len(seq) + 1
  BY <1>1
<1>3. (\E i \in DOMAIN longer : longer[i].device)
        <=> (\E i \in DOMAIN seq : seq[i].device) \/ msg.device
  BY <1>1, <1>2
<1> QED BY <1>3 DEF longer
\* The name moves along with its message.
LEMMA CollectKeepsName ==
  ASSUME Control, Collect
  PROVE  Named' <=> Named
<1>1. /\ Head(stream) \in Reply /\ Head(stream).kind = "message"
      /\ Head(stream).msg \in DumpMessage /\ stream # << >>
  BY ReadingFacts, ReplyFacts DEF Collect, Control
<1>2. msgs \in Seq(DumpMessage) /\ stream \in Seq(Reply)
  BY DEF Control, TypeOK
<1>3. /\ msgs' = Append(msgs, Head(stream).msg) /\ stream' = Tail(stream)
      /\ replies' = replies
  BY DEF Collect
<1>4. Names(stream) <=> Head(stream).msg.device \/ Names(Tail(stream))
  BY <1>1, <1>2, NamesHead DEF Naming
<1>5. (\E i \in DOMAIN Append(msgs, Head(stream).msg) :
         Append(msgs, Head(stream).msg)[i].device)
        <=> (\E i \in DOMAIN msgs : msgs[i].device) \/ Head(stream).msg.device
  BY <1>1, <1>2, MessagesAppend
<1>6. Names(stream)' <=> Names(Tail(stream))
  BY <1>3 DEF Names, Naming
<1>7. Names(replies)' <=> Names(replies)
  BY <1>3 DEF Names, Naming
<1>8. (\E i \in DOMAIN msgs' : msgs'[i].device)
        <=> (\E i \in DOMAIN msgs : msgs[i].device) \/ Head(stream).msg.device
  BY <1>3, <1>5
<1> QED BY <1>4, <1>6, <1>7, <1>8 DEF Named

LEMMA SkipKeepsName ==
  ASSUME Control, Skip
  PROVE  Named' <=> Named
<1>1. /\ Head(stream) \in Reply /\ Head(stream).kind = "done" /\ stream # << >>
      /\ stream \in Seq(Reply)
  BY ReadingFacts, ReplyFacts DEF Skip, Control, TypeOK
<1>2. msgs' = msgs /\ stream' = Tail(stream) /\ replies' = replies
  BY DEF Skip, client
<1>3. Names(stream) <=> Names(Tail(stream))
  BY <1>1, NamesHead DEF Naming
<1>4. Names(stream)' <=> Names(Tail(stream))
  BY <1>2 DEF Names, Naming
<1>5. Names(replies)' <=> Names(replies)
  BY <1>2 DEF Names, Naming
<1> QED BY <1>2, <1>3, <1>4, <1>5 DEF Named

LEMMA ForwardKeepsName ==
  ASSUME Control, ConnForwards, open
  PROVE  Named' <=> Named
<1>1. Head(replies) \in Reply /\ replies # << >> /\ replies' = << >> /\ stream \in Seq(Reply)
      /\ replies \in Seq(Reply) /\ Tail(replies) = << >>
  BY QueueFacts DEF ConnForwards, Control, TypeOK
<1>2. msgs' = msgs /\ stream' = Append(stream, Head(replies))
  BY DEF ConnForwards, client
<1>3. Names(replies) <=> Naming(Head(replies))
  BY <1>1, NamesHead, NamesNone
<1>4. Names(Append(stream, Head(replies))) <=> Names(stream) \/ Naming(Head(replies))
  BY <1>1, NamesAppend
<1>5. Names(stream)' <=> Names(Append(stream, Head(replies)))
  BY <1>2 DEF Names, Naming
<1>6. ~ Names(replies)'
  <2>1. Names(replies)' <=> Names(<< >>)
    BY <1>1 DEF Names, Naming
  <2> QED BY <2>1, NamesNone
<1> QED BY <1>2, <1>3, <1>4, <1>5, <1>6 DEF Named

LEMMA NextKeepsNamed ==
  ASSUME Control, NamedInv, [Next]_vars
  PROVE  NamedInv'
<1>1. Control' /\ (connected' => connected) /\ dump \in Cursor
  BY NextKeepsControl, QuietDevice DEF Control, TypeOK
<1>2. CASE Ask
  <2>1. /\ dump.last = Nobody /\ dump'.state = "asked" /\ dump'.last = dump.last
        /\ result' = result /\ pc # "returned"
    BY <1>1, <1>2 DEF Ask, Control, WaitingInv, Cursor
  <2>2. result # "ok"
    BY <2>1 DEF Control, TypeOK
  <2> QED BY <2>1, <2>2 DEF NamedInv
<1>3. CASE \/ \E iface_name \in IfaceNames : Get(iface_name)
           \/ AskFails \/ ReplyIsError
  <2>1. pc' # "waiting" /\ result' # "ok" /\ dump' = dump
    <3>1. ASSUME NEW iface_name \in IfaceNames, Get(iface_name)
          PROVE  pc' # "waiting" /\ result' # "ok" /\ dump' = dump
      BY <3>1, GetAssumption DEF Get, Return, MessageError, IfaceError, Request, Control, TypeOK
    <3>2. CASE ReplyIsError
      BY <3>2, ReplyIsErrorKeepsControl DEF ReplyIsError, Return
    <3>3. CASE AskFails
      BY <3>3 DEF AskFails, Return
    <3> QED BY <1>3, <3>1, <3>2, <3>3
  <2> QED BY <2>1 DEF NamedInv
<1>4. CASE Collect \/ Skip
  <2>1. /\ pc' = pc /\ connected' = connected /\ dump' = dump /\ result' # "ok"
        /\ (Named' <=> Named)
    BY <1>4, CollectKeepsName, SkipKeepsName
       DEF Collect, Skip, Reading, client, Control, TypeOK
  <2> QED BY <2>1 DEF NamedInv
<1>5. CASE GetReturns
  <2>1. msgs' = msgs /\ pc' # "waiting" /\ dump' = dump /\ stream = << >> /\ pc = "waiting"
    BY <1>5 DEF GetReturns, Return
  <2>2. ASSUME connected' PROVE \E i \in DOMAIN msgs : msgs[i].device
    <3>1. dump.state = "done" /\ replies = << >> /\ connected
      BY <1>1, <1>5, <2>2, EndIsComplete
    <3>2. Named
      BY <2>1, <3>1 DEF NamedInv
    <3>3. ~ Names(stream) /\ ~ Names(replies)
      BY <2>1, <3>1, NamesNone
    <3> QED BY <3>2, <3>3 DEF Named
  <2> QED BY <2>1, <2>2 DEF NamedInv
<1>6. CASE KernelListsRest \/ KernelListsSome
  <2>1. PICK entries \in Seq(Entry) : Send(entries)
    <3>1. CASE KernelListsRest
      BY <3>1, RestFacts, WholeEntriesFacts DEF KernelListsRest, Control
    <3>2. CASE KernelListsSome
      BY <3>2, ListsSomeFacts DEF Control
    <3> QED BY <1>6, <3>1, <3>2
  <2>2. /\ replies = << >> /\ dump.state \in {"asked", "dumping"}
        /\ pc' = pc /\ msgs' = msgs /\ result' = result /\ stream' = stream /\ connected
        /\ dump'.state \notin {"none", "asked"}
    BY <1>1, <1>6 DEF KernelListsRest, KernelListsSome, Dumping, client, Cursor
  <2>3. PICK reply \in Reply : /\ replies' = << reply >> /\ reply.kind = "message"
                               /\ reply.msg.device <=> dump.last = Nobody
    BY <2>1, <2>2, SendFacts
  <2>4. ASSUME pc = "waiting" PROVE Named'
    <3>1. CASE dump.state = "asked"
      <4>1. Naming(reply)
        BY <2>3, <3>1 DEF NamedInv, Naming
      <4>2. Names(replies)'
        <5>1. Names(Append(<< >>, reply)) <=> Names(<< >>) \/ Naming(reply)
          <6>1. << >> \in Seq(Reply)
            OBVIOUS
          <6> QED BY <6>1, NamesAppend
        <5>2. Append(<< >>, reply) = << reply >>
          OBVIOUS
        <5>3. Names(replies)' <=> Names(<< reply >>)
          BY <2>3 DEF Names, Naming
        <5> QED BY <4>1, <5>1, <5>2, <5>3
      <4> QED BY <4>2 DEF Named
    <3>2. CASE dump.state = "dumping"
      <4>1. Named /\ ~ Names(replies)
        BY <2>2, <2>4, <3>2, NamesNone DEF NamedInv
      <4>2. (\E i \in DOMAIN msgs : msgs[i].device) \/ Names(stream)
        BY <4>1 DEF Named
      <4>3. (\E i \in DOMAIN msgs' : msgs'[i].device) \/ Names(stream)'
        BY <2>2, <4>2 DEF Names, Naming
      <4> QED BY <4>3 DEF Named
    <3> QED BY <2>2, <3>1, <3>2
  <2> QED BY <1>1, <2>2, <2>4 DEF NamedInv
<1>7. CASE KernelEndsDump \/ KernelFails
  <2>1. /\ replies = << >> /\ pc' = pc /\ msgs' = msgs /\ result' = result /\ stream' = stream
        /\ connected
        /\ dump'.state = "failed" \/ (dump'.state = "done" /\ dump.state = "listed")
    BY <1>1, <1>7 DEF KernelEndsDump, KernelFails, Dumping, client, Cursor
  <2>2. ASSUME pc = "waiting", dump.state = "listed" PROVE Named'
    <3>1. (\E i \in DOMAIN msgs : msgs[i].device) \/ Names(stream)
      BY <2>1, <2>2, NamesNone DEF NamedInv, Named
    <3>2. (\E i \in DOMAIN msgs' : msgs'[i].device) \/ Names(stream)'
      BY <2>1, <3>1 DEF Names, Naming
    <3> QED BY <3>2 DEF Named
  <2> QED BY <1>1, <2>1, <2>2 DEF NamedInv
<1>8. CASE ConnForwards
  <2>1. /\ pc' = pc /\ msgs' = msgs /\ result' = result /\ dump' = dump
        /\ connected /\ replies # << >>
    BY <1>8 DEF ConnForwards, client
  <2>2. ASSUME pc = "waiting" PROVE Named' <=> Named
    <3>1. open
      BY <2>1, <2>2 DEF Control, WaitingInv
    <3> QED BY <1>8, <3>1, ForwardKeepsName
  <2> QED BY <1>1, <2>1, <2>2 DEF NamedInv
<1>9. CASE ConnStops
  BY <1>9 DEF ConnStops, NamedInv, client
<1>10. CASE OthersStep \/ Returned \/ UNCHANGED vars
  <2>1. /\ pc' = pc /\ msgs' = msgs /\ result' = result /\ connected' = connected
        /\ stream' = stream /\ replies' = replies
        /\ dump'.state = dump.state /\ dump'.last = dump.last
    <3>1. ASSUME NEW key \in Keys, OthersRemovePeer(key)
          PROVE  dump'.state = dump.state /\ dump'.last = dump.last
      BY <1>1, <3>1 DEF OthersRemovePeer, Cursor
    <3>2. CASE OthersStep
      <4>1. UNCHANGED <<client, conn>>
        BY <3>2 DEF OthersStep, OthersSetPeer, OthersMoveIp, OthersRemovePeer, Changed
      <4>2. dump' = dump \/ \E key \in Keys : OthersRemovePeer(key)
        BY <3>2 DEF OthersStep, OthersSetPeer, OthersMoveIp
      <4> QED BY <3>1, <4>1, <4>2 DEF client, conn
    <3> QED BY <1>10, <3>2 DEF Returned, vars, client, conn
  <2>2. Named' <=> Named
    BY <2>1 DEF Named, Names, Naming
  <2> QED BY <2>1, <2>2 DEF NamedInv
<1> QED BY <1>2, <1>3, <1>4, <1>5, <1>6, <1>7, <1>8, <1>9, <1>10
        DEF Next, ClientStep, KernelStep

THEOREM NamedHolds == Spec => []NamedInv
<1>1. Init => NamedInv
  BY DEF Init, NamedInv
<1>2. Control /\ NamedInv /\ [Next]_vars => NamedInv'
  BY NextKeepsNamed
<1> QED BY <1>1, <1>2, ControlHolds, PTL DEF Spec
-----------------------------------------------------------------------------
(* What an Ok says of a device that nobody changed.                        *)

LEMMA ResultFacts ==
  ASSUME Control, DeviceInv, NamedInv, result = "ok", connected, changes = 0
  PROVE  /\ Parsed.peers \in Seq(FullPeers(device)) /\ Len(Parsed.peers) = Len(order)
         /\ \A p \in PeersOf(Parsed) : \E key :
              PeerOf(device, key) /\ p = FullPeer(device, key) /\ p.public_key = key
         /\ \A key \in Keys : device.peers[key] # Absent =>
              \E i \in DOMAIN Parsed.peers : Parsed.peers[i].public_key = key
         /\ Parsed.iface_name = "valid" /\ Parsed.keys_valid = TRUE
         /\ Parsed.replace_peers = FALSE
         /\ device \in Device /\ ConsistentDevice(device)
<1>1. Parsed.peers = Listed(device, order, Len(order))
  BY DEF DeviceInv, Parsed, ParsedMessages, Collected, PushMessages
<1>2. PeerList(device, order) /\ IsFiniteSet(Ips) /\ Len(order) \in 0..Len(order)
      /\ DOMAIN order = 1..Len(order)
  BY OrderIsPeerList, GetAssumption DEF Control
<1> DEFINE peers == Listed(device, order, Len(order))
<1>3. /\ peers \in Seq(FullPeers(device)) /\ Len(peers) = Len(order)
      /\ DOMAIN peers = 1..Len(order)
      /\ \A i \in 1..Len(order) : peers[i] = FullPeer(device, order[i])
                                  /\ peers[i].public_key = order[i]
  BY <1>2, ListedFacts, ListedIsFull
<1> HIDE DEF peers
<1>4. ASSUME NEW p \in PeersOf(Parsed)
      PROVE  \E key : PeerOf(device, key) /\ p = FullPeer(device, key) /\ p.public_key = key
  <2>1. PICK i \in DOMAIN peers : p = peers[i]
    BY <1>1 DEF PeersOf, peers
  <2>2. PeerOf(device, order[i])
    BY <1>2, <1>3, <2>1 DEF PeerList
  <2> QED BY <1>3, <2>1, <2>2
<1>5. ASSUME NEW key \in Keys, device.peers[key] # Absent
      PROVE  \E i \in DOMAIN peers : peers[i].public_key = key
  <2>1. key \in PeersOfDevice(device)
    BY <1>5 DEF PeersOfDevice
  <2>2. \E i \in DOMAIN order : order[i] = key
    BY <2>1, OrderLists DEF Lists, Control
  <2> QED BY <1>2, <1>3, <2>2
<1>6. /\ Parsed.iface_name = "valid" /\ Parsed.keys_valid = TRUE
      /\ Parsed.replace_peers = FALSE
  <2>1. \E i \in DOMAIN msgs : msgs[i].device
    BY DEF NamedInv
  <2> QED BY <2>1 DEF Parsed, ParsedMessages
<1>7. device \in Device /\ ConsistentDevice(device)
  BY GetAssumption DEF DeviceInv
<1> QED BY <1>1, <1>3, <1>4, <1>5, <1>6, <1>7 DEF peers

\* A device that nobody changes meanwhile is returned as it is, for any number
\* of peers and allowed IPs and wherever the kernel cuts the dump: each peer
\* once, with its attributes and each of its allowed IPs once.
THEOREM ResultsAreTheDevice == Spec => []ResultIsDevice
<1>1. Control /\ DeviceInv /\ NamedInv => ResultIsDevice
  <2>1. SUFFICES ASSUME Control, DeviceInv, NamedInv, result = "ok", connected, changes = 0
                 PROVE  /\ DescribedDevice(Parsed) = device
                        /\ Len(Parsed.peers) = Cardinality(PeersOfDevice(device))
                        /\ \A p \in PeersOf(Parsed) :
                             Len(p.allowed_ips) =
                               Cardinality({ip \in Ips : device.owner[ip] = p.public_key})
                        /\ Parsed.iface_name = "valid"
    BY DEF ResultIsDevice
  <2>2. /\ Parsed.peers \in Seq(FullPeers(device)) /\ Len(Parsed.peers) = Len(order)
        /\ \A p \in PeersOf(Parsed) : \E key :
             PeerOf(device, key) /\ p = FullPeer(device, key) /\ p.public_key = key
        /\ \A key \in Keys : device.peers[key] # Absent =>
             \E i \in DOMAIN Parsed.peers : Parsed.peers[i].public_key = key
        /\ Parsed.iface_name = "valid"
        /\ device \in Device /\ ConsistentDevice(device)
    BY <2>1, ResultFacts
  <2>3. DescribedDevice(Parsed) = device
    BY <2>2, ApplyToNoPeers DEF DescribedDevice
  <2>4. Len(order) = Cardinality(PeersOfDevice(device))
    BY <2>1, OrderLists, PeersFinite, ListsIsBijection DEF Control
  <2>5. ASSUME NEW p \in PeersOf(Parsed)
        PROVE  Len(p.allowed_ips) = Cardinality({ip \in Ips : device.owner[ip] = p.public_key})
    <3>1. PICK key : PeerOf(device, key) /\ p = FullPeer(device, key) /\ p.public_key = key
      BY <2>2
    <3> QED BY <2>2, <3>1, GetAssumption, FullPeerIsFull
  <2> QED BY <2>2, <2>3, <2>4, <2>5
<1> QED BY <1>1, ControlHolds, DeviceHolds, NamedHolds, PTL

\* Such a result can be handed to set() again: it is not refused, it changes
\* nothing, and with ReplacePeers it makes this device of any other.
THEOREM ResultsCanBeAppliedAgain == Spec => []ResultCanBeAppliedAgain
<1>1. Control /\ DeviceInv /\ NamedInv => ResultCanBeAppliedAgain
  <2>1. SUFFICES ASSUME Control, DeviceInv, NamedInv, result = "ok", connected, changes = 0
                 PROVE  /\ MessageError(Parsed, TRUE) = "none"
                        /\ \A p \in PeersOf(Parsed) : PeerError(p) = "none"
                        /\ ApplyWhole(device, Parsed) = device
                        /\ \A dev \in Devices :
                             ApplyWhole(dev, [Parsed EXCEPT !.replace_peers = TRUE]) = device
    BY DEF ResultCanBeAppliedAgain
  <2>2. /\ Parsed.peers \in Seq(FullPeers(device))
        /\ \A p \in PeersOf(Parsed) : \E key :
             PeerOf(device, key) /\ p = FullPeer(device, key) /\ p.public_key = key
        /\ \A key \in Keys : device.peers[key] # Absent =>
             \E i \in DOMAIN Parsed.peers : Parsed.peers[i].public_key = key
        /\ Parsed.iface_name = "valid" /\ Parsed.keys_valid = TRUE
        /\ Parsed.replace_peers = FALSE
        /\ device \in Device /\ ConsistentDevice(device)
    BY <2>1, ResultFacts
  <2>3. MessageError(Parsed, TRUE) = "none"
    BY <2>2 DEF MessageError, IfaceError
  <2>4. ASSUME NEW p \in PeersOf(Parsed) PROVE PeerError(p) = "none"
    <3>1. PICK key : PeerOf(device, key) /\ p = FullPeer(device, key) /\ p.public_key = key
      BY <2>2
    <3>2. p \in FullPeers(device) /\ \A i \in DOMAIN p.allowed_ips : ValidPrefix(p.allowed_ips[i])
      BY <2>2, <3>1, GetAssumption, FullPeerIsFull
    <3>3. p.public_key \notin {"missing", "invalid"} /\ p.preshared_key # "invalid"
      BY <3>2, SentinelAssumption DEF FullPeers
    <3> QED BY <3>2, <3>3 DEF PeerError
  <2>5. ApplyWhole(device, Parsed) = device
    BY <2>2, ApplyToItself
  <2>6. ASSUME NEW dev \in Devices
        PROVE  ApplyWhole(dev, [Parsed EXCEPT !.replace_peers = TRUE]) = device
    <3> DEFINE cfg == [Parsed EXCEPT !.replace_peers = TRUE]
    <3>1. cfg.peers = Parsed.peers /\ cfg.replace_peers = TRUE
      BY DEF Parsed, ParsedMessages
    <3>2. /\ cfg.peers \in Seq(FullPeers(device))
          /\ \A key \in Keys : device.peers[key] # Absent =>
               \E i \in DOMAIN cfg.peers : cfg.peers[i].public_key = key
      BY <2>2, <3>1
    <3>3. cfg.replace_peers = TRUE \/ dev = NoPeers
      BY <3>1
    <3> HIDE DEF cfg
    <3>4. ApplyWhole(dev, cfg) = device
      BY <2>2, <3>2, <3>3, ApplyToNoPeers
    <3> QED BY <3>4 DEF cfg
  <2> QED BY <2>3, <2>4, <2>5, <2>6
<1> QED BY <1>1, ControlHolds, DeviceHolds, NamedHolds, PTL
=============================================================================
