------------------------------ MODULE GetDevice ------------------------------
(***************************************************************************)
(* WireguardHandle::get_by_name(): one request, answered by a dump of      *)
(* several messages, collected until the stream ends.                      *)
(*                                                                         *)
(* The kernel lists the peers message by message, taking up each time      *)
(* where it stopped, and other clones or programs may change the device in *)
(* between.  The Connection task may stop at any time.                     *)
(***************************************************************************)
EXTENDS ParsedDevice, FiniteSets

CONSTANTS
  Devices,     \* the devices to start with
  IfaceNames,  \* the interface names callers ask for: "valid", "too_long", "has_nul"
  MaxChanges   \* bound: how often others change the device

\* Keys have 32 bytes, addresses 4 or 16: there are finitely many of them.
ASSUME GetAssumption ==
  /\ IsFiniteSet(Keys) /\ IsFiniteSet(Ips)
  /\ Devices \subseteq {dev \in Device : ConsistentDevice(dev)}
  /\ IfaceNames \subseteq {"valid", "too_long", "has_nul"}
  /\ MaxChanges \in Nat

VARIABLES
  pc,         \* "idle", "sending", "waiting" or "returned"
  msgs,       \* the messages collected
  result,     \* "none", "ok" or the kind of the error
  connected,  \* the Connection task runs
  replies,    \* what the kernel has sent and the task has not read
  stream,     \* what the task has passed on and get_by_name() has not read
  open,       \* the task holds its end of the stream
  dump,       \* what the kernel remembers of the dump between two messages
  device,     \* the device in the kernel
  order,      \* its peers in the order the kernel lists them
  ips_seq,    \* changes with every change of the allowed IPs
  changes,    \* how often others have changed the device
  past,       \* history: the devices there were during the call
  removed     \* history: others have removed a peer

client == <<pc, msgs, result>>
conn == <<connected, replies, stream, open>>
kernel == <<device, order, ips_seq, changes, past, removed>>
vars == <<client, conn, dump, kernel>>

PeersOfDevice(dev) == {key \in Keys : dev.peers[key] # Absent}

\* A cursor: the last peer listed in full, whether a peer after it has been
\* begun, and how many of its allowed IPs are listed, as of which ips_seq.
Cursor == [state : {"none", "asked", "dumping", "listed", "done", "failed"},
           last : Keys \cup {Nobody}, begun : BOOLEAN, ip : Nat, seq : Nat,
           dead : BOOLEAN]  \* the last peer is gone

-----------------------------------------------------------------------------

Init ==
  /\ pc = "idle" /\ msgs = << >> /\ result = "none"
  /\ connected = TRUE /\ replies = << >> /\ stream = << >> /\ open = FALSE
  /\ dump = [state |-> "none", last |-> Nobody, begun |-> FALSE, ip |-> 0,
             seq |-> 0, dead |-> FALSE]
  /\ device \in Devices
  /\ order \in SetToSeqs(PeersOfDevice(device))
  /\ ips_seq = 0 /\ changes = 0 /\ past = {device} /\ removed = FALSE

\* A configuration that names the interface and nothing else, and its build().
Request(iface_name) ==
  [iface_name |-> iface_name, iface_index |-> FALSE, keys_valid |-> TRUE,
   replace_peers |-> FALSE, peers |-> << >>]

Return(kind) == pc' = "returned" /\ result' = kind

\* build(WireguardCmd::GetDevice)
Get(iface_name) ==
  /\ pc = "idle"
  /\ LET error == MessageError(Request(iface_name), TRUE)
     IN  IF error # "none" THEN Return(error) ELSE pc' = "sending" /\ UNCHANGED result
  /\ UNCHANGED <<msgs, conn, dump, kernel>>

\* self.request(...).await: the task is asked; or it is gone, or there is no
\* wireguard family to ask.
Ask ==
  /\ pc = "sending" /\ connected
  /\ pc' = "waiting" /\ open' = TRUE
  /\ dump' = [dump EXCEPT !.state = "asked"]
  /\ UNCHANGED <<msgs, result, connected, replies, stream, kernel>>

AskFails ==
  /\ pc = "sending"
  /\ Return("NetlinkError")
  /\ UNCHANGED <<msgs, conn, dump, kernel>>

-----------------------------------------------------------------------------
(* The loop over the stream.                                               *)

\* Faulty variant: the end of a dump is not looked into.
ItemIgnoringDone(reply) ==
  CASE reply.kind = "message" -> "message"
    [] reply.kind \in {"done", "done_error"} -> "none"
    [] reply.kind = "error" -> "NetlinkError"
    [] reply.kind = "overrun" -> "Bug"
    [] reply.kind = "undecodable" -> "DecodeError"

\* parse_nl_msg_stream(): a message, the kind of an error, or no item at all.
Item(reply) ==
  CASE reply.kind = "message" -> "message"
    [] reply.kind = "done" -> "none"
    [] reply.kind \in {"error", "done_error"} -> "NetlinkError"
    [] reply.kind = "overrun" -> "Bug"
    [] reply.kind = "undecodable" -> "DecodeError"

Reading == pc = "waiting" /\ stream # << >>

Collect ==
  /\ Reading /\ Item(Head(stream)) = "message"
  /\ msgs' = Append(msgs, Head(stream).msg)
  /\ stream' = Tail(stream)
  /\ UNCHANGED <<pc, result, connected, replies, open, dump, kernel>>

\* Faulty variant: what yields no item stays where it is.
SkipNothing ==
  /\ Reading /\ Item(Head(stream)) = "none"
  /\ UNCHANGED vars

Skip ==
  /\ Reading /\ Item(Head(stream)) = "none"
  /\ stream' = Tail(stream)
  /\ UNCHANGED <<client, connected, replies, open, dump, kernel>>

\* Faulty variant: the error is noted and the loop goes on.
ReplyIsErrorGoesOn ==
  /\ Reading /\ Item(Head(stream)) \notin {"message", "none"}
  /\ result' = Item(Head(stream))
  /\ stream' = Tail(stream)
  /\ UNCHANGED <<pc, msgs, connected, replies, open, dump, kernel>>

\* reply? returns the error; what has been collected and the stream are dropped.
ReplyIsError ==
  /\ Reading /\ Item(Head(stream)) \notin {"message", "none"}
  /\ Return(Item(Head(stream)))
  /\ msgs' = << >> /\ stream' = << >> /\ open' = FALSE
  /\ UNCHANGED <<connected, replies, dump, kernel>>

\* The stream has ended.
GetReturns ==
  /\ pc = "waiting" /\ stream = << >> /\ ~ open
  /\ Return(IF msgs = << >> THEN "Bug" ELSE "ok")
  /\ UNCHANGED <<msgs, conn, dump, kernel>>

\* What an Ok holds.
Parsed == ParsedMessages(msgs)

-----------------------------------------------------------------------------
(* The kernel (external).                                                  *)

IpsOf(key) == SetToSeq({ip \in Ips : device.owner[ip] = key})

\* The peers that are left to list.
Rest ==
  IF dump.last = Nobody THEN order
  ELSE IF dump.dead THEN << >>
  ELSE SubSeq(order, CHOOSE i \in 1..Len(order) + 1 : i > 1 /\ order[i - 1] = dump.last,
              Len(order))

\* The first of the rest goes on where it was cut, unless the allowed IPs have
\* changed: then the rest of them is left out.
Continues(i) == i = 1 /\ dump.begun

Stale(i) == Continues(i) /\ dump.seq # ips_seq

From(i) == IF Continues(i) THEN dump.ip ELSE 0

\* The entry of the i-th of the rest, with its allowed IPs up to number to.
EntryOf(i, to) ==
  LET key == Rest[i]
      ips == IF Stale(i) THEN << >> ELSE SubSeq(IpsOf(key), From(i) + 1, to)
  IN  [public_key |-> key,
       attrs |-> IF Continues(i) THEN NoAttrs ELSE device.peers[key],
       has_allowed_ips |-> ~ Stale(i) /\ IpsOf(key) # << >>,
       allowed_ips |-> ips]

WholeEntries(n) == [i \in 1..n |-> EntryOf(i, Len(IpsOf(Rest[i])))]

Send(entries) ==
  replies' = Append(replies, [kind |-> "message",
                              msg |-> [device |-> dump.last = Nobody, peers |-> entries]])

Dumping == connected /\ dump.state \in {"asked", "dumping"} /\ replies = << >>

\* The message holds all that is left.
KernelListsRest ==
  /\ Dumping
  /\ Send(WholeEntries(Len(Rest)))
  /\ dump' = [dump EXCEPT !.state = "listed"]
  /\ UNCHANGED <<client, connected, stream, open, kernel>>

\* The message is full after n peers and, if cut is set, a part of the next.
KernelListsSome ==
  /\ Dumping
  /\ \E n \in 0..Len(Rest) - 1 :
       LET last == IF n = 0 THEN dump.last ELSE Rest[n]
       IN  \/ /\ n > 0
              /\ Send(WholeEntries(n))
              /\ dump' = [dump EXCEPT !.state = "dumping", !.last = last,
                                      !.begun = FALSE, !.ip = 0]
           \/ /\ ~ Stale(n + 1)
              /\ \E to \in From(n + 1)..Len(IpsOf(Rest[n + 1])) - 1 :
                   /\ n = 0 /\ dump.begun => to > dump.ip
                   /\ Send(Append(WholeEntries(n), EntryOf(n + 1, to)))
                   /\ dump' = [dump EXCEPT !.state = "dumping", !.last = last,
                                           !.begun = TRUE, !.ip = to, !.seq = ips_seq]
  /\ UNCHANGED <<client, connected, stream, open, kernel>>

KernelEndsDump ==
  /\ connected /\ dump.state = "listed" /\ replies = << >>
  /\ replies' = << [kind |-> "done"] >>
  /\ dump' = [dump EXCEPT !.state = "done"]
  /\ UNCHANGED <<client, connected, stream, open, kernel>>

\* There is no such interface, or no permission; the dump fails half-way; or
\* messages are lost or make no sense.
KernelFails ==
  /\ Dumping
  /\ \E kind \in {"done_error", "overrun", "undecodable"}
                   \cup (IF dump.state = "asked" THEN {"error"} ELSE {}) :
       replies' = << [kind |-> kind] >>
  /\ dump' = [dump EXCEPT !.state = "failed"]
  /\ UNCHANGED <<client, connected, stream, open, kernel>>

-----------------------------------------------------------------------------
(* The Connection task (external), with set_forward_done().                *)

ConnForwards ==
  /\ connected /\ replies # << >>
  /\ stream' = IF open THEN Append(stream, Head(replies)) ELSE stream
  /\ open' = (open /\ Head(replies).kind = "message")
  /\ replies' = Tail(replies)
  /\ UNCHANGED <<client, connected, dump, kernel>>

\* What is in the stream already can still be read.
ConnStops ==
  /\ connected
  /\ connected' = FALSE /\ replies' = << >> /\ open' = FALSE
  /\ UNCHANGED <<client, stream, dump, kernel>>

-----------------------------------------------------------------------------
(* Others change the device between two messages.                          *)

Changed(dev, new_order) ==
  /\ pc \notin {"idle", "returned"} /\ changes < MaxChanges
  /\ device' = dev
  /\ order' = new_order
  /\ ips_seq' = IF dev.owner = device.owner THEN ips_seq ELSE ips_seq + 1
  /\ changes' = changes + 1
  /\ past' = past \cup {dev}
  /\ UNCHANGED <<client, conn>>

\* A new peer comes last; a known one stays where it is.
OthersSetPeer(key, value) ==
  /\ Changed([device EXCEPT !.peers[key] = value],
             IF device.peers[key] = Absent THEN Append(order, key) ELSE order)
  /\ device.peers[key] # value
  /\ UNCHANGED <<dump, removed>>

OthersMoveIp(ip, key) ==
  /\ key \in PeersOfDevice(device) /\ device.owner[ip] # key
  /\ Changed([device EXCEPT !.owner[ip] = key], order)
  /\ UNCHANGED <<dump, removed>>

OthersRemovePeer(key) ==
  /\ \E i \in DOMAIN order :
       order[i] = key /\ Changed(RemovePeer(device, key), RemoveAt(order, i))
  /\ dump' = [dump EXCEPT !.dead = @ \/ dump.last = key]
  /\ removed' = TRUE

-----------------------------------------------------------------------------

ClientStep ==
  Ask \/ AskFails \/ Collect \/ Skip \/ ReplyIsError \/ GetReturns

KernelStep == KernelListsRest \/ KernelListsSome \/ KernelEndsDump \/ KernelFails

OthersStep ==
  \E key \in Keys :
    \/ \E value \in Attrs : OthersSetPeer(key, value)
    \/ \E ip \in Ips : OthersMoveIp(ip, key)
    \/ OthersRemovePeer(key)

Returned == pc = "returned" /\ UNCHANGED vars

Next ==
  \/ \E iface_name \in IfaceNames : Get(iface_name)
  \/ ClientStep
  \/ KernelStep
  \/ ConnForwards
  \/ ConnStops
  \/ OthersStep
  \/ Returned

\* As in SetDevice: the caller and the task are polled, the kernel answers.
Fairness == WF_vars(ClientStep) /\ WF_vars(KernelStep) /\ WF_vars(ConnForwards)

Spec == Init /\ [][Next]_vars /\ Fairness

-----------------------------------------------------------------------------

Reply == [kind : {"done", "done_error", "error", "overrun", "undecodable"}]
           \cup [kind : {"message"}, msg : DumpMessage]

TypeOK ==
  /\ pc \in {"idle", "sending", "waiting", "returned"}
  /\ msgs \in Seq(DumpMessage)
  /\ result \in {"none", "ok", "NetlinkError", "DecodeError", "Bug", "InvalidInput"}
  /\ result = "none" <=> pc # "returned"
  /\ connected \in BOOLEAN /\ open \in BOOLEAN
  /\ replies \in Seq(Reply) /\ stream \in Seq(Reply)
  /\ dump \in Cursor
  /\ device \in Device /\ order \in SetToSeqs(PeersOfDevice(device))
  /\ ips_seq \in Nat /\ changes \in 0..MaxChanges
  /\ past \subseteq Device /\ removed \in BOOLEAN

\* Where the kernel cuts a dump does not show: a device that nobody changes
\* meanwhile is returned as it is, each peer once, with its attributes and each
\* of its allowed IPs once, and with what set() needs to address it.
ResultIsDevice ==
  result = "ok" /\ connected /\ changes = 0 =>
    /\ DescribedDevice(Parsed) = device
    /\ Len(Parsed.peers) = Cardinality(PeersOfDevice(device))
    /\ \A p \in PeersOf(Parsed) :
         Len(p.allowed_ips) = Cardinality({ip \in Ips : device.owner[ip] = p.public_key})
    /\ Parsed.iface_name = "valid"

\* "get_by_name() result can be applied again" (tests/wireguard_kernel.rs:188):
\* set() accepts it whatever the kernel's cuts, it changes nothing, and with
\* ReplacePeers it brings back the device after any change.
ResultCanBeAppliedAgain ==
  result = "ok" /\ connected /\ changes = 0 =>
    /\ MessageError(Parsed, TRUE) = "none"
    /\ \A p \in PeersOf(Parsed) : PeerError(p) = "none"
    /\ ApplyWhole(device, Parsed) = device
    /\ \A dev \in Devices :
         ApplyWhole(dev, [Parsed EXCEPT !.replace_peers = TRUE]) = device

\* Whatever others change during the dump, what is returned was there: each peer
\* was in the device during the call, with these attributes, and owned these
\* allowed IPs, each at some time.  Nothing is credited to another peer.
NothingMadeUp ==
  result = "ok" =>
    \A p \in PeersOf(Parsed) :
      /\ \E dev \in past : dev.peers[p.public_key] # Absent
      /\ p.attrs # NoAttrs => \E dev \in past : dev.peers[p.public_key] = p.attrs
      /\ \A i \in DOMAIN p.allowed_ips :
           \E dev \in past : dev.owner[p.allowed_ips[i].ip] = p.public_key

\* As long as no peer is removed meanwhile, each is reported once, although it
\* may be cut, changed and given other allowed IPs while the dump is under way,
\* and only entries next to each other are put together.
EachPeerOnce ==
  result = "ok" /\ ~ removed =>
    \A i, j \in DOMAIN Parsed.peers :
      Parsed.peers[i].public_key = Parsed.peers[j].public_key => i = j

\* A dump that the kernel could not finish is an error, however many of its
\* messages have been collected.
FailedDumpIsError == result = "ok" /\ connected => dump.state = "done"

\* "so that a failed dump is not silently truncated" (connection.rs:33-34): Ok
\* means that the dump was complete, whatever becomes of the Connection task.
NeverTruncated == result = "ok" => dump.state = "done"

\* get_by_name() returns: it waits for nothing but the end of its stream.
EveryGetReturns == pc # "idle" ~> pc = "returned"
=============================================================================
