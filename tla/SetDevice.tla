------------------------------ MODULE SetDevice ------------------------------
(***************************************************************************)
(* WireguardHandle::set() and remove_peer(), called concurrently through   *)
(* clones of one handle: a call builds its messages, sends them one by one *)
(* and awaits the answer to each before the next.                          *)
(*                                                                         *)
(* Between the clients and the kernel is the Connection task of            *)
(* netlink-proto, spawned by the application: it takes requests out of a   *)
(* channel, the kernel executes each while it is being sent, and the task  *)
(* passes the answer on to the stream of the client that asked.  The task  *)
(* may stop at any time (a socket error, the application dropping it).     *)
(***************************************************************************)
EXTENDS KernelDevice

CONSTANTS
  Clients,     \* the clones of the handle
  Calls,       \* names for the calls of set() under study
  ConfigOf,    \* their configurations
  BuiltOf,     \* what build_messages() says of each: "ok" or an error
  MessagesOf,  \* and the messages it makes of it
  CallsOf,     \* the calls that each client may make
  MaxCalls,    \* bound: how many calls a client makes
  Devices,     \* the devices to start with
  Nothing      \* instead of a call, or of the client of a dropped future

\* BuildMessages: an error has no messages, anything else is a faithful split of
\* peers that all have a key.
ASSUME CallsAssumption ==
  /\ MaxCalls \in Nat
  /\ Devices \subseteq Device
  /\ Nothing \notin Clients \cup Calls
  /\ CallsOf \in [Clients -> SUBSET Calls]
  /\ ConfigOf \in [Calls -> Configs]
  /\ BuiltOf \in [Calls -> {"ok"} \cup ErrorKinds]
  /\ MessagesOf \in [Calls -> Seq(Message)]
  /\ \A k \in Calls :
       IF BuiltOf[k] = "ok"
       THEN /\ IsSplitOf(ConfigOf[k], MessagesOf[k])
            /\ \A p \in PeersOf(ConfigOf[k]) : p.public_key \in Keys
       ELSE MessagesOf[k] = << >>

VARIABLES
  pc,         \* where each client is: "idle", "sending" or "waiting"
  call,       \* its call, or the last one it made
  index,      \* the part it is at, counted from 1 as the error messages do
  result,     \* how its last call ended
  calls,      \* how many calls it has made
  resolved,   \* the id of the genetlink family is known
  connected,  \* the Connection task runs
  requests,   \* the channel to the Connection task
  replies,    \* what the kernel has answered and the task has not read
  stream,     \* the reply stream of each client's request
  device,     \* the device in the kernel
  start,      \* history: the device before any call
  acked,      \* history: the parts of its call that the kernel has applied
  finished    \* history: the calls of each client that have returned Ok

client == <<pc, call, index, result, calls>>
conn == <<connected, requests, replies>>
vars == <<client, conn, resolved, stream, device, start, acked, finished>>

TotalParts(c) == Len(MessagesOf[call[c]])

\* WireguardPeerParsed::remove()
RemovedPeer(key) ==
  [public_key |-> key, preshared_key |-> "none", attrs |-> NoAttrs,
   flags |-> {"RemoveMe"}, has_allowed_ips |-> FALSE, allowed_ips |-> << >>]

\* The configuration remove_peer() passes to set().
RemovalConfig(key) ==
  [iface_name |-> "valid", iface_index |-> FALSE, keys_valid |-> TRUE,
   replace_peers |-> FALSE, peers |-> <<RemovedPeer(key)>>]

\* An error that names no part has part 0.
Outcome(kind, part) == [kind |-> kind, part |-> part]

-----------------------------------------------------------------------------

Init ==
  /\ pc = [c \in Clients |-> "idle"]
  /\ call = [c \in Clients |-> Nothing]
  /\ index = [c \in Clients |-> 1]
  /\ result = [c \in Clients |-> Outcome("none", 0)]
  /\ calls = [c \in Clients |-> 0]
  /\ resolved = FALSE
  /\ connected = TRUE
  /\ requests = << >>
  /\ replies = << >>
  /\ stream = [c \in Clients |-> "none"]
  /\ device \in Devices
  /\ start = device
  /\ acked = [c \in Clients |-> {}]
  /\ finished = [c \in Clients |-> << >>]

Return(c, outcome) ==
  /\ pc' = [pc EXCEPT ![c] = "idle"]
  /\ result' = [result EXCEPT ![c] = outcome]
  /\ finished' = IF outcome.kind # "ok" THEN finished
                 ELSE [finished EXCEPT ![c] = Append(@, call[c])]

Begin(c, k) ==
  /\ pc[c] = "idle" /\ calls[c] < MaxCalls
  /\ call' = [call EXCEPT ![c] = k]
  /\ index' = [index EXCEPT ![c] = 1]
  /\ calls' = [calls EXCEPT ![c] = @ + 1]
  /\ acked' = [acked EXCEPT ![c] = {}]
  /\ UNCHANGED <<conn, resolved, stream, device, start>>

\* build_messages()? returns before anything is sent.
SetRejected(c) ==
  \E k \in CallsOf[c] :
    /\ BuiltOf[k] # "ok"
    /\ Begin(c, k)
    /\ result' = [result EXCEPT ![c] = Outcome(BuiltOf[k], 0)]
    /\ UNCHANGED <<pc, finished>>

Set(c) ==
  \E k \in CallsOf[c] :
    /\ BuiltOf[k] = "ok"
    /\ Begin(c, k)
    /\ pc' = [pc EXCEPT ![c] = "sending"]
    /\ result' = [result EXCEPT ![c] = Outcome("none", 0)]
    /\ UNCHANGED finished

-----------------------------------------------------------------------------
(* The body of the loop over the messages.                                 *)

\* self.request(...).await
Request(c) ==
  /\ pc[c] = "sending"
  /\ connected
  /\ requests' = Append(requests, [from |-> c, call |-> call[c], part |-> index[c]])
  /\ stream' = [stream EXCEPT ![c] = "pending"]
  /\ pc' = [pc EXCEPT ![c] = "waiting"]
  /\ resolved' = TRUE
  /\ UNCHANGED <<call, index, result, calls, connected, replies, device, start, acked, finished>>

\* request() fails when the task is gone, or when the first request of all
\* finds no wireguard family in the kernel.  Unlike an answer that is an error,
\* its error is returned as it is and names no part.
RequestFails(c) ==
  /\ pc[c] = "sending"
  /\ ~ connected \/ ~ resolved
  /\ Return(c, Outcome("NetlinkError", 0))
  /\ UNCHANGED <<call, index, calls, conn, resolved, stream, device, start, acked>>

\* Faulty variant: the part is counted from 0.
ReplyIsErrorFromZero(c) ==
  /\ pc[c] = "waiting" /\ stream[c] = "error"
  /\ Return(c, Outcome("NetlinkError", IF TotalParts(c) > 1 THEN index[c] - 1 ELSE 0))
  /\ stream' = [stream EXCEPT ![c] = "none"]
  /\ UNCHANGED <<call, index, calls, conn, resolved, device, start, acked>>

\* stream.next().await yields an error: the messages left are not sent.
ReplyIsError(c) ==
  /\ pc[c] = "waiting" /\ stream[c] = "error"
  /\ Return(c, Outcome("NetlinkError", IF TotalParts(c) > 1 THEN index[c] ELSE 0))
  /\ stream' = [stream EXCEPT ![c] = "none"]
  /\ UNCHANGED <<call, index, calls, conn, resolved, device, start, acked>>

\* Faulty variant: every NLMSG_ERROR is taken for an acknowledgement.
ReplyEndedByError(c) ==
  pc[c] = "waiting" /\ stream[c] \in {"ack", "error", "lost"}

\* Faulty variant: the stream is not read to its end.
ReplyEndedTooSoon(c) ==
  pc[c] = "waiting" /\ stream[c] \in {"pending", "ack", "lost"}

\* The stream ends without an item, after an acknowledgement or because the
\* task that held its other end is gone: set() sees no difference.
ReplyEnded(c) == pc[c] = "waiting" /\ stream[c] \in {"ack", "lost"}

\* Faulty variant: the same part again and again.
NextPartSameIndex(c) ==
  /\ ReplyEnded(c) /\ index[c] < TotalParts(c)
  /\ pc' = [pc EXCEPT ![c] = "sending"]
  /\ stream' = [stream EXCEPT ![c] = "none"]
  /\ UNCHANGED <<call, index, result, calls, conn, resolved, device, start, acked, finished>>

\* Faulty variant: runs past the last message.
NextPartPastLast(c) ==
  /\ ReplyEnded(c)
  /\ index' = [index EXCEPT ![c] = @ + 1]
  /\ pc' = [pc EXCEPT ![c] = "sending"]
  /\ stream' = [stream EXCEPT ![c] = "none"]
  /\ UNCHANGED <<call, result, calls, conn, resolved, device, start, acked, finished>>

\* On to the next of the messages.
NextPart(c) ==
  /\ ReplyEnded(c) /\ index[c] < TotalParts(c)
  /\ index' = [index EXCEPT ![c] = @ + 1]
  /\ pc' = [pc EXCEPT ![c] = "sending"]
  /\ stream' = [stream EXCEPT ![c] = "none"]
  /\ UNCHANGED <<call, result, calls, conn, resolved, device, start, acked, finished>>

\* Faulty variant: returns on the first acknowledgement.
SetReturnsEarly(c) ==
  /\ ReplyEnded(c)
  /\ Return(c, Outcome("ok", 0))
  /\ stream' = [stream EXCEPT ![c] = "none"]
  /\ UNCHANGED <<call, index, calls, conn, resolved, device, start, acked>>

\* Ok(()) after the last message.
SetReturnsOk(c) ==
  /\ ReplyEnded(c) /\ index[c] = TotalParts(c)
  /\ Return(c, Outcome("ok", 0))
  /\ stream' = [stream EXCEPT ![c] = "none"]
  /\ UNCHANGED <<call, index, calls, conn, resolved, device, start, acked>>

\* Nobody holds the streams of the entries of c any more.
Disown(queue, c) ==
  [i \in DOMAIN queue |->
     IF queue[i].from = c THEN [queue[i] EXCEPT !.from = Nothing] ELSE queue[i]]

\* The caller drops the future, in a timeout or a select: what is queued stays
\* queued, and nobody reads the answer.
Cancel(c) ==
  /\ pc[c] # "idle"
  /\ Return(c, Outcome("cancelled", 0))
  /\ requests' = Disown(requests, c)
  /\ replies' = Disown(replies, c)
  /\ stream' = [stream EXCEPT ![c] = "none"]
  /\ UNCHANGED <<call, index, calls, connected, resolved, device, start, acked>>

-----------------------------------------------------------------------------
(* The Connection task and the kernel.                                     *)

\* The device when the kernel has applied part n of call k.
Applied(dev, k, n) == ApplyMessage(dev, ConfigOf[k], MessagesOf[k][n])

\* When it has refused the part, or the entry after its first i: it keeps what
\* it has done until then.
PartlyApplied(dev, k, n) ==
  LET msg == MessagesOf[k][n]
  IN  {dev} \cup {ApplyEntries(dev, ConfigOf[k], msg, i) : i \in 0..Len(msg.peers) - 1}

Answer(req, kind) ==
  /\ requests' = Tail(requests)
  /\ replies' = Append(replies, [from |-> req.from, kind |-> kind])

\* The kernel applies the whole message and acknowledges it.
KernelApplies ==
  /\ connected /\ requests # << >>
  /\ LET req == Head(requests)
     IN  /\ device' = Applied(device, req.call, req.part)
         /\ acked' = IF req.from = Nothing THEN acked
                     ELSE [acked EXCEPT ![req.from] = @ \cup {req.part}]
         /\ Answer(req, "ack")
  /\ UNCHANGED <<client, connected, resolved, stream, start, finished>>

\* The kernel refuses the message, or one of its entries.
KernelRefuses ==
  /\ connected /\ requests # << >>
  /\ LET req == Head(requests)
     IN  /\ device' \in PartlyApplied(device, req.call, req.part)
         /\ Answer(req, "error")
  /\ UNCHANGED <<client, connected, resolved, stream, start, acked, finished>>

\* The answer goes to the stream of its request, if anybody still holds it.
ConnForwards ==
  /\ connected /\ replies # << >>
  /\ LET reply == Head(replies)
     IN  stream' = IF reply.from = Nothing THEN stream
                   ELSE [stream EXCEPT ![reply.from] = reply.kind]
  /\ replies' = Tail(replies)
  /\ UNCHANGED <<client, connected, requests, resolved, device, start, acked, finished>>

\* The task ends: what it had queued is dropped and the streams it fed end.
ConnStops ==
  /\ connected
  /\ connected' = FALSE
  /\ requests' = << >>
  /\ replies' = << >>
  /\ stream' = [c \in Clients |-> IF stream[c] = "pending" THEN "lost" ELSE stream[c]]
  /\ UNCHANGED <<client, resolved, device, start, acked, finished>>

-----------------------------------------------------------------------------

ClientStep(c) ==
  \/ Request(c) \/ RequestFails(c)
  \/ ReplyIsError(c) \/ NextPart(c) \/ SetReturnsOk(c)

KernelStep == KernelApplies \/ KernelRefuses

\* Every caller has what it asked for; it need not ask for more.
AllReturned == (\A c \in Clients : pc[c] = "idle") /\ UNCHANGED vars

Next ==
  \/ \E c \in Clients : SetRejected(c) \/ Set(c) \/ ClientStep(c) \/ Cancel(c)
  \/ KernelStep
  \/ ConnForwards
  \/ ConnStops
  \/ AllReturned

\* The executor polls the callers and the Connection task as long as they can
\* go on, and the kernel answers every request; nothing makes a client call,
\* cancel, or the task stop.
Fairness ==
  /\ \A c \in Clients : WF_vars(ClientStep(c))
  /\ WF_vars(KernelStep)
  /\ WF_vars(ConnForwards)

Spec == Init /\ [][Next]_vars /\ Fairness

-----------------------------------------------------------------------------

OutcomeKinds == {"none", "ok", "cancelled", "NetlinkError"} \cup ErrorKinds

InFlight == [from : Clients \cup {Nothing}, call : Calls, part : Nat \ {0}]

CallsTypeOK ==
  /\ pc \in [Clients -> {"idle", "sending", "waiting"}]
  /\ call \in [Clients -> Calls \cup {Nothing}]
  /\ index \in [Clients -> Nat \ {0}]
  /\ \A c \in Clients : pc[c] # "idle" =>
       call[c] \in CallsOf[c] /\ index[c] \in 1..TotalParts(c)
  /\ result \in [Clients -> [kind : OutcomeKinds, part : Nat]]
  /\ calls \in [Clients -> 0..MaxCalls]
  /\ resolved \in BOOLEAN /\ connected \in BOOLEAN
  /\ requests \in Seq(InFlight)
  /\ \A i \in DOMAIN requests : requests[i].part \in 1..Len(MessagesOf[requests[i].call])
  /\ replies \in Seq([from : Clients \cup {Nothing}, kind : {"ack", "error"}])
  /\ stream \in [Clients -> {"none", "pending", "ack", "error", "lost"}]
  /\ acked \in [Clients -> SUBSET (Nat \ {0})]
  /\ finished \in [Clients -> Seq(Calls)]
  /\ start \in Devices

TypeOK == CallsTypeOK /\ device \in Device

\* The requests and answers of client c that are under way.
UnderWay(c) ==
  {<<"request", i>> : i \in {j \in DOMAIN requests : requests[j].from = c}}
    \cup {<<"reply", i>> : i \in {j \in DOMAIN replies : replies[j].from = c}}

\* A client waits exactly as long as one answer to it is under way: no call is
\* left waiting for an answer that will not come (when the task stops, when
\* another clone cancels), and none that has returned, was cancelled or goes on
\* to its next part has an older answer still to come, which the next request
\* would take for its own.
OneAnswerAwaited ==
  \A c \in Clients :
    /\ IF stream[c] = "pending" THEN \E entry \in UnderWay(c) : UnderWay(c) = {entry}
       ELSE UnderWay(c) = {}
    /\ stream[c] # "none" <=> pc[c] = "waiting"

\* As long as the Connection task runs, Ok means that the kernel has applied
\* every part: a part that was refused or skipped has not gone unnoticed
\* although an acknowledgement is the absence of an item (handle.rs:65-68).
OkMeansApplied ==
  connected => \A c \in Clients :
    result[c].kind = "ok" => acked[c] = 1..TotalParts(c)

\* "an error is the only way a request fails" (handle.rs:65-68): Ok means that
\* every part was applied, whatever becomes of the Connection task.
OkMeansAcknowledged ==
  \A c \in Clients : result[c].kind = "ok" => acked[c] = 1..TotalParts(c)

\* "Failed to apply part k/n": the parts in front of k, and no others, are in
\* the device, whatever happened in between to other clones, to earlier calls
\* or to the Connection task.  This is what a caller needs to repair a device
\* that an error has left partially configured.
ErrorNamesPart ==
  \A c \in Clients :
    result[c].part > 0 => acked[c] = 1..result[c].part - 1

-----------------------------------------------------------------------------

KeysNamed(c) ==
  Keys \cap {p.public_key : p \in UNION {PeersOf(ConfigOf[k]) : k \in CallsOf[c]}}

IpsNamed(c) ==
  UNION { {p.allowed_ips[i].ip : i \in DOMAIN p.allowed_ips} :
            p \in UNION {PeersOf(ConfigOf[k]) : k \in CallsOf[c]} }

\* c and d configure peers and allowed IPs of their own, and had them apart
\* from the start; d does not replace the peers of the device.
Apart(c, d) ==
  /\ KeysNamed(c) \cap KeysNamed(d) = {}
  /\ IpsNamed(c) \cap IpsNamed(d) = {}
  /\ \A ip \in IpsNamed(c) : start.owner[ip] \notin KeysNamed(d)
  /\ \A k \in CallsOf[d] : ~ ConfigOf[k].replace_peers

\* What the calls of c are about.
View(dev, c) ==
  <<[key \in KeysNamed(c) |-> dev.peers[key]], [ip \in IpsNamed(c) |-> dev.owner[ip]]>>

\* Calls of several clones on peers of their own do not disturb each other,
\* although the messages of calls that take several interleave freely: a client
\* whose calls all returned Ok finds its peers and allowed IPs as if it had
\* applied its configurations whole, one after the other, on its own.  Others
\* may have failed or been cancelled half-way.  None of its calls splits a peer
\* that is only to be updated: the pieces would add it (SplitsUpdateOnly).
ApartCallsDoNotMix ==
  connected =>
    \A c \in Clients :
      /\ pc[c] = "idle" /\ Len(finished[c]) = calls[c]
      /\ \A d \in Clients \ {c} : Apart(c, d)
      /\ \A k \in CallsOf[c] : ~ SplitsUpdateOnly(ConfigOf[k], MessagesOf[k])
      => View(device, c)
           = View(FoldLeft(LAMBDA dev, k : ApplyWhole(dev, ConfigOf[k]),
                           start, finished[c]), c)

\* Every call returns: set() waits for nothing but answers, of which the kernel
\* gives one to each request, and a task that stops ends the streams it feeds.
EveryCallReturns == \A c \in Clients : pc[c] # "idle" ~> pc[c] = "idle"

\* "The public key is the only state the kernel needs to find the peer again in
\* the following messages" (parsed.rs:442-443): the peer which a message goes on
\* with is in the device when the message arrives.
ContinuationFindsPeer ==
  requests # << >> =>
    LET req == Head(requests)
        chunk == Head(MessagesOf[req.call][req.part].peers)
        peer == ConfigOf[req.call].peers[chunk.peer]
    IN  ~ chunk.first => device.peers[peer.public_key] # Absent

-----------------------------------------------------------------------------
(* The abstract specification, and where the model stands in it.           *)

HasReply(c, kind) == \E i \in DOMAIN replies : replies[i] = [from |-> c, kind |-> kind]

TotalPartsOf(k) == Len(MessagesOf[k])

PartsOfCalls == UNION {{k} \X (1..TotalPartsOf(k)) : k \in Calls}

\* What has become of the part client c is at.
StateOf(c) ==
  IF pc[c] = "idle" THEN "idle"
  ELSE IF stream[c] = "error" \/ HasReply(c, "error") THEN "refused" ELSE "running"

\* Where part p stands in the channel for calls that were cancelled.
AbandonedAt(p) ==
  {i \in DOMAIN requests :
     requests[i].from = Nothing /\ <<requests[i].call, requests[i].part>> = p}

Abandoned == [p \in PartsOfCalls |-> Cardinality(AbandonedAt(p))]

Promise == INSTANCE SetPromise WITH
  state <- [c \in Clients |-> StateOf(c)],
  applied <- acked,
  abandoned <- Abandoned

\* The channel, the Connection task and the streams that end without an item
\* do what a call on the device itself would do: parts one after the other,
\* each applied once and whole or refused, nothing sent after an error; an
\* error without a part number, of a call of several, means that nothing has
\* been applied or that the connection is gone; Ok after a lost connection
\* misses the last part at most; of a cancelled call one part may come late,
\* once, and no other.
ImplementsPromise == Promise!Spec
=============================================================================
