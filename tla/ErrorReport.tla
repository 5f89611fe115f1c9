----------------------------- MODULE ErrorReport -----------------------------
(***************************************************************************)
(* The error a caller gets from a call, and the message attached to it.    *)
(* Keys come in with the configuration, the requests, the replies of the   *)
(* kernel, and its copies of the requests; applications make errors with   *)
(* WireguardError::new(), too.                                             *)
(***************************************************************************)
EXTENDS Conversions

CONSTANTS
  Configs,     \* configurations of a caller, to be refused by build_messages()
  SetCalls,    \* the messages of calls of set(), several of a split one
  GetRequest,  \* the message of get_by_name()
  Dumps,       \* what the kernel answers to it, in one message
  Acks         \* extended acknowledgements, the raw bytes in a Done message

VARIABLES
  call,      \* "set", "get" or "new"
  requests,  \* the messages of the call, once they are built
  part,      \* the one it is at
  pc,        \* "building", "sending", "reading", "failed" or "ok"
  read,      \* whether get_by_name() has a message of the device
  error

vars == <<call, requests, part, pc, read, error>>

-----------------------------------------------------------------------------

At(r, name) == IF name \in DOMAIN r THEN {r[name]} ELSE {}

\* What stands in the places of secret keys in a message or configuration.
SecretsIn(r) ==
  At(r, "private_key") \cup
    UNION {UNION {At(ps[i], "preshared_key") : i \in DOMAIN ps} : ps \in At(r, "peers") \ {None}}

\* In an extended acknowledgement the kernel says what is wrong and where; it
\* copies a request into errors and overruns only.
ASSUME AckAssumption == \A ack \in Acks : SecretsIn(ack) \subseteq {Zero}

-----------------------------------------------------------------------------
(* NetlinkPayload.  The raw bytes in a payload are a message in msg.       *)

Payload(type, code, msg) == [type |-> type, code |-> code, msg |-> msg]

Inner(msg) == Payload("InnerMessage", 0, msg)

\* The answers the stream may yield to a request.
Replies(request, dumps) ==
  {Inner(dump) : dump \in dumps}
    \cup {Payload("Error", code, echo) : code \in {0, 1}, echo \in {None, request}}
    \cup {Payload("Done", code, ack) : code \in {0, 1}, ack \in Acks \cup {None}}
    \cup {Payload("Overrun", 0, lost) : lost \in dumps \cup {request}}
    \cup {Payload(type, 0, None) : type \in {"Noop", "Undecodable"}}

\* Faulty variant: whatever is a key.
RedactEveryKey(msg) ==
  [name \in DOMAIN msg |->
     CASE name \in {"public_key", "private_key"} -> Zero
       [] name = "peers" -> [i \in DOMAIN msg[name] |->
            [field \in DOMAIN msg[name][i] |->
               IF field \in {"public_key", "preshared_key"} THEN Zero ELSE msg[name][i][field]]]
       [] OTHER -> msg[name]]

\* redact_attributes()
RedactAttributes(msg) ==
  [name \in DOMAIN msg |->
     CASE name = "private_key" -> Zero
       [] name = "peers" -> [i \in DOMAIN msg[name] |->
            [field \in DOMAIN msg[name][i] |->
               IF field = "preshared_key" THEN Zero ELSE msg[name][i][field]]]
       [] OTHER -> msg[name]]

\* Faulty variant: raw bytes are left as they are.
RedactStructuredOnly(payload) ==
  [payload EXCEPT !.msg = IF payload.type = "InnerMessage" THEN RedactAttributes(@) ELSE @]

\* redact_message(): a structured message is redacted, the raw bytes of an error
\* or overrun are dropped, the others are left as they are.
RedactMessage(payload) ==
  [payload EXCEPT !.msg = CASE payload.type = "InnerMessage" -> RedactAttributes(@)
                            [] payload.type \in {"Error", "Overrun"} -> None
                            [] OTHER -> @]

\* WireguardError::new() with no or one message attached.  Of its text: the
\* cause, the part it names, and what it quotes, as a message or configuration
\* with nothing else in it.
NewError(kind, text, attached) ==
  [kind |-> kind, text |-> text, netlink_msg |-> {RedactMessage(payload) : payload \in attached}]

Because(cause) == [cause |-> cause, part |-> 0, quotes |-> None]

Quoting(cause, quotes) == [Because(cause) EXCEPT !.quotes = quotes]

-----------------------------------------------------------------------------
(* The errors of build_messages(), one for each mistake; BuildMessages has *)
(* their order.  No message is attached to them.                           *)

Invalid(text) == NewError("InvalidInput", text, {})

\* decode_key(), bad holds the text that does not decode to a key.
DecodeKeyError(bad) == NewError("InvalidKey", Because("not a key"), {})

BadKeys(r, names) == {name \in names : r[name] # None /\ ~ Decodes(r[name])}

\* WireguardPeerParsed::build()
PeerErrors(peer) ==
  {Invalid(Because("missing public_key")) : bad \in {peer.public_key} \cap {None}}
    \cup {DecodeKeyError([peers |-> <<[x \in {name} |-> peer[x]]>>]) :
            name \in BadKeys(peer, {"public_key", "preshared_key"})}
    \cup {Invalid(Quoting("prefix_length", [ip_addr |-> ip.ip_addr, prefix_length |-> ip.prefix_length])) :
            ip \in {ip \in UNION {Range(ips) : ips \in {peer.allowed_ips} \ {None}} : ~ ValidIp(ip)}}

IfaceErrors(cfg) ==
  {Invalid(Quoting("iface_name is too long", [iface_name |-> name])) :
     name \in {cfg.iface_name} \cap TooLong}
    \cup {Invalid(Because("NUL byte in iface_name")) : name \in {cfg.iface_name} \cap HasNul}
    \cup {Invalid(Because("no interface")) :
            none \in {cfg.iface_name} \cap {cfg.iface_index} \cap {None}}

BuildErrors(cfg) ==
  IfaceErrors(cfg)
    \cup {DecodeKeyError([x \in {name} |-> cfg[x]]) :
            name \in BadKeys(cfg, {"public_key", "private_key"})}
    \cup UNION {PeerErrors(peer) : peer \in UNION {Range(ps) : ps \in {cfg.peers} \ {None}}}

-----------------------------------------------------------------------------
(* The errors of a request that was sent.                                  *)

\* netlink_error_message() renders the errno only.
NetlinkErrorMessage(reply) == Because("Netlink error")

\* parse_nl_msg_stream(): the error a reply is, or None.
ReplyError(reply) ==
  LET Failed(kind, text) == NewError(kind, text, {Inner(requests[part])})
  IN  CASE reply.type = "Error" /\ reply.code # 0 ->
             Failed("NetlinkError", NetlinkErrorMessage(reply))
        [] reply.type = "Done" /\ reply.code # 0 ->
             Failed("NetlinkError", Because("Netlink dump failed"))
        [] reply.type = "Overrun" -> Failed("Bug", Because("overrun"))
        [] reply.type = "Undecodable" -> Failed("DecodeError", Because("decode error"))
        [] OTHER -> None

Init ==
  /\ call \in {"set", "get", "new"}
  /\ requests = << >> /\ part = 1 /\ pc = "building" /\ read = FALSE /\ error = None

Fail(e) == pc' = "failed" /\ error' = e

Build ==
  /\ pc = "building"
  /\ requests' \in IF call = "get" THEN {<<GetRequest>>} ELSE SetCalls
  /\ pc' = "sending"
  /\ UNCHANGED <<call, part, read, error>>

\* build_messages()? before anything is sent; get_by_name() has a name only.
BuildFails ==
  /\ pc = "building" /\ call # "new"
  /\ \E cfg \in Configs : /\ call = "get" => Defined(cfg) = {"iface_name"}
                          /\ \E e \in BuildErrors(cfg) : Fail(e)
  /\ UNCHANGED <<call, requests, part, read>>

Request ==
  /\ pc = "sending" /\ call # "new"
  /\ pc' = "reading"
  /\ UNCHANGED <<call, requests, part, read, error>>

\* request() returns an error, which set() and get_by_name() return as it is.
RequestFails ==
  /\ pc = "sending" /\ call # "new"
  /\ Fail(NewError("NetlinkError", Because("Netlink request failed"), {Inner(requests[part])}))
  /\ UNCHANGED <<call, requests, part, read>>

\* A message is for get_by_name(); set() ignores it.
ReplyIsMessage ==
  /\ pc = "reading"
  /\ \E reply \in Replies(requests[part], Dumps) :
       /\ reply.type = "InnerMessage"
       /\ read' = (read \/ call = "get")
  /\ UNCHANGED <<call, requests, part, pc, error>>

\* set() takes the error apart and makes one that names the part.
Named(e) ==
  IF call = "set"
  THEN NewError(e.kind,
                IF Len(requests) > 1 THEN [e.text EXCEPT !.part = part] ELSE e.text,
                e.netlink_msg)
  ELSE e

ReplyIsError ==
  /\ pc = "reading"
  /\ \E reply \in Replies(requests[part], Dumps) :
       ReplyError(reply) # None /\ Fail(Named(ReplyError(reply)))
  /\ UNCHANGED <<call, requests, part, read>>

\* The stream has ended.
NextPart ==
  /\ pc = "reading" /\ part < Len(requests)
  /\ pc' = "sending" /\ part' = part + 1
  /\ UNCHANGED <<call, requests, read, error>>

Returns ==
  /\ pc = "reading" /\ part = Len(requests)
  /\ IF call = "get" /\ ~ read
     THEN Fail(NewError("Bug", Because("no reply"), {Inner(requests[part])}))
     ELSE pc' = "ok" /\ error' = None
  /\ UNCHANGED <<call, requests, part, read>>

\* An application attaches a message it sent or received to an error of its own.
NewErrorByCaller ==
  /\ pc = "sending" /\ call = "new"
  /\ \E payload \in Replies(requests[part], Dumps \cup {requests[part]}) :
       payload.type # "Undecodable" /\ Fail(NewError("Bug", Because("unknown"), {payload}))
  /\ UNCHANGED <<call, requests, part, read>>

Next ==
  \/ Build \/ BuildFails
  \/ Request \/ RequestFails \/ ReplyIsMessage \/ ReplyIsError
  \/ NextPart \/ Returns \/ NewErrorByCaller

Spec == Init /\ [][Next]_vars

-----------------------------------------------------------------------------

\* Display and Debug of WireguardError: everything it holds.
Shown(e) == ({e.text.quotes} \cup {payload.msg : payload \in e.netlink_msg}) \ {None}

\* No private or preshared key is in an error, whatever carried it there: the
\* configuration that was refused, the request, a reply, or the raw copy of a
\* request in a reply (redact.rs:5-10, error.rs:65-66, parsed.rs:492-516).
NoKeyShown ==
  error # None => \A shown \in Shown(error) : SecretsIn(shown) \subseteq {Zero}

\* An error of a call that was sent shows the request it is about, that of the
\* part it names, complete but for the secret keys: it "holds the same
\* information" (handle.rs:170-172) as the copy that is dropped.
ErrorShowsRequest ==
  error # None /\ call # "new" /\ requests # << >> =>
    LET request == requests[IF error.text.part > 0 THEN error.text.part ELSE part]
        Same(r, s) == DOMAIN r = DOMAIN s
                        /\ \A name \in DOMAIN r \ {"private_key", "preshared_key", "peers"} :
                             r[name] = s[name]
    IN  \E payload \in error.netlink_msg :
          LET shown == payload.msg
          IN  /\ Same(request, shown)
              /\ "peers" \in DOMAIN request =>
                   /\ DOMAIN shown["peers"] = DOMAIN request["peers"]
                   /\ \A i \in DOMAIN request["peers"] :
                        Same(request["peers"][i], shown["peers"][i])
=============================================================================
