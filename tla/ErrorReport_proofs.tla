------------------------- MODULE ErrorReport_proofs -------------------------
(***************************************************************************)
(* Proofs about errors: whatever is wrong with a configuration, whatever   *)
(* messages a caller sends, whatever the kernel answers, and whatever      *)
(* message an application attaches to an error of its own.  Nothing is     *)
(* assumed of these messages but AckAssumption.                            *)
(***************************************************************************)
EXTENDS ErrorReport, TLAPS

-----------------------------------------------------------------------------
(* What redaction leaves.                                                  *)

NoSecrets(msg) == msg = None \/ SecretsIn(msg) \subseteq {Zero}

\* Two messages or peers with the same attributes, but for keys and peers.
SameOpenly(r, s) ==
  /\ DOMAIN r = DOMAIN s
  /\ \A name \in DOMAIN r \ {"private_key", "preshared_key", "peers"} : r[name] = s[name]

\* Shown is all of request that may be shown.
Shows(request, shown) ==
  /\ SameOpenly(request, shown)
  /\ "peers" \in DOMAIN request =>
       /\ DOMAIN shown["peers"] = DOMAIN request["peers"]
       /\ \A i \in DOMAIN request["peers"] :
            SameOpenly(request["peers"][i], shown["peers"][i])

LEMMA RedactedIsKeyless ==
  ASSUME NEW msg
  PROVE  SecretsIn(RedactAttributes(msg)) \subseteq {Zero}
<1> DEFINE red == RedactAttributes(msg)
<1>1. /\ DOMAIN red = DOMAIN msg
      /\ "private_key" \in DOMAIN red => red["private_key"] = Zero
      /\ "peers" \in DOMAIN red =>
           red["peers"] = [i \in DOMAIN msg["peers"] |->
             [field \in DOMAIN msg["peers"][i] |->
               IF field = "preshared_key" THEN Zero ELSE msg["peers"][i][field]]]
  BY DEF RedactAttributes
<1> HIDE DEF red
<1>2. At(red, "private_key") \subseteq {Zero}
  BY <1>1 DEF At
<1>3. ASSUME NEW ps \in At(red, "peers") \ {None}, NEW i \in DOMAIN ps
      PROVE  At(ps[i], "preshared_key") \subseteq {Zero}
  <2>1. "peers" \in DOMAIN red /\ ps = red["peers"]
    BY <1>3 DEF At
  <2>2. /\ i \in DOMAIN msg["peers"]
        /\ ps[i] = [field \in DOMAIN msg["peers"][i] |->
                      IF field = "preshared_key" THEN Zero ELSE msg["peers"][i][field]]
    BY <1>1, <1>3, <2>1
  <2> QED BY <2>2 DEF At
<1>4. SecretsIn(red) \subseteq {Zero}
  BY <1>2, <1>3 DEF SecretsIn
<1> QED BY <1>4 DEF red

LEMMA RedactedShows ==
  ASSUME NEW request, NEW msg, Shows(request, msg)
  PROVE  Shows(request, RedactAttributes(msg))
<1> DEFINE red == RedactAttributes(msg)
<1>1. /\ DOMAIN red = DOMAIN msg
      /\ \A name \in DOMAIN msg \ {"private_key", "peers"} : red[name] = msg[name]
      /\ "peers" \in DOMAIN msg =>
           /\ DOMAIN red["peers"] = DOMAIN msg["peers"]
           /\ \A i \in DOMAIN msg["peers"] :
                red["peers"][i] = [field \in DOMAIN msg["peers"][i] |->
                  IF field = "preshared_key" THEN Zero ELSE msg["peers"][i][field]]
  BY DEF RedactAttributes
<1> HIDE DEF red
<1>2. SameOpenly(request, red)
  BY <1>1 DEF Shows, SameOpenly
<1>3. ASSUME "peers" \in DOMAIN request
      PROVE  /\ DOMAIN red["peers"] = DOMAIN request["peers"]
             /\ \A i \in DOMAIN request["peers"] :
                  SameOpenly(request["peers"][i], red["peers"][i])
  <2>1. "peers" \in DOMAIN msg /\ DOMAIN red["peers"] = DOMAIN request["peers"]
    BY <1>1, <1>3 DEF Shows, SameOpenly
  <2>2. ASSUME NEW i \in DOMAIN request["peers"]
        PROVE  SameOpenly(request["peers"][i], red["peers"][i])
    <3>1. i \in DOMAIN msg["peers"] /\ SameOpenly(request["peers"][i], msg["peers"][i])
      BY <1>3 DEF Shows
    <3>2. red["peers"][i] = [field \in DOMAIN msg["peers"][i] |->
            IF field = "preshared_key" THEN Zero ELSE msg["peers"][i][field]]
      BY <1>1, <2>1, <3>1
    <3> QED BY <3>1, <3>2 DEF SameOpenly
  <2> QED BY <2>1, <2>2
<1>4. Shows(request, red)
  BY <1>2, <1>3 DEF Shows
<1> QED BY <1>4 DEF red

LEMMA ShowsItself == ASSUME NEW msg PROVE Shows(msg, msg)
BY DEF Shows, SameOpenly

LEMMA NamelessIsKeyless ==
  ASSUME NEW r, {"private_key", "peers"} \cap DOMAIN r = {}
  PROVE  NoSecrets(r)
<1>1. At(r, "private_key") = {} /\ At(r, "peers") = {}
  BY DEF At
<1> QED BY <1>1 DEF NoSecrets, SecretsIn

\* Whatever is attached to an error is shown without its keys.
LEMMA NewErrorFacts ==
  ASSUME NEW kind, NEW text, NEW type, NEW code, NEW msg,
         type \in {"InnerMessage", "Error", "Overrun"} \/ NoSecrets(msg)
  PROVE  LET e == NewError(kind, text, {Payload(type, code, msg)}) IN
         /\ e.kind = kind /\ e.text = text
         /\ \E shown : /\ e.netlink_msg = {Payload(type, code, shown)}
                       /\ NoSecrets(shown)
                       /\ type = "InnerMessage" => shown = RedactAttributes(msg)
<1> DEFINE e == NewError(kind, text, {Payload(type, code, msg)})
<1>1. e.kind = kind /\ e.text = text
      /\ e.netlink_msg = {RedactMessage(Payload(type, code, msg))}
  BY DEF NewError
<1> HIDE DEF e
<1>2. CASE type = "InnerMessage"
  <2>1. RedactMessage(Payload(type, code, msg)) = Payload(type, code, RedactAttributes(msg))
    BY <1>2 DEF RedactMessage, Payload
  <2> QED BY <1>1, <2>1, RedactedIsKeyless DEF NoSecrets, e
<1>3. CASE type \in {"Error", "Overrun"}
  <2>1. RedactMessage(Payload(type, code, msg)) = Payload(type, code, None)
    BY <1>3 DEF RedactMessage, Payload
  <2> QED BY <1>1, <1>3, <2>1 DEF NoSecrets, e
<1>4. CASE type \notin {"InnerMessage", "Error", "Overrun"}
  <2>1. RedactMessage(Payload(type, code, msg)) = Payload(type, code, msg)
    BY <1>4 DEF RedactMessage, Payload
  <2> QED BY <1>1, <1>4, <2>1 DEF e
<1> QED BY <1>2, <1>3, <1>4

\* build_messages() quotes the interface name and an allowed IP, and no key.
LEMMA BuildErrorFacts ==
  ASSUME NEW cfg, NEW e \in BuildErrors(cfg)
  PROVE  NoSecrets(e.text.quotes) /\ e.netlink_msg = {}
<1>1. ASSUME NEW kind, NEW cause
      PROVE  LET f == NewError(kind, Because(cause), {}) IN
             NoSecrets(f.text.quotes) /\ f.netlink_msg = {}
  BY DEF NewError, Because, NoSecrets
<1>2. ASSUME NEW kind, NEW cause, NEW quotes, NoSecrets(quotes)
      PROVE  LET f == NewError(kind, Quoting(cause, quotes), {}) IN
             NoSecrets(f.text.quotes) /\ f.netlink_msg = {}
  BY <1>2 DEF NewError, Quoting, Because
<1>3. ASSUME NEW name PROVE NoSecrets([iface_name |-> name])
  BY NamelessIsKeyless
<1>4. ASSUME NEW ip, NEW n PROVE NoSecrets([ip_addr |-> ip, prefix_length |-> n])
  BY NamelessIsKeyless
<1>5. ASSUME NEW bad, e = DecodeKeyError(bad)
      PROVE  NoSecrets(e.text.quotes) /\ e.netlink_msg = {}
  BY <1>1, <1>5 DEF DecodeKeyError
<1>6. ASSUME NEW cause, e = Invalid(Because(cause))
      PROVE  NoSecrets(e.text.quotes) /\ e.netlink_msg = {}
  BY <1>1, <1>6 DEF Invalid
<1>7. ASSUME NEW cause, NEW quotes, NoSecrets(quotes), e = Invalid(Quoting(cause, quotes))
      PROVE  NoSecrets(e.text.quotes) /\ e.netlink_msg = {}
  BY <1>2, <1>7 DEF Invalid
<1>8. CASE e \in IfaceErrors(cfg)
  BY <1>3, <1>6, <1>7, <1>8 DEF IfaceErrors
<1>9. ASSUME NEW peer, e \in PeerErrors(peer)
      PROVE  NoSecrets(e.text.quotes) /\ e.netlink_msg = {}
  BY <1>4, <1>5, <1>6, <1>7, <1>9 DEF PeerErrors
<1>10. CASE e \in {DecodeKeyError([x \in {name} |-> cfg[x]]) :
                     name \in BadKeys(cfg, {"public_key", "private_key"})}
  BY <1>5, <1>10
<1> QED BY <1>8, <1>9, <1>10 DEF BuildErrors

-----------------------------------------------------------------------------
(* The inductive invariant.                                                *)

\* An error of a call that is not about a request shows none; one that is, was
\* made of the part the call is at.
ErrorInv ==
  /\ pc = "building" => requests = << >>
  /\ error # None =>
       /\ pc = "failed"
       /\ NoSecrets(error.text.quotes)
       /\ \A payload \in error.netlink_msg : NoSecrets(payload.msg)
       /\ call # "new" /\ requests # << >> =>
            /\ error.text.part \in {0, part}
            /\ \E payload \in error.netlink_msg : Shows(requests[part], payload.msg)

\* An error of parse_nl_msg_stream(), request() or get_by_name().
LEMMA OwnErrorFacts ==
  ASSUME NEW kind, NEW cause
  PROVE  LET e == NewError(kind, Because(cause), {Inner(requests[part])}) IN
         /\ e.text = [cause |-> cause, part |-> 0, quotes |-> None]
         /\ e.text.quotes = None /\ e.text.part \in {0, part}
         /\ \E shown : /\ e.netlink_msg = {Inner(shown)}
                       /\ NoSecrets(shown)
                       /\ Shows(requests[part], shown)
<1>1. Shows(requests[part], RedactAttributes(requests[part]))
  BY ShowsItself, RedactedShows
<1> QED BY <1>1, NewErrorFacts DEF Inner, Because

LEMMA ReplyErrorFacts ==
  ASSUME NEW reply, ReplyError(reply) # None
  PROVE  \E kind, cause :
           ReplyError(reply) = NewError(kind, Because(cause), {Inner(requests[part])})
BY DEF ReplyError, NetlinkErrorMessage

\* set() makes the error once more, and adds the number of the part.
LEMMA NamedFacts ==
  ASSUME NEW kind, NEW cause
  PROVE  LET e == Named(NewError(kind, Because(cause), {Inner(requests[part])})) IN
         /\ e.text.quotes = None
         /\ e.text.part \in {0, part}
         /\ \E shown : /\ e.netlink_msg = {Inner(shown)}
                       /\ NoSecrets(shown)
                       /\ Shows(requests[part], shown)
<1> DEFINE e == NewError(kind, Because(cause), {Inner(requests[part])})
           text == IF Len(requests) > 1 THEN [e.text EXCEPT !.part = part] ELSE e.text
<1>1. e.text = [cause |-> cause, part |-> 0, quotes |-> None]
  BY OwnErrorFacts
<1>2. PICK shown : /\ e.netlink_msg = {Inner(shown)}
                   /\ NoSecrets(shown)
                   /\ Shows(requests[part], shown)
  BY OwnErrorFacts
<1>3. Named(e) = IF call = "set" THEN NewError(e.kind, text, e.netlink_msg) ELSE e
  BY DEF Named
<1> HIDE DEF e
<1>4. text.quotes = None /\ text.part \in {0, part}
  BY <1>1
<1> HIDE DEF text
<1>5. CASE call = "set"
  <2>1. Named(e) = NewError(e.kind, text, {Payload("InnerMessage", 0, shown)})
    BY <1>2, <1>3, <1>5 DEF Inner
  <2>2. PICK again : /\ Named(e).text = text
                     /\ Named(e).netlink_msg = {Payload("InnerMessage", 0, again)}
                     /\ NoSecrets(again)
                     /\ again = RedactAttributes(shown)
    BY <2>1, NewErrorFacts
  <2>3. Shows(requests[part], again)
    BY <1>2, <2>2, RedactedShows
  <2> QED BY <1>4, <2>2, <2>3 DEF e, Inner
<1>6. CASE call # "set"
  <2>1. e.text.quotes = None /\ e.text.part = 0
    BY <1>1
  <2> QED BY <1>2, <1>3, <1>6, <2>1 DEF e
<1> QED BY <1>5, <1>6

\* An error that shows the request of the part a call is at.
LEMMA OneMessageShown ==
  ASSUME NEW e, NEW shown, e.netlink_msg = {Inner(shown)}, NoSecrets(shown),
         Shows(requests[part], shown)
  PROVE  /\ \A payload \in e.netlink_msg : NoSecrets(payload.msg)
         /\ \E payload \in e.netlink_msg : Shows(requests[part], payload.msg)
<1>1. Inner(shown).msg = shown
  BY DEF Inner, Payload
<1> QED BY <1>1

LEMMA ErrorInvHolds == Spec => []ErrorInv
<1>1. Init => ErrorInv
  BY DEF Init, ErrorInv
<1>2. ErrorInv /\ [Next]_vars => ErrorInv'
  <2> SUFFICES ASSUME ErrorInv, [Next]_vars PROVE ErrorInv'
    OBVIOUS
  <2>1. ASSUME NEW e, NEW shown, error' = e, pc' = "failed", UNCHANGED <<call, requests, part>>,
               e.text.quotes = None, e.text.part \in {0, part},
               e.netlink_msg = {Inner(shown)}, NoSecrets(shown), Shows(requests[part], shown)
        PROVE  ErrorInv'
    BY <2>1, OneMessageShown DEF ErrorInv, NoSecrets
  <2>2. ASSUME error' = error, pc # "failed", pc' # "building" PROVE ErrorInv'
    BY <2>2 DEF ErrorInv
  <2>3. CASE Build
    BY <2>2, <2>3 DEF Build
  <2>4. CASE BuildFails
    <3>1. PICK cfg, e : e \in BuildErrors(cfg) /\ error' = e /\ pc' = "failed"
      BY <2>4 DEF BuildFails, Fail
    <3>2. requests' = << >>
      BY <2>4 DEF BuildFails, ErrorInv
    <3> QED BY <3>1, <3>2, BuildErrorFacts DEF ErrorInv
  <2>5. CASE Request
    BY <2>2, <2>5 DEF Request
  <2>6. CASE RequestFails
    <3>1. PICK e : /\ error' = e /\ pc' = "failed"
                   /\ e = NewError("NetlinkError", Because("Netlink request failed"),
                                   {Inner(requests[part])})
                   /\ UNCHANGED <<call, requests, part>>
      BY <2>6 DEF RequestFails, Fail
    <3>2. e.text.quotes = None /\ e.text.part \in {0, part}
      BY <3>1, OwnErrorFacts
    <3>3. PICK shown : /\ e.netlink_msg = {Inner(shown)}
                       /\ NoSecrets(shown)
                       /\ Shows(requests[part], shown)
      BY <3>1, OwnErrorFacts
    <3> QED BY <2>1, <3>1, <3>2, <3>3
  <2>7. CASE ReplyIsMessage
    BY <2>2, <2>7 DEF ReplyIsMessage
  <2>8. CASE ReplyIsError
    <3>1. PICK reply : /\ ReplyError(reply) # None /\ Fail(Named(ReplyError(reply)))
                       /\ UNCHANGED <<call, requests, part>>
      BY <2>8 DEF ReplyIsError
    <3>2. PICK kind, cause :
            ReplyError(reply) = NewError(kind, Because(cause), {Inner(requests[part])})
      BY <3>1, ReplyErrorFacts
    <3>3. /\ error' = Named(NewError(kind, Because(cause), {Inner(requests[part])}))
          /\ pc' = "failed"
      BY <3>1, <3>2 DEF Fail
    <3> QED BY <2>1, <3>1, <3>3, NamedFacts
  <2>9. CASE NextPart
    BY <2>2, <2>9 DEF NextPart
  <2>10. CASE Returns
    <3>1. CASE error' = None /\ pc' = "ok"
      BY <3>1 DEF ErrorInv
    <3>2. CASE Fail(NewError("Bug", Because("no reply"), {Inner(requests[part])}))
      <4>1. UNCHANGED <<call, requests, part>>
        BY <2>10 DEF Returns
      <4>2. PICK e : /\ error' = e /\ pc' = "failed"
                     /\ e = NewError("Bug", Because("no reply"), {Inner(requests[part])})
        BY <3>2 DEF Fail
      <4>3. e.text.quotes = None /\ e.text.part \in {0, part}
        BY <4>2, OwnErrorFacts
      <4>4. PICK shown : /\ e.netlink_msg = {Inner(shown)}
                         /\ NoSecrets(shown)
                         /\ Shows(requests[part], shown)
        BY <4>2, OwnErrorFacts
      <4> QED BY <2>1, <4>1, <4>2, <4>3, <4>4
    <3> QED BY <2>10, <3>1, <3>2 DEF Returns
  <2>11. CASE NewErrorByCaller
    <3>1. PICK payload \in Replies(requests[part], Dumps \cup {requests[part]}) :
            /\ payload.type # "Undecodable"
            /\ Fail(NewError("Bug", Because("unknown"), {payload}))
      BY <2>11 DEF NewErrorByCaller
    <3>2. call' = "new"
      BY <2>11 DEF NewErrorByCaller
    <3>3. PICK type, code, msg :
            /\ payload = Payload(type, code, msg)
            /\ type \in {"InnerMessage", "Error", "Overrun"} \/ NoSecrets(msg)
      BY <3>1, AckAssumption DEF Replies, Inner, NoSecrets
    <3>4. PICK e : e = NewError("Bug", Because("unknown"), {Payload(type, code, msg)})
                   /\ error' = e /\ pc' = "failed"
      BY <3>1, <3>3 DEF Fail
    <3>5. PICK shown : /\ e.text = Because("unknown")
                       /\ e.netlink_msg = {Payload(type, code, shown)}
                       /\ NoSecrets(shown)
      BY <3>3, <3>4, NewErrorFacts
    <3>6. e.text.quotes = None /\ \A p \in e.netlink_msg : NoSecrets(p.msg)
      BY <3>5 DEF Because, Payload
    <3> QED BY <3>2, <3>4, <3>6 DEF ErrorInv, NoSecrets
  <2>12. CASE UNCHANGED vars
    BY <2>12 DEF vars, ErrorInv
  <2> QED
    BY <2>3, <2>4, <2>5, <2>6, <2>7, <2>8, <2>9, <2>10, <2>11, <2>12 DEF Next
<1> QED BY <1>1, <1>2, PTL DEF Spec

-----------------------------------------------------------------------------
(* The theorems.                                                           *)

\* Whatever message or configuration a caller, the kernel or an application puts
\* a private or preshared key into: an error that is made of it holds none, in
\* its text or in the message it shows (redact.rs:5-10, error.rs:65-66,
\* parsed.rs:492-516).  The kernel's acknowledgements, which redact.rs:30 leaves
\* as they are, are assumed to hold none (AckAssumption).
THEOREM KeysAreNotShown == Spec => []NoKeyShown
<1>1. ErrorInv => NoKeyShown
  BY DEF ErrorInv, NoKeyShown, Shown, NoSecrets
<1> QED BY <1>1, ErrorInvHolds, PTL

\* Hiding the keys hides nothing else: an error of a request of set() or
\* get_by_name() shows the request of the part that failed, although it is
\* redacted up to twice and the part is named by a number only
\* (handle.rs:79-95 and 170-172).
THEOREM ErrorsShowTheirRequest == Spec => []ErrorShowsRequest
<1>1. ErrorInv => ErrorShowsRequest
  <2> SUFFICES ASSUME ErrorInv, error # None, call # "new", requests # << >>
      PROVE  \E payload \in error.netlink_msg :
               Shows(requests[IF error.text.part > 0 THEN error.text.part ELSE part], payload.msg)
    BY DEF ErrorShowsRequest, Shows, SameOpenly
  <2>1. /\ error.text.part \in {0, part}
        /\ \E payload \in error.netlink_msg : Shows(requests[part], payload.msg)
    BY DEF ErrorInv
  <2>2. (IF error.text.part > 0 THEN error.text.part ELSE part) = part
    BY <2>1
  <2> QED BY <2>1, <2>2
<1> QED BY <1>1, ErrorInvHolds, PTL
=============================================================================
