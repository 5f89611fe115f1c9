---------------------------- MODULE BuildMessages ----------------------------
(***************************************************************************)
(* WireguardParsed::build_messages() and the functions it is made of,      *)
(* peer_chunks(), take_allowed_ips_batch() and build_message(), as a state *)
(* machine that takes one step per chunk.                                  *)
(*                                                                         *)
(* The code cuts a peer into all its chunks before it packs the first of   *)
(* them.  Cutting can only fail in peer.build(), before the first chunk,   *)
(* and reads nothing that packing writes, so here each chunk is cut when   *)
(* it is packed.                                                           *)
(***************************************************************************)
EXTENDS WireguardConfig

VARIABLES
  config,     \* self
  cur,        \* the peer of config.peers the outer loop is at
  pos,        \* how many allowed IPs of that peer have been drained
  peers,      \* the chunks packed so far for the message under construction
  peers_len,  \* their length in bytes
  messages,   \* the finished messages
  result      \* "building", "ok" or the kind of the error returned

vars == <<config, cur, pos, peers, peers_len, messages, result>>

-----------------------------------------------------------------------------

Splitting == result = "building" /\ cur <= Len(config.peers)

CurPeer == config.peers[cur]

\* Faulty variant: the header of the nest of allowed IPs is not counted.
BatchWithoutOverhead(p, lo, hi) ==
  LET len(j) == PrefixLen(p, lo = 0) - NLA_HEADER_SIZE + IpsLen(p, lo, j)
  IN  /\ lo < ToSend(p) => lo < hi
      /\ \A j \in lo + 2..hi : len(j) <= MAX_NLA_VALUE_LEN
      /\ hi < ToSend(p) => len(hi + 1) > MAX_NLA_VALUE_LEN

\* take_allowed_ips_batch(): it takes the first allowed IP whatever its length
\* and stops in front of the first further one that does not fit.
Batch(p, lo, hi) ==
  LET len(j) == PrefixLen(p, lo = 0) + NLA_HEADER_SIZE + IpsLen(p, lo, j)
  IN  /\ lo < ToSend(p) => lo < hi
      /\ \A j \in lo + 2..hi : len(j) <= MAX_NLA_VALUE_LEN
      /\ hi < ToSend(p) => len(hi + 1) > MAX_NLA_VALUE_LEN

\* The chunk of the current peer that ends with its allowed IP number hi.
NextChunk(hi, at) ==
  [peer |-> cur, first |-> pos = 0, lo |-> pos, hi |-> hi, at |-> at]

LenOfNext(hi) == ChunkLen(config, NextChunk(hi, 0))

\* Faulty variant: a message that ends exactly at the limit is not filled.
FullOffByOne(hi) == peers # << >> /\ peers_len + LenOfNext(hi) >= MAX_NLA_VALUE_LEN

\* The chunk does not fit into the message under construction any more.
Full(hi) == peers # << >> /\ peers_len + LenOfNext(hi) > MAX_NLA_VALUE_LEN

\* Faulty variant: goes on to the next peer after the first chunk of each.
AdvanceAfterFirst(hi) == cur' = cur + 1 /\ pos' = 0

\* Faulty variant: starts the next peer in the middle of its allowed IPs.
AdvanceKeepingPos(hi) ==
  IF hi = ToSend(CurPeer)
  THEN cur' = cur + 1 /\ pos' = hi
  ELSE cur' = cur /\ pos' = hi

\* On to the next chunk of the peer, or to the next peer after its last one.
Advance(hi) ==
  IF hi = ToSend(CurPeer)
  THEN cur' = cur + 1 /\ pos' = 0
  ELSE cur' = cur /\ pos' = hi

\* The loops are about to pack a chunk: peer.build() has accepted the peer.
Cutting == Splitting /\ PeerError(CurPeer) = "none"

\* build_message()
NewMessage == [device |-> messages = << >>, peers |-> peers]

\* Faulty variant: takes the first message for a later one, and vice versa.
LaterMessageError == MessageError(config, messages # << >>)

NewMessageError == MessageError(config, messages = << >>)

-----------------------------------------------------------------------------

Init ==
  /\ config \in Configs
  /\ cur = 1
  /\ pos = 0
  /\ peers = << >>
  /\ peers_len = 0
  /\ messages = << >>
  /\ result = "building"

\* peer.build()? returns the error and the messages built so far are dropped.
RejectPeer ==
  /\ Splitting
  /\ PeerError(CurPeer) # "none"
  /\ result' = PeerError(CurPeer)
  /\ messages' = << >>
  /\ UNCHANGED <<config, cur, pos, peers, peers_len>>

PushChunk ==
  /\ Cutting
  /\ \E hi \in pos..ToSend(CurPeer) :
       /\ Batch(CurPeer, pos, hi)
       /\ ~ Full(hi)
       /\ peers' = Append(peers, NextChunk(hi, peers_len))
       /\ peers_len' = peers_len + LenOfNext(hi)
       /\ Advance(hi)
  /\ UNCHANGED <<config, messages, result>>

FlushAndPushChunk ==
  /\ Cutting
  /\ \E hi \in pos..ToSend(CurPeer) :
       /\ Batch(CurPeer, pos, hi)
       /\ Full(hi)
       /\ NewMessageError = "none"
       /\ messages' = Append(messages, NewMessage)
       /\ peers' = << NextChunk(hi, 0) >>
       /\ peers_len' = LenOfNext(hi)
       /\ Advance(hi)
  /\ UNCHANGED <<config, result>>

\* After the loops: a message with the rest, or one without peers.
Finished == result = "building" /\ cur > Len(config.peers)

Finish ==
  /\ Finished
  /\ IF peers # << >> \/ messages = << >>
     THEN NewMessageError = "none" /\ messages' = Append(messages, NewMessage)
     ELSE UNCHANGED messages
  /\ result' = "ok"
  /\ UNCHANGED <<config, cur, pos, peers, peers_len>>

\* build_message()? fails, in the loop or after it.
RejectMessage ==
  /\ \/ /\ Cutting
        /\ \E hi \in pos..ToSend(CurPeer) : Batch(CurPeer, pos, hi) /\ Full(hi)
     \/ Finished /\ (peers # << >> \/ messages = << >>)
  /\ NewMessageError # "none"
  /\ result' = NewMessageError
  /\ messages' = << >>
  /\ UNCHANGED <<config, cur, pos, peers, peers_len>>

Returned == result # "building" /\ UNCHANGED vars

Next ==
  \/ RejectPeer
  \/ PushChunk
  \/ FlushAndPushChunk
  \/ Finish
  \/ RejectMessage
  \/ Returned

Spec == Init /\ [][Next]_vars

-----------------------------------------------------------------------------

Done == result # "building"

TypeOK ==
  /\ config \in Configs
  /\ cur \in 1..Len(config.peers) + 1
  /\ cur <= Len(config.peers) => pos \in 0..Len(CurPeer.allowed_ips)
  /\ cur > Len(config.peers) => pos = 0
  /\ peers \in Seq(Chunk)
  /\ peers_len \in Nat
  /\ messages \in Seq(Message)
  /\ result \in {"building", "ok"} \cup ErrorKinds

\* Every peers attribute that is built can be emitted: its entries lie back to
\* back and end within what the 16 bit length of an attribute can state,
\* although the code bounds allowed IPs, chunks and messages in three different
\* loops, each with a length that the others do not see (parsed.rs:241-263,
\* 432-454 and 457-474).  Emitting a longer one used to panic.
MessagesFit ==
  /\ Fits(config, peers)
  /\ \A m \in 1..Len(messages) : Fits(config, messages[m].peers)

\* What build_messages() returns is the configuration cut into pieces: in the
\* order of the caller, every peer opened once with its state and every allowed
\* IP in exactly one chunk, a peer that is removed in one chunk without any, the
\* device level attributes in the first message and in no other.
BuiltIsSplit == result = "ok" => IsSplitOf(config, messages)

Valid(cfg) ==
  /\ IfaceError(cfg) = "none" /\ cfg.keys_valid
  /\ \A i \in DOMAIN cfg.peers : PeerError(cfg.peers[i]) = "none"

\* The checks are spread over the loops, peer by peer and message by message,
\* and still a list is returned for exactly the configurations that are valid
\* throughout: set() sends nothing of one with a late mistake, and refuses none
\* without a mistake.
OkIffValid == Done => (result = "ok" <=> Valid(config))
=============================================================================
