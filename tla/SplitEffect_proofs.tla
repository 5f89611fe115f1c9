-------------------------- MODULE SplitEffect_proofs --------------------------
(***************************************************************************)
(* Proofs about build_messages(), for configurations of any length, any    *)
(* device, and any limit on the length of an attribute: its type           *)
(* invariant, that the messages fit and are the configuration cut into     *)
(* pieces, and what cutting it does not change.                            *)
(***************************************************************************)
EXTENDS SplitEffect, KernelDevice_proofs

-----------------------------------------------------------------------------
(* Peers, lengths and chunks.                                              *)

LEMMA LenPeers == ASSUME NEW cfg \in Configs PROVE Len(cfg.peers) \in Nat
BY TypeAssumption DEF Config

LEMMA PeerFacts ==
  ASSUME NEW cfg \in Configs, NEW i \in 1..Len(cfg.peers)
  PROVE  /\ cfg.peers[i] \in PeersOf(cfg)
         /\ cfg.peers[i] \in PeerFields
         /\ Len(cfg.peers[i].allowed_ips) \in Nat
         /\ ToSend(cfg.peers[i]) \in Nat
         /\ ToSend(cfg.peers[i]) <= Len(cfg.peers[i].allowed_ips)
<1>1. cfg.peers \in Seq(Peer)
  BY TypeAssumption DEF Config
<1>2. cfg.peers[i] \in Peer /\ i \in DOMAIN cfg.peers
  BY <1>1
<1>3. cfg.peers[i] \in PeerFields
  BY <1>2 DEF Peer
<1>4. Len(cfg.peers[i].allowed_ips) \in Nat
  BY <1>3 DEF PeerFields
<1> QED
  BY <1>2, <1>3, <1>4 DEF PeersOf, ToSend

LEMMA LimitIsInteger == MAX_NLA_VALUE_LEN \in Int
BY TypeAssumption DEF MAX_NLA_VALUE_LEN, NLA_HEADER_SIZE, NLA_ALIGNTO

LEMMA PrefixLenFacts ==
  ASSUME NEW p \in PeerFields
  PROVE  \A first \in BOOLEAN : /\ PrefixLen(p, first) \in Nat
                                /\ PrefixLen(p, first) <= PrefixLen(p, TRUE)
<1>1. AttrsLen[p.attrs] \in Nat
  BY TypeAssumption DEF PeerFields
<1> QED
  BY <1>1 DEF PrefixLen, StateLen, PUBLIC_KEY_LEN, FLAGS_LEN, NLA_HEADER_SIZE

LEMMA ChunkLenIsNat ==
  ASSUME NEW cfg \in Configs, NEW c \in Chunk, GoodChunk(cfg, c)
  PROVE  ChunkLen(cfg, c) \in Nat
<1> DEFINE p == cfg.peers[c.peer]
<1>1. p \in PeersOf(cfg) /\ p \in PeerFields /\ Len(p.allowed_ips) \in Nat
      /\ ToSend(p) \in Nat /\ ToSend(p) <= Len(p.allowed_ips)
  BY PeerFacts DEF GoodChunk
<1>2. c.lo \in 0..Len(p.allowed_ips) /\ c.hi \in c.lo..Len(p.allowed_ips)
  BY <1>1 DEF GoodChunk, Chunk
<1>3. IpsLen(p, c.lo, c.hi) \in Nat
  BY <1>1, <1>2, IpsLenAssumption
<1>4. PrefixLen(p, c.first) \in Nat
  BY <1>1, PrefixLenFacts DEF Chunk
<1> QED
  BY <1>3, <1>4 DEF ChunkLen, NLA_HEADER_SIZE

-----------------------------------------------------------------------------
(* The chunk that the loops pack next.                                     *)

\* Where the loops are within the current peer: in front of it, or between two
\* of its chunks.
CursorInPeer == Splitting => pos = 0 \/ pos < ToSend(CurPeer)

LEMMA CursorFacts ==
  ASSUME TypeOK, Splitting
  PROVE  /\ config \in Configs /\ Len(config.peers) \in Nat
         /\ cur \in 1..Len(config.peers) /\ pos \in Nat
<1>1. config \in Configs /\ cur \in 1..Len(config.peers) + 1 /\ cur <= Len(config.peers)
  BY DEF TypeOK, Splitting
<1>2. cur \in 1..Len(config.peers)
  BY <1>1, LenPeers
<1>3. pos \in 0..Len(CurPeer.allowed_ips)
  BY <1>1 DEF TypeOK
<1> QED
  BY <1>1, <1>2, <1>3, LenPeers, PeerFacts DEF CurPeer

LEMMA NextChunkFacts ==
  ASSUME TypeOK, CursorInPeer, Splitting,
         NEW hi \in pos..ToSend(CurPeer), Batch(CurPeer, pos, hi), NEW at \in Nat
  PROVE  /\ NextChunk(hi, at) \in Chunk
         /\ GoodChunk(config, NextChunk(hi, at))
         /\ ChunkLen(config, NextChunk(hi, at)) = LenOfNext(hi)
         /\ LenOfNext(hi) \in Nat
<1>1. /\ config \in Configs /\ Len(config.peers) \in Nat
      /\ cur \in 1..Len(config.peers) /\ pos \in Nat
  BY CursorFacts
<1>2. ToSend(CurPeer) \in Nat
  BY <1>1, PeerFacts DEF CurPeer
<1>3. hi \in Nat /\ pos <= hi /\ hi <= ToSend(CurPeer)
  BY <1>1, <1>2
<1>4. /\ NextChunk(hi, at) \in Chunk
      /\ NextChunk(hi, 0) \in Chunk
  BY <1>1, <1>3 DEF NextChunk, Chunk
<1>5. pos = hi => pos = 0 /\ ToSend(CurPeer) = 0
  BY <1>1, <1>2, <1>3 DEF Batch, CursorInPeer
<1>6. /\ GoodChunk(config, NextChunk(hi, at))
      /\ GoodChunk(config, NextChunk(hi, 0))
  BY <1>1, <1>3, <1>5 DEF GoodChunk, NextChunk, CurPeer
<1>7. LenOfNext(hi) \in Nat
  BY <1>1, <1>4, <1>6, ChunkLenIsNat DEF LenOfNext
<1>8. ChunkLen(config, NextChunk(hi, at)) = LenOfNext(hi)
  BY DEF ChunkLen, LenOfNext, NextChunk
<1> QED
  BY <1>4, <1>6, <1>7, <1>8

\* A batch of allowed IPs never outgrows the attribute, together with whatever
\* else is in its chunk.
LEMMA NextChunkFits ==
  ASSUME TypeOK, CursorInPeer, Splitting,
         NEW hi \in pos..ToSend(CurPeer), Batch(CurPeer, pos, hi)
  PROVE  LenOfNext(hi) <= MAX_NLA_VALUE_LEN
<1> DEFINE p == CurPeer
<1> DEFINE ips == IpsLen(p, pos, hi)
<1>1. /\ config \in Configs /\ Len(config.peers) \in Nat
      /\ cur \in 1..Len(config.peers) /\ pos \in Nat
  BY CursorFacts
<1>2. /\ p \in PeersOf(config) /\ p \in PeerFields /\ Len(p.allowed_ips) \in Nat
      /\ ToSend(p) \in Nat /\ ToSend(p) <= Len(p.allowed_ips)
  BY <1>1, PeerFacts DEF CurPeer
<1>3. hi \in Nat /\ pos <= hi /\ hi <= Len(p.allowed_ips)
  BY <1>1, <1>2
<1>4. ips \in Nat
  BY <1>1, <1>2, <1>3, IpsLenAssumption
<1>5. /\ PrefixLen(p, pos = 0) \in Nat /\ PrefixLen(p, TRUE) \in Nat
      /\ PrefixLen(p, pos = 0) <= PrefixLen(p, TRUE)
  BY <1>2, PrefixLenFacts
<1>6. PICK prefix \in Nat : prefix = PrefixLen(p, pos = 0)
  BY <1>5
<1>7. PICK whole_prefix \in Nat : whole_prefix = PrefixLen(p, TRUE)
  BY <1>5
<1>8. /\ prefix <= whole_prefix
      /\ MAX_NLA_VALUE_LEN \in Int
  BY <1>5, <1>6, <1>7, LimitIsInteger
<1>9. /\ SendsIps(p) => LenOfNext(hi) = prefix + NLA_HEADER_SIZE + ips
      /\ ~ SendsIps(p) => LenOfNext(hi) = prefix
  BY <1>4, <1>6 DEF LenOfNext, ChunkLen, NextChunk, CurPeer, NLA_HEADER_SIZE
<1> HIDE DEF p, ips
<1>10. CASE hi = pos
  <2>1. ips = 0
    BY <1>1, <1>2, <1>3, <1>10, IpsLenAssumption DEF ips
  <2>2. whole_prefix + NLA_HEADER_SIZE <= MAX_NLA_VALUE_LEN
    BY <1>1, <1>2, <1>7, FitsAssumption
  <2> QED
    BY <1>8, <1>9, <2>1, <2>2 DEF NLA_HEADER_SIZE
<1>11. CASE hi = pos + 1
  <2> DEFINE ip == IpLen(p.allowed_ips[pos + 1])
  <2>1. pos \in 0..Len(p.allowed_ips) /\ pos \in pos..Len(p.allowed_ips) - 1
    BY <1>1, <1>2, <1>3, <1>11
  <2>2. ips = IpsLen(p, pos, pos) + ip
    BY <1>1, <1>2, <1>11, <2>1, IpsLenAssumption DEF ips
  <2>3. IpsLen(p, pos, pos) = 0
    BY <1>1, <1>2, <2>1, IpsLenAssumption
  <2>4. ip \in Nat
    BY DEF IpLen, NLA_HEADER_SIZE, FLAGS_LEN
  <2>5. pos + 1 \in DOMAIN p.allowed_ips
    BY <1>2, <2>1 DEF PeerFields
  <2>6. whole_prefix + NLA_HEADER_SIZE + ip <= MAX_NLA_VALUE_LEN
    BY <1>1, <1>2, <1>7, <2>5, FitsAssumption
  <2>7. SendsIps(p)
    BY <1>1, <1>2, <1>11 DEF p, ToSend
  <2> HIDE DEF ip
  <2> QED
    BY <1>4, <1>8, <1>9, <2>2, <2>3, <2>4, <2>6, <2>7 DEF NLA_HEADER_SIZE
<1>12. CASE hi >= pos + 2
  <2>1. prefix + NLA_HEADER_SIZE + ips <= MAX_NLA_VALUE_LEN
    BY <1>1, <1>3, <1>6, <1>12 DEF Batch, p, ips
  <2>2. SendsIps(p)
    BY <1>1, <1>2, <1>12 DEF p, ToSend
  <2> QED
    BY <1>9, <2>1, <2>2
<1> QED
  BY <1>1, <1>3, <1>10, <1>11, <1>12

-----------------------------------------------------------------------------
(* The inductive invariant.                                                *)

LastOf(seq) == seq[Len(seq)]

\* A non-empty run of chunks, each right after the one in front of it.
Chain(cfg, chunks) ==
  /\ chunks # << >>
  /\ \A j \in 1..Len(chunks) : GoodChunk(cfg, chunks[j])
  /\ \A j \in 1..Len(chunks) - 1 : Follows(cfg, chunks[j], chunks[j + 1])

\* peers_len is where the next chunk would be put.
LengthInv ==
  /\ peers = << >> => peers_len = 0
  /\ peers # << >> => peers_len = LastOf(peers).at + ChunkLen(config, LastOf(peers))

\* What is behind the loops: finished messages, each a chain that the next one
\* goes on with, up to the chunks packed for the message under construction.
SplitSoFar ==
  /\ \A m \in 1..Len(messages) :
       (messages[m].device <=> m = 1) /\ Chain(config, messages[m].peers)
  /\ \A m \in 1..Len(messages) - 1 :
       Follows(config, LastOf(messages[m].peers), messages[m + 1].peers[1])
  /\ peers # << >> => Chain(config, peers)
  /\ messages # << >> =>
       /\ peers # << >>
       /\ Follows(config, LastOf(LastOf(messages).peers), peers[1])
       /\ Opens(messages[1].peers[1])
  /\ messages = << >> /\ peers # << >> => Opens(peers[1])

\* Where the loops are: right behind the last chunk that was packed.
CursorInv ==
  /\ peers = << >> => cur = 1 /\ pos = 0
  /\ peers # << >> =>
       IF pos = 0
       THEN /\ LastOf(peers).peer = cur - 1
            /\ LastOf(peers).hi = ToSend(config.peers[cur - 1])
       ELSE LastOf(peers).peer = cur /\ LastOf(peers).hi = pos

IInv ==
  /\ TypeOK
  /\ CursorInPeer
  /\ LengthInv
  /\ MessagesFit
  /\ result = "building" => SplitSoFar /\ CursorInv
  /\ BuiltIsSplit

-----------------------------------------------------------------------------
(* Lists of chunks.                                                        *)

LEMMA AppendFacts ==
  ASSUME NEW S, NEW seq \in Seq(S), NEW e \in S
  PROVE  /\ Append(seq, e) \in Seq(S) /\ Append(seq, e) # << >>
         /\ Len(seq) \in Nat /\ Len(Append(seq, e)) = Len(seq) + 1
         /\ \A i \in 1..Len(seq) : Append(seq, e)[i] = seq[i]
         /\ Append(seq, e)[Len(seq) + 1] = e
         /\ LastOf(Append(seq, e)) = e
         /\ seq = << >> => Len(seq) = 0
         /\ seq # << >> => Len(seq) \in Nat \ {0}
BY DEF LastOf

LEMMA ChainExtends ==
  ASSUME NEW cfg, NEW chunks \in Seq(Chunk), NEW c \in Chunk, GoodChunk(cfg, c),
         chunks # << >> => Chain(cfg, chunks) /\ Follows(cfg, LastOf(chunks), c)
  PROVE  Chain(cfg, Append(chunks, c))
<1> DEFINE longer == Append(chunks, c)
<1>1. /\ longer # << >> /\ Len(chunks) \in Nat /\ Len(longer) = Len(chunks) + 1
      /\ \A i \in 1..Len(chunks) : longer[i] = chunks[i]
      /\ longer[Len(chunks) + 1] = c
      /\ chunks = << >> => Len(chunks) = 0
  BY AppendFacts
<1> HIDE DEF longer
<1>2. ASSUME NEW j \in 1..Len(longer) PROVE GoodChunk(cfg, longer[j])
  <2>1. CASE j \in 1..Len(chunks)
    BY <1>1, <2>1 DEF Chain
  <2>2. CASE j = Len(chunks) + 1
    BY <1>1, <2>2
  <2> QED
    BY <1>1, <2>1, <2>2
<1>3. ASSUME NEW j \in 1..Len(longer) - 1 PROVE Follows(cfg, longer[j], longer[j + 1])
  <2>1. j \in 1..Len(chunks) /\ chunks # << >>
    BY <1>1
  <2>2. CASE j \in 1..Len(chunks) - 1
    <3>1. j + 1 \in 1..Len(chunks)
      BY <1>1, <2>2
    <3> QED
      BY <1>1, <2>1, <2>2, <3>1 DEF Chain
  <2>3. CASE j = Len(chunks)
    BY <1>1, <2>1, <2>3 DEF LastOf
  <2> QED
    BY <1>1, <2>1, <2>2, <2>3
<1> QED
  BY <1>1, <1>2, <1>3 DEF Chain, longer

LEMMA FitsExtends ==
  ASSUME NEW cfg, NEW chunks \in Seq(Chunk), NEW c \in Chunk, Fits(cfg, chunks),
         c.at = IF chunks = << >> THEN 0
                ELSE LastOf(chunks).at + ChunkLen(cfg, LastOf(chunks)),
         c.at + ChunkLen(cfg, c) <= MAX_NLA_VALUE_LEN
  PROVE  Fits(cfg, Append(chunks, c))
<1> DEFINE longer == Append(chunks, c)
<1>1. /\ longer # << >> /\ Len(chunks) \in Nat /\ Len(longer) = Len(chunks) + 1
      /\ \A i \in 1..Len(chunks) : longer[i] = chunks[i]
      /\ longer[Len(chunks) + 1] = c
      /\ chunks = << >> => Len(chunks) = 0
      /\ chunks # << >> => Len(chunks) \in Nat \ {0}
  BY AppendFacts
<1> HIDE DEF longer
<1>2. longer[1].at = 0
  <2>1. CASE chunks = << >>
    BY <1>1, <2>1
  <2>2. CASE chunks # << >>
    <3>1. 1 \in 1..Len(chunks)
      BY <1>1, <2>2
    <3> QED
      BY <1>1, <2>2, <3>1 DEF Fits
  <2> QED
    BY <2>1, <2>2
<1>3. ASSUME NEW j \in 1..Len(longer) - 1
      PROVE  longer[j + 1].at = longer[j].at + ChunkLen(cfg, longer[j])
  <2>1. j \in 1..Len(chunks) /\ chunks # << >>
    BY <1>1
  <2>2. CASE j \in 1..Len(chunks) - 1
    <3>1. j + 1 \in 1..Len(chunks)
      BY <1>1, <2>2
    <3> QED
      BY <1>1, <2>1, <2>2, <3>1 DEF Fits
  <2>3. CASE j = Len(chunks)
    BY <1>1, <2>1, <2>3 DEF LastOf
  <2> QED
    BY <1>1, <2>1, <2>2, <2>3
<1>4. longer[Len(longer)].at + ChunkLen(cfg, longer[Len(longer)]) <= MAX_NLA_VALUE_LEN
  BY <1>1
<1> QED
  BY <1>2, <1>3, <1>4 DEF Fits, longer

-----------------------------------------------------------------------------
(* Packing the next chunk, into the message under construction or a new    *)
(* one.                                                                    *)

\* The next chunk comes right after the last one that was packed.
LEMMA NextChunkFollows ==
  ASSUME IInv, Splitting, NEW hi, NEW at
  PROVE  /\ peers # << >> => Follows(config, LastOf(peers), NextChunk(hi, at))
         /\ peers = << >> => messages = << >> /\ Opens(NextChunk(hi, at))
<1>1. /\ config \in Configs /\ Len(config.peers) \in Nat
      /\ cur \in 1..Len(config.peers) /\ pos \in Nat
  BY CursorFacts DEF IInv
<1>2. SplitSoFar /\ CursorInv /\ CursorInPeer
  BY DEF IInv, Splitting
<1>3. ASSUME peers # << >>
      PROVE  Follows(config, LastOf(peers), NextChunk(hi, at))
  <2>1. CASE pos = 0
    <3>1. LastOf(peers).peer = cur - 1 /\ cur \in Int
      BY <1>1, <1>2, <1>3, <2>1 DEF CursorInv
    <3>2. cur = LastOf(peers).peer + 1
      BY <3>1
    <3>3. LastOf(peers).hi = ToSend(config.peers[LastOf(peers).peer])
      BY <1>2, <1>3, <2>1, <3>1 DEF CursorInv
    <3>4. NextChunk(hi, at).peer = cur /\ NextChunk(hi, at).first /\ NextChunk(hi, at).lo = 0
      BY <2>1 DEF NextChunk
    <3> QED
      BY <3>2, <3>3, <3>4 DEF Follows
  <2>2. CASE pos # 0
    BY <1>2, <1>3, <2>2 DEF CursorInv, CursorInPeer, Follows, NextChunk, CurPeer
  <2> QED
    BY <2>1, <2>2
<1>4. peers = << >> => messages = << >> /\ Opens(NextChunk(hi, at))
  BY <1>2 DEF SplitSoFar, CursorInv, Opens, NextChunk
<1> QED
  BY <1>3, <1>4

\* After it, the loops are right behind it.
LEMMA Advanced ==
  ASSUME IInv, Splitting, NEW hi \in pos..ToSend(CurPeer),
         Batch(CurPeer, pos, hi), Advance(hi), UNCHANGED config,
         NEW at, peers' # << >>, LastOf(peers') = NextChunk(hi, at)
  PROVE  /\ cur' \in 1..Len(config.peers) + 1
         /\ cur' <= Len(config.peers) => pos' \in 0..Len(config.peers[cur'].allowed_ips)
         /\ cur' > Len(config.peers) => pos' = 0
         /\ CursorInPeer'
         /\ CursorInv'
<1>1. /\ config \in Configs /\ Len(config.peers) \in Nat
      /\ cur \in 1..Len(config.peers) /\ pos \in Nat
  BY CursorFacts DEF IInv
<1>2. /\ ToSend(CurPeer) \in Nat /\ Len(CurPeer.allowed_ips) \in Nat
      /\ ToSend(CurPeer) <= Len(CurPeer.allowed_ips)
  BY <1>1, PeerFacts DEF CurPeer
<1>3. hi \in Nat /\ pos <= hi /\ hi <= ToSend(CurPeer)
  BY <1>1, <1>2
<1>4. LastOf(peers').peer = cur /\ LastOf(peers').hi = hi
  BY DEF NextChunk
<1>5. CASE hi = ToSend(CurPeer)
  <2>1. cur' = cur + 1 /\ pos' = 0
    BY <1>5 DEF Advance
  <2>2. cur' <= Len(config.peers) => Len(config.peers[cur'].allowed_ips) \in Nat
    BY <1>1, <2>1, PeerFacts
  <2>3. CursorInv'
    BY <1>1, <1>4, <1>5, <2>1 DEF CursorInv, CurPeer
  <2> QED
    BY <1>1, <2>1, <2>2, <2>3 DEF CursorInPeer
<1>6. CASE hi # ToSend(CurPeer)
  <2>1. cur' = cur /\ pos' = hi
    BY <1>6 DEF Advance
  <2>2. pos' # 0 /\ pos' < ToSend(CurPeer)
    BY <1>1, <1>2, <1>3, <1>6, <2>1 DEF Batch
  <2>3. CurPeer' = CurPeer
    BY <2>1 DEF CurPeer
  <2>4. CursorInPeer'
    BY <2>2, <2>3 DEF CursorInPeer
  <2>5. CursorInv'
    BY <1>4, <2>1, <2>2 DEF CursorInv
  <2>6. pos' \in 0..Len(config.peers[cur'].allowed_ips)
    BY <1>2, <1>3, <2>1 DEF CurPeer
  <2> QED
    BY <1>1, <2>1, <2>4, <2>5, <2>6
<1> QED
  BY <1>5, <1>6

LEMMA PushChunkStep == IInv /\ PushChunk => IInv'
<1> SUFFICES ASSUME IInv, PushChunk PROVE IInv'
  OBVIOUS
<1>1. PICK hi \in pos..ToSend(CurPeer) :
        /\ Batch(CurPeer, pos, hi) /\ ~ Full(hi)
        /\ peers' = Append(peers, NextChunk(hi, peers_len))
        /\ peers_len' = peers_len + LenOfNext(hi)
        /\ Advance(hi)
  BY DEF PushChunk
<1>2. Splitting /\ result = "building" /\ UNCHANGED <<config, messages, result>>
  BY DEF PushChunk, Cutting, Splitting
<1>3. /\ TypeOK /\ CursorInPeer /\ LengthInv /\ MessagesFit /\ BuiltIsSplit
      /\ SplitSoFar /\ CursorInv
  BY <1>2 DEF IInv
<1>4. /\ config \in Configs /\ peers_len \in Nat /\ peers \in Seq(Chunk)
      /\ messages \in Seq(Message) /\ MAX_NLA_VALUE_LEN \in Int
  BY <1>3, LimitIsInteger DEF TypeOK
<1> DEFINE c == NextChunk(hi, peers_len)
<1>5. /\ c \in Chunk /\ GoodChunk(config, c) /\ ChunkLen(config, c) = LenOfNext(hi)
      /\ LenOfNext(hi) \in Nat /\ LenOfNext(hi) <= MAX_NLA_VALUE_LEN
      /\ c.at = peers_len
  BY <1>1, <1>2, <1>3, <1>4, NextChunkFacts, NextChunkFits DEF NextChunk
<1>6. /\ peers # << >> => Follows(config, LastOf(peers), c)
      /\ peers = << >> => messages = << >> /\ Opens(c)
  BY <1>2, NextChunkFollows
<1> HIDE DEF c
<1>7. peers' = Append(peers, c)
  BY <1>1 DEF c
<1>8. /\ peers' \in Seq(Chunk) /\ peers' # << >> /\ LastOf(peers') = c
      /\ peers'[1] = IF peers = << >> THEN c ELSE peers[1]
  BY <1>4, <1>5, <1>7, AppendFacts
<1>9. /\ cur' \in 1..Len(config.peers) + 1
      /\ cur' <= Len(config.peers) => pos' \in 0..Len(config.peers[cur'].allowed_ips)
      /\ cur' > Len(config.peers) => pos' = 0
      /\ CursorInPeer'
      /\ CursorInv'
  BY <1>1, <1>2, <1>8, Advanced DEF c
<1>10. TypeOK'
  <2>1. peers_len' \in Nat
    BY <1>1, <1>4, <1>5
  <2>2. CurPeer' = config.peers[cur']
    BY <1>2 DEF CurPeer
  <2>3. result' \in {"building", "ok"} \cup ErrorKinds
    BY <1>2
  <2> QED
    BY <1>2, <1>4, <1>8, <1>9, <2>1, <2>2, <2>3 DEF TypeOK
<1>11. LengthInv'
  BY <1>1, <1>2, <1>5, <1>8 DEF LengthInv
<1>12. MessagesFit'
  <2>1. c.at + ChunkLen(config, c) <= MAX_NLA_VALUE_LEN
    BY <1>1, <1>3, <1>4, <1>5 DEF Full, LengthInv
  <2>2. c.at = IF peers = << >> THEN 0
               ELSE LastOf(peers).at + ChunkLen(config, LastOf(peers))
    BY <1>3, <1>5 DEF LengthInv
  <2>3. Fits(config, peers')
    BY <1>3, <1>4, <1>5, <1>7, <2>1, <2>2, FitsExtends DEF MessagesFit
  <2> QED
    BY <1>2, <1>3, <2>3 DEF MessagesFit
<1>13. SplitSoFar'
  <2>1. Chain(config, peers')
    BY <1>3, <1>4, <1>5, <1>6, <1>7, ChainExtends DEF SplitSoFar
  <2>2. messages # << >> => peers # << >> /\ peers'[1] = peers[1]
    BY <1>3, <1>8 DEF SplitSoFar
  <2>3. messages = << >> => Opens(peers'[1])
    BY <1>3, <1>6, <1>8 DEF SplitSoFar
  <2> QED
    BY <1>2, <1>3, <1>8, <2>1, <2>2, <2>3 DEF SplitSoFar
<1>14. BuiltIsSplit'
  BY <1>2 DEF BuiltIsSplit
<1> QED
  BY <1>9, <1>10, <1>11, <1>12, <1>13, <1>14 DEF IInv

-----------------------------------------------------------------------------
(* Finishing a message.                                                    *)

LEMMA MessagePushed ==
  ASSUME IInv, result = "building", peers # << >>,
         NEW msgs, msgs = Append(messages, NewMessage)
  PROVE  /\ msgs \in Seq(Message) /\ Len(msgs) \in Nat \ {0} /\ msgs # << >>
         /\ \A m \in 1..Len(msgs) : /\ msgs[m].device <=> m = 1
                                    /\ Chain(config, msgs[m].peers)
                                    /\ Fits(config, msgs[m].peers)
         /\ \A m \in 1..Len(msgs) - 1 :
              Follows(config, LastOf(msgs[m].peers), msgs[m + 1].peers[1])
         /\ Opens(msgs[1].peers[1])
         /\ LastOf(msgs).peers = peers
<1>1. TypeOK /\ MessagesFit /\ SplitSoFar
  BY DEF IInv
<1>2. NewMessage \in Message /\ messages \in Seq(Message)
  BY <1>1 DEF TypeOK, NewMessage, Message
<1>3. /\ msgs \in Seq(Message) /\ msgs # << >>
      /\ Len(messages) \in Nat /\ Len(msgs) = Len(messages) + 1
      /\ \A m \in 1..Len(messages) : msgs[m] = messages[m]
      /\ msgs[Len(messages) + 1] = NewMessage /\ LastOf(msgs) = NewMessage
      /\ messages = << >> => Len(messages) = 0
      /\ messages # << >> => Len(messages) \in Nat \ {0}
  BY <1>2, AppendFacts
<1>4. /\ NewMessage.device <=> messages = << >>
      /\ NewMessage.peers = peers
  BY DEF NewMessage
<1>5. ASSUME NEW m \in 1..Len(msgs)
      PROVE  /\ msgs[m].device <=> m = 1
             /\ Chain(config, msgs[m].peers)
             /\ Fits(config, msgs[m].peers)
  <2>1. CASE m \in 1..Len(messages)
    BY <1>1, <1>3, <2>1 DEF SplitSoFar, MessagesFit
  <2>2. CASE m = Len(messages) + 1
    BY <1>1, <1>3, <1>4, <2>2 DEF SplitSoFar, MessagesFit
  <2> QED
    BY <1>3, <2>1, <2>2
<1>6. ASSUME NEW m \in 1..Len(msgs) - 1
      PROVE  Follows(config, LastOf(msgs[m].peers), msgs[m + 1].peers[1])
  <2>1. m \in 1..Len(messages) /\ messages # << >>
    BY <1>3
  <2>2. CASE m \in 1..Len(messages) - 1
    <3>1. m + 1 \in 1..Len(messages)
      BY <1>3, <2>2
    <3> QED
      BY <1>1, <1>3, <2>1, <2>2, <3>1 DEF SplitSoFar
  <2>3. CASE m = Len(messages)
    <3>1. msgs[m] = LastOf(messages) /\ msgs[m + 1] = NewMessage
      BY <1>3, <2>1, <2>3 DEF LastOf
    <3> QED
      BY <1>1, <1>4, <2>1, <3>1 DEF SplitSoFar
  <2> QED
    BY <1>3, <2>1, <2>2, <2>3
<1>7. Opens(msgs[1].peers[1])
  <2>1. CASE messages = << >>
    BY <1>1, <1>3, <1>4, <2>1 DEF SplitSoFar
  <2>2. CASE messages # << >>
    <3>1. msgs[1] = messages[1]
      BY <1>3, <2>2
    <3> QED
      BY <1>1, <2>2, <3>1 DEF SplitSoFar
  <2> QED
    BY <2>1, <2>2
<1> QED
  BY <1>3, <1>4, <1>5, <1>6, <1>7

LEMMA FlushAndPushChunkStep == IInv /\ FlushAndPushChunk => IInv'
<1> SUFFICES ASSUME IInv, FlushAndPushChunk PROVE IInv'
  OBVIOUS
<1>1. PICK hi \in pos..ToSend(CurPeer) :
        /\ Batch(CurPeer, pos, hi) /\ Full(hi)
        /\ messages' = Append(messages, NewMessage)
        /\ peers' = << NextChunk(hi, 0) >>
        /\ peers_len' = LenOfNext(hi)
        /\ Advance(hi)
  BY DEF FlushAndPushChunk
<1>2. Splitting /\ result = "building" /\ UNCHANGED <<config, result>>
  BY DEF FlushAndPushChunk, Cutting, Splitting
<1>3. /\ TypeOK /\ CursorInPeer /\ SplitSoFar
  BY <1>2 DEF IInv
<1>4. peers # << >> /\ config \in Configs
  BY <1>1, <1>3 DEF Full, TypeOK
<1> DEFINE c == NextChunk(hi, 0)
<1>5. /\ c \in Chunk /\ GoodChunk(config, c) /\ ChunkLen(config, c) = LenOfNext(hi)
      /\ LenOfNext(hi) \in Nat /\ LenOfNext(hi) <= MAX_NLA_VALUE_LEN
      /\ c.at = 0
  BY <1>1, <1>2, <1>3, NextChunkFacts, NextChunkFits DEF NextChunk
<1>6. Follows(config, LastOf(peers), c)
  BY <1>2, <1>4, NextChunkFollows
<1> HIDE DEF c
<1>7. peers' = <<c>> /\ peers' = Append(<< >>, c) /\ << >> \in Seq(Chunk)
  BY <1>1 DEF c
<1>8. /\ peers' \in Seq(Chunk) /\ peers' # << >> /\ LastOf(peers') = c
      /\ peers'[1] = c
  BY <1>5, <1>7 DEF LastOf
<1>9. /\ messages' \in Seq(Message) /\ Len(messages') \in Nat \ {0} /\ messages' # << >>
      /\ \A m \in 1..Len(messages') : /\ messages'[m].device <=> m = 1
                                      /\ Chain(config, messages'[m].peers)
                                      /\ Fits(config, messages'[m].peers)
      /\ \A m \in 1..Len(messages') - 1 :
           Follows(config, LastOf(messages'[m].peers), messages'[m + 1].peers[1])
      /\ Opens(messages'[1].peers[1])
      /\ LastOf(messages').peers = peers
  BY <1>1, <1>2, <1>4, MessagePushed
<1>10. /\ cur' \in 1..Len(config.peers) + 1
       /\ cur' <= Len(config.peers) => pos' \in 0..Len(config.peers[cur'].allowed_ips)
       /\ cur' > Len(config.peers) => pos' = 0
       /\ CursorInPeer'
       /\ CursorInv'
  BY <1>1, <1>2, <1>8, Advanced DEF c
<1>11. TypeOK'
  BY <1>1, <1>2, <1>3, <1>5, <1>8, <1>9, <1>10 DEF TypeOK, CurPeer
<1>12. LengthInv'
  BY <1>1, <1>2, <1>5, <1>8 DEF LengthInv
<1>13. MessagesFit'
  <2>1. peers'[1].at = 0 /\ Len(peers') = 1
    BY <1>5, <1>7
  <2>2. 0 + ChunkLen(config, peers'[1]) <= MAX_NLA_VALUE_LEN
    BY <1>5, <1>8
  <2>3. Fits(config, peers')
    BY <2>1, <2>2 DEF Fits
  <2> QED
    BY <1>2, <1>9, <2>3 DEF MessagesFit
<1>14. SplitSoFar'
  <2>1. Chain(config, peers')
    BY <1>4, <1>5, <1>7, ChainExtends
  <2> QED
    BY <1>2, <1>6, <1>8, <1>9, <2>1 DEF SplitSoFar
<1>15. BuiltIsSplit'
  BY <1>2 DEF BuiltIsSplit
<1> QED
  BY <1>10, <1>11, <1>12, <1>13, <1>14, <1>15 DEF IInv

LEMMA FinishStep == IInv /\ Finish => IInv'
<1> SUFFICES ASSUME IInv, Finish PROVE IInv'
  OBVIOUS
<1>1. /\ result = "building" /\ result' = "ok" /\ cur > Len(config.peers)
      /\ UNCHANGED <<config, cur, pos, peers, peers_len>>
  BY DEF Finish, Finished
<1>2. /\ TypeOK /\ CursorInPeer /\ LengthInv /\ MessagesFit /\ SplitSoFar /\ CursorInv
  BY <1>1 DEF IInv
<1>3. config \in Configs /\ Len(config.peers) \in Nat
  BY <1>2, LenPeers DEF TypeOK
<1>4. cur = Len(config.peers) + 1 /\ pos = 0
  BY <1>1, <1>2, <1>3 DEF TypeOK
<1>5. messages' = Append(messages, NewMessage)
  BY <1>2 DEF Finish, SplitSoFar
<1>6. /\ messages' \in Seq(Message)
      /\ \A m \in 1..Len(messages') : Fits(config, messages'[m].peers)
      /\ IsSplitOf(config, messages')
  <2>1. CASE peers = << >>
    <3>1. messages = << >> /\ Len(config.peers) = 0
      BY <1>2, <1>3, <1>4, <2>1 DEF SplitSoFar, CursorInv
    <3>2. config.peers = << >>
      BY <1>3, <3>1, TypeAssumption DEF Config
    <3>3. NewMessage.device /\ NewMessage.peers = << >> /\ NewMessage \in Message
      BY <1>2, <2>1, <3>1 DEF NewMessage, Message, TypeOK
    <3>4. messages' = <<NewMessage>>
      BY <1>5, <3>1
    <3> QED
      BY <3>2, <3>3, <3>4 DEF IsSplitOf, Fits
  <2>2. CASE peers # << >>
    <3>1. /\ messages' \in Seq(Message) /\ Len(messages') \in Nat \ {0}
          /\ messages' # << >>
          /\ \A m \in 1..Len(messages') : /\ messages'[m].device <=> m = 1
                                          /\ Chain(config, messages'[m].peers)
                                          /\ Fits(config, messages'[m].peers)
          /\ \A m \in 1..Len(messages') - 1 :
               Follows(config, LastOf(messages'[m].peers), messages'[m + 1].peers[1])
          /\ Opens(messages'[1].peers[1])
          /\ LastOf(messages').peers = peers
      BY <1>1, <1>5, <2>2, MessagePushed
    <3>2. LastOf(peers).peer = cur - 1 /\ LastOf(peers).hi = ToSend(config.peers[cur - 1])
      BY <1>2, <1>4, <2>2 DEF CursorInv
    <3>3. cur - 1 = Len(config.peers)
      BY <1>3, <1>4
    <3>4. Closes(config, LastOf(peers))
      BY <3>2, <3>3 DEF Closes
    <3> QED
      BY <3>1, <3>4 DEF IsSplitOf, Chain, LastOf
  <2> QED
    BY <2>1, <2>2
<1>7. TypeOK'
  BY <1>1, <1>2, <1>6 DEF TypeOK, CurPeer
<1>8. CursorInPeer' /\ LengthInv' /\ MessagesFit' /\ BuiltIsSplit'
  BY <1>1, <1>2, <1>6 DEF CursorInPeer, Splitting, LengthInv, MessagesFit, BuiltIsSplit
<1> QED
  BY <1>1, <1>7, <1>8 DEF IInv

-----------------------------------------------------------------------------
(* The other steps, and the theorems.                                      *)

LEMMA InitInv == Init => IInv
<1> SUFFICES ASSUME Init PROVE IInv
  OBVIOUS
<1>1. /\ config \in Configs /\ Len(config.peers) \in Nat
      /\ cur = 1 /\ pos = 0 /\ peers = << >> /\ peers_len = 0
      /\ messages = << >> /\ result = "building"
  BY LenPeers DEF Init
<1>2. cur <= Len(config.peers) => Len(CurPeer.allowed_ips) \in Nat
  BY <1>1, PeerFacts DEF CurPeer
<1>3. TypeOK
  BY <1>1, <1>2 DEF TypeOK
<1>4. CursorInPeer /\ LengthInv /\ MessagesFit
  BY <1>1 DEF CursorInPeer, LengthInv, MessagesFit, Fits
<1>5. SplitSoFar /\ CursorInv /\ BuiltIsSplit
  BY <1>1 DEF SplitSoFar, CursorInv, BuiltIsSplit
<1> QED
  BY <1>3, <1>4, <1>5 DEF IInv

\* An error drops the messages, and nothing is claimed about what is left.
LEMMA RejectStep == IInv /\ (RejectPeer \/ RejectMessage) => IInv'
<1> SUFFICES ASSUME IInv, RejectPeer \/ RejectMessage PROVE IInv'
  OBVIOUS
<1>1. /\ TypeOK /\ LengthInv /\ MessagesFit
  BY DEF IInv
<1>2. /\ messages' = << >> /\ result' \in ErrorKinds
      /\ UNCHANGED <<config, cur, pos, peers, peers_len>>
  <2>1. CASE RejectPeer
    BY <2>1 DEF RejectPeer, PeerError, ErrorKinds
  <2>2. CASE RejectMessage
    BY <2>2 DEF RejectMessage, NewMessageError, MessageError, IfaceError, ErrorKinds
  <2> QED
    BY <2>1, <2>2
<1>3. result' # "building" /\ result' # "ok"
  BY <1>2 DEF ErrorKinds
<1>4. TypeOK'
  BY <1>1, <1>2 DEF TypeOK, CurPeer
<1>5. CursorInPeer' /\ LengthInv' /\ MessagesFit' /\ BuiltIsSplit'
  BY <1>1, <1>2, <1>3
     DEF CursorInPeer, Splitting, LengthInv, MessagesFit, BuiltIsSplit
<1> QED
  BY <1>3, <1>4, <1>5 DEF IInv

LEMMA StutterStep == IInv /\ UNCHANGED vars => IInv'
BY DEF IInv, vars, TypeOK, CurPeer, CursorInPeer, Splitting, LengthInv, MessagesFit,
       SplitSoFar, CursorInv, BuiltIsSplit

\* The inductive invariant holds in every state of build_messages().
THEOREM Invariance == Spec => []IInv
<1>1. IInv /\ [Next]_vars => IInv'
  <2> SUFFICES ASSUME IInv, [Next]_vars PROVE IInv'
    OBVIOUS
  <2>1. CASE RejectPeer
    BY <2>1, RejectStep
  <2>2. CASE PushChunk
    BY <2>2, PushChunkStep
  <2>3. CASE FlushAndPushChunk
    BY <2>3, FlushAndPushChunkStep
  <2>4. CASE Finish
    BY <2>4, FinishStep
  <2>5. CASE RejectMessage
    BY <2>5, RejectStep
  <2>6. CASE Returned
    BY <2>6, StutterStep DEF Returned
  <2>7. CASE UNCHANGED vars
    BY <2>7, StutterStep
  <2> QED
    BY <2>1, <2>2, <2>3, <2>4, <2>5, <2>6, <2>7 DEF Next
<1> QED
  BY InitInv, <1>1, PTL DEF Spec

\* The variables keep their types, and the cursor stays within the configuration.
THEOREM TypeCorrect == Spec => []TypeOK
<1>1. IInv => TypeOK
  BY DEF IInv
<1> QED
  BY <1>1, Invariance, PTL

\* build_messages() never builds a peers attribute that is too long to be
\* emitted, whatever the configuration and the limit, as long as one allowed IP
\* fits next to the attributes of its peer.
THEOREM AllMessagesFit == Spec => []MessagesFit
<1>1. IInv => MessagesFit
  BY DEF IInv
<1> QED
  BY <1>1, Invariance, PTL

\* What build_messages() returns is its configuration cut into pieces, nothing
\* left out, repeated or moved: the assumption SetDevice makes of its calls.
THEOREM SplitIsFaithful == Spec => []BuiltIsSplit
<1>1. IInv => BuiltIsSplit
  BY DEF IInv
<1> QED
  BY <1>1, Invariance, PTL

-----------------------------------------------------------------------------
(* What has been checked when.                                             *)

\* The peers behind the loops are valid, the device level attributes are once
\* there is a message, and an error is only returned for a mistake.
ValidSoFar ==
  /\ result \in {"building", "ok"} =>
       \A i \in 1..Len(config.peers) : i < cur => PeerError(config.peers[i]) = "none"
  /\ messages # << >> => MessageError(config, TRUE) = "none"
  /\ result = "ok" => messages # << >> /\ cur > Len(config.peers)
  /\ result \notin {"building", "ok"} => ~ Valid(config)

LEMMA ValidSoFarStep == IInv /\ ValidSoFar /\ [Next]_vars => ValidSoFar'
<1> SUFFICES ASSUME IInv, ValidSoFar, [Next]_vars PROVE ValidSoFar'
  OBVIOUS
<1>1. /\ TypeOK /\ config \in Configs /\ Len(config.peers) \in Nat
      /\ cur \in 1..Len(config.peers) + 1 /\ DOMAIN config.peers = 1..Len(config.peers)
  BY LenPeers, TypeAssumption DEF IInv, TypeOK, Config
<1>2. NewMessageError = "none" => MessageError(config, TRUE) = "none"
  <2>1. CASE messages = << >>
    <3>1. (messages = << >>) = TRUE
      BY <2>1
    <3> QED
      BY <3>1 DEF NewMessageError
  <2>2. CASE messages # << >>
    BY <2>2 DEF ValidSoFar
  <2> QED
    BY <2>1, <2>2
<1>3. ASSUME Cutting, NEW hi, Advance(hi), UNCHANGED <<config, result>>,
             messages' # << >> => MessageError(config, TRUE) = "none"
      PROVE  ValidSoFar'
  <2>1. cur' = cur \/ cur' = cur + 1
    BY <1>3 DEF Advance
  <2>2. PeerError(config.peers[cur]) = "none" /\ result = "building"
    BY <1>3 DEF Cutting, Splitting, CurPeer
  <2>3. \A i \in 1..Len(config.peers) : i < cur' => i < cur \/ i = cur
    BY <1>1, <2>1
  <2> QED
    BY <1>3, <2>2, <2>3 DEF ValidSoFar
<1>4. CASE RejectPeer
  <2>1. /\ PeerError(config.peers[cur]) # "none" /\ cur \in DOMAIN config.peers
        /\ messages' = << >> /\ config' = config
    BY <1>1, <1>4 DEF RejectPeer, Splitting, CurPeer
  <2>2. result' \notin {"building", "ok"}
    BY <1>4 DEF RejectPeer, PeerError
  <2> QED
    BY <2>1, <2>2 DEF ValidSoFar, Valid
<1>5. CASE PushChunk
  BY <1>3, <1>5 DEF PushChunk, ValidSoFar
<1>6. CASE FlushAndPushChunk
  BY <1>2, <1>3, <1>6 DEF FlushAndPushChunk
<1>7. CASE Finish
  <2>1. /\ result = "building" /\ result' = "ok" /\ cur > Len(config.peers)
        /\ UNCHANGED <<config, cur>>
    BY <1>7 DEF Finish, Finished
  <2>2. CASE peers # << >> \/ messages = << >>
    <3>1. NewMessageError = "none" /\ messages' = Append(messages, NewMessage)
      BY <1>7, <2>2 DEF Finish
    <3>2. messages \in Seq(Message) /\ NewMessage \in Message
      BY <1>1 DEF TypeOK, NewMessage, Message
    <3>3. messages' # << >>
      BY <3>1, <3>2, AppendFacts
    <3> QED
      BY <1>2, <2>1, <3>1, <3>3 DEF ValidSoFar
  <2>3. CASE ~ (peers # << >> \/ messages = << >>)
    BY <1>7, <2>1, <2>3 DEF Finish, ValidSoFar
  <2> QED
    BY <2>2, <2>3
<1>8. CASE RejectMessage
  <2>1. NewMessageError # "none" => ~ Valid(config)
    BY DEF NewMessageError, MessageError, Valid
  <2>2. /\ NewMessageError # "none" /\ result' = NewMessageError
        /\ messages' = << >> /\ config' = config
    BY <1>8 DEF RejectMessage
  <2>3. result' \notin {"building", "ok"}
    BY <2>2 DEF NewMessageError, MessageError, IfaceError
  <2> QED
    BY <2>1, <2>2, <2>3 DEF ValidSoFar
<1>9. CASE UNCHANGED vars
  BY <1>9 DEF vars, ValidSoFar
<1>10. CASE Returned
  BY <1>9, <1>10 DEF Returned
<1> QED
  BY <1>4, <1>5, <1>6, <1>7, <1>8, <1>9, <1>10 DEF Next

\* A list of messages is returned for exactly the valid configurations.
THEOREM OkExactlyIfValid == Spec => []OkIffValid
<1>1. Init => ValidSoFar
  <2> SUFFICES ASSUME Init PROVE ValidSoFar
    OBVIOUS
  <2>1. \A i \in 1..Len(config.peers) : ~ i < cur
    BY LenPeers DEF Init
  <2> QED
    BY <2>1 DEF Init, ValidSoFar
<1>2. IInv /\ ValidSoFar => OkIffValid
  <2> SUFFICES ASSUME IInv, ValidSoFar, Done PROVE result = "ok" <=> Valid(config)
    BY DEF OkIffValid
  <2>1. CASE result = "ok"
    <3>1. \A i \in DOMAIN config.peers : i \in 1..Len(config.peers) /\ i < cur
      BY <2>1, LenPeers, TypeAssumption DEF IInv, TypeOK, ValidSoFar, Config
    <3>2. MessageError(config, TRUE) = "none"
      BY <2>1 DEF ValidSoFar
    <3> QED
      BY <2>1, <3>1, <3>2 DEF ValidSoFar, Valid, MessageError, IfaceError
  <2>2. CASE result # "ok"
    BY <2>2 DEF ValidSoFar, Done
  <2> QED
    BY <2>1, <2>2
<1> QED
  BY <1>1, <1>2, ValidSoFarStep, Invariance, PTL DEF Spec

-----------------------------------------------------------------------------
(* The device.                                                             *)

\* What is not refused has keys.
LEMMA ValidIsKeyed ==
  ASSUME NEW cfg \in Configs, Valid(cfg)
  PROVE  cfg \in KeyedConfig
<1>1. cfg \in Config /\ cfg.peers \in Seq(Peer) /\ Len(cfg.peers) \in Nat
      /\ DOMAIN cfg.peers = 1..Len(cfg.peers)
  BY TypeAssumption DEF Config
<1>2. ASSUME NEW i \in 1..Len(cfg.peers) PROVE cfg.peers[i] \in KeyedPeer
  <2>1. cfg.peers[i] \in Peer
    BY <1>1
  <2>2. PeerError(cfg.peers[i]) = "none"
    BY <1>1 DEF Valid
  <2>3. cfg.peers[i].public_key \notin {"missing", "invalid"}
    BY <2>2 DEF PeerError
  <2> QED BY <2>1, <2>3 DEF KeyedPeer, Peer, PeerFields
<1> DEFINE ps == cfg.peers
<1> HIDE DEF ps
<1>3. ASSUME ps \in Seq(Peer), \A i \in 1..Len(ps) : ps[i] \in KeyedPeer
      PROVE  ps \in Seq(KeyedPeer)
  BY <1>3
<1> QED BY <1>1, <1>2, <1>3 DEF KeyedConfig, ps

\* Splitting does not show in the device the kernel ends up with, unless it cuts
\* a peer that is only to be updated: whatever the peers, the allowed IPs, the
\* flags, and the messages they are spread over.
THEOREM SplittingIsTransparent == Spec => []SplitIsTransparentElsewhere
<1>1. TypeOK /\ BuiltIsSplit /\ OkIffValid => SplitIsTransparentElsewhere
  <2> SUFFICES ASSUME TypeOK, BuiltIsSplit, OkIffValid, result = "ok",
                      ~ SplitsUpdateOnly(config, messages),
                      NEW dev \in Devices
               PROVE  ApplyMessages(dev, config, messages) = ApplyWhole(dev, config)
    BY DEF SplitIsTransparentElsewhere, SameEffect
  <2>1. config \in Configs /\ messages \in Seq(Message)
    BY DEF TypeOK
  <2>2. config \in KeyedConfig
    BY <2>1, ValidIsKeyed DEF OkIffValid, Done
  <2>3. IsSplitOf(config, messages)
    BY DEF BuiltIsSplit
  <2>4. dev \in Device
    BY DevicesAssumption
  <2> QED BY <2>1, <2>2, <2>3, <2>4, PiecesMakeTheWhole
<1> QED BY <1>1, TypeCorrect, SplitIsFaithful, OkExactlyIfValid, PTL

-----------------------------------------------------------------------------
(* Lengths.                                                                *)

\* A range of allowed IPs is at least as long as any that it starts with.
LEMMA IpsGrow ==
  ASSUME NEW cfg \in Configs, NEW p \in PeersOf(cfg), Len(p.allowed_ips) \in Nat,
         NEW lo \in 0..Len(p.allowed_ips), NEW hi \in lo..Len(p.allowed_ips),
         NEW end \in hi..Len(p.allowed_ips)
  PROVE  /\ IpsLen(p, lo, hi) \in Nat /\ IpsLen(p, lo, end) \in Nat
         /\ IpsLen(p, lo, hi) <= IpsLen(p, lo, end)
<1> DEFINE n == Len(p.allowed_ips)
           S == {k \in Nat : hi + k <= n => IpsLen(p, lo, hi) <= IpsLen(p, lo, hi + k)}
<1>1. \A j \in lo..n : IpsLen(p, lo, j) \in Nat
  BY IpsLenAssumption
<1>2. 0 \in S
  BY <1>1
<1>3. ASSUME NEW k \in Nat, k \in S PROVE k + 1 \in S
  <2>1. SUFFICES ASSUME hi + (k + 1) <= n PROVE IpsLen(p, lo, hi) <= IpsLen(p, lo, hi + (k + 1))
    OBVIOUS
  <2>2. hi + k \in lo..n - 1 /\ hi + k \in lo..n /\ hi + k <= n
    BY <2>1
  <2>3. IpsLen(p, lo, (hi + k) + 1) = IpsLen(p, lo, hi + k) + IpLen(p.allowed_ips[(hi + k) + 1])
    BY <2>2, IpsLenAssumption
  <2>4. IpLen(p.allowed_ips[(hi + k) + 1]) \in Nat
    BY DEF IpLen, NLA_HEADER_SIZE, FLAGS_LEN
  <2>5. IpsLen(p, lo, hi) <= IpsLen(p, lo, hi + k)
    BY <1>3, <2>2
  <2>6. (hi + k) + 1 = hi + (k + 1) /\ hi \in lo..n
    BY <2>2
  <2>7. IpsLen(p, lo, hi) \in Int /\ IpsLen(p, lo, hi + k) \in Int
    BY <1>1, <2>2
  <2> QED BY <2>3, <2>4, <2>5, <2>6, <2>7
<1>4. end - hi \in S
  <2>1. end - hi \in Nat
    OBVIOUS
  <2> HIDE DEF S
  <2> QED BY <1>2, <1>3, <2>1, OverIps!SetInduction
<1>5. hi + (end - hi) = end /\ end <= n /\ hi \in lo..n /\ end \in lo..n
  OBVIOUS
<1> QED BY <1>1, <1>4, <1>5

WholeChunk(cfg, i) ==
  [peer |-> i, first |-> TRUE, lo |-> 0, hi |-> ToSend(cfg.peers[i]), at |-> 0]

LengthStep(env, len, i) == len + ChunkLen(env, WholeChunk(env, i))

OverLengths == INSTANCE FoldInduction WITH op <- LengthStep

\* The length of the first n peers, had it no limit.
LenUpTo(cfg, n) == OverLengths!Fold(cfg, 0, [i \in 1..n |-> i])

LEMMA WholeLenFold ==
  ASSUME NEW cfg \in Configs
  PROVE  WholeLen(cfg) = LenUpTo(cfg, Len(cfg.peers))
<1>1. DOMAIN cfg.peers = 1..Len(cfg.peers)
  BY TypeAssumption DEF Config
<1>2. WholeLen(cfg) = OverLengths!Fold(cfg, 0, [i \in DOMAIN cfg.peers |-> i])
  BY DEF WholeLen, LengthStep, WholeChunk, FoldLeft, MapThenFoldSet, Max, OverLengths!Fold,
         OverLengths!FoldLeft, OverLengths!MapThenFoldSet, OverLengths!Max
<1> QED BY <1>1, <1>2 DEF LenUpTo

LEMMA WholeChunkLen ==
  ASSUME NEW cfg \in Configs, NEW i \in 1..Len(cfg.peers)
  PROVE  ChunkLen(cfg, WholeChunk(cfg, i)) \in Nat
<1> DEFINE c == WholeChunk(cfg, i)
<1>1. c \in Chunk /\ GoodChunk(cfg, c)
  <2>1. i \in Nat \ {0} /\ ToSend(cfg.peers[i]) \in Nat
    BY LenPeers, PeerFacts
  <2>2. c \in Chunk
    BY <2>1 DEF WholeChunk, Chunk
  <2>3. c.peer = i /\ c.lo = 0 /\ c.hi = ToSend(cfg.peers[i]) /\ c.first
    BY DEF WholeChunk
  <2> HIDE DEF c
  <2> QED BY <2>1, <2>2, <2>3 DEF GoodChunk
<1> HIDE DEF c
<1> QED BY <1>1, ChunkLenIsNat DEF c

LEMMA LenUpToNext ==
  ASSUME NEW cfg \in Configs
  PROVE  /\ LenUpTo(cfg, 0) = 0
         /\ \A n \in 1..Len(cfg.peers) :
              LenUpTo(cfg, n) = LenUpTo(cfg, n - 1) + ChunkLen(cfg, WholeChunk(cfg, n))
<1>1. LenUpTo(cfg, 0) = 0
  <2> DEFINE none == << >>
  <2>1. [i \in 1..0 |-> i] = none
    OBVIOUS
  <2>2. OverLengths!Fold(cfg, 0, none) = 0
    BY OverLengths!FoldEmpty
  <2> HIDE DEF none
  <2> QED BY <2>1, <2>2 DEF LenUpTo
<1>2. ASSUME NEW n \in 1..Len(cfg.peers)
      PROVE  LenUpTo(cfg, n) = LenUpTo(cfg, n - 1) + ChunkLen(cfg, WholeChunk(cfg, n))
  <2> DEFINE front == [i \in 1..n - 1 |-> i]
  <2>1. n \in Nat /\ n - 1 \in Nat
    BY LenPeers
  <2>2. front \in Seq(Nat) /\ Append(front, n) = [i \in 1..n |-> i]
    BY <2>1
  <2>3. OverLengths!Fold(cfg, 0, Append(front, n)) =
          LengthStep(cfg, OverLengths!Fold(cfg, 0, front), n)
    <3> DEFINE Index == Nat
    <3>1. front \in Seq(Index) /\ n \in Index
      BY <2>1, <2>2
    <3> HIDE DEF front, Index
    <3> QED BY <3>1, OverLengths!FoldAppend
  <2> QED BY <2>2, <2>3 DEF LenUpTo, LengthStep
<1> QED BY <1>1, <1>2

\* No peer makes it shorter.
LEMMA LenUpToGrows ==
  ASSUME NEW cfg \in Configs, NEW n \in 0..Len(cfg.peers)
  PROVE  /\ LenUpTo(cfg, n) \in Nat /\ WholeLen(cfg) \in Nat
         /\ LenUpTo(cfg, n) <= WholeLen(cfg)
<1> DEFINE all == Len(cfg.peers)
           S == {k \in Nat : k <= all => LenUpTo(cfg, k) \in Nat}
           T == {k \in Nat : n + k <= all => LenUpTo(cfg, n) <= LenUpTo(cfg, n + k)}
<1>1. all \in Nat
  BY LenPeers
<1>2. ASSUME NEW k \in Nat, k + 1 <= all
      PROVE  /\ LenUpTo(cfg, k + 1) = LenUpTo(cfg, k) + ChunkLen(cfg, WholeChunk(cfg, k + 1))
             /\ ChunkLen(cfg, WholeChunk(cfg, k + 1)) \in Nat
  <2>1. k + 1 \in 1..all /\ (k + 1) - 1 = k
    BY <1>1, <1>2
  <2>2. LenUpTo(cfg, k + 1) = LenUpTo(cfg, (k + 1) - 1) + ChunkLen(cfg, WholeChunk(cfg, k + 1))
    BY <2>1, LenUpToNext
  <2> QED BY <2>1, <2>2, WholeChunkLen
<1>3. Nat \subseteq S
  <2>1. 0 \in S
    BY LenUpToNext
  <2>2. ASSUME NEW k \in Nat, k \in S PROVE k + 1 \in S
    <3> HIDE DEF all
    <3> QED BY <1>1, <1>2, <2>2
  <2> HIDE DEF S
  <2> QED BY <2>1, <2>2, OverIps!SetInduction
<1>4. \A k \in 0..all : LenUpTo(cfg, k) \in Nat
  BY <1>1, <1>3
<1>5. Nat \subseteq T
  <2>1. 0 \in T
    BY <1>1, <1>4
  <2>2. ASSUME NEW k \in Nat, k \in T PROVE k + 1 \in T
    <3>1. SUFFICES ASSUME n + (k + 1) <= all PROVE LenUpTo(cfg, n) <= LenUpTo(cfg, n + (k + 1))
      OBVIOUS
    <3>2. n + k \in Nat /\ (n + k) + 1 <= all /\ n + k \in 0..all /\ (n + k) + 1 = n + (k + 1)
      BY <1>1, <3>1
    <3>3. LenUpTo(cfg, n) <= LenUpTo(cfg, n + k) /\ LenUpTo(cfg, n) \in Nat
          /\ LenUpTo(cfg, n + k) \in Nat
      BY <1>1, <1>4, <2>2, <3>2
    <3> DEFINE more == ChunkLen(cfg, WholeChunk(cfg, (n + k) + 1))
    <3>4. LenUpTo(cfg, (n + k) + 1) = LenUpTo(cfg, n + k) + more /\ more \in Nat
      BY <1>2, <3>2
    <3> HIDE DEF more
    <3> QED BY <3>2, <3>3, <3>4
  <2> HIDE DEF T
  <2> QED BY <2>1, <2>2, OverIps!SetInduction
<1>6. all - n \in Nat /\ n + (all - n) = all
  BY <1>1
<1>7. LenUpTo(cfg, n) <= LenUpTo(cfg, all)
  <2>1. all - n \in T
    <3> HIDE DEF T, all
    <3> QED BY <1>5, <1>6
  <2>2. n + (all - n) <= all => LenUpTo(cfg, n) <= LenUpTo(cfg, n + (all - n))
    BY <2>1
  <2> HIDE DEF all
  <2> QED BY <1>1, <1>6, <2>2
<1> QED BY <1>1, <1>4, <1>7, WholeLenFold
-----------------------------------------------------------------------------
(* Nothing is cut that need not be cut.                                    *)

\* The least that another chunk of the current peer takes.
RestLen(p, lo) == PrefixLen(p, FALSE) + NLA_HEADER_SIZE + IpLen(p.allowed_ips[lo + 1])

\* As long as no message is finished, what is packed is a whole number of peers,
\* or the last of them has been cut: then the configuration is too long for one
\* message, and the rest of the peer will not fit into this one.
GreedyInv ==
  /\ result = "building" =>
       /\ messages # << >> => WholeLen(config) > MAX_NLA_VALUE_LEN
       /\ messages = << >> /\ pos = 0 => peers_len = LenUpTo(config, cur - 1)
       /\ messages = << >> /\ pos # 0 =>
            /\ WholeLen(config) > MAX_NLA_VALUE_LEN
            /\ peers_len + RestLen(CurPeer, pos) > MAX_NLA_VALUE_LEN
  /\ OneMessageIffFits

\* The lengths of the current peer.
LEMMA CurPeerLens ==
  ASSUME TypeOK, CursorInPeer, Splitting
  PROVE  LET p == CurPeer
         IN  /\ config \in Configs /\ cur \in 1..Len(config.peers)
             /\ cur - 1 \in 0..Len(config.peers) /\ Len(config.peers) \in Nat
             /\ pos \in Nat /\ p \in PeersOf(config)
             /\ ToSend(p) \in Nat /\ Len(p.allowed_ips) \in Nat
             /\ ToSend(p) <= Len(p.allowed_ips)
             /\ PrefixLen(p, TRUE) \in Nat /\ PrefixLen(p, FALSE) \in Nat
             /\ MAX_NLA_VALUE_LEN \in Nat
             /\ LenUpTo(config, cur) =
                  LenUpTo(config, cur - 1) + ChunkLen(config, WholeChunk(config, cur))
             /\ LenUpTo(config, cur) <= WholeLen(config)
             /\ LenUpTo(config, cur - 1) \in Nat /\ WholeLen(config) \in Nat
             /\ ChunkLen(config, WholeChunk(config, cur)) \in Nat
             /\ peers_len \in Nat
<1>1. /\ config \in Configs /\ Len(config.peers) \in Nat
      /\ cur \in 1..Len(config.peers) /\ pos \in Nat
  BY CursorFacts
<1>2. cur - 1 \in 0..Len(config.peers) /\ cur \in 0..Len(config.peers)
  BY <1>1
<1>3. CurPeer \in PeerFields /\ CurPeer \in PeersOf(config)
      /\ ToSend(CurPeer) \in Nat /\ Len(CurPeer.allowed_ips) \in Nat
      /\ ToSend(CurPeer) <= Len(CurPeer.allowed_ips)
  BY <1>1, PeerFacts DEF CurPeer
<1>4. PrefixLen(CurPeer, TRUE) \in Nat /\ PrefixLen(CurPeer, FALSE) \in Nat
  BY <1>3, PrefixLenFacts
<1>5. /\ LenUpTo(config, cur) =
           LenUpTo(config, cur - 1) + ChunkLen(config, WholeChunk(config, cur))
      /\ ChunkLen(config, WholeChunk(config, cur)) \in Nat
  BY <1>1, LenUpToNext, WholeChunkLen
<1>6. /\ LenUpTo(config, cur) <= WholeLen(config) /\ WholeLen(config) \in Nat
      /\ LenUpTo(config, cur - 1) \in Nat
  BY <1>1, <1>2, LenUpToGrows
<1>7. peers_len \in Nat /\ MAX_NLA_VALUE_LEN \in Nat
  BY TypeAssumption DEF TypeOK
<1> QED BY <1>1, <1>2, <1>3, <1>4, <1>5, <1>6, <1>7

\* A first chunk is the whole peer, or the peer is too long for any message.
LEMMA FirstChunkLen ==
  ASSUME TypeOK, CursorInPeer, Splitting, pos = 0,
         NEW hi \in 0..ToSend(CurPeer), Batch(CurPeer, 0, hi)
  PROVE  LET whole == ChunkLen(config, WholeChunk(config, cur))
         IN  /\ LenOfNext(hi) \in Nat /\ LenOfNext(hi) <= whole
             /\ hi = ToSend(CurPeer) => LenOfNext(hi) = whole
             /\ hi # ToSend(CurPeer) =>
                  /\ whole > MAX_NLA_VALUE_LEN
                  /\ LenOfNext(hi) + RestLen(CurPeer, hi) > MAX_NLA_VALUE_LEN
                  /\ RestLen(CurPeer, hi) \in Nat
<1> DEFINE p == CurPeer
           end == ToSend(p)
           prefix == PrefixLen(p, TRUE)
           ips == IpsLen(p, 0, hi)
           all == IpsLen(p, 0, end)
           whole == ChunkLen(config, WholeChunk(config, cur))
<1>1. /\ config \in Configs /\ p \in PeersOf(config) /\ Len(p.allowed_ips) \in Nat
      /\ end \in Nat /\ end <= Len(p.allowed_ips) /\ hi \in Nat /\ hi <= end
      /\ prefix \in Nat /\ PrefixLen(p, FALSE) \in Nat /\ MAX_NLA_VALUE_LEN \in Nat
  <2>1. /\ config \in Configs /\ p \in PeersOf(config) /\ Len(p.allowed_ips) \in Nat
        /\ end \in Nat /\ end <= Len(p.allowed_ips)
        /\ prefix \in Nat /\ PrefixLen(p, FALSE) \in Nat /\ MAX_NLA_VALUE_LEN \in Nat
    BY CurPeerLens
  <2>2. hi \in 0..end
    OBVIOUS
  <2> HIDE DEF end
  <2>3. hi \in Nat /\ hi <= end
    BY <2>1, <2>2
  <2> QED BY <2>1, <2>3
<1>2. ips \in Nat /\ all \in Nat /\ ips <= all
  <2>1. 0 \in 0..Len(p.allowed_ips) /\ hi \in 0..Len(p.allowed_ips)
        /\ end \in hi..Len(p.allowed_ips)
    BY <1>1
  <2> HIDE DEF p, end
  <2> QED BY <1>1, <2>1, IpsGrow
<1>3. /\ LenOfNext(hi) = prefix + (IF SendsIps(p) THEN NLA_HEADER_SIZE + ips ELSE 0)
      /\ whole = prefix + (IF SendsIps(p) THEN NLA_HEADER_SIZE + all ELSE 0)
  BY DEF LenOfNext, ChunkLen, NextChunk, WholeChunk, CurPeer
<1>4. hi # end =>
        /\ SendsIps(p)
        /\ prefix + NLA_HEADER_SIZE + IpsLen(p, 0, hi + 1) > MAX_NLA_VALUE_LEN
        /\ IpsLen(p, 0, hi + 1) \in Nat /\ IpsLen(p, 0, hi + 1) <= all
        /\ IpsLen(p, 0, hi + 1) = ips + IpLen(p.allowed_ips[hi + 1])
        /\ IpLen(p.allowed_ips[hi + 1]) \in Nat
  <2> SUFFICES ASSUME hi # end
               PROVE  /\ SendsIps(p)
                      /\ prefix + NLA_HEADER_SIZE + IpsLen(p, 0, hi + 1) > MAX_NLA_VALUE_LEN
                      /\ IpsLen(p, 0, hi + 1) \in Nat /\ IpsLen(p, 0, hi + 1) <= all
                      /\ IpsLen(p, 0, hi + 1) = ips + IpLen(p.allowed_ips[hi + 1])
                      /\ IpLen(p.allowed_ips[hi + 1]) \in Nat
    OBVIOUS
  <2>1. SendsIps(p) /\ hi < end
    BY <1>1 DEF ToSend
  <2>2. prefix + NLA_HEADER_SIZE + IpsLen(p, 0, hi + 1) > MAX_NLA_VALUE_LEN
    <3>1. (0 = 0) = TRUE
      OBVIOUS
    <3> QED BY <2>1, <3>1 DEF Batch
  <2>3. 0 \in 0..Len(p.allowed_ips) /\ hi + 1 \in 0..Len(p.allowed_ips)
        /\ end \in hi + 1..Len(p.allowed_ips) /\ hi \in 0..Len(p.allowed_ips) - 1
    BY <1>1, <2>1
  <2>4. IpsLen(p, 0, hi + 1) \in Nat /\ IpsLen(p, 0, hi + 1) <= all
    <3> HIDE DEF p, end
    <3> QED BY <1>1, <2>3, IpsGrow
  <2>5. IpsLen(p, 0, hi + 1) = ips + IpLen(p.allowed_ips[hi + 1])
    BY <1>1, <2>3, IpsLenAssumption
  <2>6. IpLen(p.allowed_ips[hi + 1]) \in Nat
    BY DEF IpLen, NLA_HEADER_SIZE, FLAGS_LEN
  <2> QED BY <2>1, <2>2, <2>4, <2>5, <2>6
<1> DEFINE rest == RestLen(p, hi)
           short == PrefixLen(p, FALSE)
           next == IpsLen(p, 0, hi + 1)
           one == IpLen(p.allowed_ips[hi + 1])
<1>5. rest = short + NLA_HEADER_SIZE + one
  BY DEF RestLen
<1> HIDE DEF rest, short, next, one, whole, prefix, ips, all, end
<1>6. LenOfNext(hi) \in Nat /\ LenOfNext(hi) <= whole
  BY <1>1, <1>2, <1>3 DEF NLA_HEADER_SIZE
<1>7. ASSUME hi = end PROVE LenOfNext(hi) = whole
  <2>1. ips = all
    BY <1>7 DEF ips, all
  <2> QED BY <1>3, <2>1
<1>8. ASSUME hi # end
      PROVE  /\ whole > MAX_NLA_VALUE_LEN /\ LenOfNext(hi) + rest > MAX_NLA_VALUE_LEN
             /\ rest \in Nat
  <2>1. /\ prefix + NLA_HEADER_SIZE + next > MAX_NLA_VALUE_LEN /\ next \in Nat
        /\ next <= all /\ next = ips + one /\ one \in Nat
        /\ LenOfNext(hi) = prefix + (NLA_HEADER_SIZE + ips)
        /\ whole = prefix + (NLA_HEADER_SIZE + all) /\ short \in Nat
    BY <1>1, <1>3, <1>4, <1>8 DEF next, one, short
  <2> QED BY <1>1, <1>2, <1>5, <2>1 DEF NLA_HEADER_SIZE
<1> QED BY <1>6, <1>7, <1>8 DEF whole, rest, end

\* Any further chunk takes at least what RestLen says.
LEMMA FurtherChunkLen ==
  ASSUME TypeOK, CursorInPeer, Splitting, pos # 0,
         NEW hi \in pos..ToSend(CurPeer), Batch(CurPeer, pos, hi)
  PROVE  LenOfNext(hi) \in Nat /\ LenOfNext(hi) >= RestLen(CurPeer, pos)
         /\ RestLen(CurPeer, pos) \in Nat
<1> DEFINE p == CurPeer
           one == IpLen(p.allowed_ips[pos + 1])
           ips == IpsLen(p, pos, hi)
           short == PrefixLen(p, FALSE)
<1>1. /\ config \in Configs /\ p \in PeersOf(config) /\ Len(p.allowed_ips) \in Nat
      /\ pos \in Nat /\ ToSend(p) \in Nat /\ ToSend(p) <= Len(p.allowed_ips)
      /\ short \in Nat
  BY CurPeerLens
<1>2. /\ hi \in Nat /\ pos < hi /\ hi <= ToSend(p) /\ SendsIps(p)
  BY <1>1 DEF Batch, CursorInPeer, ToSend
<1>3. /\ pos \in 0..Len(p.allowed_ips) /\ pos + 1 \in pos..Len(p.allowed_ips)
      /\ hi \in pos + 1..Len(p.allowed_ips) /\ pos \in pos..Len(p.allowed_ips) - 1
  BY <1>1, <1>2
<1>4. IpsLen(p, pos, pos + 1) <= ips /\ IpsLen(p, pos, pos + 1) \in Nat /\ ips \in Nat
  <2> HIDE DEF p
  <2> QED BY <1>1, <1>3, IpsGrow
<1>5. IpsLen(p, pos, pos + 1) = 0 + one /\ one \in Nat
  <2>1. IpsLen(p, pos, pos) = 0 /\ IpsLen(p, pos, pos + 1) = IpsLen(p, pos, pos) + one
    BY <1>1, <1>3, IpsLenAssumption
  <2>2. one \in Nat
    BY DEF IpLen, NLA_HEADER_SIZE, FLAGS_LEN
  <2> QED BY <2>1, <2>2
<1>6. LenOfNext(hi) = short + (NLA_HEADER_SIZE + ips)
  <2>1. (pos = 0) = FALSE
    OBVIOUS
  <2> QED BY <1>2, <2>1 DEF LenOfNext, ChunkLen, NextChunk, CurPeer
<1>7. RestLen(p, pos) = short + NLA_HEADER_SIZE + one
  BY DEF RestLen
<1> HIDE DEF p, one, ips, short
<1>8. LenOfNext(hi) \in Nat /\ LenOfNext(hi) >= RestLen(p, pos) /\ RestLen(p, pos) \in Nat
  BY <1>1, <1>4, <1>5, <1>6, <1>7 DEF NLA_HEADER_SIZE
<1> QED BY <1>8 DEF p
LEMMA InitGreedy == Init => GreedyInv
<1> SUFFICES ASSUME Init PROVE GreedyInv
  OBVIOUS
<1>1. /\ messages = << >> /\ pos = 0 /\ cur - 1 = 0 /\ peers_len = 0
      /\ result = "building" /\ config \in Configs
  BY DEF Init
<1> QED BY <1>1, LenUpToNext DEF GreedyInv, OneMessageIffFits

LEMMA PushChunkGreedy == IInv /\ GreedyInv /\ PushChunk => GreedyInv'
<1> SUFFICES ASSUME IInv, GreedyInv, PushChunk PROVE GreedyInv'
  OBVIOUS
<1>1. PICK hi \in pos..ToSend(CurPeer) :
        /\ Batch(CurPeer, pos, hi) /\ ~ Full(hi)
        /\ peers' = Append(peers, NextChunk(hi, peers_len))
        /\ peers_len' = peers_len + LenOfNext(hi)
        /\ Advance(hi)
  BY DEF PushChunk
<1>2. /\ Splitting /\ result = "building" /\ UNCHANGED <<config, messages, result>>
      /\ TypeOK /\ CursorInPeer
  BY DEF PushChunk, Cutting, Splitting, IInv
<1> DEFINE p == CurPeer
           whole == ChunkLen(config, WholeChunk(config, cur))
           before == LenUpTo(config, cur - 1)
           next == LenOfNext(hi)
<1>3. /\ config \in Configs /\ cur \in 1..Len(config.peers) /\ Len(config.peers) \in Nat
      /\ MAX_NLA_VALUE_LEN \in Nat /\ WholeLen(config) \in Nat
      /\ LenUpTo(config, cur) = before + whole /\ LenUpTo(config, cur) <= WholeLen(config)
      /\ before \in Nat /\ whole \in Nat /\ peers_len \in Nat /\ pos \in Nat
      /\ ToSend(p) \in Nat
  BY <1>2, CurPeerLens
<1>4. OneMessageIffFits'
  BY <1>2 DEF OneMessageIffFits
<1>5. CASE messages # << >>
  BY <1>2, <1>4, <1>5 DEF GreedyInv
<1>6. CASE messages = << >> /\ pos # 0
  <2>1. next \in Nat /\ next >= RestLen(p, pos) /\ RestLen(p, pos) \in Nat
    BY <1>1, <1>2, <1>6, FurtherChunkLen
  <2>2. peers_len + RestLen(p, pos) > MAX_NLA_VALUE_LEN
    BY <1>2, <1>6 DEF GreedyInv
  <2>3. peers # << >>
    BY <1>2, <1>6 DEF IInv, CursorInv
  <2>4. peers_len + next > MAX_NLA_VALUE_LEN
    <3> HIDE DEF next, p
    <3> QED BY <1>3, <2>1, <2>2
  <2> QED BY <1>1, <2>3, <2>4 DEF Full
<1>7. CASE messages = << >> /\ pos = 0
  <2>1. hi \in 0..ToSend(p) /\ Batch(p, 0, hi)
    BY <1>1, <1>7
  <2>2. /\ next \in Nat
        /\ hi = ToSend(p) => next = whole
        /\ hi # ToSend(p) => /\ whole > MAX_NLA_VALUE_LEN
                             /\ next + RestLen(p, hi) > MAX_NLA_VALUE_LEN
                             /\ RestLen(p, hi) \in Nat
    BY <1>2, <1>7, <2>1, FirstChunkLen
  <2>3. peers_len = before
    BY <1>2, <1>7 DEF GreedyInv
  <2>4. CASE hi = ToSend(p)
    <3>1. cur' = cur + 1 /\ pos' = 0
      BY <1>1, <2>4 DEF Advance
    <3>2. peers_len' = LenUpTo(config, cur) /\ cur' - 1 = cur
      BY <1>1, <1>3, <2>2, <2>3, <2>4, <3>1
    <3> QED BY <1>2, <1>4, <1>7, <3>1, <3>2 DEF GreedyInv
  <2>5. CASE hi # ToSend(p)
    <3>1. cur' = cur /\ pos' = hi /\ hi # 0
      BY <1>1, <1>3, <1>7, <2>1, <2>5 DEF Advance, Batch
    <3>2. CurPeer' = p
      BY <1>2, <3>1 DEF CurPeer
    <3>3. WholeLen(config) > MAX_NLA_VALUE_LEN
      <4> HIDE DEF whole, before
      <4> QED BY <1>3, <2>2, <2>5
    <3>4. peers_len' + RestLen(p, hi) > MAX_NLA_VALUE_LEN
      <4> DEFINE rest == RestLen(p, hi)
      <4>1. /\ next + rest > MAX_NLA_VALUE_LEN /\ rest \in Nat
            /\ peers_len' = peers_len + next
        BY <1>1, <2>2, <2>5
      <4> HIDE DEF rest, next
      <4>2. peers_len' + rest > MAX_NLA_VALUE_LEN
        BY <1>3, <2>2, <4>1
      <4> QED BY <4>2 DEF rest
    <3> QED BY <1>2, <1>4, <1>7, <3>1, <3>2, <3>3, <3>4 DEF GreedyInv
  <2> QED BY <2>4, <2>5
<1> QED BY <1>5, <1>6, <1>7

\* A message is only finished early when the rest would not have fitted.
LEMMA FlushGreedy == IInv /\ GreedyInv /\ FlushAndPushChunk => GreedyInv'
<1> SUFFICES ASSUME IInv, GreedyInv, FlushAndPushChunk PROVE GreedyInv'
  OBVIOUS
<1>1. PICK hi \in pos..ToSend(CurPeer) :
        /\ Batch(CurPeer, pos, hi) /\ Full(hi)
        /\ messages' = Append(messages, NewMessage)
  BY DEF FlushAndPushChunk
<1>2. /\ Splitting /\ result = "building" /\ UNCHANGED <<config, result>>
      /\ TypeOK /\ CursorInPeer
  BY DEF FlushAndPushChunk, Cutting, Splitting, IInv
<1>3. messages' # << >>
  <2>1. messages \in Seq(Message)
    BY <1>2 DEF TypeOK
  <2> QED BY <1>1, <2>1
<1>4. OneMessageIffFits'
  BY <1>2 DEF OneMessageIffFits
<1>5. WholeLen(config) > MAX_NLA_VALUE_LEN
  <2>1. CASE messages # << >> \/ pos # 0
    BY <1>2, <2>1 DEF GreedyInv
  <2>2. CASE messages = << >> /\ pos = 0
    <3> DEFINE whole == ChunkLen(config, WholeChunk(config, cur))
               before == LenUpTo(config, cur - 1)
               next == LenOfNext(hi)
    <3>1. /\ MAX_NLA_VALUE_LEN \in Nat /\ WholeLen(config) \in Nat
          /\ LenUpTo(config, cur) = before + whole /\ LenUpTo(config, cur) <= WholeLen(config)
          /\ before \in Nat /\ whole \in Nat
      BY <1>2, CurPeerLens
    <3>2. next \in Nat /\ next <= whole
      BY <1>1, <1>2, <2>2, FirstChunkLen
    <3>3. peers_len = before /\ peers_len + next > MAX_NLA_VALUE_LEN
      BY <1>1, <1>2, <2>2 DEF GreedyInv, Full
    <3> HIDE DEF whole, before, next
    <3> QED BY <3>1, <3>2, <3>3
  <2> QED BY <2>1, <2>2
<1> QED BY <1>2, <1>3, <1>4, <1>5 DEF GreedyInv

LEMMA FinishGreedy == IInv /\ GreedyInv /\ Finish => GreedyInv'
<1> SUFFICES ASSUME IInv, GreedyInv, Finish PROVE GreedyInv'
  OBVIOUS
<1>1. /\ result = "building" /\ result' = "ok" /\ cur > Len(config.peers)
      /\ UNCHANGED <<config, peers, peers_len>>
      /\ TypeOK /\ LengthInv /\ MessagesFit /\ SplitSoFar
  BY DEF Finish, Finished, IInv
<1>2. /\ config \in Configs /\ Len(config.peers) \in Nat /\ messages \in Seq(Message)
      /\ cur - 1 = Len(config.peers) /\ pos = 0 /\ peers_len \in Nat
      /\ MAX_NLA_VALUE_LEN \in Nat /\ WholeLen(config) \in Nat
  <2>1. config \in Configs /\ Len(config.peers) \in Nat /\ cur \in 1..Len(config.peers) + 1
    BY <1>1, LenPeers DEF TypeOK
  <2>2. Len(config.peers) \in 0..Len(config.peers)
    BY <2>1
  <2>3. WholeLen(config) \in Nat
    BY <2>1, <2>2, LenUpToGrows
  <2> QED BY <1>1, <2>1, <2>3, TypeAssumption DEF TypeOK
<1>3. Len(messages') = 1 <=> WholeLen(config) <= MAX_NLA_VALUE_LEN
  <2>1. CASE messages # << >>
    <3>1. messages' = Append(messages, NewMessage)
      BY <1>1, <2>1 DEF Finish, SplitSoFar
    <3>2. Len(messages') # 1
      BY <1>2, <2>1, <3>1
    <3>3. WholeLen(config) > MAX_NLA_VALUE_LEN
      BY <1>1, <2>1 DEF GreedyInv
    <3> QED BY <1>2, <3>2, <3>3
  <2>2. CASE messages = << >>
    <3>1. messages' = Append(messages, NewMessage)
      BY <2>2 DEF Finish
    <3>2. Len(messages') = 1
      BY <1>2, <2>2, <3>1
    <3>3. peers_len = WholeLen(config)
      BY <1>1, <1>2, <2>2, WholeLenFold DEF GreedyInv
    <3>4. peers_len <= MAX_NLA_VALUE_LEN
      BY <1>1, <1>2 DEF LengthInv, MessagesFit, Fits, LastOf
    <3> QED BY <3>2, <3>3, <3>4
  <2> QED BY <2>1, <2>2
<1> QED BY <1>1, <1>3 DEF GreedyInv, OneMessageIffFits

LEMMA GreedyHolds == Spec => []GreedyInv
<1>1. IInv /\ GreedyInv /\ [Next]_vars => GreedyInv'
  <2> SUFFICES ASSUME IInv, GreedyInv, [Next]_vars PROVE GreedyInv'
    OBVIOUS
  <2>1. CASE RejectPeer \/ RejectMessage
    <3>1. result' \notin {"building", "ok"}
      <4>1. CASE RejectPeer
        BY <4>1 DEF RejectPeer, PeerError
      <4>2. CASE RejectMessage
        BY <4>2 DEF RejectMessage, NewMessageError, MessageError, IfaceError
      <4> QED BY <2>1, <4>1, <4>2
    <3> QED BY <3>1 DEF GreedyInv, OneMessageIffFits
  <2>2. CASE PushChunk
    BY <2>2, PushChunkGreedy
  <2>3. CASE FlushAndPushChunk
    BY <2>3, FlushGreedy
  <2>4. CASE Finish
    BY <2>4, FinishGreedy
  <2>5. CASE Returned \/ UNCHANGED vars
    BY <2>5 DEF Returned, vars, GreedyInv, OneMessageIffFits, CurPeer
  <2> QED BY <2>1, <2>2, <2>3, <2>4, <2>5 DEF Next
<1> QED BY <1>1, InitGreedy, Invariance, PTL DEF Spec

\* A configuration that fits into one message is sent as one, and one that does
\* not fit never is: neither loop cuts a peer, or finishes a message, before the
\* limit, and neither runs past it.
THEOREM OneMessageExactlyIfFits == Spec => []OneMessageIffFits
<1>1. GreedyInv => OneMessageIffFits
  BY DEF GreedyInv
<1> QED BY <1>1, GreedyHolds, PTL
===============================================================================
