------------------------- MODULE KernelDevice_proofs -------------------------
(***************************************************************************)
(* What set() makes of a device when it is given the peers of a device in  *)
(* full, by induction over the allowed IPs of a peer and over the peers of *)
(* a configuration.                                                        *)
(***************************************************************************)
EXTENDS KernelDevice, SequenceTheorems, TLAPS

IpStep(key, dev, ip) == SetIp(dev, key, ip)
PeerStep(env, dev, p) == SetPeer(dev, p, TRUE, 0, Len(p.allowed_ips))

OverIps == INSTANCE FoldInduction WITH op <- IpStep
OverPeers == INSTANCE FoldInduction WITH op <- PeerStep

LEMMA SetIpsFold ==
  \A dev, p, lo, hi :
    SetIps(dev, p, lo, hi) = OverIps!Fold(p.public_key, dev, SubSeq(p.allowed_ips, lo + 1, hi))
BY DEF SetIps, IpStep, FoldLeft, MapThenFoldSet, Max, OverIps!Fold,
       OverIps!FoldLeft, OverIps!MapThenFoldSet, OverIps!Max

LEMMA ApplyWholeFold ==
  \A dev, cfg :
    ApplyWhole(dev, cfg) =
      OverPeers!Fold(0, IF cfg.replace_peers THEN NoPeers ELSE dev, cfg.peers)
BY DEF ApplyWhole, PeerStep, FoldLeft, MapThenFoldSet, Max, OverPeers!Fold,
       OverPeers!FoldLeft, OverPeers!MapThenFoldSet, OverPeers!Max

-----------------------------------------------------------------------------

\* Devices are the same that have the same peers and owners.
LEMMA SameDevice ==
  ASSUME NEW dev \in Device, NEW other \in Device,
         \A key \in Keys : dev.peers[key] = other.peers[key],
         \A ip \in Ips : dev.owner[ip] = other.owner[ip]
  PROVE  dev = other
<1>1. dev.peers = other.peers /\ dev.owner = other.owner
  BY DEF Device
<1> QED BY <1>1 DEF Device

LEMMA NoPeersIsDevice == NoPeers \in Device
BY DEF NoPeers, Device

AddedIps == {ip \in AllowedIp : "RemoveMe" \notin ip.flags}

\* The last to be given an allowed IP has it.
LEMMA AddIps ==
  ASSUME NEW dev \in Device, NEW key \in Keys, NEW ips \in Seq(AddedIps)
  PROVE  LET given == OverIps!Fold(key, dev, ips)
         IN  /\ given \in Device /\ given.peers = dev.peers
             /\ \A ip \in Ips :
                  given.owner[ip] = IF \E i \in DOMAIN ips : ips[i].ip = ip
                                    THEN key ELSE dev.owner[ip]
<1> DEFINE Given(d, s) ==
             /\ d \in Device /\ d.peers = dev.peers
             /\ \A ip \in Ips :
                  d.owner[ip] = IF \E i \in DOMAIN s : s[i].ip = ip THEN key ELSE dev.owner[ip]
           Rel == {r \in Device \X Seq(AddedIps) : Given(r[1], r[2])}
<1>1. <<dev, << >>>> \in Rel
  <2> DEFINE none == << >>
  <2>1. none \in Seq(AddedIps) /\ DOMAIN none = {}
    OBVIOUS
  <2> HIDE DEF none
  <2>2. Given(dev, none)
    BY <2>1
  <2>3. <<dev, none>> \in Rel
    BY <2>1, <2>2
  <2> QED BY <2>3 DEF none
<1>2. ASSUME NEW d, NEW s \in Seq(AddedIps), NEW ip \in AddedIps, <<d, s>> \in Rel
      PROVE  <<IpStep(key, d, ip), Append(s, ip)>> \in Rel
  <2>1. Given(d, s)
    BY <1>2
  <2> DEFINE next == [d EXCEPT !.owner[ip.ip] = key]
  <2>2. IpStep(key, d, ip) = next
    BY DEF IpStep, SetIp, AddedIps
  <2>3. ip.ip \in Ips
    BY DEF AddedIps, AllowedIp
  <2>4. /\ next \in Device /\ next.peers = dev.peers
        /\ \A x \in Ips : next.owner[x] = IF x = ip.ip THEN key ELSE d.owner[x]
    BY <2>1, <2>3 DEF Device
  <2>5. /\ Append(s, ip) \in Seq(AddedIps) /\ DOMAIN Append(s, ip) = 1..Len(s) + 1
        /\ DOMAIN s = 1..Len(s) /\ Len(s) \in Nat
        /\ \A i \in 1..Len(s) : Append(s, ip)[i] = s[i]
        /\ Append(s, ip)[Len(s) + 1] = ip
    BY AppendProperties, LenProperties
  <2> DEFINE longer == Append(s, ip)
  <2> HIDE DEF next, longer
  <2>6. ASSUME NEW x \in Ips
        PROVE  (\E i \in DOMAIN longer : longer[i].ip = x)
                 <=> x = ip.ip \/ \E i \in DOMAIN s : s[i].ip = x
    <3>1. /\ DOMAIN longer = 1..Len(s) + 1 /\ DOMAIN s = 1..Len(s) /\ Len(s) \in Nat
          /\ \A i \in 1..Len(s) : longer[i] = s[i]
          /\ longer[Len(s) + 1] = ip
      BY <2>5 DEF longer
    <3>2. \A i \in 1..Len(s) + 1 : i \in 1..Len(s) \/ i = Len(s) + 1
      BY <3>1
    <3>3. Len(s) + 1 \in 1..Len(s) + 1 /\ 1..Len(s) \subseteq 1..Len(s) + 1
      BY <3>1
    <3> QED BY <3>1, <3>2, <3>3
  <2>7. \A x \in Ips :
          next.owner[x] = IF \E i \in DOMAIN longer : longer[i].ip = x
                          THEN key ELSE dev.owner[x]
    BY <2>1, <2>4, <2>6
  <2>8. longer \in Seq(AddedIps)
    BY <2>5 DEF longer
  <2>9. <<next, longer>> \in Rel
    BY <2>4, <2>7, <2>8
  <2> QED BY <2>2, <2>9 DEF longer
<1>3. <<OverIps!Fold(key, dev, ips), ips>> \in Rel
  <2> HIDE DEF Rel
  <2> QED BY <1>1, <1>2, OverIps!FoldRelation
<1> QED BY <1>3

-----------------------------------------------------------------------------
(* Peers in full.                                                          *)

\* What a configuration says of a peer of dev, when it says everything.
FullPeers(dev) ==
  {p \in [public_key : Keys, preshared_key : {"none", "valid"}, attrs : Attrs,
          flags : {{}}, has_allowed_ips : BOOLEAN, allowed_ips : Seq(AddedIps)] :
     /\ p.attrs = dev.peers[p.public_key]
     /\ \A ip \in Ips :
          (\E i \in DOMAIN p.allowed_ips : p.allowed_ips[i].ip = ip)
            <=> dev.owner[ip] = p.public_key}

LEMMA SetFullPeer ==
  ASSUME NEW target \in Device, NEW p \in FullPeers(target), NEW dev \in Device,
         dev.peers[p.public_key] \in {Absent, target.peers[p.public_key]}
  PROVE  LET next == PeerStep(0, dev, p)
         IN  /\ next \in Device
             /\ \A key \in Keys :
                  next.peers[key] = IF key = p.public_key THEN target.peers[key]
                                    ELSE dev.peers[key]
             /\ \A ip \in Ips :
                  next.owner[ip] = IF target.owner[ip] = p.public_key THEN p.public_key
                                   ELSE dev.owner[ip]
<1> DEFINE key == p.public_key
           value == target.peers[key]
           set == [dev EXCEPT !.peers[key] = value]
<1>1. /\ key \in Keys /\ p.flags = {} /\ p.attrs = value /\ value \in Attrs /\ value # Absent
      /\ p.allowed_ips \in Seq(AddedIps)
      /\ \A ip \in Ips : (\E i \in DOMAIN p.allowed_ips : p.allowed_ips[i].ip = ip)
                           <=> target.owner[ip] = key
  BY SentinelAssumption DEF FullPeers
<1>2. SetPeer(dev, p, TRUE, 0, Len(p.allowed_ips)) = SetIps(set, p, 0, Len(p.allowed_ips))
  <2> DEFINE known == dev.peers[key] # Absent
             found == IF p.attrs # NoAttrs THEN p.attrs
                      ELSE IF known THEN dev.peers[key] ELSE NoAttrs
  <2>1. found = value
    BY <1>1
  <2>2. SetPeer(dev, p, TRUE, 0, Len(p.allowed_ips)) =
          SetIps([dev EXCEPT !.peers[key] = found], p, 0, Len(p.allowed_ips))
    BY <1>1 DEF SetPeer
  <2> QED BY <2>1, <2>2
<1>3. /\ set \in Device /\ set.owner = dev.owner
      /\ \A k \in Keys : set.peers[k] = IF k = key THEN target.peers[k] ELSE dev.peers[k]
  BY <1>1 DEF Device
<1>4. SubSeq(p.allowed_ips, 0 + 1, Len(p.allowed_ips)) = p.allowed_ips
  BY <1>1
<1>5. PeerStep(0, dev, p) = OverIps!Fold(key, set, p.allowed_ips)
  BY <1>2, <1>4, SetIpsFold DEF PeerStep
<1> HIDE DEF set
<1>6. LET given == OverIps!Fold(key, set, p.allowed_ips)
      IN  /\ given \in Device /\ given.peers = set.peers
          /\ \A ip \in Ips :
               given.owner[ip] = IF \E i \in DOMAIN p.allowed_ips : p.allowed_ips[i].ip = ip
                                 THEN key ELSE set.owner[ip]
  <2> DEFINE ips == p.allowed_ips
  <2>1. ips \in Seq(AddedIps) /\ key \in Keys /\ set \in Device
    BY <1>1, <1>3
  <2> HIDE DEF ips, key
  <2>2. LET given == OverIps!Fold(key, set, ips)
        IN  /\ given \in Device /\ given.peers = set.peers
            /\ \A ip \in Ips :
                 given.owner[ip] = IF \E i \in DOMAIN ips : ips[i].ip = ip
                                   THEN key ELSE set.owner[ip]
    BY <2>1, AddIps
  <2> QED BY <2>2 DEF ips
<1> QED BY <1>1, <1>3, <1>5, <1>6

\* Whatever peers of target are given in full are then as in target, and own
\* what they own there; the rest is as before.
LEMMA ApplyFullPeers ==
  ASSUME NEW target \in Device, NEW base \in Device, NEW peers \in Seq(FullPeers(target)),
         \A key \in Keys : base.peers[key] \in {Absent, target.peers[key]}
  PROVE  LET dev == OverPeers!Fold(0, base, peers)
             Given(key) == \E i \in DOMAIN peers : peers[i].public_key = key
         IN  /\ dev \in Device
             /\ \A key \in Keys :
                  dev.peers[key] = IF Given(key) THEN target.peers[key] ELSE base.peers[key]
             /\ \A ip \in Ips :
                  dev.owner[ip] = IF Given(target.owner[ip]) THEN target.owner[ip]
                                  ELSE base.owner[ip]
<1> DEFINE In(s, key) == \E i \in DOMAIN s : s[i].public_key = key
           Set(d, s) ==
             /\ \A key \in Keys :
                  d.peers[key] = IF In(s, key) THEN target.peers[key] ELSE base.peers[key]
             /\ \A ip \in Ips :
                  d.owner[ip] = IF In(s, target.owner[ip]) THEN target.owner[ip]
                                ELSE base.owner[ip]
           Rel == {r \in Device \X Seq(FullPeers(target)) : Set(r[1], r[2])}
<1>1. <<base, << >>>> \in Rel
  <2> DEFINE none == << >>
  <2>1. none \in Seq(FullPeers(target)) /\ DOMAIN none = {}
    OBVIOUS
  <2> HIDE DEF none
  <2>2. Set(base, none)
    BY <2>1
  <2>3. <<base, none>> \in Rel
    <3> HIDE DEF Set
    <3> QED BY <2>1, <2>2
  <2> QED BY <2>3 DEF none
<1>2. ASSUME NEW d, NEW s \in Seq(FullPeers(target)), NEW p \in FullPeers(target),
             <<d, s>> \in Rel
      PROVE  <<PeerStep(0, d, p), Append(s, p)>> \in Rel
  <2> DEFINE next == PeerStep(0, d, p)
             longer == Append(s, p)
             key == p.public_key
  <2>1. d \in Device /\ Set(d, s)
    BY <1>2
  <2>2. key \in Keys
    BY DEF FullPeers
  <2>3. d.peers[key] \in {Absent, target.peers[key]}
    BY <2>1, <2>2
  <2>4. /\ next \in Device
        /\ \A k \in Keys : next.peers[k] = IF k = key THEN target.peers[k] ELSE d.peers[k]
        /\ \A ip \in Ips :
             next.owner[ip] = IF target.owner[ip] = key THEN key ELSE d.owner[ip]
    BY <2>1, <2>3, SetFullPeer
  <2>5. /\ longer \in Seq(FullPeers(target)) /\ DOMAIN longer = 1..Len(s) + 1
        /\ DOMAIN s = 1..Len(s) /\ Len(s) \in Nat
        /\ \A i \in 1..Len(s) : longer[i] = s[i]
        /\ longer[Len(s) + 1] = p
    BY AppendProperties, LenProperties
  <2> HIDE DEF next, longer
  <2>6. ASSUME NEW k
        PROVE  In(longer, k) <=> k = key \/ In(s, k)
    <3>1. \A i \in 1..Len(s) + 1 : i \in 1..Len(s) \/ i = Len(s) + 1
      BY <2>5
    <3>2. Len(s) + 1 \in 1..Len(s) + 1 /\ 1..Len(s) \subseteq 1..Len(s) + 1
      BY <2>5
    <3> QED BY <2>5, <3>1, <3>2
  <2>7. Set(next, longer)
    <3> HIDE DEF In
    <3>1. \A k \in Keys :
            next.peers[k] = IF In(longer, k) THEN target.peers[k] ELSE base.peers[k]
      BY <2>1, <2>4, <2>6
    <3>2. \A ip \in Ips :
            next.owner[ip] = IF In(longer, target.owner[ip]) THEN target.owner[ip]
                             ELSE base.owner[ip]
      BY <2>1, <2>4, <2>6
    <3> QED BY <3>1, <3>2
  <2>8. <<next, longer>> \in Rel
    <3> HIDE DEF Set
    <3> QED BY <2>4, <2>5, <2>7
  <2> QED BY <2>8 DEF next, longer
<1>3. <<OverPeers!Fold(0, base, peers), peers>> \in Rel
  <2> HIDE DEF Rel
  <2> QED BY <1>1, <1>2, OverPeers!FoldRelation
<1> QED BY <1>3

\* Peers of the device itself change nothing.
LEMMA ApplyToItself ==
  ASSUME NEW target \in Device, NEW cfg, cfg.replace_peers = FALSE,
         cfg.peers \in Seq(FullPeers(target))
  PROVE  ApplyWhole(target, cfg) = target
<1> DEFINE dev == OverPeers!Fold(0, target, cfg.peers)
<1>1. ApplyWhole(target, cfg) = dev
  BY ApplyWholeFold
<1>2. /\ dev \in Device
      /\ \A key \in Keys : dev.peers[key] = target.peers[key]
      /\ \A ip \in Ips : dev.owner[ip] = target.owner[ip]
  BY ApplyFullPeers
<1> HIDE DEF dev
<1> QED BY <1>1, <1>2, SameDevice

\* All peers of a device, applied to one without any, make that device.
LEMMA ApplyToNoPeers ==
  ASSUME NEW target \in Device, ConsistentDevice(target),
         NEW cfg, NEW dev, cfg.replace_peers = TRUE \/ dev = NoPeers,
         cfg.peers \in Seq(FullPeers(target)),
         \A key \in Keys : target.peers[key] # Absent =>
           \E i \in DOMAIN cfg.peers : cfg.peers[i].public_key = key
  PROVE  ApplyWhole(dev, cfg) = target
<1> DEFINE made == OverPeers!Fold(0, NoPeers, cfg.peers)
<1>1. ApplyWhole(dev, cfg) = made
  BY ApplyWholeFold
<1>2. /\ \A key \in Keys : NoPeers.peers[key] = Absent
      /\ \A ip \in Ips : NoPeers.owner[ip] = Nobody
  BY DEF NoPeers
<1>3. LET Given(key) == \E i \in DOMAIN cfg.peers : cfg.peers[i].public_key = key
      IN  /\ made \in Device
          /\ \A key \in Keys :
               made.peers[key] = IF Given(key) THEN target.peers[key] ELSE NoPeers.peers[key]
          /\ \A ip \in Ips :
               made.owner[ip] = IF Given(target.owner[ip]) THEN target.owner[ip]
                                ELSE NoPeers.owner[ip]
  BY <1>2, NoPeersIsDevice, ApplyFullPeers
<1> HIDE DEF made
<1>4. \A key \in Keys : made.peers[key] = target.peers[key]
  BY <1>2, <1>3
<1>5. ASSUME NEW ip \in Ips PROVE made.owner[ip] = target.owner[ip]
  <2>1. CASE target.owner[ip] = Nobody
    BY <1>2, <1>3, <2>1
  <2>2. CASE target.owner[ip] # Nobody
    <3>1. target.owner[ip] \in Keys /\ target.peers[target.owner[ip]] # Absent
      BY <2>2 DEF Device, ConsistentDevice
    <3> QED BY <1>3, <3>1
  <2> QED BY <2>1, <2>2
<1> QED BY <1>1, <1>3, <1>4, <1>5, SameDevice
-----------------------------------------------------------------------------
(* A device stays a device.                                                *)

LEMMA SetIpsIsDevice ==
  ASSUME NEW dev \in Device, NEW key \in Keys, NEW ips \in Seq(AllowedIp)
  PROVE  LET given == OverIps!Fold(key, dev, ips)
         IN  given \in Device /\ given.peers = dev.peers
<1> DEFINE Same == {d \in Device : d.peers = dev.peers}
<1>1. dev \in Same
  OBVIOUS
<1>2. ASSUME NEW d \in Same, NEW ip \in AllowedIp PROVE IpStep(key, d, ip) \in Same
  <2>1. d \in Device /\ d.peers = dev.peers /\ ip.ip \in Ips
    BY DEF AllowedIp
  <2> QED BY <2>1 DEF IpStep, SetIp, Device
<1>3. OverIps!Fold(key, dev, ips) \in Same
  <2> HIDE DEF Same
  <2> QED BY <1>1, <1>2, OverIps!FoldInvariant
<1> QED BY <1>3

\* A peer a configuration may name, once its key is accepted.
KeyedPeer == {p \in Peer : p.public_key \in Keys}

LEMMA KeyedPeerFacts ==
  ASSUME NEW p \in KeyedPeer
  PROVE  /\ p.public_key \in Keys /\ p.attrs \in Attrs
         /\ p.allowed_ips \in Seq(AllowedIp) /\ Len(p.allowed_ips) \in Nat
         /\ ToSend(p) \in Nat /\ ToSend(p) <= Len(p.allowed_ips)
         /\ ToSend(p) > 0 => "RemoveMe" \notin p.flags
         /\ "RemoveMe" \notin p.flags => ToSend(p) = Len(p.allowed_ips)
<1>1. /\ p.public_key \in Keys /\ p.attrs \in Attrs /\ p.allowed_ips \in Seq(AllowedIp)
      /\ p.has_allowed_ips \/ p.allowed_ips = << >>
  BY DEF KeyedPeer, Peer, PeerFields
<1>2. Len(p.allowed_ips) \in Nat /\ (p.allowed_ips = << >> => Len(p.allowed_ips) = 0)
  BY <1>1
<1> QED BY <1>1, <1>2 DEF ToSend, SendsIps

LEMMA SubSeqOfIps ==
  ASSUME NEW p \in KeyedPeer, NEW lo \in Nat, NEW hi \in Nat, hi <= Len(p.allowed_ips)
  PROVE  SubSeq(p.allowed_ips, lo + 1, hi) \in Seq(AllowedIp)
<1>1. p.allowed_ips \in Seq(AllowedIp)
  BY KeyedPeerFacts
<1> DEFINE ips == p.allowed_ips
<1> HIDE DEF ips
<1>2. ASSUME ips \in Seq(AllowedIp), hi <= Len(ips)
      PROVE  SubSeq(ips, lo + 1, hi) \in Seq(AllowedIp)
  BY <1>2
<1> QED BY <1>1, <1>2 DEF ips

\* What SetPeer does with a peer that it neither drops nor ignores.
Opened(dev, p) ==
  LET kept == IF "ReplaceAllowedIps" \in p.flags THEN DropIps(dev, p.public_key) ELSE dev
      value == IF p.attrs # NoAttrs THEN p.attrs
               ELSE IF dev.peers[p.public_key] # Absent THEN dev.peers[p.public_key]
               ELSE NoAttrs
  IN  [kept EXCEPT !.peers[p.public_key] = value]

LEMMA DropIpsIsDevice ==
  ASSUME NEW dev \in Device, NEW key
  PROVE  /\ DropIps(dev, key) \in Device /\ DropIps(dev, key).peers = dev.peers
         /\ \A ip \in Ips : DropIps(dev, key).owner[ip] =
                              IF dev.owner[ip] = key THEN Nobody ELSE dev.owner[ip]
BY DEF DropIps, Device

LEMMA OpenedFacts ==
  ASSUME NEW dev \in Device, NEW p \in KeyedPeer
  PROVE  /\ Opened(dev, p) \in Device
         /\ Opened(dev, p).peers[p.public_key] # Absent
<1> DEFINE kept == IF "ReplaceAllowedIps" \in p.flags THEN DropIps(dev, p.public_key) ELSE dev
           value == IF p.attrs # NoAttrs THEN p.attrs
                    ELSE IF dev.peers[p.public_key] # Absent THEN dev.peers[p.public_key]
                    ELSE NoAttrs
<1>1. p.public_key \in Keys /\ p.attrs \in Attrs
  BY KeyedPeerFacts
<1>2. kept \in Device
  BY DropIpsIsDevice
<1>3. value \in Attrs /\ value # Absent
  BY <1>1, SentinelAssumption DEF Device
<1>4. Opened(dev, p) = [kept EXCEPT !.peers[p.public_key] = value]
  BY DEF Opened
<1> HIDE DEF kept, value
<1> QED BY <1>1, <1>2, <1>3, <1>4 DEF Device

\* The three ways an entry can go, for the first chunk of a peer.
LEMMA SetFirst ==
  ASSUME NEW dev, NEW p, NEW lo, NEW hi
  PROVE  SetPeer(dev, p, TRUE, lo, hi) =
           IF dev.peers[p.public_key] = Absent /\ p.flags \cap {"RemoveMe", "UpdateOnly"} # {}
           THEN dev
           ELSE IF "RemoveMe" \in p.flags THEN RemovePeer(dev, p.public_key)
           ELSE SetIps(Opened(dev, p), p, lo, hi)
BY DEF SetPeer, Opened

LEMMA SetMore ==
  ASSUME NEW dev \in Device, NEW p \in KeyedPeer, NEW lo, NEW hi,
         dev.peers[p.public_key] # Absent
  PROVE  SetPeer(dev, p, FALSE, lo, hi) = SetIps(dev, p, lo, hi)
<1>1. [dev EXCEPT !.peers[p.public_key] = dev.peers[p.public_key]] = dev
  BY KeyedPeerFacts DEF Device
<1>2. SetPeer(dev, p, FALSE, lo, hi) =
        SetIps([dev EXCEPT !.peers[p.public_key] = dev.peers[p.public_key]], p, lo, hi)
  BY DEF SetPeer
<1> QED BY <1>1, <1>2

\* And for a continuation of a peer that is gone.
LEMMA SetMoreOfNew ==
  ASSUME NEW dev \in Device, NEW p \in KeyedPeer, NEW lo, NEW hi,
         dev.peers[p.public_key] = Absent
  PROVE  /\ SetPeer(dev, p, FALSE, lo, hi) =
              SetIps([dev EXCEPT !.peers[p.public_key] = NoAttrs], p, lo, hi)
         /\ [dev EXCEPT !.peers[p.public_key] = NoAttrs] \in Device
<1>1. p.public_key \in Keys
  BY KeyedPeerFacts
<1> QED BY <1>1, SentinelAssumption DEF SetPeer, Device

LEMMA RangeOfIpsIsDevice ==
  ASSUME NEW dev \in Device, NEW p \in KeyedPeer,
         NEW lo \in Nat, NEW hi \in Nat, hi <= Len(p.allowed_ips)
  PROVE  SetIps(dev, p, lo, hi) \in Device /\ SetIps(dev, p, lo, hi).peers = dev.peers
BY KeyedPeerFacts, SubSeqOfIps, SetIpsFold, SetIpsIsDevice

LEMMA SetPeerIsDevice ==
  ASSUME NEW dev \in Device, NEW p \in KeyedPeer,
         NEW lo \in Nat, NEW hi \in Nat, hi <= Len(p.allowed_ips)
  PROVE  /\ SetPeer(dev, p, TRUE, lo, hi) \in Device
         /\ SetPeer(dev, p, FALSE, lo, hi) \in Device
<1>1. p.public_key \in Keys
  BY KeyedPeerFacts
<1>2. SetPeer(dev, p, TRUE, lo, hi) \in Device
  <2>1. RemovePeer(dev, p.public_key) \in Device
    BY <1>1, DropIpsIsDevice DEF RemovePeer, Device
  <2>2. SetIps(Opened(dev, p), p, lo, hi) \in Device
    BY OpenedFacts, RangeOfIpsIsDevice
  <2> QED BY <2>1, <2>2, SetFirst
<1>3. SetPeer(dev, p, FALSE, lo, hi) \in Device
  <2>1. CASE dev.peers[p.public_key] # Absent
    <3>1. SetPeer(dev, p, FALSE, lo, hi) = SetIps(dev, p, lo, hi)
      BY <2>1, SetMore
    <3>2. SetIps(dev, p, lo, hi) \in Device
      BY RangeOfIpsIsDevice
    <3> QED BY <3>1, <3>2
  <2>2. CASE dev.peers[p.public_key] = Absent
    <3> DEFINE added == [dev EXCEPT !.peers[p.public_key] = NoAttrs]
    <3>1. added \in Device /\ SetPeer(dev, p, FALSE, lo, hi) = SetIps(added, p, lo, hi)
      BY <2>2, SetMoreOfNew
    <3> HIDE DEF added
    <3> QED BY <3>1, RangeOfIpsIsDevice
  <2> QED BY <2>1, <2>2
<1> QED BY <1>2, <1>3

-----------------------------------------------------------------------------
(* What a configuration cut into pieces leads to.                          *)

\* A chunk that goes on with a peer the device has: as if there had been one.
LEMMA ContinuePeer ==
  ASSUME NEW dev \in Device, NEW p \in KeyedPeer,
         p.flags \cap {"RemoveMe", "UpdateOnly"} = {},
         NEW lo \in Nat, NEW hi \in Nat, lo <= hi, hi <= Len(p.allowed_ips)
  PROVE  SetPeer(SetPeer(dev, p, TRUE, 0, lo), p, FALSE, lo, hi) = SetPeer(dev, p, TRUE, 0, hi)
<1> DEFINE key == p.public_key
           ips == p.allowed_ips
           opened == Opened(dev, p)
           front == SetIps(opened, p, 0, lo)
<1>1. /\ key \in Keys /\ ips \in Seq(AllowedIp) /\ Len(ips) \in Nat
      /\ opened \in Device /\ opened.peers[key] # Absent
  BY KeyedPeerFacts, OpenedFacts
<1>2. /\ SetPeer(dev, p, TRUE, 0, lo) = front
      /\ SetPeer(dev, p, TRUE, 0, hi) = SetIps(opened, p, 0, hi)
  BY SetFirst
<1>3. front \in Device /\ front.peers = opened.peers
  <2>1. lo <= Len(ips)
    BY <1>1
  <2> HIDE DEF opened
  <2> QED BY <1>1, <2>1, RangeOfIpsIsDevice
<1>4. SetPeer(front, p, FALSE, lo, hi) = SetIps(front, p, lo, hi)
  <2>1. front.peers[p.public_key] # Absent
    BY <1>1, <1>3
  <2> HIDE DEF front
  <2> QED BY <1>3, <2>1, SetMore
<1>5. SetIps(front, p, lo, hi) = SetIps(opened, p, 0, hi)
  <2> DEFINE one == SubSeq(ips, 0 + 1, lo)
             two == SubSeq(ips, lo + 1, hi)
             both == SubSeq(ips, 0 + 1, hi)
  <2>1. one \in Seq(AllowedIp) /\ two \in Seq(AllowedIp)
    BY SubSeqOfIps
  <2>2. both = one \o two
    <3> HIDE DEF ips, key
    <3>1. Len(one) = lo /\ Len(two) = hi - lo /\ Len(both) = hi
      BY <1>1
    <3> QED BY <1>1
  <2>3. OverIps!Fold(key, opened, one \o two) =
          OverIps!Fold(key, OverIps!Fold(key, opened, one), two)
    <3> HIDE DEF one, two, key, opened
    <3> QED BY <2>1, OverIps!FoldConcat
  <2>4. /\ front = OverIps!Fold(key, opened, one)
        /\ SetIps(front, p, lo, hi) = OverIps!Fold(key, front, two)
        /\ SetIps(opened, p, 0, hi) = OverIps!Fold(key, opened, both)
    BY SetIpsFold
  <2> HIDE DEF one, two, both, front, opened
  <2> QED BY <2>2, <2>3, <2>4
<1> HIDE DEF front, opened
<1> QED BY <1>2, <1>4, <1>5

\* A configuration whose peers have keys, the device it is applied to when the
\* driver has looked at the device level attributes, and what becomes of it.
KeyedConfig == {cfg \in Config : cfg.peers \in Seq(KeyedPeer)}

\* With its first n peers.
WholePeers(base, cfg, n) == OverPeers!Fold(0, base, SubSeq(cfg.peers, 1, n))

\* With the peers in front of peer i, and of that one with hi allowed IPs.
UpTo(base, cfg, i, hi) == SetPeer(WholePeers(base, cfg, i - 1), cfg.peers[i], TRUE, 0, hi)

LEMMA KeyedConfigFacts ==
  ASSUME NEW cfg \in KeyedConfig
  PROVE  /\ cfg.peers \in Seq(KeyedPeer) /\ Len(cfg.peers) \in Nat
         /\ DOMAIN cfg.peers = 1..Len(cfg.peers)
         /\ \A i \in 1..Len(cfg.peers) : cfg.peers[i] \in KeyedPeer
         /\ \A n \in 0..Len(cfg.peers) : SubSeq(cfg.peers, 1, n) \in Seq(KeyedPeer)
<1>1. cfg.peers \in Seq(KeyedPeer)
  BY DEF KeyedConfig
<1> DEFINE ps == cfg.peers
<1> HIDE DEF ps
<1>2. ASSUME ps \in Seq(KeyedPeer)
      PROVE  /\ Len(ps) \in Nat
             /\ DOMAIN ps = 1..Len(ps)
             /\ \A i \in 1..Len(ps) : ps[i] \in KeyedPeer
             /\ \A n \in 0..Len(ps) : SubSeq(ps, 1, n) \in Seq(KeyedPeer)
  BY <1>2
<1> QED BY <1>1, <1>2 DEF ps

LEMMA WholePeersIsDevice ==
  ASSUME NEW base \in Device, NEW cfg \in KeyedConfig, NEW n \in 0..Len(cfg.peers)
  PROVE  WholePeers(base, cfg, n) \in Device
<1>1. SubSeq(cfg.peers, 1, n) \in Seq(KeyedPeer)
  BY KeyedConfigFacts
<1>2. ASSUME NEW d \in Device, NEW p \in KeyedPeer PROVE PeerStep(0, d, p) \in Device
  <2>1. Len(p.allowed_ips) \in Nat /\ Len(p.allowed_ips) <= Len(p.allowed_ips)
    BY KeyedPeerFacts
  <2> QED BY <2>1, SetPeerIsDevice DEF PeerStep
<1> DEFINE peers == SubSeq(cfg.peers, 1, n)
<1>3. OverPeers!Fold(0, base, peers) \in Device
  <2>1. peers \in Seq(KeyedPeer)
    BY <1>1
  <2> HIDE DEF peers
  <2> QED BY <2>1, <1>2, OverPeers!FoldInvariant
<1> QED BY <1>3 DEF WholePeers

\* All it sends of a peer is the peer.
LEMMA UpToTheEnd ==
  ASSUME NEW base, NEW cfg \in KeyedConfig, NEW i \in 1..Len(cfg.peers)
  PROVE  UpTo(base, cfg, i, ToSend(cfg.peers[i])) = WholePeers(base, cfg, i)
<1> DEFINE p == cfg.peers[i]
           before == WholePeers(base, cfg, i - 1)
<1>1. p \in KeyedPeer /\ cfg.peers \in Seq(KeyedPeer)
  BY KeyedConfigFacts
<1>2. WholePeers(base, cfg, i) = SetPeer(before, p, TRUE, 0, Len(p.allowed_ips))
  BY <1>1, OverPeers!FoldNext DEF WholePeers, PeerStep
<1>3. SetPeer(before, p, TRUE, 0, Len(p.allowed_ips)) = SetPeer(before, p, TRUE, 0, ToSend(p))
  <2>1. CASE "RemoveMe" \in p.flags
    BY <2>1, SetFirst
  <2>2. CASE "RemoveMe" \notin p.flags
    BY <1>1, <2>2, KeyedPeerFacts
  <2> QED BY <2>1, <2>2
<1> QED BY <1>2, <1>3 DEF UpTo
\* The device is ready for chunk c: everything in front of it is there.
Ready(base, cfg, dev, c) ==
  dev = IF c.first THEN WholePeers(base, cfg, c.peer - 1)
        ELSE UpTo(base, cfg, c.peer, c.lo)

\* A chunk as IsSplitOf has it: it opens a peer, or goes on with one.
SplitChunk(cfg, c) ==
  /\ c \in Chunk /\ GoodChunk(cfg, c)
  /\ c.first => c.lo = 0
  /\ ~ c.first => "UpdateOnly" \notin cfg.peers[c.peer].flags

LEMMA ApplyChunk ==
  ASSUME NEW base \in Device, NEW cfg \in KeyedConfig, NEW c, SplitChunk(cfg, c),
         NEW dev, Ready(base, cfg, dev, c)
  PROVE  SetPeer(dev, cfg.peers[c.peer], c.first, c.lo, c.hi)
           = UpTo(base, cfg, c.peer, c.hi)
<1> DEFINE p == cfg.peers[c.peer]
           before == WholePeers(base, cfg, c.peer - 1)
<1>1. /\ c.peer \in 1..Len(cfg.peers) /\ Len(cfg.peers) \in Nat
      /\ c.lo \in Nat /\ c.hi \in Nat /\ c.lo <= c.hi /\ c.hi <= ToSend(p)
      /\ c.lo = c.hi => c.first /\ ToSend(p) = 0
      /\ c.first \in BOOLEAN
  BY KeyedConfigFacts DEF SplitChunk, GoodChunk, Chunk
<1>2. p \in KeyedPeer /\ before \in Device
  BY <1>1, KeyedConfigFacts, WholePeersIsDevice
<1>3. CASE c.first
  <2>1. c.first = TRUE /\ c.lo = 0 /\ dev = before
    BY <1>1, <1>3 DEF SplitChunk, Ready
  <2> QED BY <2>1 DEF UpTo
<1>4. CASE ~ c.first
  <2>1. c.first = FALSE /\ c.lo < c.hi /\ dev = UpTo(base, cfg, c.peer, c.lo)
    BY <1>1, <1>4 DEF Ready
  <2>2. /\ ToSend(p) > 0 /\ "UpdateOnly" \notin p.flags /\ "RemoveMe" \notin p.flags
        /\ c.hi <= Len(p.allowed_ips)
    BY <1>1, <1>2, <1>4, <2>1, KeyedPeerFacts DEF SplitChunk
  <2>3. p.flags \cap {"RemoveMe", "UpdateOnly"} = {}
    BY <2>2
  <2>4. SetPeer(SetPeer(before, p, TRUE, 0, c.lo), p, FALSE, c.lo, c.hi)
          = SetPeer(before, p, TRUE, 0, c.hi)
    BY <1>1, <1>2, <2>2, <2>3, ContinuePeer
  <2>5. SetPeer(dev, p, FALSE, c.lo, c.hi) = UpTo(base, cfg, c.peer, c.hi)
    BY <2>1, <2>4 DEF UpTo
  <2> QED BY <2>1, <2>5
<1> QED BY <1>1, <1>3, <1>4

LEMMA ReadyForNext ==
  ASSUME NEW base \in Device, NEW cfg \in KeyedConfig, NEW c, NEW d,
         SplitChunk(cfg, c), d.first \in BOOLEAN, Follows(cfg, c, d)
  PROVE  Ready(base, cfg, UpTo(base, cfg, c.peer, c.hi), d)
<1>1. c.peer \in 1..Len(cfg.peers) /\ Len(cfg.peers) \in Nat
  BY KeyedConfigFacts DEF SplitChunk, GoodChunk
<1>2. CASE d.peer = c.peer /\ ~ d.first /\ d.lo = c.hi
  BY <1>2 DEF Ready
<1>3. CASE c.hi = ToSend(cfg.peers[c.peer]) /\ d.peer = c.peer + 1 /\ d.first
  <2>1. UpTo(base, cfg, c.peer, c.hi) = WholePeers(base, cfg, c.peer)
    BY <1>1, <1>3, UpToTheEnd
  <2>2. d.peer - 1 = c.peer
    BY <1>1, <1>3
  <2> QED BY <1>3, <2>1, <2>2 DEF Ready
<1> QED BY <1>2, <1>3 DEF Follows

ChunkStep(env, dev, c) == SetPeer(dev, env.peers[c.peer], c.first, c.lo, c.hi)
MessageStep(env, dev, msg) == ApplyMessage(dev, env, msg)

OverChunks == INSTANCE FoldInduction WITH op <- ChunkStep
OverMessages == INSTANCE FoldInduction WITH op <- MessageStep

LEMMA ApplyEntriesFold ==
  \A dev, cfg, msg, n :
    ApplyEntries(dev, cfg, msg, n) =
      OverChunks!Fold(cfg, OpenMessage(dev, cfg, msg), SubSeq(msg.peers, 1, n))
BY DEF ApplyEntries, ChunkStep, FoldLeft, MapThenFoldSet, Max, OverChunks!Fold,
       OverChunks!FoldLeft, OverChunks!MapThenFoldSet, OverChunks!Max

LEMMA ApplyMessagesFold ==
  \A dev, cfg, msgs :
    ApplyMessages(dev, cfg, msgs) = OverMessages!Fold(cfg, dev, msgs)
BY DEF ApplyMessages, MessageStep, FoldLeft, MapThenFoldSet, Max, OverMessages!Fold,
       OverMessages!FoldLeft, OverMessages!MapThenFoldSet, OverMessages!Max
\* Whatever becomes of a message, the device stays one.
GoodMessages(cfg) ==
  {msg \in Message : \A j \in DOMAIN msg.peers : GoodChunk(cfg, msg.peers[j])}

LEMMA OpenMessageIsDevice ==
  ASSUME NEW dev \in Device, NEW cfg, NEW msg
  PROVE  OpenMessage(dev, cfg, msg) \in Device
BY NoPeersIsDevice DEF OpenMessage

LEMMA ChunkStepIsDevice ==
  ASSUME NEW dev \in Device, NEW cfg \in KeyedConfig, NEW c \in Chunk, GoodChunk(cfg, c)
  PROVE  ChunkStep(cfg, dev, c) \in Device
<1> DEFINE p == cfg.peers[c.peer]
<1>1. p \in KeyedPeer
  BY KeyedConfigFacts DEF GoodChunk
<1>2. /\ c.lo \in Nat /\ c.hi \in Nat /\ c.first \in BOOLEAN
      /\ c.hi <= Len(p.allowed_ips)
  BY <1>1, KeyedPeerFacts DEF GoodChunk, Chunk
<1>3. /\ SetPeer(dev, p, TRUE, c.lo, c.hi) \in Device
      /\ SetPeer(dev, p, FALSE, c.lo, c.hi) \in Device
  BY <1>1, <1>2, SetPeerIsDevice
<1>4. c.first = TRUE \/ c.first = FALSE
  BY <1>2
<1> QED BY <1>3, <1>4 DEF ChunkStep

LEMMA ApplyEntriesIsDevice ==
  ASSUME NEW dev \in Device, NEW cfg \in KeyedConfig, NEW msg \in GoodMessages(cfg),
         NEW n \in 0..Len(msg.peers)
  PROVE  ApplyEntries(dev, cfg, msg, n) \in Device
<1> DEFINE Good == {c \in Chunk : GoodChunk(cfg, c)}
           opened == OpenMessage(dev, cfg, msg)
           front == SubSeq(msg.peers, 1, n)
<1>1. front \in Seq(Good)
  <2> DEFINE chunks == msg.peers
  <2>1. chunks \in Seq(Chunk) /\ \A j \in DOMAIN chunks : chunks[j] \in Good
    BY DEF GoodMessages, Message
  <2> HIDE DEF Good, chunks
  <2>2. ASSUME chunks \in Seq(Chunk), \A j \in DOMAIN chunks : chunks[j] \in Good,
               n \in 0..Len(chunks)
        PROVE  SubSeq(chunks, 1, n) \in Seq(Good)
    BY <2>2
  <2> QED BY <2>1, <2>2 DEF chunks
<1>2. opened \in Device
  BY OpenMessageIsDevice
<1>3. \A d \in Device, c \in Good : ChunkStep(cfg, d, c) \in Device
  BY ChunkStepIsDevice
<1>4. OverChunks!Fold(cfg, opened, front) \in Device
  <2> HIDE DEF Good, opened, front
  <2> QED BY <1>1, <1>2, <1>3, OverChunks!FoldInvariant
<1> QED BY <1>4, ApplyEntriesFold

LEMMA ApplyMessageIsDevice ==
  ASSUME NEW dev \in Device, NEW cfg \in KeyedConfig, NEW msg \in GoodMessages(cfg)
  PROVE  ApplyMessage(dev, cfg, msg) \in Device
<1>1. Len(msg.peers) \in 0..Len(msg.peers)
  BY DEF GoodMessages, Message
<1> QED BY <1>1, ApplyEntriesIsDevice DEF ApplyMessage

LEMMA ApplyWholeIsDevice ==
  ASSUME NEW dev \in Device, NEW cfg \in KeyedConfig
  PROVE  ApplyWhole(dev, cfg) \in Device
<1> DEFINE base == IF cfg.replace_peers THEN NoPeers ELSE dev
<1>1. base \in Device /\ Len(cfg.peers) \in 0..Len(cfg.peers)
  BY NoPeersIsDevice, KeyedConfigFacts
<1>2. SubSeq(cfg.peers, 1, Len(cfg.peers)) = cfg.peers
  BY KeyedConfigFacts
<1>3. ApplyWhole(dev, cfg) = WholePeers(base, cfg, Len(cfg.peers))
  BY <1>2, ApplyWholeFold DEF WholePeers
<1> HIDE DEF base
<1> QED BY <1>1, <1>3, WholePeersIsDevice

\* The chunks of one message, one after the other.
LEMMA ApplyChunks ==
  ASSUME NEW base \in Device, NEW cfg \in KeyedConfig, NEW msg \in Message,
         \A j \in 1..Len(msg.peers) : SplitChunk(cfg, msg.peers[j]),
         \A j \in 1..Len(msg.peers) - 1 : Follows(cfg, msg.peers[j], msg.peers[j + 1]),
         NEW dev, NEW n \in 1..Len(msg.peers),
         Ready(base, cfg, OpenMessage(dev, cfg, msg), msg.peers[1])
  PROVE  ApplyEntries(dev, cfg, msg, n)
           = UpTo(base, cfg, msg.peers[n].peer, msg.peers[n].hi)
<1> DEFINE chunks == msg.peers
           opened == OpenMessage(dev, cfg, msg)
           Made(k) == OverChunks!Fold(cfg, opened, SubSeq(chunks, 1, k))
           Reached(k) == Made(k) = UpTo(base, cfg, chunks[k].peer, chunks[k].hi)
<1>1. /\ chunks \in Seq(Chunk) /\ Len(chunks) \in Nat
      /\ \A j \in 1..Len(chunks) : SplitChunk(cfg, chunks[j]) /\ chunks[j].first \in BOOLEAN
  <2>1. chunks \in Seq(Chunk) /\ Len(chunks) \in Nat
    BY DEF Message
  <2>2. \A j \in 1..Len(chunks) : chunks[j] \in Chunk
    BY <2>1
  <2> QED BY <2>1, <2>2 DEF Chunk
<1>2. \A k \in 1..Len(chunks) : Made(k) = ChunkStep(cfg, Made(k - 1), chunks[k])
  <2> HIDE DEF chunks, opened
  <2> QED BY <1>1, OverChunks!FoldNext
<1>3. Made(0) = opened
  <2>1. SubSeq(chunks, 1, 0) = << >>
    BY <1>1
  <2> HIDE DEF chunks, opened
  <2> QED BY <2>1, OverChunks!FoldEmpty
<1>4. ASSUME NEW k \in 1..Len(chunks), Ready(base, cfg, Made(k - 1), chunks[k])
      PROVE  Reached(k)
  <2> HIDE DEF chunks, Made
  <2> QED BY <1>1, <1>2, <1>4, ApplyChunk DEF ChunkStep
<1> DEFINE S == {k \in Nat : k + 1 <= Len(chunks) => Reached(k + 1)}
<1>5. 0 \in S
  <2>1. CASE 1 <= Len(chunks)
    <3>1. 1 \in 1..Len(chunks) /\ Made(1 - 1) = opened
      BY <1>1, <1>3, <2>1
    <3>2. Reached(1)
      <4> HIDE DEF Made, Reached
      <4> QED BY <1>4, <3>1
    <3> QED BY <3>2
  <2> QED BY <2>1
<1>6. ASSUME NEW k \in Nat, k \in S PROVE k + 1 \in S
  <2>1. SUFFICES ASSUME k + 1 + 1 <= Len(chunks) PROVE Reached(k + 1 + 1)
    OBVIOUS
  <2>2. k + 1 \in 1..Len(chunks) - 1 /\ k + 1 + 1 \in 1..Len(chunks)
    BY <1>1, <2>1
  <2>3. Reached(k + 1)
    BY <1>1, <1>6, <2>1
  <2>4. Follows(cfg, chunks[k + 1], chunks[k + 1 + 1])
    BY <2>2
  <2>5. SplitChunk(cfg, chunks[k + 1]) /\ chunks[k + 1 + 1].first \in BOOLEAN
    BY <1>1, <2>2
  <2>6. Ready(base, cfg, Made(k + 1), chunks[k + 1 + 1])
    <3> HIDE DEF chunks, Made
    <3> QED BY <2>3, <2>4, <2>5, ReadyForNext
  <2>7. k + 1 + 1 - 1 = k + 1
    OBVIOUS
  <2> HIDE DEF Made, Reached, chunks
  <2> QED BY <1>4, <2>2, <2>6, <2>7
<1>7. n - 1 \in S
  <2>1. n - 1 \in Nat
    BY <1>1
  <2> HIDE DEF S
  <2> QED BY <1>5, <1>6, <2>1, OverChunks!SetInduction
<1>8. Reached(n)
  <2>1. (n - 1) + 1 = n /\ n <= Len(chunks)
    BY <1>1
  <2> QED BY <1>7, <2>1
<1> QED BY <1>8, ApplyEntriesFold
\* What IsSplitOf says of the messages of a configuration that has peers.
LEMMA SplitFacts ==
  ASSUME NEW cfg \in KeyedConfig, NEW msgs \in Seq(Message), IsSplitOf(cfg, msgs),
         ~ SplitsUpdateOnly(cfg, msgs), cfg.peers # << >>
  PROVE  /\ Len(msgs) \in Nat \ {0} /\ \A m \in 1..Len(msgs) : msgs[m] \in Message
         /\ \A m \in 1..Len(msgs) :
              LET chunks == msgs[m].peers
              IN  /\ chunks \in Seq(Chunk) /\ Len(chunks) \in Nat \ {0}
                  /\ \A j \in 1..Len(chunks) : SplitChunk(cfg, chunks[j])
<1>1. Len(msgs) \in Nat \ {0} /\ DOMAIN msgs = 1..Len(msgs)
  BY DEF IsSplitOf
<1>2. \A m \in 1..Len(msgs) : msgs[m] \in Message
  BY <1>1
<1>3. ASSUME NEW m \in 1..Len(msgs)
      PROVE  LET chunks == msgs[m].peers
             IN  /\ chunks \in Seq(Chunk) /\ Len(chunks) \in Nat \ {0}
                 /\ \A j \in 1..Len(chunks) : SplitChunk(cfg, chunks[j])
  <2> DEFINE chunks == msgs[m].peers
  <2>1. chunks \in Seq(Chunk)
    BY <1>2 DEF Message
  <2>2. chunks # << >>
    BY DEF IsSplitOf
  <2>3. Len(chunks) \in Nat \ {0} /\ DOMAIN chunks = 1..Len(chunks)
    BY <2>1, <2>2
  <2>4. \A j \in 1..Len(chunks) : chunks[j] \in Chunk /\ GoodChunk(cfg, chunks[j])
    <3>1. \A j \in 1..Len(chunks) : chunks[j] \in Chunk
      BY <2>1
    <3> QED BY <3>1 DEF IsSplitOf
  <2>5. \A j \in 1..Len(chunks) :
          ~ chunks[j].first => "UpdateOnly" \notin cfg.peers[chunks[j].peer].flags
    BY <1>1, <2>3 DEF SplitsUpdateOnly
  <2>6. ASSUME NEW j \in 1..Len(chunks), chunks[j].first PROVE chunks[j].lo = 0
    <3>1. j \in Nat /\ (j = 1 \/ j - 1 \in 1..Len(chunks) - 1)
      BY <2>3
    <3>2. CASE j - 1 \in 1..Len(chunks) - 1
      <4>1. Follows(cfg, chunks[j - 1], chunks[(j - 1) + 1]) /\ (j - 1) + 1 = j
        BY <3>1, <3>2 DEF IsSplitOf
      <4> QED BY <2>6, <4>1 DEF Follows
    <3>3. CASE j = 1 /\ m = 1
      BY <3>3 DEF IsSplitOf, Opens
    <3>4. CASE j = 1 /\ m # 1
      <4>1. m - 1 \in 1..Len(msgs) - 1 /\ (m - 1) + 1 = m
        BY <1>1, <3>4
      <4>2. Follows(cfg, msgs[m - 1].peers[Len(msgs[m - 1].peers)], msgs[(m - 1) + 1].peers[1])
        BY <4>1 DEF IsSplitOf
      <4> QED BY <2>6, <3>4, <4>1, <4>2 DEF Follows
    <3> QED BY <3>1, <3>2, <3>3, <3>4
  <2> QED BY <2>1, <2>3, <2>4, <2>5, <2>6 DEF SplitChunk
<1> QED BY <1>1, <1>2, <1>3

\* Message after message, the pieces of a configuration lead to the device that
\* the configuration in one message would have led to.
THEOREM PiecesMakeTheWhole ==
  ASSUME NEW cfg \in KeyedConfig, NEW msgs \in Seq(Message), IsSplitOf(cfg, msgs),
         ~ SplitsUpdateOnly(cfg, msgs), NEW dev \in Device
  PROVE  ApplyMessages(dev, cfg, msgs) = ApplyWhole(dev, cfg)
<1> DEFINE base == IF cfg.replace_peers THEN NoPeers ELSE dev
           Made(k) == OverMessages!Fold(cfg, dev, SubSeq(msgs, 1, k))
           FinalChunk(m) == msgs[m].peers[Len(msgs[m].peers)]
           Reached(m) == Made(m) = UpTo(base, cfg, FinalChunk(m).peer, FinalChunk(m).hi)
<1>1. Len(msgs) \in Nat \ {0} /\ \A m \in 1..Len(msgs) : msgs[m].device <=> m = 1
  BY DEF IsSplitOf
<1>2. /\ Made(0) = dev
      /\ \A m \in 1..Len(msgs) : Made(m) = MessageStep(cfg, Made(m - 1), msgs[m])
      /\ ApplyMessages(dev, cfg, msgs) = Made(Len(msgs))
  <2>1. SubSeq(msgs, 1, 0) = << >> /\ SubSeq(msgs, 1, Len(msgs)) = msgs
    BY <1>1
  <2>2. Made(0) = dev
    BY <2>1, OverMessages!FoldEmpty
  <2>3. \A m \in 1..Len(msgs) : Made(m) = MessageStep(cfg, Made(m - 1), msgs[m])
    BY OverMessages!FoldNext
  <2> QED BY <2>1, <2>2, <2>3, ApplyMessagesFold
<1>3. /\ base \in Device
      /\ ApplyWhole(dev, cfg) = WholePeers(base, cfg, Len(cfg.peers))
  <2>1. SubSeq(cfg.peers, 1, Len(cfg.peers)) = cfg.peers
    BY KeyedConfigFacts
  <2> QED BY <2>1, NoPeersIsDevice, ApplyWholeFold DEF WholePeers
<1>4. /\ OpenMessage(dev, cfg, msgs[1]) = base
      /\ \A m \in 2..Len(msgs) : OpenMessage(Made(m - 1), cfg, msgs[m]) = Made(m - 1)
  BY <1>1 DEF OpenMessage
<1> HIDE DEF Made, base
<1>5. CASE cfg.peers = << >>
  <2>1. Len(cfg.peers) = 0
    BY <1>5
  <2>2. msgs[1] \in Message /\ 1 \in 1..Len(msgs)
    BY <1>1
  <2>3. msgs[1].peers = << >>
    <3>1. msgs[1].peers \in Seq(Chunk)
      BY <2>2 DEF Message
    <3>2. \A j \in 1..Len(msgs[1].peers) : FALSE
      BY <2>1, <2>2 DEF IsSplitOf, GoodChunk
    <3> DEFINE chunks == msgs[1].peers
    <3> HIDE DEF chunks
    <3>3. ASSUME chunks \in Seq(Chunk), \A j \in 1..Len(chunks) : FALSE PROVE chunks = << >>
      BY <3>3
    <3> QED BY <3>1, <3>2, <3>3 DEF chunks
  <2>4. Len(msgs) = 1
    BY <2>2, <2>3 DEF IsSplitOf
  <2>5. Made(1) = ApplyEntries(dev, cfg, msgs[1], 0)
    <3>1. Made(1) = MessageStep(cfg, Made(1 - 1), msgs[1]) /\ Made(1 - 1) = dev
      BY <1>2, <2>2
    <3>2. Len(msgs[1].peers) = 0
      BY <2>3
    <3> QED BY <3>1, <3>2 DEF MessageStep, ApplyMessage
  <2>6. ApplyEntries(dev, cfg, msgs[1], 0) = base
    <3> DEFINE none == << >>
    <3>1. SubSeq(msgs[1].peers, 1, 0) = none
      BY <2>3
    <3>2. OverChunks!Fold(cfg, base, none) = base
      BY OverChunks!FoldEmpty
    <3> HIDE DEF none
    <3> QED BY <1>4, <3>1, <3>2, ApplyEntriesFold
  <2>7. WholePeers(base, cfg, 0) = base
    <3> DEFINE none == << >>
    <3>1. SubSeq(cfg.peers, 1, 0) = none
      BY <1>5
    <3>2. OverPeers!Fold(0, base, none) = base
      BY OverPeers!FoldEmpty
    <3> HIDE DEF none
    <3> QED BY <3>1, <3>2 DEF WholePeers
  <2> QED BY <1>2, <1>3, <2>1, <2>4, <2>5, <2>6, <2>7
<1>6. CASE cfg.peers # << >>
  <2>1. /\ \A m \in 1..Len(msgs) : msgs[m] \in Message
        /\ \A m \in 1..Len(msgs) :
             LET chunks == msgs[m].peers
             IN  /\ chunks \in Seq(Chunk) /\ Len(chunks) \in Nat \ {0}
                 /\ \A j \in 1..Len(chunks) : SplitChunk(cfg, chunks[j])
    BY <1>6, SplitFacts
  <2>2. ASSUME NEW m \in 1..Len(msgs),
               Ready(base, cfg, OpenMessage(Made(m - 1), cfg, msgs[m]), msgs[m].peers[1])
        PROVE  Reached(m)
    <3> DEFINE msg == msgs[m]
               n == Len(msg.peers)
    <3>1. /\ msg \in Message /\ n \in 1..n
          /\ \A j \in 1..n : SplitChunk(cfg, msg.peers[j])
      BY <2>1
    <3>2. \A j \in 1..n - 1 : Follows(cfg, msg.peers[j], msg.peers[j + 1])
      BY DEF IsSplitOf
    <3>3. ApplyEntries(Made(m - 1), cfg, msg, n) = UpTo(base, cfg, msg.peers[n].peer, msg.peers[n].hi)
      <4> DEFINE earlier == Made(m - 1)
      <4>1. Ready(base, cfg, OpenMessage(earlier, cfg, msg), msg.peers[1])
        BY <2>2
      <4>2. /\ \A j \in 1..Len(msg.peers) : SplitChunk(cfg, msg.peers[j])
            /\ \A j \in 1..Len(msg.peers) - 1 : Follows(cfg, msg.peers[j], msg.peers[j + 1])
        BY <3>1, <3>2
      <4>3. msg \in Message
        BY <3>1
      <4> HIDE DEF msg, earlier
      <4>4. \A k \in 1..Len(msg.peers) :
              ApplyEntries(earlier, cfg, msg, k)
                = UpTo(base, cfg, msg.peers[k].peer, msg.peers[k].hi)
        BY <1>3, <4>1, <4>2, <4>3, ApplyChunks
      <4> QED BY <3>1, <4>4 DEF earlier
    <3>4. Made(m) = ApplyEntries(Made(m - 1), cfg, msg, n)
      BY <1>2 DEF MessageStep, ApplyMessage
    <3> QED BY <3>3, <3>4
  <2> DEFINE S == {k \in Nat : k + 1 <= Len(msgs) => Reached(k + 1)}
  <2>3. 0 \in S
    <3>1. 1 \in 1..Len(msgs) /\ Made(1 - 1) = dev
      BY <1>1, <1>2
    <3>2. Opens(msgs[1].peers[1])
      BY <1>6 DEF IsSplitOf
    <3>3. WholePeers(base, cfg, 0) = base
      <4> DEFINE none == << >>
      <4>1. SubSeq(cfg.peers, 1, 0) = none
        BY KeyedConfigFacts
      <4>2. OverPeers!Fold(0, base, none) = base
        BY OverPeers!FoldEmpty
      <4> HIDE DEF none
      <4> QED BY <4>1, <4>2 DEF WholePeers
    <3>4. Ready(base, cfg, OpenMessage(Made(1 - 1), cfg, msgs[1]), msgs[1].peers[1])
      <4>1. msgs[1].peers[1].peer - 1 = 0 /\ msgs[1].peers[1].first
        BY <3>2 DEF Opens
      <4> QED BY <1>4, <3>1, <3>3, <4>1 DEF Ready
    <3>5. Reached(1)
      <4> HIDE DEF Reached
      <4> QED BY <2>2, <3>1, <3>4
    <3> QED BY <3>5
  <2>4. ASSUME NEW k \in Nat, k \in S PROVE k + 1 \in S
    <3>1. SUFFICES ASSUME k + 1 + 1 <= Len(msgs) PROVE Reached(k + 1 + 1)
      OBVIOUS
    <3> DEFINE m == k + 1
    <3>2. m \in 1..Len(msgs) - 1 /\ m \in 1..Len(msgs) /\ m + 1 \in 2..Len(msgs)
          /\ m + 1 \in 1..Len(msgs)
      BY <1>1, <3>1
    <3>3. Reached(m)
      BY <1>1, <2>4, <3>1
    <3>4. Follows(cfg, FinalChunk(m), msgs[m + 1].peers[1])
      BY <3>2 DEF IsSplitOf
    <3>5. SplitChunk(cfg, FinalChunk(m)) /\ msgs[m + 1].peers[1].first \in BOOLEAN
      <4>1. Len(msgs[m].peers) \in 1..Len(msgs[m].peers) /\ 1 \in 1..Len(msgs[m + 1].peers)
        BY <2>1, <3>2
      <4> QED BY <2>1, <3>2, <4>1 DEF SplitChunk, Chunk
    <3>6. Ready(base, cfg, Made(m), msgs[m + 1].peers[1])
      <4> DEFINE c == FinalChunk(m)
                 d == msgs[m + 1].peers[1]
      <4>1. /\ SplitChunk(cfg, c) /\ d.first \in BOOLEAN /\ Follows(cfg, c, d)
            /\ Made(m) = UpTo(base, cfg, c.peer, c.hi)
        BY <3>3, <3>4, <3>5
      <4> HIDE DEF c, d
      <4>2. Ready(base, cfg, Made(m), d)
        BY <1>3, <4>1, ReadyForNext
      <4> QED BY <4>2 DEF d
    <3>7. OpenMessage(Made(m + 1 - 1), cfg, msgs[m + 1]) = Made(m)
      BY <1>4, <3>2
    <3> HIDE DEF Reached, m
    <3>8. Reached(m + 1)
      BY <2>2, <3>2, <3>6, <3>7
    <3> QED BY <3>8 DEF m
  <2>5. Len(msgs) - 1 \in S
    <3>1. Len(msgs) - 1 \in Nat
      BY <1>1
    <3> HIDE DEF S
    <3> QED BY <2>3, <2>4, <3>1, OverMessages!SetInduction
  <2>6. Reached(Len(msgs))
    <3>1. (Len(msgs) - 1) + 1 = Len(msgs) /\ Len(msgs) <= Len(msgs)
      BY <1>1
    <3> HIDE DEF Reached
    <3> QED BY <2>5, <3>1
  <2>7. UpTo(base, cfg, FinalChunk(Len(msgs)).peer, FinalChunk(Len(msgs)).hi)
          = WholePeers(base, cfg, Len(cfg.peers))
    <3>1. Closes(cfg, FinalChunk(Len(msgs)))
      BY <1>6 DEF IsSplitOf
    <3>2. Len(cfg.peers) \in 1..Len(cfg.peers)
      BY <1>6, KeyedConfigFacts
    <3> QED BY <3>1, <3>2, UpToTheEnd DEF Closes
  <2> QED BY <1>2, <1>3, <2>6, <2>7
<1> QED BY <1>5, <1>6
-----------------------------------------------------------------------------
(* Devices that agree on some peers and allowed IPs, whatever else they    *)
(* hold.                                                                   *)

Agree(dev, other, keys, ips) ==
  /\ \A key \in keys : dev.peers[key] = other.peers[key]
  /\ \A ip \in ips : dev.owner[ip] = other.owner[ip]

\* The allowed IPs of p, or none of them, are among ips.
IpsWithin(p, ips) == \A i \in DOMAIN p.allowed_ips : p.allowed_ips[i].ip \in ips
IpsOutside(p, ips) == \A i \in DOMAIN p.allowed_ips : p.allowed_ips[i].ip \notin ips

Within(ips) == {ip \in AllowedIp : ip.ip \in ips}
Outside(ips) == {ip \in AllowedIp : ip.ip \notin ips}

LEMMA RangeOfIps ==
  ASSUME NEW p \in KeyedPeer, NEW lo \in Nat, NEW hi \in Nat, hi <= Len(p.allowed_ips), NEW ips
  PROVE  /\ IpsWithin(p, ips) =>
              SubSeq(p.allowed_ips, lo + 1, hi) \in Seq(Within(ips))
         /\ IpsOutside(p, ips) =>
              SubSeq(p.allowed_ips, lo + 1, hi) \in Seq(Outside(ips))
<1> DEFINE all == p.allowed_ips
<1>1. all \in Seq(AllowedIp)
  BY KeyedPeerFacts
<1> HIDE DEF all
<1>2. ASSUME NEW T, all \in Seq(T), hi <= Len(all)
      PROVE  SubSeq(all, lo + 1, hi) \in Seq(T)
  BY <1>2
<1>3. ASSUME IpsWithin(p, ips) PROVE all \in Seq(Within(ips))
  <2>1. \A i \in DOMAIN all : all[i] \in Within(ips)
    BY <1>1, <1>3 DEF IpsWithin, Within, all
  <2> QED BY <1>1, <2>1
<1>4. ASSUME IpsOutside(p, ips) PROVE all \in Seq(Outside(ips))
  <2>1. \A i \in DOMAIN all : all[i] \in Outside(ips)
    BY <1>1, <1>4 DEF IpsOutside, Outside, all
  <2> QED BY <1>1, <2>1
<1>5. hi <= Len(all)
  BY DEF all
<1> QED BY <1>2, <1>3, <1>4, <1>5 DEF all

\* What a peer's own allowed IPs do does not depend on the others.
LEMMA SetIpsAgree ==
  ASSUME NEW dev \in Device, NEW other \in Device, NEW key \in Keys,
         NEW keys \in SUBSET Keys, NEW ips \in SUBSET Ips, Agree(dev, other, keys, ips),
         NEW list \in Seq(Within(ips))
  PROVE  Agree(OverIps!Fold(key, dev, list), OverIps!Fold(key, other, list), keys, ips)
<1> DEFINE S == Within(ips)
           Other(s) == OverIps!Fold(key, other, s)
           Rel == {r \in Device \X Seq(S) :
                     Other(r[2]) \in Device /\ Agree(r[1], Other(r[2]), keys, ips)}
<1>1. <<dev, << >>>> \in Rel
  <2> DEFINE none == << >>
  <2>1. none \in Seq(S) /\ Other(none) = other
    BY OverIps!FoldEmpty
  <2> HIDE DEF none, S, Other
  <2>2. <<dev, none>> \in Rel
    BY <2>1
  <2> QED BY <2>2 DEF none
<1>2. ASSUME NEW d, NEW s \in Seq(S), NEW ip \in S, <<d, s>> \in Rel
      PROVE  <<IpStep(key, d, ip), Append(s, ip)>> \in Rel
  <2>1. d \in Device /\ Other(s) \in Device /\ Agree(d, Other(s), keys, ips)
    BY <1>2
  <2>2. Other(Append(s, ip)) = IpStep(key, Other(s), ip)
    <3> HIDE DEF S
    <3> QED BY OverIps!FoldAppend
  <2>3. Append(s, ip) \in Seq(S)
    BY AppendProperties
  <2> DEFINE o == Other(s)
             longer == Append(s, ip)
  <2>4. d \in Device /\ o \in Device /\ Agree(d, o, keys, ips) /\ ip.ip \in ips /\ ip.ip \in Ips
    BY <2>1 DEF Within, AllowedIp
  <2> HIDE DEF o
  <2>5. /\ IpStep(key, d, ip) \in Device /\ IpStep(key, o, ip) \in Device
        /\ Agree(IpStep(key, d, ip), IpStep(key, o, ip), keys, ips)
    BY <2>4 DEF IpStep, SetIp, Device, Agree
  <2> HIDE DEF Other, S, longer
  <2>6. <<IpStep(key, d, ip), longer>> \in Rel
    BY <2>2, <2>3, <2>5 DEF o, longer
  <2> QED BY <2>6 DEF longer
<1>3. <<OverIps!Fold(key, dev, list), list>> \in Rel
  <2> HIDE DEF Rel, S
  <2>1. list \in Seq(S)
    BY DEF S
  <2> QED BY <1>1, <1>2, <2>1, OverIps!FoldRelation
<1> QED BY <1>3

\* What the allowed IPs of a peer do is no concern of other IPs.
LEMMA SetIpsLeaves ==
  ASSUME NEW dev \in Device, NEW key \in Keys, NEW keys, NEW ips,
         NEW list \in Seq(Outside(ips))
  PROVE  Agree(OverIps!Fold(key, dev, list), dev, keys, ips)
<1> DEFINE S == Outside(ips)
           Same == {d \in Device : Agree(d, dev, keys, ips)}
<1>1. dev \in Same
  BY DEF Agree
<1>2. ASSUME NEW d \in Same, NEW ip \in S PROVE IpStep(key, d, ip) \in Same
  <2>1. d \in Device /\ Agree(d, dev, keys, ips) /\ ip.ip \in Ips /\ ip.ip \notin ips
    BY DEF Outside, AllowedIp
  <2>2. IpStep(key, d, ip) \in Device
    BY <2>1 DEF IpStep, SetIp, Device
  <2>3. IpStep(key, d, ip).peers = d.peers
    BY <2>1 DEF IpStep, SetIp, Device
  <2>4. \A x \in ips : IpStep(key, d, ip).owner[x] = d.owner[x]
    BY <2>1 DEF IpStep, SetIp, Device
  <2> QED BY <2>1, <2>2, <2>3, <2>4 DEF Agree
<1>3. OverIps!Fold(key, dev, list) \in Same
  <2> HIDE DEF Same, S
  <2>1. list \in Seq(S)
    BY DEF S
  <2> QED BY <1>1, <1>2, <2>1, OverIps!FoldInvariant
<1> QED BY <1>3

\* An allowed IP keeps its owner, loses it, or is given to the peer.
LEMMA SetIpsOwners ==
  ASSUME NEW dev \in Device, NEW key \in Keys, NEW list \in Seq(AllowedIp)
  PROVE  \A ip \in Ips :
           OverIps!Fold(key, dev, list).owner[ip] \in {dev.owner[ip], Nobody, key}
<1> DEFINE Same == {d \in Device : \A ip \in Ips : d.owner[ip] \in {dev.owner[ip], Nobody, key}}
<1>1. dev \in Same
  OBVIOUS
<1>2. ASSUME NEW d \in Same, NEW ip \in AllowedIp PROVE IpStep(key, d, ip) \in Same
  <2>1. d \in Device /\ ip.ip \in Ips
    BY DEF AllowedIp
  <2>2. IpStep(key, d, ip) \in Device
    BY <2>1 DEF IpStep, SetIp, Device
  <2>3. \A x \in Ips : IpStep(key, d, ip).owner[x] \in {d.owner[x], Nobody, key}
    BY <2>1 DEF IpStep, SetIp, Device
  <2> QED BY <2>2, <2>3
<1>3. OverIps!Fold(key, dev, list) \in Same
  <2> HIDE DEF Same
  <2> QED BY <1>1, <1>2, OverIps!FoldInvariant
<1> QED BY <1>3
LEMMA RemovePeerFacts ==
  ASSUME NEW dev \in Device, NEW key \in Keys
  PROVE  /\ RemovePeer(dev, key) \in Device
         /\ \A k \in Keys :
              RemovePeer(dev, key).peers[k] = IF k = key THEN Absent ELSE dev.peers[k]
         /\ RemovePeer(dev, key).owner = DropIps(dev, key).owner
BY DropIpsIsDevice DEF RemovePeer, Device

LEMMA OpenedPeers ==
  ASSUME NEW dev \in Device, NEW p \in KeyedPeer
  PROVE  /\ \A k \in Keys : k # p.public_key => Opened(dev, p).peers[k] = dev.peers[k]
         /\ Opened(dev, p).peers[p.public_key] =
              IF p.attrs # NoAttrs THEN p.attrs
              ELSE IF dev.peers[p.public_key] # Absent THEN dev.peers[p.public_key] ELSE NoAttrs
         /\ \A ip \in Ips :
              Opened(dev, p).owner[ip] =
                IF "ReplaceAllowedIps" \in p.flags /\ dev.owner[ip] = p.public_key
                THEN Nobody ELSE dev.owner[ip]
<1> DEFINE kept == IF "ReplaceAllowedIps" \in p.flags THEN DropIps(dev, p.public_key) ELSE dev
<1>1. /\ kept \in Device /\ kept.peers = dev.peers /\ p.public_key \in Keys
      /\ \A ip \in Ips :
           kept.owner[ip] = IF "ReplaceAllowedIps" \in p.flags /\ dev.owner[ip] = p.public_key
                            THEN Nobody ELSE dev.owner[ip]
  BY KeyedPeerFacts, DropIpsIsDevice
<1> DEFINE value == IF p.attrs # NoAttrs THEN p.attrs
                    ELSE IF dev.peers[p.public_key] # Absent THEN dev.peers[p.public_key]
                    ELSE NoAttrs
<1>2. Opened(dev, p) = [kept EXCEPT !.peers[p.public_key] = value]
  BY DEF Opened
<1> HIDE DEF kept, value
<1>3. /\ \A k \in Keys : k # p.public_key => Opened(dev, p).peers[k] = kept.peers[k]
      /\ Opened(dev, p).peers[p.public_key] = value
      /\ Opened(dev, p).owner = kept.owner
  BY <1>1, <1>2 DEF Device
<1> QED BY <1>1, <1>3 DEF value

\* One entry does the same to the peers and allowed IPs it is about.
LEMMA SetPeerAgree ==
  ASSUME NEW dev \in Device, NEW other \in Device, NEW keys \in SUBSET Keys,
         NEW ips \in SUBSET Ips, Agree(dev, other, keys, ips),
         NEW p \in KeyedPeer, p.public_key \in keys, IpsWithin(p, ips),
         NEW lo \in Nat, NEW hi \in Nat, hi <= Len(p.allowed_ips)
  PROVE  /\ Agree(SetPeer(dev, p, TRUE, lo, hi), SetPeer(other, p, TRUE, lo, hi), keys, ips)
         /\ Agree(SetPeer(dev, p, FALSE, lo, hi), SetPeer(other, p, FALSE, lo, hi), keys, ips)
<1> DEFINE key == p.public_key
<1>1. key \in Keys /\ dev.peers[key] = other.peers[key]
  BY KeyedPeerFacts DEF Agree
<1>2. ASSUME NEW d \in Device, NEW o \in Device, Agree(d, o, keys, ips)
      PROVE  Agree(SetIps(d, p, lo, hi), SetIps(o, p, lo, hi), keys, ips)
  <2> DEFINE list == SubSeq(p.allowed_ips, lo + 1, hi)
  <2>1. list \in Seq(Within(ips))
    BY RangeOfIps
  <2> HIDE DEF list
  <2>2. Agree(OverIps!Fold(key, d, list), OverIps!Fold(key, o, list), keys, ips)
    BY <1>1, <1>2, <2>1, SetIpsAgree
  <2> QED BY <2>2, SetIpsFold DEF list
<1>3. Agree(RemovePeer(dev, key), RemovePeer(other, key), keys, ips)
  <2>1. \A k \in keys : RemovePeer(dev, key).peers[k] = RemovePeer(other, key).peers[k]
    BY <1>1, RemovePeerFacts DEF Agree
  <2>2. \A ip \in ips : RemovePeer(dev, key).owner[ip] = RemovePeer(other, key).owner[ip]
    <3>1. \A d \in Device : \A ip \in ips :
            RemovePeer(d, key).owner[ip] = IF d.owner[ip] = key THEN Nobody ELSE d.owner[ip]
      BY <1>1, RemovePeerFacts, DropIpsIsDevice
    <3> QED BY <3>1 DEF Agree
  <2> QED BY <2>1, <2>2 DEF Agree
<1>4. /\ Opened(dev, p) \in Device /\ Opened(other, p) \in Device
      /\ Agree(Opened(dev, p), Opened(other, p), keys, ips)
  <2>1. Opened(dev, p) \in Device /\ Opened(other, p) \in Device
    BY OpenedFacts
  <2>2. \A k \in keys : Opened(dev, p).peers[k] = Opened(other, p).peers[k]
    BY <1>1, OpenedPeers DEF Agree
  <2>3. \A ip \in ips : Opened(dev, p).owner[ip] = Opened(other, p).owner[ip]
    BY OpenedPeers DEF Agree
  <2> QED BY <2>1, <2>2, <2>3 DEF Agree
<1>5. Agree(SetPeer(dev, p, TRUE, lo, hi), SetPeer(other, p, TRUE, lo, hi), keys, ips)
  <2>1. Agree(SetIps(Opened(dev, p), p, lo, hi), SetIps(Opened(other, p), p, lo, hi), keys, ips)
    BY <1>2, <1>4
  <2>2. CASE dev.peers[key] = Absent /\ p.flags \cap {"RemoveMe", "UpdateOnly"} # {}
    <3>1. SetPeer(dev, p, TRUE, lo, hi) = dev /\ SetPeer(other, p, TRUE, lo, hi) = other
      BY <1>1, <2>2, SetFirst, Zenon
    <3> QED BY <3>1
  <2>3. CASE ~ (dev.peers[key] = Absent /\ p.flags \cap {"RemoveMe", "UpdateOnly"} # {})
    <3>1. CASE "RemoveMe" \in p.flags
      <4>1. /\ SetPeer(dev, p, TRUE, lo, hi) = RemovePeer(dev, key)
            /\ SetPeer(other, p, TRUE, lo, hi) = RemovePeer(other, key)
        BY <1>1, <2>3, <3>1, SetFirst, Zenon
      <4> QED BY <1>3, <4>1
    <3>2. CASE "RemoveMe" \notin p.flags
      <4>1. /\ SetPeer(dev, p, TRUE, lo, hi) = SetIps(Opened(dev, p), p, lo, hi)
            /\ SetPeer(other, p, TRUE, lo, hi) = SetIps(Opened(other, p), p, lo, hi)
        BY <1>1, <2>3, <3>2, SetFirst, Zenon
      <4> QED BY <2>1, <4>1
    <3> QED BY <3>1, <3>2
  <2> QED BY <2>2, <2>3
<1>6. Agree(SetPeer(dev, p, FALSE, lo, hi), SetPeer(other, p, FALSE, lo, hi), keys, ips)
  <2>1. CASE dev.peers[key] # Absent
    BY <1>1, <1>2, <2>1, SetMore
  <2>2. CASE dev.peers[key] = Absent
    <3> DEFINE d == [dev EXCEPT !.peers[key] = NoAttrs]
               o == [other EXCEPT !.peers[key] = NoAttrs]
    <3>1. /\ SetPeer(dev, p, FALSE, lo, hi) = SetIps(d, p, lo, hi) /\ d \in Device
          /\ SetPeer(other, p, FALSE, lo, hi) = SetIps(o, p, lo, hi) /\ o \in Device
      <4>1. /\ SetPeer(dev, p, FALSE, lo, hi) = SetIps(d, p, lo, hi)
            /\ d \in Device
        BY <2>2, SetMoreOfNew
      <4>2. other.peers[key] = Absent
        BY <1>1, <2>2
      <4>3. /\ SetPeer(other, p, FALSE, lo, hi) = SetIps(o, p, lo, hi)
            /\ o \in Device
        BY <4>2, SetMoreOfNew
      <4> QED BY <4>1, <4>3
    <3>2. Agree(d, o, keys, ips)
      BY <1>1 DEF Agree, Device
    <3> HIDE DEF d, o
    <3> QED BY <1>2, <3>1, <3>2
  <2> QED BY <2>1, <2>2
<1> QED BY <1>5, <1>6

\* And nothing to others, as long as none of those IPs is its peer's.
LEMMA SetPeerLeaves ==
  ASSUME NEW dev \in Device, NEW keys \in SUBSET Keys, NEW ips \in SUBSET Ips,
         NEW p \in KeyedPeer, p.public_key \notin keys, IpsOutside(p, ips),
         \A ip \in ips : dev.owner[ip] # p.public_key,
         NEW lo \in Nat, NEW hi \in Nat, hi <= Len(p.allowed_ips)
  PROVE  /\ Agree(SetPeer(dev, p, TRUE, lo, hi), dev, keys, ips)
         /\ Agree(SetPeer(dev, p, FALSE, lo, hi), dev, keys, ips)
<1> DEFINE key == p.public_key
<1>1. key \in Keys
  BY KeyedPeerFacts
<1>2. ASSUME NEW d \in Device, Agree(d, dev, keys, ips)
      PROVE  Agree(SetIps(d, p, lo, hi), dev, keys, ips)
  <2> DEFINE list == SubSeq(p.allowed_ips, lo + 1, hi)
  <2>1. list \in Seq(Outside(ips))
    BY RangeOfIps
  <2> HIDE DEF list
  <2>2. Agree(OverIps!Fold(key, d, list), d, keys, ips)
    BY <1>1, <2>1, SetIpsLeaves
  <2>3. Agree(OverIps!Fold(key, d, list), dev, keys, ips)
    BY <1>2, <2>2 DEF Agree
  <2> QED BY <2>3, SetIpsFold DEF list
<1>3. Agree(RemovePeer(dev, key), dev, keys, ips)
  BY <1>1, RemovePeerFacts, DropIpsIsDevice DEF Agree
<1>4. Opened(dev, p) \in Device /\ Agree(Opened(dev, p), dev, keys, ips)
  BY OpenedFacts, OpenedPeers DEF Agree
<1>5. Agree(SetPeer(dev, p, TRUE, lo, hi), dev, keys, ips)
  <2>1. Agree(SetIps(Opened(dev, p), p, lo, hi), dev, keys, ips)
    BY <1>2, <1>4
  <2>2. Agree(dev, dev, keys, ips)
    BY DEF Agree
  <2> QED BY <1>3, <2>1, <2>2, SetFirst
<1>6. Agree(SetPeer(dev, p, FALSE, lo, hi), dev, keys, ips)
  <2>1. CASE dev.peers[key] # Absent
    <3>1. SetPeer(dev, p, FALSE, lo, hi) = SetIps(dev, p, lo, hi)
      BY <2>1, SetMore
    <3>2. Agree(dev, dev, keys, ips)
      BY DEF Agree
    <3> QED BY <1>2, <3>1, <3>2
  <2>2. CASE dev.peers[key] = Absent
    <3> DEFINE d == [dev EXCEPT !.peers[key] = NoAttrs]
    <3>1. SetPeer(dev, p, FALSE, lo, hi) = SetIps(d, p, lo, hi) /\ d \in Device
      BY <2>2, SetMoreOfNew
    <3>2. Agree(d, dev, keys, ips)
      BY <1>1 DEF Agree, Device
    <3> HIDE DEF d
    <3> QED BY <1>2, <3>1, <3>2
  <2> QED BY <2>1, <2>2
<1> QED BY <1>5, <1>6

LEMMA SetPeerOwners ==
  ASSUME NEW dev \in Device, NEW p \in KeyedPeer,
         NEW lo \in Nat, NEW hi \in Nat, hi <= Len(p.allowed_ips), NEW ip \in Ips
  PROVE  /\ SetPeer(dev, p, TRUE, lo, hi).owner[ip] \in {dev.owner[ip], Nobody, p.public_key}
         /\ SetPeer(dev, p, FALSE, lo, hi).owner[ip] \in {dev.owner[ip], Nobody, p.public_key}
<1> DEFINE key == p.public_key
<1>1. key \in Keys
  BY KeyedPeerFacts
<1>2. ASSUME NEW d \in Device, d.owner[ip] \in {dev.owner[ip], Nobody}
      PROVE  SetIps(d, p, lo, hi).owner[ip] \in {dev.owner[ip], Nobody, key}
  <2> DEFINE list == SubSeq(p.allowed_ips, lo + 1, hi)
  <2>1. list \in Seq(AllowedIp)
    BY SubSeqOfIps
  <2> HIDE DEF list
  <2>2. OverIps!Fold(key, d, list).owner[ip] \in {d.owner[ip], Nobody, key}
    BY <1>1, <2>1, SetIpsOwners
  <2> QED BY <1>2, <2>2, SetIpsFold DEF list
<1>3. RemovePeer(dev, key).owner[ip] \in {dev.owner[ip], Nobody}
  BY <1>1, RemovePeerFacts, DropIpsIsDevice
<1>4. Opened(dev, p) \in Device /\ Opened(dev, p).owner[ip] \in {dev.owner[ip], Nobody}
  BY OpenedFacts, OpenedPeers
<1>5. SetPeer(dev, p, TRUE, lo, hi).owner[ip] \in {dev.owner[ip], Nobody, key}
  <2>1. SetIps(Opened(dev, p), p, lo, hi).owner[ip] \in {dev.owner[ip], Nobody, key}
    BY <1>2, <1>4
  <2> QED BY <1>3, <2>1, SetFirst
<1>6. SetPeer(dev, p, FALSE, lo, hi).owner[ip] \in {dev.owner[ip], Nobody, key}
  <2>1. CASE dev.peers[key] # Absent
    BY <1>2, <2>1, SetMore
  <2>2. CASE dev.peers[key] = Absent
    <3> DEFINE d == [dev EXCEPT !.peers[key] = NoAttrs]
    <3>1. SetPeer(dev, p, FALSE, lo, hi) = SetIps(d, p, lo, hi) /\ d \in Device
      BY <2>2, SetMoreOfNew
    <3>2. d.owner = dev.owner
      BY DEF Device
    <3> HIDE DEF d
    <3> QED BY <1>2, <3>1, <3>2
  <2> QED BY <2>1, <2>2
<1> QED BY <1>5, <1>6
-----------------------------------------------------------------------------
(* What the entries of a message do to a device, as far as some peers and  *)
(* allowed IPs are concerned.                                              *)

\* All peers and allowed IPs of cfg are among keys and ips, or none is.
IsAbout(cfg, keys, ips) ==
  \A i \in 1..Len(cfg.peers) : cfg.peers[i].public_key \in keys /\ IpsWithin(cfg.peers[i], ips)
IsNotAbout(cfg, keys, ips) ==
  /\ cfg.replace_peers = FALSE
  /\ \A i \in 1..Len(cfg.peers) :
       cfg.peers[i].public_key \notin keys /\ IpsOutside(cfg.peers[i], ips)

GoodChunks(cfg) == {c \in Chunk : GoodChunk(cfg, c)}

\* The first n entries of a message, as a fold over good chunks.
LEMMA ChunksOfMessageFold ==
  ASSUME NEW cfg, NEW msg \in GoodMessages(cfg), NEW n \in 0..Len(msg.peers)
  PROVE  \E front \in Seq(GoodChunks(cfg)) : \A dev :
           ApplyEntries(dev, cfg, msg, n) =
             OverChunks!Fold(cfg, OpenMessage(dev, cfg, msg), front)
<1> DEFINE chunks == msg.peers
           front == SubSeq(chunks, 1, n)
<1>1. chunks \in Seq(Chunk) /\ \A j \in DOMAIN chunks : chunks[j] \in GoodChunks(cfg)
  <2>1. chunks \in Seq(Chunk) /\ \A j \in DOMAIN chunks : GoodChunk(cfg, chunks[j])
    BY DEF GoodMessages, Message
  <2>2. \A j \in DOMAIN chunks : chunks[j] \in Chunk
    BY <2>1
  <2> HIDE DEF chunks
  <2> QED BY <2>1, <2>2 DEF GoodChunks
<1>2. n \in 0..Len(chunks)
  OBVIOUS
<1>3. \A dev : ApplyEntries(dev, cfg, msg, n)
                 = OverChunks!Fold(cfg, OpenMessage(dev, cfg, msg), front)
  BY ApplyEntriesFold
<1> HIDE DEF chunks
<1>4. front \in Seq(GoodChunks(cfg))
  BY <1>1, <1>2
<1> HIDE DEF front
<1> QED BY <1>3, <1>4

\* The peer and the range of allowed IPs of a good chunk.
LEMMA ChunkFacts ==
  ASSUME NEW cfg \in KeyedConfig, NEW c \in GoodChunks(cfg)
  PROVE  /\ c.peer \in 1..Len(cfg.peers) /\ cfg.peers[c.peer] \in KeyedPeer
         /\ c.lo \in Nat /\ c.hi \in Nat /\ c.hi <= Len(cfg.peers[c.peer].allowed_ips)
         /\ c.first = TRUE \/ c.first = FALSE
         /\ \A dev \in Device : ChunkStep(cfg, dev, c) \in Device
<1>1. c \in Chunk /\ GoodChunk(cfg, c)
  BY DEF GoodChunks
<1>2. c.peer \in 1..Len(cfg.peers) /\ cfg.peers[c.peer] \in KeyedPeer
  BY <1>1, KeyedConfigFacts DEF GoodChunk
<1>3. /\ c.lo \in Nat /\ c.hi \in Nat /\ c.first \in BOOLEAN
      /\ c.hi <= Len(cfg.peers[c.peer].allowed_ips)
  BY <1>1, <1>2, KeyedPeerFacts DEF GoodChunk, Chunk
<1> QED BY <1>1, <1>2, <1>3, ChunkStepIsDevice

\* Entries do the same to the peers and allowed IPs they are about.
LEMMA EntriesAgree ==
  ASSUME NEW dev \in Device, NEW other \in Device, NEW keys \in SUBSET Keys,
         NEW ips \in SUBSET Ips, Agree(dev, other, keys, ips),
         NEW cfg \in KeyedConfig, IsAbout(cfg, keys, ips),
         NEW msg \in GoodMessages(cfg), NEW n \in 0..Len(msg.peers)
  PROVE  Agree(ApplyEntries(dev, cfg, msg, n), ApplyEntries(other, cfg, msg, n), keys, ips)
<1> DEFINE S == GoodChunks(cfg)
           d0 == OpenMessage(dev, cfg, msg)
           o0 == OpenMessage(other, cfg, msg)
           Other(s) == OverChunks!Fold(cfg, o0, s)
           Rel == {r \in Device \X Seq(S) :
                     Other(r[2]) \in Device /\ Agree(r[1], Other(r[2]), keys, ips)}
<1>1. PICK front \in Seq(S) : \A d : ApplyEntries(d, cfg, msg, n)
                                  = OverChunks!Fold(cfg, OpenMessage(d, cfg, msg), front)
  BY ChunksOfMessageFold
<1>2. d0 \in Device /\ o0 \in Device /\ Agree(d0, o0, keys, ips)
  <2>1. Agree(NoPeers, NoPeers, keys, ips)
    BY DEF Agree
  <2> QED BY <2>1, NoPeersIsDevice DEF OpenMessage
<1>3. <<d0, << >>>> \in Rel
  <2> DEFINE none == << >>
  <2>1. none \in Seq(S) /\ Other(none) = o0
    BY OverChunks!FoldEmpty
  <2> HIDE DEF none, S, Other, d0, o0
  <2>2. <<d0, none>> \in Rel
    BY <1>2, <2>1
  <2> QED BY <2>2 DEF none
<1>4. ASSUME NEW d, NEW s \in Seq(S), NEW c \in S, <<d, s>> \in Rel
      PROVE  <<ChunkStep(cfg, d, c), Append(s, c)>> \in Rel
  <2> DEFINE o == Other(s)
             longer == Append(s, c)
             p == cfg.peers[c.peer]
  <2>1. d \in Device /\ o \in Device /\ Agree(d, o, keys, ips)
    <3> HIDE DEF Other
    <3> QED BY <1>4
  <2>2. Other(longer) = ChunkStep(cfg, o, c) /\ longer \in Seq(S)
    <3> HIDE DEF S, o0
    <3> QED BY OverChunks!FoldAppend, AppendProperties
  <2>3. /\ p \in KeyedPeer /\ p.public_key \in keys /\ IpsWithin(p, ips)
        /\ c.lo \in Nat /\ c.hi \in Nat /\ c.hi <= Len(p.allowed_ips)
        /\ c.first = TRUE \/ c.first = FALSE
        /\ ChunkStep(cfg, d, c) \in Device /\ ChunkStep(cfg, o, c) \in Device
    <3> HIDE DEF o
    <3> QED BY <2>1, ChunkFacts DEF IsAbout
  <2> HIDE DEF o
  <2>4. Agree(ChunkStep(cfg, d, c), ChunkStep(cfg, o, c), keys, ips)
    <3>1. /\ Agree(SetPeer(d, p, TRUE, c.lo, c.hi), SetPeer(o, p, TRUE, c.lo, c.hi), keys, ips)
          /\ Agree(SetPeer(d, p, FALSE, c.lo, c.hi), SetPeer(o, p, FALSE, c.lo, c.hi), keys, ips)
      <4> HIDE DEF p
      <4> QED BY <2>1, <2>3, SetPeerAgree
    <3> QED BY <2>3, <3>1 DEF ChunkStep
  <2> HIDE DEF Other, S, longer
  <2>5. <<ChunkStep(cfg, d, c), longer>> \in Rel
    BY <2>2, <2>3, <2>4
  <2> QED BY <2>5 DEF longer
<1>5. <<OverChunks!Fold(cfg, d0, front), front>> \in Rel
  <2> HIDE DEF Rel, S, d0
  <2> QED BY <1>1, <1>3, <1>4, OverChunks!FoldRelation
<1> QED BY <1>1, <1>5

\* They leave the others alone.
LEMMA EntriesLeave ==
  ASSUME NEW dev \in Device, NEW keys \in SUBSET Keys, NEW ips \in SUBSET Ips,
         NEW cfg \in KeyedConfig, IsNotAbout(cfg, keys, ips),
         \A ip \in ips : \A i \in 1..Len(cfg.peers) : dev.owner[ip] # cfg.peers[i].public_key,
         NEW msg \in GoodMessages(cfg), NEW n \in 0..Len(msg.peers)
  PROVE  Agree(ApplyEntries(dev, cfg, msg, n), dev, keys, ips)
<1> DEFINE S == GoodChunks(cfg)
           Same == {d \in Device : Agree(d, dev, keys, ips)}
<1>1. PICK front \in Seq(S) : \A d : ApplyEntries(d, cfg, msg, n)
                                  = OverChunks!Fold(cfg, OpenMessage(d, cfg, msg), front)
  BY ChunksOfMessageFold
<1>2. OpenMessage(dev, cfg, msg) = dev /\ dev \in Same
  BY DEF OpenMessage, IsNotAbout, Agree
<1>3. ASSUME NEW d \in Same, NEW c \in S PROVE ChunkStep(cfg, d, c) \in Same
  <2> DEFINE p == cfg.peers[c.peer]
  <2>1. /\ p \in KeyedPeer /\ p.public_key \notin keys /\ IpsOutside(p, ips)
        /\ \A ip \in ips : dev.owner[ip] # p.public_key
        /\ c.lo \in Nat /\ c.hi \in Nat /\ c.hi <= Len(p.allowed_ips)
        /\ c.first = TRUE \/ c.first = FALSE
        /\ ChunkStep(cfg, d, c) \in Device
    BY ChunkFacts DEF IsNotAbout
  <2>2. d \in Device /\ Agree(d, dev, keys, ips)
    OBVIOUS
  <2>3. \A ip \in ips : d.owner[ip] # p.public_key
    BY <2>1, <2>2 DEF Agree
  <2>4. Agree(ChunkStep(cfg, d, c), d, keys, ips)
    <3>1. /\ Agree(SetPeer(d, p, TRUE, c.lo, c.hi), d, keys, ips)
          /\ Agree(SetPeer(d, p, FALSE, c.lo, c.hi), d, keys, ips)
      <4> HIDE DEF p
      <4> QED BY <2>1, <2>2, <2>3, SetPeerLeaves
    <3> QED BY <2>1, <3>1 DEF ChunkStep
  <2> HIDE DEF p
  <2>5. Agree(ChunkStep(cfg, d, c), dev, keys, ips)
    BY <2>2, <2>4 DEF Agree
  <2> QED BY <2>1, <2>5
<1>4. OverChunks!Fold(cfg, dev, front) \in Same
  <2> HIDE DEF Same, S
  <2> QED BY <1>1, <1>2, <1>3, OverChunks!FoldInvariant
<1> QED BY <1>1, <1>2, <1>4

\* An allowed IP keeps its owner, loses it, or is given to one of their peers.
LEMMA EntriesOwners ==
  ASSUME NEW dev \in Device, NEW keys, NEW ips, NEW cfg \in KeyedConfig, IsAbout(cfg, keys, ips),
         NEW msg \in GoodMessages(cfg), NEW n \in 0..Len(msg.peers), NEW ip \in Ips
  PROVE  ApplyEntries(dev, cfg, msg, n).owner[ip] \in {dev.owner[ip], Nobody} \cup keys
<1> DEFINE S == GoodChunks(cfg)
           Same == {d \in Device : d.owner[ip] \in {dev.owner[ip], Nobody} \cup keys}
           d0 == OpenMessage(dev, cfg, msg)
<1>1. PICK front \in Seq(S) : \A d : ApplyEntries(d, cfg, msg, n)
                                  = OverChunks!Fold(cfg, OpenMessage(d, cfg, msg), front)
  BY ChunksOfMessageFold
<1>2. d0 \in Same
  <2>1. NoPeers.owner[ip] = Nobody
    BY DEF NoPeers
  <2> QED BY <2>1, NoPeersIsDevice DEF OpenMessage
<1>3. ASSUME NEW d \in Same, NEW c \in S PROVE ChunkStep(cfg, d, c) \in Same
  <2> DEFINE p == cfg.peers[c.peer]
  <2>1. /\ p \in KeyedPeer /\ p.public_key \in keys
        /\ c.lo \in Nat /\ c.hi \in Nat /\ c.hi <= Len(p.allowed_ips)
        /\ c.first = TRUE \/ c.first = FALSE
        /\ ChunkStep(cfg, d, c) \in Device
    BY ChunkFacts DEF IsAbout
  <2>2. d \in Device /\ d.owner[ip] \in {dev.owner[ip], Nobody} \cup keys
    OBVIOUS
  <2>3. ChunkStep(cfg, d, c).owner[ip] \in {d.owner[ip], Nobody, p.public_key}
    <3>1. /\ SetPeer(d, p, TRUE, c.lo, c.hi).owner[ip] \in {d.owner[ip], Nobody, p.public_key}
          /\ SetPeer(d, p, FALSE, c.lo, c.hi).owner[ip] \in {d.owner[ip], Nobody, p.public_key}
      <4> HIDE DEF p
      <4> QED BY <2>1, <2>2, SetPeerOwners
    <3> QED BY <2>1, <3>1 DEF ChunkStep
  <2> HIDE DEF p
  <2> QED BY <2>1, <2>2, <2>3
<1>4. OverChunks!Fold(cfg, d0, front) \in Same
  <2> HIDE DEF Same, S, d0
  <2> QED BY <1>1, <1>2, <1>3, OverChunks!FoldInvariant
<1> QED BY <1>1, <1>4
=============================================================================
