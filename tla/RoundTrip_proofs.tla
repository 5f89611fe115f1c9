-------------------------- MODULE RoundTrip_proofs --------------------------
(***************************************************************************)
(* Proofs about the conversions, for every configuration of a caller and   *)
(* every message of the kernel, and integers of any width.                 *)
(***************************************************************************)
EXTENDS RoundTrip, TLAPS

-----------------------------------------------------------------------------
(* Flags and times.                                                        *)

LEMMA NoneFacts ==
  /\ \A v \in Values : v # None
  /\ \A v \in Text : v # None
  /\ \A v \in Duration : v # None
  /\ \A v \in Addresses : v # None
  /\ \A v \in 0..255 : v # None
  /\ \A v \in IpAddress : v # None
  /\ \A v \in Seq(IpAddress) : v # None
  /\ \A v \in Seq(PeerParsed) : v # None
BY NoneAssumption

\* Whatever bits of a flag value have a name, none is lost.
LEMMA FlagsSurvive ==
  ASSUME NEW bits, NEW names
  PROVE  FlagBits(ParsedFlags(bits, names)) = bits
<1>1. \A flag \in ParsedFlags(bits, names) : flag.bits \in Items(bits, names)
  BY DEF ParsedFlags, ParsedFlag
<1>2. \A item \in Items(bits, names) : item \subseteq bits
  BY DEF Items
<1>3. ASSUME NEW b \in bits
      PROVE  \E flag \in ParsedFlags(bits, names) : b \in flag.bits
  <2>1. PICK item \in Items(bits, names) : b \in item
    <3>1. CASE b \in names
      <4>1. {b} \in Items(bits, names)
        BY <3>1 DEF Items
      <4> QED BY <4>1
    <3>2. CASE b \notin names
      <4>1. b \in bits \ names
        BY <3>2
      <4>2. bits \ names \in Items(bits, names)
        BY <4>1 DEF Items
      <4> QED BY <4>1, <4>2
    <3> QED BY <3>1, <3>2
  <2>2. ParsedFlag(item, names) \in ParsedFlags(bits, names)
    BY DEF ParsedFlags
  <2>3. ParsedFlag(item, names).bits = item
    BY DEF ParsedFlag
  <2> QED BY <2>1, <2>2, <2>3
<1> QED BY <1>1, <1>2, <1>3 DEF FlagBits

LEMMA FlagsType ==
  ASSUME NEW bits \in SUBSET Bits, NEW names
  PROVE  ParsedFlags(bits, names) \in SUBSET Flag
<1>1. ASSUME NEW item \in Items(bits, names) PROVE ParsedFlag(item, names) \in Flag
  <2>1. item \in SUBSET Bits
    BY DEF Items
  <2> QED BY <2>1 DEF ParsedFlag, Flag
<1> QED BY <1>1 DEF ParsedFlags

LEMMA BitsType == ASSUME NEW flags \in SUBSET Flag PROVE FlagBits(flags) \in SUBSET Bits
BY DEF FlagBits, Flag

WireTimes == [seconds : I64, nano_seconds : I64]

NoTime(time) ==
  \/ time.seconds = 0 /\ time.nano_seconds = 0
  \/ time.seconds < 0
  \/ time.nano_seconds \notin 0..NANOS_PER_SECOND - 1

LEMMA SmallRemainder ==
  ASSUME NEW n \in Nat, NEW m \in Nat, n < m
  PROVE  n % m = n /\ n \div m = 0
OBVIOUS

LEMMA ParsedTimeFacts ==
  ASSUME NEW time \in WireTimes
  PROVE  /\ NoTime(time) => ParsedTime(time) = None
         /\ ~ NoTime(time) => /\ ParsedTime(time) = [secs |-> time.seconds,
                                                     nanos |-> time.nano_seconds]
                              /\ ParsedTime(time) \in Duration
                              /\ ParsedTime(time) # None
                              /\ WireTime(ParsedTime(time)) = time
<1>1. NoTime(time) => ParsedTime(time) = None
  BY DEF NoTime, ParsedTime
<1>2. ASSUME ~ NoTime(time)
      PROVE  /\ ParsedTime(time) = [secs |-> time.seconds, nanos |-> time.nano_seconds]
             /\ ParsedTime(time) \in Duration
             /\ ParsedTime(time) # None
             /\ WireTime(ParsedTime(time)) = time
  <2> DEFINE s == time.seconds
             n == time.nano_seconds
  <2>1. /\ s \in 0..I64_MAX /\ n \in 0..NANOS_PER_SECOND - 1
        /\ time = [seconds |-> s, nano_seconds |-> n]
    BY <1>2, ConversionAssumption DEF WireTimes, NoTime, I64
  <2>2. ParsedTime(time) = NewDuration(AsU64(s), n)
    BY <1>2 DEF ParsedTime, NoTime
  <2> HIDE DEF s, n
  <2>3. AsU64(s) = s
    <3> DEFINE size == 2 * I64_MAX + 2
    <3>1. s \in Nat /\ size \in Nat /\ s < size
      BY <2>1, ConversionAssumption
    <3> HIDE DEF size
    <3>2. s % size = s
      BY <3>1, SmallRemainder
    <3> QED BY <3>2 DEF AsU64, size
  <2>4. n % NANOS_PER_SECOND = n /\ n \div NANOS_PER_SECOND = 0
    <3>1. n \in Nat /\ NANOS_PER_SECOND \in Nat /\ n < NANOS_PER_SECOND
      BY <2>1, ConversionAssumption
    <3> QED BY <3>1, SmallRemainder
  <2>5. NewDuration(s, n) = [secs |-> s, nanos |-> n]
    BY <2>1, <2>4 DEF NewDuration
  <2>6. [secs |-> s, nanos |-> n] \in Duration
    BY <2>1, ConversionAssumption DEF Duration, U64
  <2>7. WireTime([secs |-> s, nanos |-> n]) = time
    BY <2>1, ConversionAssumption DEF WireTime, AsI64
  <2> QED BY <2>2, <2>3, <2>5, <2>6, <2>7, NoneAssumption DEF s, n
<1> QED BY <1>1, <1>2

LEMMA WireTimeFacts ==
  ASSUME NEW duration \in Duration
  PROVE  /\ WireTime(duration) \in WireTimes
         /\ SameTime(duration, WireTime(duration))
<1>1. WireTime(duration) \in WireTimes
  BY ConversionAssumption DEF WireTime, WireTimes, Duration, AsI64, I64, U64
<1>2. ASSUME duration.secs <= I64_MAX PROVE SameTime(duration, WireTime(duration))
  BY <1>2 DEF SameTime, WireTime, AsI64
<1>3. ASSUME ~ duration.secs <= I64_MAX PROVE SameTime(duration, WireTime(duration))
  <2>1. WireTime(duration).seconds < 0
    BY <1>3, ConversionAssumption DEF WireTime, AsI64, Duration, U64
  <2>2. ParsedTime(WireTime(duration)) = None
    BY <2>1 DEF ParsedTime
  <2>3. WireTime(duration).nano_seconds = duration.nanos
    BY DEF WireTime
  <2> QED BY <2>2, <2>3 DEF SameTime
<1> QED BY <1>1, <1>2, <1>3
-----------------------------------------------------------------------------
(* Allowed IPs.                                                            *)

ParseStep(env, ips, wireIp) == PushIp(ips, wireIp)
Parses == INSTANCE FoldInduction WITH op <- ParseStep

KeepStep(env, ips, ip) == KeepWhole(ips, ip)
Keeps == INSTANCE FoldInduction WITH op <- KeepStep

LEMMA ParsedIpsFold == ASSUME NEW ips PROVE ParsedIps(ips) = Parses!Fold(0, << >>, ips)
BY DEF ParsedIps, ParseStep, FoldLeft, MapThenFoldSet, Max,
       Parses!Fold, Parses!FoldLeft, Parses!MapThenFoldSet, Parses!Max

LEMMA WholeIpsFold == ASSUME NEW ips PROVE WholeIps(ips) = Keeps!Fold(0, << >>, ips)
BY DEF WholeIps, KeepStep, FoldLeft, MapThenFoldSet, Max,
       Keeps!Fold, Keeps!FoldLeft, Keeps!MapThenFoldSet, Keeps!Max

ValidIps == {ip \in IpAddress : ValidIp(ip)}
WireIpsOK(ips) == ips \in Seq(Range(ips)) /\ \A ip \in Range(ips) : WireIpOK(ip)

BuiltIps(ips) == [i \in DOMAIN ips |-> WireIp(ips[i])]

\* An allowed IP of the kernel is the same after it was parsed and built again.
LEMMA IpThereAndBack ==
  ASSUME NEW ip, WireIpOK(ip), Whole(ip)
  PROVE  /\ ParsedIp(ip) \in ValidIps /\ ParsedIp(ip) # None
         /\ WireIp(ParsedIp(ip)) = ip
<1> DEFINE flags == ParsedOptFlags(ip, AllowedIpFlags)
           addr == ip["ip_addr"]
           len == ip["prefix_length"]
           parsed == ParsedIp(ip)
<1>1. parsed = [ip_addr |-> addr, prefix_length |-> len, flags |-> flags]
  BY DEF ParsedIp, Whole
<1>2. addr \in Addresses /\ len \in 0..MaxPrefix(addr) /\ MaxPrefix(addr) \in {32, 128}
  BY DEF WireIpOK, MaxPrefix
<1>3. /\ flags \in Opt(SUBSET Flag)
      /\ flags # None <=> "flags" \in DOMAIN ip
      /\ "flags" \in DOMAIN ip => FlagBits(flags) = ip["flags"]
  <2>1. CASE "flags" \in DOMAIN ip
    <3>1. ip["flags"] \in SUBSET Bits /\ flags = ParsedFlags(ip["flags"], AllowedIpFlags)
      BY <2>1 DEF WireIpOK, ParsedOptFlags
    <3>2. flags # None
      BY <3>1, NoneAssumption
    <3> QED BY <2>1, <3>1, <3>2, FlagsSurvive, FlagsType DEF Opt
  <2>2. CASE "flags" \notin DOMAIN ip
    BY <2>2 DEF ParsedOptFlags, Opt
  <2> QED BY <2>1, <2>2
<1> HIDE DEF flags, addr, len
<1>4. parsed \in ValidIps
  BY <1>1, <1>2, <1>3 DEF ValidIps, IpAddress, ValidIp
<1>5. parsed # None
  BY <1>4, NoneAssumption DEF ValidIps
<1>6. Defined(parsed) = {"ip_addr", "prefix_length"}
                          \cup (IF "flags" \in DOMAIN ip THEN {"flags"} ELSE {})
  <2>1. addr # None /\ len # None
    <3>1. len \in 0..255
      BY <1>2
    <3> QED BY <1>2, <3>1, NoneFacts
  <2> QED BY <1>1, <1>3, <2>1 DEF Defined
<1>7. DOMAIN ip = Defined(parsed) \cup {"family"}
  BY <1>6 DEF WireIpOK, Whole
<1>8. ASSUME NEW name \in DOMAIN ip
      PROVE  WireIp(parsed)[name] = ip[name]
  <2>1. WireIp(parsed)[name] =
          CASE name = "family" -> Family(parsed.ip_addr)
            [] name = "flags" -> FlagBits(parsed.flags)
            [] OTHER -> parsed[name]
    BY <1>7 DEF WireIp
  <2>2. CASE name = "family"
    BY <1>1, <2>1, <2>2 DEF WireIpOK, addr
  <2>3. CASE name = "flags"
    BY <1>1, <1>3, <2>1, <2>3
  <2>4. CASE name \in {"ip_addr", "prefix_length"}
    BY <1>1, <2>1, <2>4 DEF addr, len
  <2>5. name \in {"ip_addr", "prefix_length", "family", "flags"}
    BY DEF WireIpOK
  <2> QED BY <2>2, <2>3, <2>4, <2>5
<1>9. WireIp(parsed) = ip
  <2>1. WireIp(parsed) = [name \in DOMAIN ip |-> WireIp(parsed)[name]]
    BY <1>7 DEF WireIp
  <2>2. ip = [name \in DOMAIN ip |-> ip[name]]
    BY DEF WireIpOK, IsFunction
  <2> QED BY <1>8, <2>1, <2>2
<1> QED BY <1>4, <1>5, <1>9

\* An allowed IP without an address or a length is left out.
LEMMA IpLeftOut == ASSUME NEW ip, ~ Whole(ip) PROVE ParsedIp(ip) = None
BY DEF ParsedIp, Whole

LEMMA BuiltAppend ==
  ASSUME NEW ips \in Seq(IpAddress), NEW ip \in IpAddress
  PROVE  BuiltIps(Append(ips, ip)) = Append(BuiltIps(ips), WireIp(ip))
BY DEF BuiltIps

\* What is left of a list of allowed IPs that was parsed and built again.
LEMMA IpsThereAndBack ==
  ASSUME NEW ips, WireIpsOK(ips)
  PROVE  /\ ParsedIps(ips) \in Seq(ValidIps)
         /\ BuiltIps(ParsedIps(ips)) = WholeIps(ips)
<1> DEFINE S == Range(ips)
           Rel == {r \in Seq(ValidIps) \X Seq(S) : BuiltIps(r[1]) = WholeIps(r[2])}
           none == << >>
<1>1. ips \in Seq(S) /\ \A ip \in S : WireIpOK(ip)
  BY DEF WireIpsOK
<1> HIDE DEF S
<1>2. <<none, none>> \in Rel
  <2>1. WholeIps(none) = none
    BY WholeIpsFold, Keeps!FoldEmpty
  <2>2. BuiltIps(none) = none
    BY DEF BuiltIps
  <2>3. none \in Seq(ValidIps) /\ none \in Seq(S)
    OBVIOUS
  <2> HIDE DEF none
  <2> QED BY <2>1, <2>2, <2>3
<1>3. ASSUME NEW acc, NEW s \in Seq(S), NEW e \in S, <<acc, s>> \in Rel
      PROVE  <<ParseStep(0, acc, e), Append(s, e)>> \in Rel
  <2> DEFINE next == ParseStep(0, acc, e)
             longer == Append(s, e)
  <2> HIDE DEF next, longer
  <2>1. acc \in Seq(ValidIps) /\ BuiltIps(acc) = WholeIps(s)
    BY <1>3
  <2>2. WholeIps(Append(s, e)) = KeepWhole(WholeIps(s), e)
    <3>1. Keeps!Fold(0, << >>, Append(s, e)) = KeepStep(0, Keeps!Fold(0, << >>, s), e)
      BY Keeps!FoldAppend
    <3> QED BY <3>1, WholeIpsFold DEF KeepStep
  <2>3. ASSUME Whole(e)
        PROVE  next \in Seq(ValidIps) /\ BuiltIps(next) = WholeIps(longer)
    <3>1. /\ ParsedIp(e) \in ValidIps /\ ParsedIp(e) # None
          /\ WireIp(ParsedIp(e)) = e
      BY <1>1, <2>3, IpThereAndBack
    <3>2. ParseStep(0, acc, e) = Append(acc, ParsedIp(e))
      BY <3>1 DEF ParseStep, PushIp
    <3>3. Append(acc, ParsedIp(e)) \in Seq(ValidIps)
      BY <2>1, <3>1
    <3>4. acc \in Seq(IpAddress) /\ ParsedIp(e) \in IpAddress
      BY <2>1, <3>1 DEF ValidIps
    <3>5. BuiltIps(Append(acc, ParsedIp(e))) = WholeIps(Append(s, e))
      BY <2>1, <2>2, <2>3, <3>1, <3>4, BuiltAppend DEF KeepWhole
    <3> QED BY <3>2, <3>3, <3>5 DEF next, longer
  <2>4. ASSUME ~ Whole(e)
        PROVE  next \in Seq(ValidIps) /\ BuiltIps(next) = WholeIps(longer)
    BY <2>1, <2>2, <2>4, IpLeftOut DEF ParseStep, PushIp, KeepWhole, next, longer
  <2>5. next \in Seq(ValidIps) /\ longer \in Seq(S) /\ BuiltIps(next) = WholeIps(longer)
    BY <2>3, <2>4 DEF longer
  <2>6. <<next, longer>> \in Rel
    BY <2>5
  <2> QED BY <2>6 DEF next, longer
<1> HIDE DEF Rel, none
<1>4. <<Parses!Fold(0, none, ips), ips>> \in Rel
  <2>1. <<none, << >>>> \in Rel
    BY <1>2 DEF none
  <2> QED BY <1>1, <1>3, <2>1, Parses!FoldRelation
<1> QED BY <1>4, ParsedIpsFold DEF Rel, none

\* Once those without an address or a length are gone, the list stays the same.
LEMMA WholeIpsFacts ==
  ASSUME NEW ips, WireIpsOK(ips)
  PROVE  /\ WireIpsOK(WholeIps(ips))
         /\ WholeIps(WholeIps(ips)) = WholeIps(ips)
<1> DEFINE S == Range(ips)
           W == {ip \in S : Whole(ip)}
           whole == WholeIps(ips)
           Inv == Seq(W)
           Rel == {r \in Seq(W) \X Seq(W) : r[1] = r[2]}
           none == << >>
<1>1. ips \in Seq(S) /\ \A ip \in S : WireIpOK(ip)
  BY DEF WireIpsOK
<1>2. whole \in Seq(W)
  <2> HIDE DEF S
  <2>1. << >> \in Inv /\ \A acc \in Inv, e \in S : KeepStep(0, acc, e) \in Inv
    BY DEF KeepStep, KeepWhole
  <2> HIDE DEF Inv
  <2>2. Keeps!Fold(0, << >>, ips) \in Inv
    BY <1>1, <2>1, Keeps!FoldInvariant
  <2> QED BY <2>2, WholeIpsFold DEF Inv
<1> HIDE DEF whole
<1>3. WireIpsOK(whole)
  <2>1. \A i \in DOMAIN whole : whole[i] \in W
    BY <1>2
  <2>2. Range(whole) \subseteq W
    BY <2>1 DEF Range
  <2>3. whole \in Seq(Range(whole))
    <3>1. \A i \in DOMAIN whole : whole[i] \in Range(whole)
      BY DEF Range
    <3> HIDE DEF W
    <3> DEFINE R == Range(whole)
    <3> HIDE DEF R
    <3>2. \A i \in DOMAIN whole : whole[i] \in R
      BY <3>1 DEF R
    <3>3. whole \in Seq(R)
      BY <1>2, <3>2
    <3> QED BY <3>3 DEF R
  <2> QED BY <1>1, <2>2, <2>3 DEF WireIpsOK
<1>4. WholeIps(whole) = whole
  <2>1. <<none, none>> \in Rel
    <3>1. none \in Seq(W)
      OBVIOUS
    <3> HIDE DEF none, W
    <3> QED BY <3>1
  <2>2. ASSUME NEW acc, NEW s \in Seq(W), NEW e \in W, <<acc, s>> \in Rel
        PROVE  <<KeepStep(0, acc, e), Append(s, e)>> \in Rel
    <3> DEFINE longer == Append(s, e)
    <3>1. acc = s /\ Whole(e) /\ longer \in Seq(W)
      BY <2>2
    <3>2. KeepStep(0, acc, e) = longer
      BY <3>1 DEF KeepStep, KeepWhole
    <3> HIDE DEF longer, W
    <3>3. <<longer, longer>> \in Rel
      BY <3>1
    <3> QED BY <3>2, <3>3 DEF longer
  <2> HIDE DEF Rel, W, none
  <2>3. <<Keeps!Fold(0, none, whole), whole>> \in Rel
    <3>1. <<none, << >>>> \in Rel
      BY <2>1 DEF none
    <3> QED BY <1>2, <2>2, <3>1, Keeps!FoldRelation
  <2> QED BY <2>3, WholeIpsFold DEF Rel, none
<1> QED BY <1>3, <1>4 DEF whole
\* What a caller asks for is well formed on the wire.
LEMMA WireIpFacts ==
  ASSUME NEW ip \in ValidIps
  PROVE  WireIpOK(WireIp(ip))
<1> DEFINE wireIp == WireIp(ip)
<1>1. /\ ip.ip_addr \in Addresses /\ ip.prefix_length \in 0..MaxPrefix(ip.ip_addr)
      /\ DOMAIN ip = {"ip_addr", "prefix_length", "flags"}
      /\ ip.flags # None => ip.flags \in SUBSET Flag
  BY DEF ValidIps, IpAddress, ValidIp, MaxPrefix, Opt
<1>2. /\ DOMAIN wireIp = Defined(ip) \cup {"family"}
      /\ wireIp["family"] = Family(ip.ip_addr)
      /\ "flags" \in DOMAIN wireIp => wireIp["flags"] = FlagBits(ip.flags)
      /\ \A name \in {"ip_addr", "prefix_length"} \cap DOMAIN wireIp : wireIp[name] = ip[name]
  BY DEF WireIp
<1>6. IsFunction(wireIp)
  BY DEF WireIp, IsFunction
<1>3. /\ Defined(ip) \subseteq {"ip_addr", "prefix_length", "flags"}
      /\ "flags" \in Defined(ip) => ip.flags # None
  BY <1>1 DEF Defined
<1> HIDE DEF wireIp
<1>4. ASSUME "flags" \in DOMAIN wireIp PROVE wireIp["flags"] \in SUBSET Bits
  <2>1. ip.flags \in SUBSET Flag
    BY <1>1, <1>2, <1>3, <1>4
  <2> QED BY <1>2, <1>4, <2>1, BitsType
<1>5. Whole(wireIp) => /\ wireIp["ip_addr"] = ip.ip_addr
                       /\ wireIp["prefix_length"] = ip.prefix_length
  BY <1>2 DEF Whole
<1>7. WireIpOK(wireIp)
  <2>2. "family" \in DOMAIN wireIp
        /\ DOMAIN wireIp \subseteq {"ip_addr", "prefix_length", "family", "flags"}
    BY <1>2, <1>3
  <2>3. Whole(wireIp) => /\ wireIp["ip_addr"] \in Addresses
                         /\ wireIp["prefix_length"] \in 0..MaxPrefix(wireIp["ip_addr"])
                         /\ wireIp["family"] = Family(wireIp["ip_addr"])
    BY <1>1, <1>2, <1>5
  <2> QED BY <1>4, <1>6, <2>2, <2>3 DEF WireIpOK
<1> QED BY <1>7 DEF wireIp

LEMMA BuiltIpsOK ==
  ASSUME NEW ips \in Seq(ValidIps)
  PROVE  WireIpsOK(BuiltIps(ips))
<1> DEFINE built == BuiltIps(ips)
           R == Range(built)
<1>1. /\ DOMAIN built = 1..Len(ips) /\ Len(ips) \in Nat
      /\ built = [i \in 1..Len(ips) |-> WireIp(ips[i])]
      /\ \A i \in DOMAIN built : built[i] = WireIp(ips[i]) /\ ips[i] \in ValidIps
  BY DEF BuiltIps
<1>2. \A i \in DOMAIN built : WireIpOK(built[i])
  BY <1>1, WireIpFacts
<1> HIDE DEF built
<1>3. /\ \A i \in DOMAIN built : built[i] \in R
      /\ \A ip \in R : \E i \in DOMAIN built : ip = built[i]
  BY DEF Range
<1> HIDE DEF R
<1>4. built \in Seq(R)
  BY <1>1, <1>3
<1> QED BY <1>2, <1>3, <1>4 DEF WireIpsOK, R, built

-----------------------------------------------------------------------------
(* Peers.                                                                  *)

\* The attributes of a peer of the kernel.
LEMMA WirePeerFacts ==
  ASSUME NEW peer
  PROVE  WirePeerOK(peer) <=>
           /\ "public_key" \in DOMAIN peer /\ DOMAIN peer \subseteq PeerFieldNames
           /\ \A name \in DOMAIN peer \cap {"public_key", "preshared_key"} : peer[name] \in KeyBytes
           /\ "last_handshake" \in DOMAIN peer => peer["last_handshake"] \in WireTimes
           /\ "allowed_ips" \in DOMAIN peer => WireIpsOK(peer["allowed_ips"])
           /\ "flags" \in DOMAIN peer => peer["flags"] \in SUBSET Bits
           /\ \A name \in DOMAIN peer \ {"public_key", "preshared_key", "last_handshake",
                                         "allowed_ips", "flags"} : peer[name] \in Values
BY DEF WirePeerOK, WireTimes, WireIpsOK

LEMMA EncodeFacts ==
  ASSUME NEW key \in KeyBytes
  PROVE  /\ Encode(key) \in Text /\ Encode(key) # None
         /\ Decodes(Encode(key)) /\ Decode(Encode(key)) = key
<1>1. Encode(key) \in Text
  BY DEF Encode, Text
<1>2. Encode(key) # None
  BY <1>1, NoneFacts
<1>3. Decodes(Encode(key)) /\ Decode(Encode(key)) = key
  BY DEF Encode, Decodes, Decode
<1> QED BY <1>1, <1>2, <1>3

\* What is there of a peer after it was parsed, and what building makes of it.
LEMMA ParsedPeerFacts ==
  ASSUME NEW peer, WirePeerOK(peer)
  PROVE  LET parsed == ParsedPeer(peer) IN
         /\ DOMAIN parsed = PeerFieldNames
         /\ \A name \in PeerFieldNames \ DOMAIN peer : parsed[name] = None
         /\ parsed["public_key"] = Encode(peer["public_key"])
         /\ "preshared_key" \in DOMAIN peer =>
              parsed["preshared_key"] = IF peer["preshared_key"] = Zero THEN None
                                        ELSE Encode(peer["preshared_key"])
         /\ "last_handshake" \in DOMAIN peer =>
              parsed["last_handshake"] = ParsedTime(peer["last_handshake"])
         /\ "allowed_ips" \in DOMAIN peer =>
              parsed["allowed_ips"] = ParsedIps(peer["allowed_ips"])
         /\ "flags" \in DOMAIN peer =>
              parsed["flags"] = ParsedFlags(peer["flags"], PeerFlags)
         /\ \A name \in DOMAIN peer \ {"public_key", "preshared_key", "last_handshake",
                                       "allowed_ips", "flags"} : parsed[name] = peer[name]
<1>1. "public_key" \in DOMAIN peer /\ DOMAIN peer \subseteq PeerFieldNames
  BY WirePeerFacts
<1> QED BY <1>1 DEF ParsedPeer

LEMMA ParsedPeerType ==
  ASSUME NEW peer, WirePeerOK(peer)
  PROVE  ParsedPeer(peer) \in PeerParsed /\ ValidPeer(ParsedPeer(peer))
<1> DEFINE parsed == ParsedPeer(peer)
<1>1. /\ DOMAIN parsed = PeerFieldNames
      /\ parsed = [name \in PeerFieldNames |-> parsed[name]]
      /\ parsed["public_key"] \in Text /\ Decodes(parsed["public_key"])
      /\ parsed["public_key"] # None
  BY ParsedPeerFacts, WirePeerFacts, EncodeFacts DEF ParsedPeer
<1>2. /\ parsed["preshared_key"] \in Opt(Text)
      /\ parsed["preshared_key"] # None => Decodes(parsed["preshared_key"])
  <2>1. "preshared_key" \in PeerFieldNames
    BY DEF PeerFieldNames
  <2> QED BY <2>1, ParsedPeerFacts, WirePeerFacts, EncodeFacts DEF Opt
<1>3. parsed["last_handshake"] \in Opt(Duration)
  <2>1. "last_handshake" \in PeerFieldNames
    BY DEF PeerFieldNames
  <2> QED BY <2>1, ParsedPeerFacts, WirePeerFacts, ParsedTimeFacts DEF Opt
<1>4. /\ parsed["allowed_ips"] \in Opt(Seq(IpAddress))
      /\ parsed["allowed_ips"] # None =>
           \A i \in DOMAIN parsed["allowed_ips"] : ValidIp(parsed["allowed_ips"][i])
  <2>1. "allowed_ips" \in PeerFieldNames
    BY DEF PeerFieldNames
  <2>2. CASE "allowed_ips" \in DOMAIN peer
    <3> DEFINE ips == parsed["allowed_ips"]
    <3>1. ips \in Seq(ValidIps)
      BY <2>2, ParsedPeerFacts, WirePeerFacts, IpsThereAndBack
    <3> HIDE DEF ips
    <3>2. ips \in Seq(IpAddress) /\ \A i \in DOMAIN ips : ValidIp(ips[i])
      BY <3>1 DEF ValidIps
    <3> QED BY <3>2 DEF Opt, ips
  <2>3. CASE "allowed_ips" \notin DOMAIN peer
    BY <2>1, <2>3, ParsedPeerFacts DEF Opt
  <2> QED BY <2>2, <2>3
<1>5. parsed["flags"] \in Opt(SUBSET Flag)
  <2>1. "flags" \in PeerFieldNames
    BY DEF PeerFieldNames
  <2> QED BY <2>1, ParsedPeerFacts, WirePeerFacts, FlagsType DEF Opt
<1>6. \A name \in PeerFieldNames \ {"public_key", "preshared_key", "last_handshake",
                                    "allowed_ips", "flags"} : parsed[name] \in Opt(Values)
  BY ParsedPeerFacts, WirePeerFacts DEF Opt
<1> HIDE DEF parsed
<1>7. parsed \in PeerParsed
  BY <1>1, <1>2, <1>3, <1>4, <1>5, <1>6 DEF PeerParsed, PeerFieldNames, Opt
<1>8. ValidPeer(parsed)
  BY <1>1, <1>2, <1>4 DEF ValidPeer
<1> QED BY <1>7, <1>8 DEF parsed
\* A peer of the kernel that was parsed and built again.
LEMMA PeerThereAndBack ==
  ASSUME NEW peer, WirePeerOK(peer)
  PROVE  SamePeer(peer, WirePeer(ParsedPeer(peer)))
<1> DEFINE parsed == ParsedPeer(peer)
           built == BuiltPeer(parsed)
           sent == WirePeer(parsed)
           special == {"public_key", "preshared_key", "last_handshake", "allowed_ips", "flags"}
<1>1. /\ DOMAIN parsed = PeerFieldNames
      /\ \A name \in PeerFieldNames \ DOMAIN peer : parsed[name] = None
      /\ \A name \in DOMAIN peer \ special : parsed[name] = peer[name] /\ parsed[name] # None
      /\ DOMAIN peer \subseteq PeerFieldNames
  BY ParsedPeerFacts, WirePeerFacts, NoneFacts
<1>2. /\ parsed["public_key"] # None
      /\ Decode(parsed["public_key"]) = peer["public_key"]
  BY ParsedPeerFacts, WirePeerFacts, EncodeFacts
<1>3. ASSUME "preshared_key" \in DOMAIN peer
      PROVE  /\ parsed["preshared_key"] # None <=> Kept(peer, "preshared_key")
             /\ Kept(peer, "preshared_key") =>
                  Decode(parsed["preshared_key"]) = peer["preshared_key"]
  <2>1. /\ peer["preshared_key"] \in KeyBytes
        /\ parsed["preshared_key"] = IF peer["preshared_key"] = Zero THEN None
                                     ELSE Encode(peer["preshared_key"])
    BY <1>3, ParsedPeerFacts, WirePeerFacts
  <2> QED BY <2>1, EncodeFacts DEF Kept
<1>4. ASSUME "last_handshake" \in DOMAIN peer
      PROVE  /\ parsed["last_handshake"] # None <=> Kept(peer, "last_handshake")
             /\ Kept(peer, "last_handshake") =>
                  WireTime(parsed["last_handshake"]) = peer["last_handshake"]
  <2> DEFINE time == peer["last_handshake"]
  <2>1. time \in WireTimes /\ parsed["last_handshake"] = ParsedTime(time)
    BY <1>4, ParsedPeerFacts, WirePeerFacts
  <2>2. Kept(peer, "last_handshake") <=> ~ NoTime(time)
    <3>1. Kept(peer, "last_handshake") <=>
            /\ time.seconds >= 0
            /\ time.nano_seconds \in 0..NANOS_PER_SECOND - 1
            /\ time # [seconds |-> 0, nano_seconds |-> 0]
      BY DEF Kept
    <3> HIDE DEF time
    <3>2. /\ time.seconds \in Int
          /\ time = [seconds |-> time.seconds, nano_seconds |-> time.nano_seconds]
      BY <2>1 DEF WireTimes, I64
    <3>3. time = [seconds |-> 0, nano_seconds |-> 0]
            <=> time.seconds = 0 /\ time.nano_seconds = 0
      BY <3>2
    <3>4. time.seconds >= 0 <=> ~ (time.seconds < 0)
      BY <3>2
    <3> QED BY <3>1, <3>3, <3>4 DEF NoTime
  <2> QED BY <2>1, <2>2, ParsedTimeFacts
<1>5. ASSUME "flags" \in DOMAIN peer
      PROVE  parsed["flags"] # None /\ FlagBits(parsed["flags"]) = peer["flags"]
  <2>1. /\ peer["flags"] \in SUBSET Bits
        /\ parsed["flags"] = ParsedFlags(peer["flags"], PeerFlags)
    BY <1>5, ParsedPeerFacts, WirePeerFacts
  <2> QED BY <2>1, FlagsSurvive, NoneAssumption
<1>6. ASSUME "allowed_ips" \in DOMAIN peer
      PROVE  /\ parsed["allowed_ips"] # None
             /\ BuiltIps(parsed["allowed_ips"]) = WholeIps(peer["allowed_ips"])
  <2> DEFINE ips == parsed["allowed_ips"]
  <2>1. WireIpsOK(peer["allowed_ips"]) /\ ips = ParsedIps(peer["allowed_ips"])
    BY <1>6, ParsedPeerFacts, WirePeerFacts
  <2>2. ips \in Seq(ValidIps) /\ BuiltIps(ips) = WholeIps(peer["allowed_ips"])
    BY <2>1, IpsThereAndBack
  <2> HIDE DEF ips
  <2>3. ips \in Seq(IpAddress)
    BY <2>2 DEF ValidIps
  <2> QED BY <2>2, <2>3, NoneFacts DEF ips
<1>7. Removed(parsed) <=> "flags" \in DOMAIN peer /\ RemoveMe \in peer["flags"]
  <2>1. "flags" \in PeerFieldNames
    BY DEF PeerFieldNames
  <2> QED BY <1>1, <1>5, <2>1 DEF Removed
<1>8. /\ DOMAIN sent = Defined(parsed) \ (IF Removed(parsed) THEN {"allowed_ips"} ELSE {})
      /\ \A name \in DOMAIN sent :
           sent[name] = CASE name \in {"public_key", "preshared_key"} -> Decode(parsed[name])
                          [] name = "last_handshake" -> WireTime(parsed[name])
                          [] name = "allowed_ips" -> BuiltIps(parsed[name])
                          [] name = "flags" -> FlagBits(parsed[name])
                          [] OTHER -> parsed[name]
  BY DEF WirePeer, BuiltPeer, BuiltIps
<1> HIDE DEF parsed, sent, built
<1>9. ASSUME NEW name
      PROVE  name \in DOMAIN sent <=> name \in DOMAIN peer /\ Kept(peer, name)
  <2>1. CASE name \notin DOMAIN peer
    BY <1>1, <1>8, <2>1 DEF Defined
  <2>2. CASE name \in DOMAIN peer /\ name \in {"preshared_key", "last_handshake"}
    BY <1>1, <1>3, <1>4, <1>8, <2>2 DEF Defined
  <2>3. CASE name = "allowed_ips" /\ name \in DOMAIN peer
    <3>1. Kept(peer, name) <=> ~ Removed(parsed)
      BY <1>7, <2>3 DEF Kept
    <3>2. name \in Defined(parsed)
      BY <1>1, <1>6, <2>3 DEF Defined
    <3> QED BY <1>8, <2>3, <3>1, <3>2
  <2>4. CASE name \in DOMAIN peer /\ name \notin {"preshared_key", "last_handshake", "allowed_ips"}
    <3>1. Kept(peer, name)
      BY <2>4 DEF Kept
    <3>2. name \in Defined(parsed)
      BY <1>1, <1>2, <1>5, <2>4 DEF Defined
    <3> QED BY <1>8, <2>4, <3>1, <3>2
  <2> QED BY <2>1, <2>2, <2>3, <2>4
<1>10. ASSUME NEW name \in DOMAIN sent
       PROVE  sent[name] = IF name = "allowed_ips" THEN WholeIps(peer[name]) ELSE peer[name]
  <2>1. name \in DOMAIN peer /\ Kept(peer, name)
    BY <1>9
  <2> QED BY <1>1, <1>2, <1>3, <1>4, <1>5, <1>6, <1>8, <2>1
<1>11. DOMAIN sent = {name \in DOMAIN peer : Kept(peer, name)}
  BY <1>9
<1>12. SamePeer(peer, sent)
  BY <1>10, <1>11 DEF SamePeer
<1> QED BY <1>12 DEF sent, parsed
\* A peer of a caller is well formed on the wire.
LEMMA BuiltPeerOK ==
  ASSUME NEW peer \in PeerParsed, ValidPeer(peer)
  PROVE  WirePeerOK(WirePeer(peer))
<1> DEFINE sent == WirePeer(peer)
           special == {"public_key", "preshared_key", "last_handshake", "allowed_ips", "flags"}
<1>1. /\ DOMAIN peer = PeerFieldNames
      /\ \A name \in {"public_key", "preshared_key"} : peer[name] \in Opt(Text)
      /\ peer["last_handshake"] \in Opt(Duration)
      /\ peer["allowed_ips"] \in Opt(Seq(IpAddress))
      /\ peer["flags"] \in Opt(SUBSET Flag)
      /\ \A name \in PeerFieldNames \ special : peer[name] \in Opt(Values)
  BY DEF PeerParsed, PeerFieldNames
<1>2. /\ peer["public_key"] # None
      /\ peer["allowed_ips"] # None =>
           \A i \in DOMAIN peer["allowed_ips"] : ValidIp(peer["allowed_ips"][i])
  BY DEF ValidPeer
<1>3. /\ DOMAIN sent = Defined(peer) \ (IF Removed(peer) THEN {"allowed_ips"} ELSE {})
      /\ \A name \in DOMAIN sent :
           sent[name] = CASE name \in {"public_key", "preshared_key"} -> Decode(peer[name])
                          [] name = "last_handshake" -> WireTime(peer[name])
                          [] name = "allowed_ips" -> BuiltIps(peer[name])
                          [] name = "flags" -> FlagBits(peer[name])
                          [] OTHER -> peer[name]
  BY DEF WirePeer, BuiltPeer, BuiltIps
<1> HIDE DEF sent
<1>4. \A name \in DOMAIN sent : name \in PeerFieldNames /\ peer[name] # None
  BY <1>1, <1>3 DEF Defined
<1>5. "public_key" \in DOMAIN sent
  BY <1>1, <1>2, <1>3 DEF Defined, PeerFieldNames
<1>6. ASSUME NEW name \in DOMAIN sent \cap {"public_key", "preshared_key"}
      PROVE  sent[name] \in KeyBytes
  <2>1. peer[name] \in Text
    BY <1>1, <1>4 DEF Opt
  <2> QED BY <1>3, <2>1 DEF Decode, Text
<1>7. ASSUME "last_handshake" \in DOMAIN sent PROVE sent["last_handshake"] \in WireTimes
  <2>1. peer["last_handshake"] \in Duration
    BY <1>1, <1>4, <1>7 DEF Opt
  <2> QED BY <1>3, <1>7, <2>1, WireTimeFacts
<1>8. ASSUME "allowed_ips" \in DOMAIN sent PROVE WireIpsOK(sent["allowed_ips"])
  <2> DEFINE ips == peer["allowed_ips"]
  <2>1. ips \in Seq(IpAddress) /\ \A i \in DOMAIN ips : ValidIp(ips[i])
    BY <1>1, <1>2, <1>4, <1>8 DEF Opt
  <2> HIDE DEF ips
  <2>2. ips \in Seq(ValidIps)
    <3>1. \A i \in DOMAIN ips : ips[i] \in ValidIps
      BY <2>1 DEF ValidIps
    <3> DEFINE V == ValidIps
    <3> HIDE DEF V
    <3>2. ips \in Seq(V)
      BY <2>1, <3>1 DEF V
    <3> QED BY <3>2 DEF V
  <2> QED BY <1>3, <1>8, <2>2, BuiltIpsOK DEF ips
<1>9. ASSUME "flags" \in DOMAIN sent PROVE sent["flags"] \in SUBSET Bits
  <2>1. peer["flags"] \in SUBSET Flag
    BY <1>1, <1>4, <1>9 DEF Opt
  <2> QED BY <1>3, <1>9, <2>1, BitsType
<1>10. ASSUME NEW name \in DOMAIN sent \ special PROVE sent[name] \in Values
  <2>1. peer[name] \in Values
    BY <1>1, <1>4 DEF Opt
  <2> QED BY <1>3, <2>1
<1>11. WirePeerOK(sent)
  BY <1>4, <1>5, <1>6, <1>7, <1>8, <1>9, <1>10, WirePeerFacts
<1> QED BY <1>11 DEF sent

\* Writing a peer back twice is as good as writing it back once.
LEMMA SamePeerTwice ==
  ASSUME NEW a, NEW b, NEW c, WirePeerOK(a), SamePeer(a, b), SamePeer(b, c)
  PROVE  SamePeer(a, c)
<1>1. /\ \A name : name \in DOMAIN b <=> name \in DOMAIN a /\ Kept(a, name)
      /\ \A name : name \in DOMAIN c <=> name \in DOMAIN b /\ Kept(b, name)
  BY DEF SamePeer
<1>2. ASSUME NEW name \in DOMAIN b, name # "allowed_ips" PROVE b[name] = a[name]
  BY <1>2 DEF SamePeer
<1>3. "flags" \in DOMAIN a <=> "flags" \in DOMAIN b
  BY <1>1 DEF Kept
<1>4. ASSUME NEW name \in DOMAIN b PROVE Kept(b, name) <=> Kept(a, name)
  BY <1>2, <1>3 DEF Kept
<1>5. DOMAIN c = {name \in DOMAIN a : Kept(a, name)}
  BY <1>1, <1>4 DEF SamePeer
<1>6. ASSUME NEW name \in DOMAIN c
      PROVE  c[name] = IF name = "allowed_ips" THEN WholeIps(a[name]) ELSE a[name]
  <2>1. name \in DOMAIN b /\ name \in DOMAIN a
    BY <1>1
  <2>2. CASE name = "allowed_ips"
    <3>1. b[name] = WholeIps(a[name]) /\ c[name] = WholeIps(b[name])
      BY <2>1, <2>2 DEF SamePeer
    <3>2. WireIpsOK(a[name])
      BY <2>1, <2>2, WirePeerFacts
    <3> QED BY <2>2, <3>1, <3>2, WholeIpsFacts
  <2>3. CASE name # "allowed_ips"
    BY <1>2, <2>1, <2>3 DEF SamePeer
  <2> QED BY <2>2, <2>3
<1> QED BY <1>5, <1>6 DEF SamePeer

-----------------------------------------------------------------------------
(* Lengths: what is built from a parsed message is no longer than it was.  *)

IpLenStep(env, len, ip) == AddIpLen(len, ip)
IpSums == INSTANCE FoldInduction WITH op <- IpLenStep

PeerLenStep(env, len, peer) == AddPeerLen(len, peer)
PeerSums == INSTANCE FoldInduction WITH op <- PeerLenStep

LEMMA IpsLenFold == ASSUME NEW ips PROVE IpsLen(ips) = IpSums!Fold(0, 0, ips)
BY DEF IpsLen, IpLenStep, FoldLeft, MapThenFoldSet, Max,
       IpSums!Fold, IpSums!FoldLeft, IpSums!MapThenFoldSet, IpSums!Max

LEMMA PeersLenFold == ASSUME NEW peers PROVE PeersLen(peers) = PeerSums!Fold(0, 0, peers)
BY DEF PeersLen, PeerLenStep, FoldLeft, MapThenFoldSet, Max,
       PeerSums!Fold, PeerSums!FoldLeft, PeerSums!MapThenFoldSet, PeerSums!Max

LEMMA LenOfNat == ASSUME NEW msg, NEW name PROVE LenOf(msg, name) \in Nat
BY DEF LenOf, AttrLen, NLA_HEADER_SIZE

LEMMA WireIpLenNat == ASSUME NEW ip PROVE WireIpLen(ip) \in Nat
BY LenOfNat DEF WireIpLen, NLA_HEADER_SIZE

LEMMA IpsLenFacts ==
  ASSUME NEW S, NEW ips \in Seq(S)
  PROVE  /\ IpsLen(ips) \in Nat
         /\ \A ip \in S : IpsLen(Append(ips, ip)) = IpsLen(ips) + WireIpLen(ip)
<1> DEFINE Inv == Nat
           zero == 0
<1>1. zero \in Inv /\ \A len \in Inv, ip \in S : IpLenStep(0, len, ip) \in Inv
  BY WireIpLenNat DEF IpLenStep, AddIpLen
<1>2. IpSums!Fold(0, zero, ips) \in Inv
  <2> HIDE DEF Inv, zero
  <2> QED BY <1>1, IpSums!FoldInvariant
<1>3. ASSUME NEW ip \in S
      PROVE  IpSums!Fold(0, 0, Append(ips, ip)) = IpLenStep(0, IpSums!Fold(0, 0, ips), ip)
  BY IpSums!FoldAppend
<1> QED BY <1>2, <1>3, IpsLenFold DEF IpLenStep, AddIpLen

LEMMA WholeIpsShorter ==
  ASSUME NEW ips, WireIpsOK(ips)
  PROVE  /\ IpsLen(WholeIps(ips)) \in Nat /\ IpsLen(ips) \in Nat
         /\ IpsLen(WholeIps(ips)) <= IpsLen(ips)
<1> DEFINE S == Range(ips)
           Rel == {r \in Seq(S) \X Seq(S) : IpsLen(r[1]) <= IpsLen(r[2])}
           none == << >>
<1>1. ips \in Seq(S)
  BY DEF WireIpsOK
<1> HIDE DEF S
<1>2. <<none, none>> \in Rel
  <2>1. none \in Seq(S)
    OBVIOUS
  <2> HIDE DEF none
  <2>2. IpsLen(none) \in Nat
    BY <2>1, IpsLenFacts
  <2> QED BY <2>1, <2>2
<1>3. ASSUME NEW acc, NEW s \in Seq(S), NEW e \in S, <<acc, s>> \in Rel
      PROVE  <<KeepStep(0, acc, e), Append(s, e)>> \in Rel
  <2> DEFINE next == KeepStep(0, acc, e)
             longer == Append(s, e)
  <2>1. /\ acc \in Seq(S) /\ IpsLen(acc) <= IpsLen(s)
        /\ IpsLen(acc) \in Nat /\ IpsLen(s) \in Nat /\ WireIpLen(e) \in Nat
        /\ IpsLen(Append(acc, e)) = IpsLen(acc) + WireIpLen(e)
        /\ IpsLen(longer) = IpsLen(s) + WireIpLen(e)
    BY <1>3, IpsLenFacts, WireIpLenNat
  <2>2. longer \in Seq(S) /\ next \in Seq(S) /\ (next = acc \/ next = Append(acc, e))
    BY <2>1 DEF KeepStep, KeepWhole
  <2> HIDE DEF next, longer
  <2>3. IpsLen(next) <= IpsLen(longer)
    <3>1. CASE next = acc
      <4>1. IpsLen(next) = IpsLen(acc)
        BY <3>1
      <4> QED BY <2>1, <4>1
    <3>2. CASE next = Append(acc, e)
      <4>1. IpsLen(next) = IpsLen(acc) + WireIpLen(e)
        BY <2>1, <3>2
      <4> QED BY <2>1, <4>1
    <3> QED BY <2>2, <3>1, <3>2
  <2>4. <<next, longer>> \in Rel
    BY <2>2, <2>3
  <2> QED BY <2>4 DEF next, longer
<1> HIDE DEF Rel, none
<1>4. <<Keeps!Fold(0, none, ips), ips>> \in Rel
  <2>1. <<none, << >>>> \in Rel
    BY <1>2 DEF none
  <2> QED BY <1>1, <1>3, <2>1, Keeps!FoldRelation
<1>5. /\ WholeIps(ips) \in Seq(S)
      /\ IpsLen(WholeIps(ips)) <= IpsLen(ips)
  BY <1>4, WholeIpsFold DEF Rel, none
<1> QED BY <1>1, <1>5, IpsLenFacts

LEMMA SamePeerShorter ==
  ASSUME NEW a, NEW b, WirePeerOK(a), SamePeer(a, b)
  PROVE  /\ WirePeerLen(a) \in Nat /\ WirePeerLen(b) \in Nat
         /\ WirePeerLen(b) <= WirePeerLen(a)
<1> DEFINE IpsPart(peer) ==
             IF "allowed_ips" \in DOMAIN peer THEN NLA_HEADER_SIZE + IpsLen(peer["allowed_ips"])
             ELSE 0
<1>1. ASSUME NEW name, name # "allowed_ips"
      PROVE  LenOf(b, name) <= LenOf(a, name)
  <2>1. LenOf(a, name) \in Nat
    BY LenOfNat
  <2>2. CASE name \in DOMAIN b
    <3>1. name \in DOMAIN a /\ b[name] = a[name]
      BY <1>1, <2>2 DEF SamePeer
    <3> QED BY <2>1, <2>2, <3>1 DEF LenOf
  <2>3. CASE name \notin DOMAIN b
    BY <2>1, <2>3 DEF LenOf
  <2> QED BY <2>2, <2>3
<1>2. IpsPart(a) \in Nat /\ IpsPart(b) \in Nat /\ IpsPart(b) <= IpsPart(a)
  <2>1. ASSUME "allowed_ips" \in DOMAIN a
        PROVE  /\ IpsLen(a["allowed_ips"]) \in Nat
               /\ IpsLen(WholeIps(a["allowed_ips"])) \in Nat
               /\ IpsLen(WholeIps(a["allowed_ips"])) <= IpsLen(a["allowed_ips"])
    BY <2>1, WirePeerFacts, WholeIpsShorter
  <2>2. "allowed_ips" \in DOMAIN b => /\ "allowed_ips" \in DOMAIN a
                                      /\ b["allowed_ips"] = WholeIps(a["allowed_ips"])
    BY DEF SamePeer
  <2> QED BY <2>1, <2>2 DEF NLA_HEADER_SIZE
<1>3. \A peer : WirePeerLen(peer) =
        NLA_HEADER_SIZE
          + LenOf(peer, "public_key") + LenOf(peer, "preshared_key") + LenOf(peer, "endpoint")
          + LenOf(peer, "persistent_keepalive") + LenOf(peer, "last_handshake")
          + LenOf(peer, "rx_bytes") + LenOf(peer, "tx_bytes")
          + LenOf(peer, "protocol_version") + LenOf(peer, "flags") + IpsPart(peer)
  BY DEF WirePeerLen
<1> HIDE DEF IpsPart
<1>4. \A name : LenOf(a, name) \in Nat /\ LenOf(b, name) \in Nat
  BY LenOfNat
<1> QED BY <1>1, <1>2, <1>3, <1>4 DEF NLA_HEADER_SIZE

\* Peers of which none is longer take no more room together.
LEMMA PeersLenShorter ==
  ASSUME NEW S, NEW a \in Seq(S), NEW b \in Seq(S), Len(a) = Len(b),
         \A i \in 1..Len(a) : /\ WirePeerLen(a[i]) \in Nat /\ WirePeerLen(b[i]) \in Nat
                              /\ WirePeerLen(b[i]) <= WirePeerLen(a[i])
  PROVE  /\ PeersLen(a) \in Nat /\ PeersLen(b) \in Nat
         /\ PeersLen(b) <= PeersLen(a)
<1> DEFINE n == Len(a)
           La(k) == PeersLen(SubSeq(a, 1, k))
           Lb(k) == PeersLen(SubSeq(b, 1, k))
           T == {k \in Nat : k <= n => La(k) \in Nat /\ Lb(k) \in Nat /\ Lb(k) <= La(k)}
<1>1. /\ n \in Nat /\ SubSeq(a, 1, n) = a /\ SubSeq(b, 1, n) = b
      /\ SubSeq(a, 1, 0) = << >> /\ SubSeq(b, 1, 0) = << >>
  OBVIOUS
<1>2. 0 \in T
  <2>1. PeersLen(<< >>) = 0
    <3>1. PeerSums!Fold(0, 0, << >>) = 0
      BY PeerSums!FoldEmpty
    <3> QED BY <3>1, PeersLenFold
  <2>2. La(0) = 0 /\ Lb(0) = 0
    BY <1>1, <2>1
  <2> HIDE DEF La, Lb
  <2> QED BY <2>2
<1>3. ASSUME NEW k \in Nat, k \in T, k + 1 <= n
      PROVE  La(k + 1) = La(k) + WirePeerLen(a[k + 1]) /\ Lb(k + 1) = Lb(k) + WirePeerLen(b[k + 1])
  <2> DEFINE m == k + 1
  <2>1. m \in 1..Len(a) /\ m \in 1..Len(b) /\ m - 1 = k
    BY <1>1, <1>3
  <2> HIDE DEF m
  <2>2. PeerSums!Fold(0, 0, SubSeq(a, 1, m)) =
          PeerLenStep(0, PeerSums!Fold(0, 0, SubSeq(a, 1, m - 1)), a[m])
    BY <2>1, PeerSums!FoldNext
  <2>3. PeerSums!Fold(0, 0, SubSeq(b, 1, m)) =
          PeerLenStep(0, PeerSums!Fold(0, 0, SubSeq(b, 1, m - 1)), b[m])
    BY <2>1, PeerSums!FoldNext
  <2>4. La(m) = La(k) + WirePeerLen(a[m]) /\ Lb(m) = Lb(k) + WirePeerLen(b[m])
    BY <2>1, <2>2, <2>3, PeersLenFold DEF PeerLenStep, AddPeerLen
  <2> QED BY <2>4 DEF m
<1> HIDE DEF La, Lb
<1>4. ASSUME NEW k \in Nat, k \in T PROVE k + 1 \in T
  <2>1. SUFFICES ASSUME k + 1 <= n
                 PROVE  La(k + 1) \in Nat /\ Lb(k + 1) \in Nat /\ Lb(k + 1) <= La(k + 1)
    OBVIOUS
  <2>2. La(k) \in Nat /\ Lb(k) \in Nat /\ Lb(k) <= La(k) /\ k + 1 \in 1..n
    BY <1>1, <1>4, <2>1
  <2>3. La(k + 1) = La(k) + WirePeerLen(a[k + 1]) /\ Lb(k + 1) = Lb(k) + WirePeerLen(b[k + 1])
    BY <1>3, <1>4, <2>1
  <2>4. /\ WirePeerLen(a[k + 1]) \in Nat /\ WirePeerLen(b[k + 1]) \in Nat
        /\ WirePeerLen(b[k + 1]) <= WirePeerLen(a[k + 1])
    BY <2>2
  <2> QED BY <2>2, <2>3, <2>4
<1>5. n \in T
  <2> HIDE DEF T
  <2>1. Nat \subseteq T
    BY <1>2, <1>4, PeerSums!SetInduction
  <2> QED BY <1>1, <2>1
<1>6. La(n) \in Nat /\ Lb(n) \in Nat /\ Lb(n) <= La(n)
  BY <1>1, <1>5
<1> QED BY <1>1, <1>6 DEF La, Lb

-----------------------------------------------------------------------------
(* Messages.                                                               *)

WirePeersOK(peers) == peers \in Seq(Range(peers)) /\ \A peer \in Range(peers) : WirePeerOK(peer)

\* What a message may differ in from the one it was made from.
SameMessage(before, after) ==
  /\ DOMAIN after = DOMAIN before \ (IF "iface_name" \in DOMAIN before
                                     THEN {"iface_index"} ELSE {})
  /\ \A name \in DOMAIN after \ {"peers"} : after[name] = before[name]
  /\ "peers" \in DOMAIN before =>
       /\ Len(after["peers"]) = Len(before["peers"])
       /\ \A i \in DOMAIN before["peers"] : SamePeer(before["peers"][i], after["peers"][i])

LEMMA MessageFacts ==
  ASSUME NEW msg
  PROVE  MessageOK(msg) <=>
           /\ DOMAIN msg \subseteq DeviceFieldNames
           /\ "iface_name" \in DOMAIN msg \/ "iface_index" \in DOMAIN msg
           /\ "iface_name" \in DOMAIN msg => msg["iface_name"] \notin TooLong \cup HasNul
           /\ "peers" \in DOMAIN msg => PeersLen(msg["peers"]) <= MAX_NLA_VALUE_LEN
           /\ \A name \in DOMAIN msg \cap {"public_key", "private_key"} : msg[name] \in KeyBytes
           /\ "peers" \in DOMAIN msg => WirePeersOK(msg["peers"])
           /\ "flags" \in DOMAIN msg => msg["flags"] \in SUBSET Bits
           /\ \A name \in DOMAIN msg \ {"public_key", "private_key", "peers", "flags"} :
                msg[name] \in Values
BY DEF MessageOK, WirePeersOK

LEMMA WirePeersFacts ==
  ASSUME NEW peers
  PROVE  WirePeersOK(peers) => /\ Len(peers) \in Nat /\ DOMAIN peers = 1..Len(peers)
                               /\ \A i \in DOMAIN peers : WirePeerOK(peers[i])
<1> DEFINE R == Range(peers)
<1>1. \A i \in DOMAIN peers : peers[i] \in R
  BY DEF Range
<1> HIDE DEF R
<1>2. peers \in Seq(R) => Len(peers) \in Nat /\ DOMAIN peers = 1..Len(peers)
  OBVIOUS
<1> QED BY <1>1, <1>2 DEF WirePeersOK, R

LEMMA PeersOnWire ==
  ASSUME NEW n \in Nat, NEW peers, DOMAIN peers = 1..n, peers = [i \in 1..n |-> peers[i]],
         \A i \in 1..n : WirePeerOK(peers[i])
  PROVE  WirePeersOK(peers)
<1> DEFINE R == Range(peers)
<1>1. /\ \A i \in 1..n : peers[i] \in R
      /\ \A peer \in R : \E i \in 1..n : peer = peers[i]
  BY DEF Range
<1> HIDE DEF R
<1>2. [i \in 1..n |-> peers[i]] \in Seq(R)
  BY <1>1
<1> QED BY <1>1, <1>2 DEF WirePeersOK, R
LEMMA ParsedMessageFacts ==
  ASSUME NEW msg, MessageOK(msg)
  PROVE  LET parsed == ParsedMessage(msg) IN
         /\ DOMAIN parsed = DeviceFieldNames
         /\ \A name \in DeviceFieldNames \ DOMAIN msg : parsed[name] = None
         /\ \A name \in DOMAIN msg : parsed[name] # None
         /\ \A name \in DOMAIN msg \cap {"public_key", "private_key"} :
              parsed[name] = Encode(msg[name])
         /\ "peers" \in DOMAIN msg =>
              /\ parsed["peers"] \in Seq(PeerParsed)
              /\ DOMAIN parsed["peers"] = 1..Len(msg["peers"]) /\ Len(msg["peers"]) \in Nat
              /\ \A i \in 1..Len(msg["peers"]) :
                   /\ parsed["peers"][i] = ParsedPeer(msg["peers"][i])
                   /\ ValidPeer(parsed["peers"][i])
         /\ "flags" \in DOMAIN msg => /\ parsed["flags"] \in SUBSET Flag
                                      /\ FlagBits(parsed["flags"]) = msg["flags"]
         /\ \A name \in DOMAIN msg \ {"public_key", "private_key", "peers", "flags"} :
              parsed[name] = msg[name]
<1> DEFINE parsed == ParsedMessage(msg)
<1>1. /\ DOMAIN msg \subseteq DeviceFieldNames
      /\ \A name \in DOMAIN msg \cap {"public_key", "private_key"} : msg[name] \in KeyBytes
      /\ "peers" \in DOMAIN msg => WirePeersOK(msg["peers"])
      /\ "flags" \in DOMAIN msg => msg["flags"] \in SUBSET Bits
      /\ \A name \in DOMAIN msg \ {"public_key", "private_key", "peers", "flags"} :
           msg[name] \in Values
  BY MessageFacts
<1>2. /\ DOMAIN parsed = DeviceFieldNames
      /\ \A name \in DeviceFieldNames \ DOMAIN msg : parsed[name] = None
      /\ \A name \in DOMAIN msg \cap {"public_key", "private_key"} :
           parsed[name] = Encode(msg[name])
      /\ "peers" \in DOMAIN msg =>
           parsed["peers"] = [i \in DOMAIN msg["peers"] |-> ParsedPeer(msg["peers"][i])]
      /\ "flags" \in DOMAIN msg => parsed["flags"] = ParsedFlags(msg["flags"], DeviceFlags)
      /\ \A name \in DOMAIN msg \ {"public_key", "private_key", "peers", "flags"} :
           parsed[name] = msg[name]
  BY <1>1 DEF ParsedMessage
<1> HIDE DEF parsed
<1>3. ASSUME "peers" \in DOMAIN msg
      PROVE  /\ parsed["peers"] \in Seq(PeerParsed)
             /\ DOMAIN parsed["peers"] = 1..Len(msg["peers"]) /\ Len(msg["peers"]) \in Nat
             /\ \A i \in 1..Len(msg["peers"]) :
                  /\ parsed["peers"][i] = ParsedPeer(msg["peers"][i])
                  /\ ValidPeer(parsed["peers"][i])
  <2> DEFINE n == Len(msg["peers"])
             ps == parsed["peers"]
  <2>1. /\ n \in Nat /\ DOMAIN msg["peers"] = 1..n
        /\ \A i \in 1..n : WirePeerOK(msg["peers"][i])
    BY <1>1, <1>3, WirePeersFacts
  <2>2. ps = [i \in 1..n |-> ParsedPeer(msg["peers"][i])]
    BY <1>2, <1>3, <2>1
  <2>3. \A i \in 1..n : /\ ParsedPeer(msg["peers"][i]) \in PeerParsed
                        /\ ValidPeer(ParsedPeer(msg["peers"][i]))
    BY <2>1, ParsedPeerType
  <2> HIDE DEF n, ps
  <2>4. ps \in Seq(PeerParsed)
    BY <2>1, <2>2, <2>3
  <2>5. DOMAIN ps = 1..n /\ \A i \in 1..n : ps[i] = ParsedPeer(msg["peers"][i])
    BY <2>2
  <2> QED BY <2>1, <2>3, <2>4, <2>5 DEF n, ps
<1>4. ASSUME "flags" \in DOMAIN msg
      PROVE  /\ parsed["flags"] \in SUBSET Flag /\ parsed["flags"] # None
             /\ FlagBits(parsed["flags"]) = msg["flags"]
  <2>1. /\ msg["flags"] \in SUBSET Bits
        /\ parsed["flags"] = ParsedFlags(msg["flags"], DeviceFlags)
    BY <1>1, <1>2, <1>4
  <2>2. ParsedFlags(msg["flags"], DeviceFlags) # None
    BY <2>1, NoneAssumption
  <2> QED BY <2>1, <2>2, FlagsType, FlagsSurvive
<1>5. ASSUME NEW name \in DOMAIN msg PROVE parsed[name] # None
  <2>1. CASE name \in {"public_key", "private_key"}
    BY <1>1, <1>2, <2>1, EncodeFacts
  <2>2. CASE name = "peers"
    BY <1>3, <2>2, NoneFacts
  <2>3. CASE name = "flags"
    BY <1>4, <2>3
  <2>4. CASE name \notin {"public_key", "private_key", "peers", "flags"}
    BY <1>1, <1>2, <2>4, NoneFacts
  <2> QED BY <2>1, <2>2, <2>3, <2>4
<1>6. /\ DOMAIN parsed = DeviceFieldNames
      /\ \A name \in DeviceFieldNames \ DOMAIN msg : parsed[name] = None
      /\ \A name \in DOMAIN msg : parsed[name] # None
      /\ \A name \in DOMAIN msg \cap {"public_key", "private_key"} :
           parsed[name] = Encode(msg[name])
      /\ \A name \in DOMAIN msg \ {"public_key", "private_key", "peers", "flags"} :
           parsed[name] = msg[name]
  BY <1>2, <1>5
<1> QED BY <1>3, <1>4, <1>6 DEF parsed

LEMMA ParsedMessageType ==
  ASSUME NEW msg, MessageOK(msg)
  PROVE  ParsedMessage(msg) \in Parsed /\ ValidConfig(ParsedMessage(msg))
<1> DEFINE parsed == ParsedMessage(msg)
           special == {"public_key", "private_key", "peers", "flags"}
<1>1. /\ DOMAIN msg \subseteq DeviceFieldNames
      /\ "iface_name" \in DOMAIN msg \/ "iface_index" \in DOMAIN msg
      /\ \A name \in DOMAIN msg \cap {"public_key", "private_key"} : msg[name] \in KeyBytes
      /\ \A name \in DOMAIN msg \ special : msg[name] \in Values
  BY MessageFacts
<1>2. parsed = [name \in DeviceFieldNames |-> parsed[name]]
  BY DEF ParsedMessage
<1>3. \A name \in DeviceFieldNames \ special : parsed[name] \in Opt(Values)
  BY <1>1, ParsedMessageFacts DEF Opt
<1>4. \A name \in {"public_key", "private_key"} :
        parsed[name] \in Opt(Text) /\ (parsed[name] # None => Decodes(parsed[name]))
  <2>1. {"public_key", "private_key"} \subseteq DeviceFieldNames
    BY DEF DeviceFieldNames
  <2> QED BY <1>1, <2>1, ParsedMessageFacts, EncodeFacts DEF Opt
<1>5. /\ parsed["peers"] \in Opt(Seq(PeerParsed))
      /\ parsed["peers"] # None =>
           \A i \in DOMAIN parsed["peers"] : ValidPeer(parsed["peers"][i])
  <2>1. "peers" \in DeviceFieldNames
    BY DEF DeviceFieldNames
  <2> QED BY <2>1, ParsedMessageFacts DEF Opt
<1>6. parsed["flags"] \in Opt(SUBSET Flag)
  <2>1. "flags" \in DeviceFieldNames
    BY DEF DeviceFieldNames
  <2> QED BY <2>1, ParsedMessageFacts DEF Opt
<1>7. ValidIface(parsed)
  <2>1. parsed["iface_name"] # None \/ parsed["iface_index"] # None
    BY <1>1, ParsedMessageFacts
  <2>2. parsed["iface_name"] \notin TooLong \cup HasNul
    <3>1. None \notin TooLong \cup HasNul
      BY NamesAssumption, NoneFacts
    <3>2. "iface_name" \in DeviceFieldNames
      BY DEF DeviceFieldNames
    <3>3. CASE "iface_name" \in DOMAIN msg
      BY <3>3, MessageFacts, ParsedMessageFacts
    <3>4. CASE "iface_name" \notin DOMAIN msg
      BY <3>1, <3>2, <3>4, ParsedMessageFacts
    <3> QED BY <3>3, <3>4
  <2> QED BY <2>1, <2>2 DEF ValidIface
<1> HIDE DEF parsed
<1>8. parsed \in Parsed
  <2>1. /\ parsed["iface_name"] \in Opt(Values) /\ parsed["iface_index"] \in Opt(Values)
        /\ parsed["listen_port"] \in Opt(Values) /\ parsed["fwmark"] \in Opt(Values)
    BY <1>3 DEF DeviceFieldNames
  <2> QED BY <1>2, <1>4, <1>5, <1>6, <2>1 DEF Parsed, DeviceFieldNames
<1>9. ValidConfig(parsed)
  BY <1>4, <1>5, <1>7 DEF ValidConfig
<1> QED BY <1>8, <1>9 DEF parsed
LEMMA BuiltMessageFacts ==
  ASSUME NEW cfg, DOMAIN cfg = DeviceFieldNames
  PROVE  LET sent == BuiltMessage(cfg) IN
         /\ \A name : name \in DOMAIN sent <=>
              /\ name \in DeviceFieldNames /\ cfg[name] # None
              /\ name = "iface_index" => cfg["iface_name"] = None
         /\ \A name \in DOMAIN sent :
              sent[name] = CASE name \in {"public_key", "private_key"} -> Decode(cfg[name])
                             [] name = "peers" -> [i \in DOMAIN cfg[name] |-> WirePeer(cfg[name][i])]
                             [] name = "flags" -> FlagBits(cfg[name])
                             [] OTHER -> cfg[name]
<1>1. DOMAIN BuiltMessage(cfg) = DeviceAttributes(cfg) \cup (Defined(cfg) \cap {"peers"})
  BY DEF BuiltMessage
<1>2. \A name : name \in DOMAIN BuiltMessage(cfg) <=>
        /\ name \in DeviceFieldNames /\ cfg[name] # None
        /\ name = "iface_index" => cfg["iface_name"] = None
  BY <1>1 DEF DeviceAttributes, Defined
<1> QED BY <1>2 DEF BuiltMessage

\* A message of the kernel that was parsed and built again.
LEMMA MessageThereAndBack ==
  ASSUME NEW msg, MessageOK(msg)
  PROVE  SameMessage(msg, BuiltMessage(ParsedMessage(msg)))
<1> DEFINE parsed == ParsedMessage(msg)
           sent == BuiltMessage(parsed)
<1>1. /\ DOMAIN parsed = DeviceFieldNames /\ DOMAIN msg \subseteq DeviceFieldNames
      /\ \A name \in DeviceFieldNames : parsed[name] # None <=> name \in DOMAIN msg
  BY ParsedMessageFacts, MessageFacts
<1>2. /\ \A name : name \in DOMAIN sent <=>
           /\ name \in DeviceFieldNames /\ parsed[name] # None
           /\ name = "iface_index" => parsed["iface_name"] = None
      /\ \A name \in DOMAIN sent :
           sent[name] = CASE name \in {"public_key", "private_key"} -> Decode(parsed[name])
                          [] name = "peers" -> [i \in DOMAIN parsed[name] |-> WirePeer(parsed[name][i])]
                          [] name = "flags" -> FlagBits(parsed[name])
                          [] OTHER -> parsed[name]
  BY <1>1, BuiltMessageFacts
<1>3. /\ \A name \in DOMAIN msg \cap {"public_key", "private_key"} :
           Decode(parsed[name]) = msg[name]
      /\ "flags" \in DOMAIN msg => FlagBits(parsed["flags"]) = msg["flags"]
      /\ \A name \in DOMAIN msg \ {"public_key", "private_key", "peers", "flags"} :
           parsed[name] = msg[name]
  BY ParsedMessageFacts, MessageFacts, EncodeFacts
<1>4. ASSUME "peers" \in DOMAIN msg
      PROVE  /\ parsed["peers"] \in Seq(PeerParsed)
             /\ DOMAIN parsed["peers"] = 1..Len(msg["peers"]) /\ Len(msg["peers"]) \in Nat
             /\ DOMAIN msg["peers"] = 1..Len(msg["peers"])
             /\ \A i \in 1..Len(msg["peers"]) :
                  SamePeer(msg["peers"][i], WirePeer(parsed["peers"][i]))
  <2>1. /\ DOMAIN msg["peers"] = 1..Len(msg["peers"])
        /\ \A i \in DOMAIN msg["peers"] : WirePeerOK(msg["peers"][i])
    BY <1>4, MessageFacts, WirePeersFacts
  <2> QED BY <1>4, <2>1, ParsedMessageFacts, PeerThereAndBack
<1> HIDE DEF parsed, sent
<1>5. "iface_name" \in DeviceFieldNames
  BY DEF DeviceFieldNames
<1>6. DOMAIN sent = DOMAIN msg \ (IF "iface_name" \in DOMAIN msg THEN {"iface_index"} ELSE {})
  BY <1>1, <1>2, <1>5
<1>7. ASSUME NEW name \in DOMAIN sent \ {"peers"} PROVE sent[name] = msg[name]
  <2>1. name \in DOMAIN msg
    BY <1>6
  <2> QED BY <1>2, <1>3, <2>1
<1>8. ASSUME "peers" \in DOMAIN msg
      PROVE  /\ Len(sent["peers"]) = Len(msg["peers"])
             /\ \A i \in DOMAIN msg["peers"] : SamePeer(msg["peers"][i], sent["peers"][i])
  <2> DEFINE n == Len(msg["peers"])
             ps == parsed["peers"]
             built == sent["peers"]
  <2>1. "peers" \in DOMAIN sent
    BY <1>6, <1>8
  <2>2. built = [i \in DOMAIN ps |-> WirePeer(ps[i])]
    BY <1>2, <2>1
  <2>3. /\ n \in Nat /\ DOMAIN ps = 1..n /\ DOMAIN msg["peers"] = 1..n
        /\ \A i \in 1..n : SamePeer(msg["peers"][i], WirePeer(ps[i]))
    BY <1>4, <1>8
  <2> HIDE DEF n, ps, built
  <2>4. Len(built) = n /\ \A i \in 1..n : built[i] = WirePeer(ps[i])
    BY <2>2, <2>3
  <2> QED BY <2>3, <2>4 DEF n, built
<1>9. SameMessage(msg, sent)
  BY <1>6, <1>7, <1>8 DEF SameMessage
<1> QED BY <1>9 DEF sent, parsed

\* A message of a caller is as well formed as one of the kernel.
LEMMA BuiltMessageOK ==
  ASSUME NEW cfg \in Parsed, ValidConfig(cfg), OneMessage(cfg)
  PROVE  MessageOK(BuiltMessage(cfg))
<1> DEFINE sent == BuiltMessage(cfg)
           special == {"public_key", "private_key", "peers", "flags"}
<1>1. /\ DOMAIN cfg = DeviceFieldNames
      /\ \A name \in {"public_key", "private_key"} : cfg[name] \in Opt(Text)
      /\ cfg["peers"] \in Opt(Seq(PeerParsed))
      /\ cfg["flags"] \in Opt(SUBSET Flag)
      /\ \A name \in DeviceFieldNames \ special : cfg[name] \in Opt(Values)
  BY DEF Parsed, DeviceFieldNames
<1>2. /\ cfg["iface_name"] # None \/ cfg["iface_index"] # None
      /\ cfg["iface_name"] \notin TooLong \cup HasNul
      /\ cfg["peers"] # None => \A i \in DOMAIN cfg["peers"] : ValidPeer(cfg["peers"][i])
  BY DEF ValidConfig, ValidIface
<1>3. /\ \A name : name \in DOMAIN sent <=>
           /\ name \in DeviceFieldNames /\ cfg[name] # None
           /\ name = "iface_index" => cfg["iface_name"] = None
      /\ \A name \in DOMAIN sent :
           sent[name] = CASE name \in {"public_key", "private_key"} -> Decode(cfg[name])
                          [] name = "peers" -> [i \in DOMAIN cfg[name] |-> WirePeer(cfg[name][i])]
                          [] name = "flags" -> FlagBits(cfg[name])
                          [] OTHER -> cfg[name]
  BY <1>1, BuiltMessageFacts
<1>11. "peers" \in DOMAIN sent => PeersLen(sent["peers"]) <= MAX_NLA_VALUE_LEN
  BY DEF OneMessage
<1> HIDE DEF sent
<1>12. "iface_name" \in DOMAIN sent => sent["iface_name"] \notin TooLong \cup HasNul
  BY <1>2, <1>3
<1>4. "iface_name" \in DOMAIN sent \/ "iface_index" \in DOMAIN sent
  BY <1>2, <1>3 DEF DeviceFieldNames
<1>5. ASSUME NEW name \in DOMAIN sent \cap {"public_key", "private_key"}
      PROVE  sent[name] \in KeyBytes
  <2>1. cfg[name] \in Text
    BY <1>1, <1>3 DEF Opt
  <2> QED BY <1>3, <2>1 DEF Decode, Text
<1>6. ASSUME "peers" \in DOMAIN sent PROVE WirePeersOK(sent["peers"])
  <2> DEFINE ps == cfg["peers"]
             built == sent["peers"]
             n == Len(ps)
  <2>1. /\ ps \in Seq(PeerParsed) /\ \A i \in DOMAIN ps : ValidPeer(ps[i])
        /\ built = [i \in DOMAIN ps |-> WirePeer(ps[i])]
    BY <1>1, <1>2, <1>3, <1>6 DEF Opt
  <2> HIDE DEF ps, built
  <2>2. n \in Nat /\ DOMAIN ps = 1..n /\ \A i \in 1..n : ps[i] \in PeerParsed
    BY <2>1
  <2>3. \A i \in 1..n : WirePeerOK(WirePeer(ps[i]))
    BY <2>1, <2>2, BuiltPeerOK
  <2> HIDE DEF n
  <2>4. /\ DOMAIN built = 1..n /\ built = [i \in 1..n |-> built[i]]
        /\ \A i \in 1..n : WirePeerOK(built[i])
    BY <2>1, <2>2, <2>3
  <2>5. WirePeersOK(built)
    BY <2>2, <2>4, PeersOnWire
  <2> QED BY <2>5 DEF built
<1>7. ASSUME "flags" \in DOMAIN sent PROVE sent["flags"] \in SUBSET Bits
  <2>1. cfg["flags"] \in SUBSET Flag
    BY <1>1, <1>3, <1>7 DEF Opt
  <2> QED BY <1>3, <1>7, <2>1, BitsType
<1>8. ASSUME NEW name \in DOMAIN sent \ special PROVE sent[name] \in Values
  <2>1. cfg[name] \in Values
    BY <1>1, <1>3 DEF Opt
  <2> QED BY <1>3, <2>1
<1>9. DOMAIN sent \subseteq DeviceFieldNames
  BY <1>3
<1>10. MessageOK(sent)
  BY <1>4, <1>5, <1>6, <1>7, <1>8, <1>9, <1>11, <1>12, MessageFacts
<1> QED BY <1>10 DEF sent

\* What was parsed fits into one message again.
LEMMA ParsedFitsAgain ==
  ASSUME NEW msg, MessageOK(msg)
  PROVE  OneMessage(ParsedMessage(msg))
<1> DEFINE parsed == ParsedMessage(msg)
           sent == BuiltMessage(parsed)
           before == msg["peers"]
           after == sent["peers"]
           n == Len(before)
<1>1. SUFFICES ASSUME "peers" \in DOMAIN sent PROVE PeersLen(after) <= MAX_NLA_VALUE_LEN
  BY DEF OneMessage
<1>2. SameMessage(msg, sent) /\ "peers" \in DOMAIN msg
  BY <1>1, MessageThereAndBack DEF SameMessage
<1>3. /\ n \in Nat /\ DOMAIN before = 1..n /\ before \in Seq(Range(before))
      /\ \A i \in 1..n : WirePeerOK(before[i])
      /\ PeersLen(before) <= MAX_NLA_VALUE_LEN
  BY <1>2, MessageFacts, WirePeersFacts DEF WirePeersOK
<1>4. Len(after) = n /\ \A i \in 1..n : SamePeer(before[i], after[i])
  BY <1>2, <1>3 DEF SameMessage
<1>5. after = [i \in 1..n |-> after[i]]
  <2>1. DOMAIN parsed = DeviceFieldNames /\ DOMAIN parsed["peers"] = 1..n
    BY <1>2, ParsedMessageFacts
  <2>2. after = [i \in DOMAIN parsed["peers"] |-> WirePeer(parsed["peers"][i])]
    BY <1>1, <2>1, BuiltMessageFacts
  <2> HIDE DEF parsed, sent
  <2>3. after = [i \in 1..n |-> WirePeer(parsed["peers"][i])]
    BY <2>1, <2>2
  <2> QED BY <2>3
<1> HIDE DEF parsed, sent, before, after, n
<1>6. \A i \in 1..n : /\ WirePeerLen(before[i]) \in Nat /\ WirePeerLen(after[i]) \in Nat
                      /\ WirePeerLen(after[i]) <= WirePeerLen(before[i])
  BY <1>3, <1>4, SamePeerShorter
<1> DEFINE R == {before[i] : i \in 1..n} \cup {after[i] : i \in 1..n}
<1>7. before \in Seq(R) /\ after \in Seq(R) /\ Len(before) = n
  <2>1. \A i \in 1..n : before[i] \in R /\ after[i] \in R
    OBVIOUS
  <2>2. Len(before) = n
    BY DEF n
  <2>3. before = [i \in 1..n |-> before[i]]
    BY <1>3
  <2> HIDE DEF R
  <2> QED BY <1>3, <1>5, <2>1, <2>2, <2>3
<1>8. /\ PeersLen(before) \in Nat /\ PeersLen(after) \in Nat
      /\ PeersLen(after) <= PeersLen(before)
  <2> HIDE DEF R
  <2> QED BY <1>4, <1>6, <1>7, PeersLenShorter
<1>9. MAX_NLA_VALUE_LEN \in Int
  BY ConversionAssumption DEF MAX_NLA_VALUE_LEN, NLA_HEADER_SIZE
<1> QED BY <1>3, <1>8, <1>9

LEMMA SameMessageTwice ==
  ASSUME NEW a, NEW b, NEW c, MessageOK(a), MessageOK(b), SameMessage(a, b), SameMessage(b, c)
  PROVE  SameMessage(a, c)
<1>1. /\ \A name : name \in DOMAIN b <=>
           name \in DOMAIN a /\ ("iface_name" \in DOMAIN a => name # "iface_index")
      /\ \A name : name \in DOMAIN c <=>
           name \in DOMAIN b /\ ("iface_name" \in DOMAIN b => name # "iface_index")
  BY DEF SameMessage
<1>2. DOMAIN c = DOMAIN a \ (IF "iface_name" \in DOMAIN a THEN {"iface_index"} ELSE {})
  BY <1>1
<1>3. ASSUME NEW name \in DOMAIN c \ {"peers"} PROVE c[name] = a[name]
  BY <1>1 DEF SameMessage
<1>4. ASSUME "peers" \in DOMAIN a
      PROVE  /\ Len(c["peers"]) = Len(a["peers"])
             /\ \A i \in DOMAIN a["peers"] : SamePeer(a["peers"][i], c["peers"][i])
  <2>1. "peers" \in DOMAIN b
    BY <1>1, <1>4
  <2>2. \A i \in DOMAIN a["peers"] : WirePeerOK(a["peers"][i])
    BY <1>4, MessageFacts, WirePeersFacts
  <2>3. DOMAIN a["peers"] = DOMAIN b["peers"]
    <3>1. DOMAIN a["peers"] = 1..Len(a["peers"]) /\ DOMAIN b["peers"] = 1..Len(b["peers"])
      BY <1>4, <2>1, MessageFacts, WirePeersFacts
    <3> QED BY <1>4, <3>1 DEF SameMessage
  <2> QED BY <1>4, <2>1, <2>2, <2>3, SamePeerTwice DEF SameMessage
<1> QED BY <1>2, <1>3, <1>4 DEF SameMessage
-----------------------------------------------------------------------------
(* The inductive invariant.                                                *)

\* The configuration in the hands of the caller and the last message belong
\* together, and both to the first message that was parsed.
RoundInv ==
  /\ pc \in {"caller", "wire", "rejected"}
  /\ pc = "caller" =>
       /\ config \in Parsed
       /\ \/ wire = None /\ given = None
          \/ MessageOK(wire) /\ config = ParsedMessage(wire)
       /\ given # None => given = wire \/ SameMessage(given, wire)
  /\ pc = "wire" =>
       /\ MessageOK(wire)
       /\ config # None => config \in Parsed /\ wire = BuiltMessage(config)
       /\ given # None => SameMessage(given, wire)
  /\ given # None => pc # "rejected" /\ MessageOK(given)

LEMMA RoundInvHolds == Spec => []RoundInv
<1>1. Init => RoundInv
  BY GivenAssumption DEF Init, RoundInv
<1>2. RoundInv /\ [Next]_vars => RoundInv'
  <2> SUFFICES ASSUME RoundInv, [Next]_vars PROVE RoundInv'
    OBVIOUS
  <2>1. CASE Build
    <3>1. /\ pc = "caller" /\ config \in Parsed /\ config' = config /\ given' = given
          /\ \/ wire = None /\ given = None
             \/ MessageOK(wire) /\ config = ParsedMessage(wire)
          /\ given # None => MessageOK(given) /\ (given = wire \/ SameMessage(given, wire))
      BY <2>1 DEF Build, RoundInv
    <3>2. CASE ValidConfig(config) /\ OneMessage(config)
      <4>1. pc' = "wire" /\ wire' = BuiltMessage(config)
        BY <2>1, <3>2 DEF Build
      <4>2. MessageOK(wire')
        BY <3>1, <3>2, <4>1, BuiltMessageOK
      <4>3. ASSUME given # None PROVE SameMessage(given, wire')
        <5>1. /\ MessageOK(given) /\ MessageOK(wire) /\ config = ParsedMessage(wire)
              /\ given = wire \/ SameMessage(given, wire)
          BY <3>1, <4>3
        <5>2. SameMessage(wire, wire')
          BY <4>1, <5>1, MessageThereAndBack
        <5> QED BY <5>1, <5>2, SameMessageTwice
      <4> QED BY <3>1, <4>1, <4>2, <4>3 DEF RoundInv
    <3>3. CASE ~ (ValidConfig(config) /\ OneMessage(config))
      <4>1. pc' = "rejected"
        BY <2>1, <3>3 DEF Build
      <4>2. given = None
        BY <3>1, <3>3, ParsedMessageType, ParsedFitsAgain
      <4> QED BY <3>1, <4>1, <4>2 DEF RoundInv
    <3> QED BY <3>2, <3>3
  <2>2. CASE Parse
    <3>1. /\ pc' = "caller" /\ config' = ParsedMessage(wire) /\ wire' = wire
          /\ given' = IF given = None THEN wire ELSE given
          /\ MessageOK(wire)
          /\ given # None => MessageOK(given) /\ SameMessage(given, wire)
      BY <2>2 DEF Parse, RoundInv
    <3>2. ParsedMessage(wire) \in Parsed
      BY <3>1, ParsedMessageType
    <3> QED BY <3>1, <3>2 DEF RoundInv
  <2>3. CASE UNCHANGED vars
    BY <2>3 DEF vars, RoundInv
  <2> QED BY <2>1, <2>2, <2>3 DEF Next
<1> QED BY <1>1, <1>2, PTL DEF Spec

-----------------------------------------------------------------------------
(* The theorems.                                                           *)

\* What one message was parsed into is always accepted by build(), however often
\* it goes back and forth: its name, keys and prefixes are good, and it never
\* grows beyond one message.
THEOREM WhatIsReadIsAccepted == Spec => []ReadIsAccepted
<1>1. RoundInv => ReadIsAccepted
  BY DEF RoundInv, ReadIsAccepted
<1> QED BY <1>1, RoundInvHolds, PTL

\* Reading and writing back changes nothing but what WrittenBackUnchanged lists,
\* for every message of the kernel and any number of rounds.
THEOREM WritingBackChangesNothing == Spec => []WrittenBackUnchanged
<1>1. RoundInv => WrittenBackUnchanged
  BY DEF RoundInv, WrittenBackUnchanged, SameMessage
<1> QED BY <1>1, RoundInvHolds, PTL

\* The peers of a configuration and of the message it was built into.
LEMMA PeersOfBuilt ==
  ASSUME RoundInv, pc = "wire", config # None, config.peers # None, NEW i \in DOMAIN config.peers
  PROVE  /\ config.peers[i] \in PeerParsed
         /\ wire["peers"][i] = WirePeer(config.peers[i])
<1> DEFINE ps == config.peers
<1>1. config \in Parsed /\ wire = BuiltMessage(config)
  BY DEF RoundInv
<1>2. ps \in Seq(PeerParsed) /\ DOMAIN config = DeviceFieldNames
  BY <1>1 DEF Parsed, Opt, DeviceFieldNames
<1>3. "peers" \in DOMAIN wire
  <2>1. "peers" \in DeviceFieldNames /\ config["peers"] # None /\ "peers" # "iface_index"
    BY DEF DeviceFieldNames
  <2> QED BY <1>1, <1>2, <2>1, BuiltMessageFacts
<1>4. wire["peers"] = [j \in DOMAIN ps |-> WirePeer(ps[j])]
  BY <1>1, <1>2, <1>3, BuiltMessageFacts
<1> HIDE DEF ps
<1>5. wire["peers"][i] = WirePeer(ps[i]) /\ ps[i] \in PeerParsed
  BY <1>2, <1>4 DEF ps
<1> QED BY <1>5 DEF ps

\* However a removal is spelled, the kernel gets the allowed IPs of exactly the
\* peers it does not remove.
THEOREM RemovalsAreSeen == Spec => []RemovalIsSeen
<1>1. RoundInv => RemovalIsSeen
  <2> SUFFICES ASSUME RoundInv, pc = "wire", config # None, config.peers # None,
                      NEW i \in DOMAIN config.peers
               PROVE  "allowed_ips" \in DOMAIN wire["peers"][i] <=>
                        /\ config.peers[i].allowed_ips # None
                        /\ "flags" \in DOMAIN wire["peers"][i] =>
                             RemoveMe \notin wire["peers"][i]["flags"]
    BY DEF RemovalIsSeen
  <2> DEFINE peer == config.peers[i]
             sent == wire["peers"][i]
  <2>1. peer \in PeerParsed /\ sent = WirePeer(peer)
    BY PeersOfBuilt
  <2>2. DOMAIN peer = PeerFieldNames
    BY <2>1 DEF PeerParsed, PeerFieldNames
  <2> HIDE DEF peer, sent
  <2>3. /\ DOMAIN sent = Defined(peer) \ (IF Removed(peer) THEN {"allowed_ips"} ELSE {})
        /\ "flags" \in DOMAIN sent => sent["flags"] = FlagBits(peer["flags"])
    BY <2>1 DEF WirePeer, BuiltPeer
  <2>4. /\ "allowed_ips" \in Defined(peer) <=> peer.allowed_ips # None
        /\ "flags" \in Defined(peer) <=> peer.flags # None
    BY <2>2 DEF Defined, PeerFieldNames
  <2>5. "flags" \in DOMAIN sent <=> peer.flags # None
    BY <2>3, <2>4
  <2> QED BY <2>3, <2>4, <2>5 DEF Removed, peer, sent
<1> QED BY <1>1, RoundInvHolds, PTL

\* No time of a handshake turns into another one, in neither direction, for all
\* integers the kernel sends and all durations a caller sets.
THEOREM TimesStayTheSame == Spec => []NeverAnotherTime
<1>1. RoundInv => NeverAnotherTime
  <2> SUFFICES ASSUME RoundInv, config # None, wire # None, config.peers # None, pc # "rejected",
                      NEW i \in DOMAIN config.peers,
                      "last_handshake" \in DOMAIN wire["peers"][i]
               PROVE  SameTime(config.peers[i].last_handshake, wire["peers"][i]["last_handshake"])
    BY DEF NeverAnotherTime
  <2> DEFINE peer == config.peers[i]
             sent == wire["peers"][i]
  <2>1. CASE pc = "wire"
    <3>1. peer \in PeerParsed /\ sent = WirePeer(peer)
      BY <2>1, PeersOfBuilt
    <3>2. /\ DOMAIN peer = PeerFieldNames
          /\ peer["last_handshake"] \in Opt(Duration)
      BY <3>1 DEF PeerParsed, PeerFieldNames
    <3> HIDE DEF peer, sent
    <3>3. /\ peer["last_handshake"] # None
          /\ sent["last_handshake"] = WireTime(peer["last_handshake"])
      BY <3>1 DEF WirePeer, BuiltPeer, Defined, sent
    <3> QED BY <3>2, <3>3, WireTimeFacts DEF Opt, peer, sent
  <2>2. CASE pc = "caller"
    <3>1. MessageOK(wire) /\ config = ParsedMessage(wire)
      BY <2>2 DEF RoundInv
    <3>2. "peers" \in DOMAIN wire
      <4>1. "peers" \in DeviceFieldNames /\ config["peers"] # None
        BY DEF DeviceFieldNames
      <4> QED BY <3>1, <4>1, ParsedMessageFacts
    <3>3. peer = ParsedPeer(sent) /\ WirePeerOK(sent)
      <4>1. /\ DOMAIN config["peers"] = 1..Len(wire["peers"])
            /\ \A j \in 1..Len(wire["peers"]) : config["peers"][j] = ParsedPeer(wire["peers"][j])
        BY <3>1, <3>2, ParsedMessageFacts
      <4>2. /\ DOMAIN wire["peers"] = 1..Len(wire["peers"])
            /\ \A j \in DOMAIN wire["peers"] : WirePeerOK(wire["peers"][j])
        BY <3>1, <3>2, MessageFacts, WirePeersFacts
      <4> QED BY <4>1, <4>2
    <3> HIDE DEF peer, sent
    <3>4. /\ sent["last_handshake"] \in WireTimes
          /\ peer["last_handshake"] = ParsedTime(sent["last_handshake"])
      BY <3>3, ParsedPeerFacts, WirePeerFacts DEF sent
    <3> DEFINE time == sent["last_handshake"]
    <3> HIDE DEF time
    <3>5. SameTime(ParsedTime(time), time)
      <4>1. CASE NoTime(time)
        BY <3>4, <4>1, ParsedTimeFacts DEF SameTime, time
      <4>2. CASE ~ NoTime(time)
        <5>1. ParsedTime(time) = [secs |-> time.seconds, nanos |-> time.nano_seconds]
          BY <3>4, <4>2, ParsedTimeFacts DEF time
        <5> QED BY <5>1 DEF SameTime
      <4> QED BY <4>1, <4>2
    <3> QED BY <3>4, <3>5 DEF peer, sent, time
  <2> QED BY <2>1, <2>2 DEF RoundInv
<1> QED BY <1>1, RoundInvHolds, PTL
=============================================================================
