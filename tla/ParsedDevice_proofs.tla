------------------------- MODULE ParsedDevice_proofs -------------------------
(***************************************************************************)
(* What push_peer() makes of the entries of a dump, by induction over the  *)
(* entries of a message and over the messages.                             *)
(***************************************************************************)
EXTENDS ParsedDevice, KernelDevice_proofs, FiniteSetTheorems

\* Parsed peers come without flags.
ParsedPeers ==
  [public_key : Keys, preshared_key : {"none", "valid"}, attrs : Attrs, flags : {{}},
   has_allowed_ips : BOOLEAN, allowed_ips : Seq(AllowedIp)]

PushEntries(peers, entries) == FoldLeft(PushEntry, peers, entries)

PushMessages(peers, msgs) == FoldLeft(PushMessage, peers, msgs)

EntryStep(env, peers, entry) == PushEntry(peers, entry)
ReadStep(env, peers, msg) == PushMessage(peers, msg)

OverEntries == INSTANCE FoldInduction WITH op <- EntryStep
OverDump == INSTANCE FoldInduction WITH op <- ReadStep

-----------------------------------------------------------------------------
(* The two folds.                                                          *)

LEMMA EntriesFold ==
  \A peers, entries : PushEntries(peers, entries) = OverEntries!Fold(0, peers, entries)
BY DEF PushEntries, EntryStep, FoldLeft, MapThenFoldSet, Max, OverEntries!Fold,
       OverEntries!FoldLeft, OverEntries!MapThenFoldSet, OverEntries!Max

LEMMA MessagesFold ==
  \A peers, msgs : PushMessages(peers, msgs) = OverDump!Fold(0, peers, msgs)
BY DEF PushMessages, ReadStep, FoldLeft, MapThenFoldSet, Max, OverDump!Fold,
       OverDump!FoldLeft, OverDump!MapThenFoldSet, OverDump!Max

LEMMA PushEntriesEmpty ==
  \A peers : PushEntries(peers, << >>) = peers
BY EntriesFold, OverEntries!FoldEmpty

LEMMA PushEntriesAppend ==
  ASSUME NEW peers, NEW entries \in Seq(Entry), NEW entry \in Entry
  PROVE  PushEntries(peers, Append(entries, entry)) = PushEntry(PushEntries(peers, entries), entry)
<1>1. OverEntries!Fold(0, peers, Append(entries, entry)) =
        EntryStep(0, OverEntries!Fold(0, peers, entries), entry)
  BY OverEntries!FoldAppend
<1> QED BY <1>1, EntriesFold DEF EntryStep

LEMMA PushMessagesEmpty ==
  \A peers : PushMessages(peers, << >>) = peers
BY MessagesFold, OverDump!FoldEmpty

LEMMA PushMessagesAppend ==
  ASSUME NEW peers, NEW msgs \in Seq(DumpMessage), NEW msg \in DumpMessage
  PROVE  PushMessages(peers, Append(msgs, msg)) = PushMessage(PushMessages(peers, msgs), msg)
<1>1. OverDump!Fold(0, peers, Append(msgs, msg)) =
        ReadStep(0, OverDump!Fold(0, peers, msgs), msg)
  BY OverDump!FoldAppend
<1> QED BY <1>1, MessagesFold DEF ReadStep

LEMMA PushMessageIsEntries ==
  \A peers, msg : PushMessage(peers, msg) = PushEntries(peers, msg.peers)
BY DEF PushMessage, PushEntries

-----------------------------------------------------------------------------
(* Types.                                                                  *)

\* A sequence by its elements.
LEMMA SeqOfElements ==
  ASSUME NEW S, NEW T, NEW seq \in Seq(S), \A i \in DOMAIN seq : seq[i] \in T
  PROVE  seq \in Seq(T)
<1>1. Len(seq) \in Nat /\ DOMAIN seq = 1..Len(seq) /\ seq \in [1..Len(seq) -> S]
  BY LenProperties
<1>2. seq \in [1..Len(seq) -> T]
  BY <1>1
<1> QED BY <1>1, <1>2, SeqDef

LEMMA ConcatElements ==
  ASSUME NEW S, NEW front \in Seq(S), NEW back \in Seq(S), NEW i \in DOMAIN (front \o back)
  PROVE  \/ i \in DOMAIN front /\ (front \o back)[i] = front[i]
         \/ \E j \in DOMAIN back : (front \o back)[i] = back[j]
<1>1. /\ Len(front) \in Nat /\ DOMAIN front = 1..Len(front)
      /\ Len(back) \in Nat /\ DOMAIN back = 1..Len(back)
  BY LenProperties
<1>2. /\ i \in 1..Len(front) + Len(back)
      /\ (front \o back)[i] = IF i <= Len(front) THEN front[i] ELSE back[i - Len(front)]
  BY ConcatProperties, LenProperties
<1>3. CASE i <= Len(front)
  BY <1>1, <1>2, <1>3
<1>4. CASE ~ (i <= Len(front))
  <2>1. i - Len(front) \in DOMAIN back
    BY <1>1, <1>2, <1>4
  <2> QED BY <1>2, <1>4, <2>1
<1> QED BY <1>3, <1>4

LEMMA MapSeq ==
  ASSUME NEW S, NEW T, NEW seq \in Seq(S), NEW map, \A e \in S : map[e] \in T
  PROVE  [i \in DOMAIN seq |-> map[seq[i]]] \in Seq(T)
<1>1. Len(seq) \in Nat /\ DOMAIN seq = 1..Len(seq) /\ \A i \in 1..Len(seq) : seq[i] \in S
  BY LenProperties, ElementOfSeq
<1>2. [i \in DOMAIN seq |-> map[seq[i]]] \in [1..Len(seq) -> T]
  BY <1>1
<1> QED BY <1>1, <1>2, SeqDef

LEMMA ParsedPeerType ==
  ASSUME NEW entry \in Entry
  PROVE  /\ ParsedPeer(entry) \in ParsedPeers
         /\ ParsedPeer(entry).public_key = entry.public_key
         /\ ParsedPeer(entry).attrs = entry.attrs
         /\ DOMAIN ParsedPeer(entry).allowed_ips = DOMAIN entry.allowed_ips
         /\ \A i \in DOMAIN entry.allowed_ips :
              ParsedPeer(entry).allowed_ips[i] = AddressOf[entry.allowed_ips[i]]
<1> DEFINE ips == [i \in DOMAIN entry.allowed_ips |-> AddressOf[entry.allowed_ips[i]]]
<1>1. entry.allowed_ips \in Seq(Ips)
  BY DEF Entry
<1>2. \A ip \in Ips : AddressOf[ip] \in AllowedIp
  BY AddressAssumption
<1>3. ips \in Seq(AllowedIp)
  BY <1>1, <1>2, MapSeq
<1> HIDE DEF ips
<1>4. ParsedPeer(entry) =
        [public_key |-> entry.public_key,
         preshared_key |-> IF entry.attrs = NoAttrs THEN "none" ELSE "valid",
         attrs |-> entry.attrs,
         flags |-> {},
         has_allowed_ips |-> entry.has_allowed_ips,
         allowed_ips |-> ips]
  BY DEF ParsedPeer, ips
<1>5. ParsedPeer(entry) \in ParsedPeers
  BY <1>3, <1>4 DEF ParsedPeers, Entry
<1> QED BY <1>4, <1>5 DEF ips

LEMMA MergeType ==
  ASSUME NEW peer \in ParsedPeers, NEW more \in ParsedPeers
  PROVE  LET p == MergeContinuation(peer, more)
         IN  /\ p \in ParsedPeers /\ p.public_key = peer.public_key
             /\ p.preshared_key = IF peer.preshared_key = "none" THEN more.preshared_key
                                  ELSE peer.preshared_key
             /\ p.attrs = IF peer.attrs = NoAttrs THEN more.attrs ELSE peer.attrs
             /\ p.has_allowed_ips <=> peer.has_allowed_ips \/ more.has_allowed_ips
             /\ p.allowed_ips = peer.allowed_ips \o more.allowed_ips
<1>1. peer.flags \cup more.flags = {}
  BY DEF ParsedPeers
<1>2. peer.allowed_ips \o more.allowed_ips \in Seq(AllowedIp)
  BY DEF ParsedPeers
<1>3. PICK has \in BOOLEAN : has = (peer.has_allowed_ips \/ more.has_allowed_ips)
  OBVIOUS
<1>4. MergeContinuation(peer, more) =
        [peer EXCEPT
           !.has_allowed_ips = has,
           !.allowed_ips = @ \o more.allowed_ips,
           !.preshared_key = IF @ = "none" THEN more.preshared_key ELSE @,
           !.attrs = IF @ = NoAttrs THEN more.attrs ELSE @,
           !.flags = @ \cup more.flags]
  BY <1>3, Zenon DEF MergeContinuation
<1>5. MergeContinuation(peer, more) =
        [public_key |-> peer.public_key,
         preshared_key |-> IF peer.preshared_key = "none" THEN more.preshared_key
                           ELSE peer.preshared_key,
         attrs |-> IF peer.attrs = NoAttrs THEN more.attrs ELSE peer.attrs,
         flags |-> {},
         has_allowed_ips |-> has,
         allowed_ips |-> peer.allowed_ips \o more.allowed_ips]
  BY <1>1, <1>4 DEF ParsedPeers
<1> QED BY <1>2, <1>3, <1>5 DEF ParsedPeers

\* A property of parsed peers which continuations keep.
KeptByMerge(Good) ==
  \A peer, more \in Good :
    peer.public_key = more.public_key => MergeContinuation(peer, more) \in Good

LEMMA PushPeerKeeps ==
  ASSUME NEW Good, KeptByMerge(Good), NEW peers \in Seq(Good), NEW peer \in Good
  PROVE  PushPeer(peers, peer) \in Seq(Good)
<1>1. CASE peers # << >> /\ Last(peers).public_key = peer.public_key
  <2>1. Last(peers) \in Good /\ Len(peers) \in 1..Len(peers) /\ Last(peers) = peers[Len(peers)]
    BY <1>1 DEF Last
  <2>2. MergeContinuation(Last(peers), peer) \in Good
    BY <1>1, <2>1 DEF KeptByMerge
  <2>3. PushPeer(peers, peer) =
          [peers EXCEPT ![Len(peers)] = MergeContinuation(Last(peers), peer)]
    BY <1>1, <2>1 DEF PushPeer
  <2> QED BY <2>1, <2>2, <2>3, ExceptSeq
<1>2. CASE ~ (peers # << >> /\ Last(peers).public_key = peer.public_key)
  BY <1>2 DEF PushPeer
<1> QED BY <1>1, <1>2

\* What holds of every entry on its own, and is kept when entries are put
\* together, holds of every peer that is reported.
LEMMA PushEntriesKeep ==
  ASSUME NEW Good, KeptByMerge(Good), NEW base \in Seq(Good), NEW entries \in Seq(Entry),
         \A j \in DOMAIN entries : ParsedPeer(entries[j]) \in Good
  PROVE  PushEntries(base, entries) \in Seq(Good)
<1> DEFINE Entries == {entry \in Entry : ParsedPeer(entry) \in Good}
<1>1. \A peers \in Seq(Good), entry \in Entries : EntryStep(0, peers, entry) \in Seq(Good)
  BY PushPeerKeeps DEF EntryStep, PushEntry
<1>2. \A j \in DOMAIN entries : entries[j] \in Entries
  BY LenProperties, ElementOfSeq
<1> HIDE DEF Entries
<1>3. entries \in Seq(Entries)
  BY <1>2, SeqOfElements
<1>4. OverEntries!Fold(0, base, entries) \in Seq(Good)
  BY <1>1, <1>3, OverEntries!FoldInvariant
<1> QED BY <1>4, EntriesFold
-----------------------------------------------------------------------------
(* Entries that come in the order of a list of peers.                      *)

\* The peers are among the first of the list, in its order, each at most once.
Rising(peers, list, limit) ==
  \E place \in [DOMAIN peers -> 1..limit] :
    /\ \A i \in DOMAIN peers : list[place[i]] = peers[i].public_key
    /\ \A i, j \in DOMAIN peers : i < j => place[i] < place[j]

Once(list) ==
  Len(list) \in Nat /\ \A i, j \in 1..Len(list) : list[i] = list[j] => i = j

LEMMA RisingEmpty ==
  ASSUME NEW list, NEW limit
  PROVE  Rising(<< >>, list, limit)
<1> DEFINE place == [i \in DOMAIN << >> |-> 1]
<1>1. place \in [DOMAIN << >> -> 1..limit] /\ DOMAIN << >> = {}
  OBVIOUS
<1> DEFINE none == << >>
<1>2. DOMAIN none = {}
  BY <1>1
<1> HIDE DEF none, place
<1>3. place \in [DOMAIN none -> 1..limit]
  BY <1>1 DEF none
<1>4. Rising(none, list, limit)
  BY <1>2, <1>3 DEF Rising
<1> QED BY <1>4 DEF none

LEMMA RisingGrows ==
  ASSUME NEW peers, NEW list, NEW longer, NEW limit \in Nat, NEW more \in Nat,
         limit <= more, \A i \in 1..limit : longer[i] = list[i], Rising(peers, list, limit)
  PROVE  Rising(peers, longer, more)
<1>1. PICK place \in [DOMAIN peers -> 1..limit] :
        /\ \A i \in DOMAIN peers : list[place[i]] = peers[i].public_key
        /\ \A i, j \in DOMAIN peers : i < j => place[i] < place[j]
  BY DEF Rising
<1>2. place \in [DOMAIN peers -> 1..more]
  OBVIOUS
<1>3. \A i \in DOMAIN peers : longer[place[i]] = peers[i].public_key
  BY <1>1
<1> QED BY <1>1, <1>2, <1>3 DEF Rising

LEMMA RisingIsOnce ==
  ASSUME NEW peers \in Seq(ParsedPeers), NEW list, Once(list), NEW limit \in 0..Len(list),
         Rising(peers, list, limit), NEW i \in DOMAIN peers, NEW j \in DOMAIN peers,
         peers[i].public_key = peers[j].public_key
  PROVE  i = j
<1>1. PICK place \in [DOMAIN peers -> 1..limit] :
        /\ \A k \in DOMAIN peers : list[place[k]] = peers[k].public_key
        /\ \A k, l \in DOMAIN peers : k < l => place[k] < place[l]
  BY DEF Rising
<1>2. place[i] \in 1..Len(list) /\ place[j] \in 1..Len(list)
  BY DEF Once
<1>3. place[i] = place[j]
  BY <1>1, <1>2 DEF Once
<1>4. i \in Int /\ j \in Int
  BY LenProperties
<1>5. place[i] \in Int /\ place[j] \in Int
  OBVIOUS
<1> QED BY <1>1, <1>3, <1>4, <1>5

\* An entry for the peer at the last place used, or at a later one.
LEMMA PushRises ==
  ASSUME NEW peers \in Seq(ParsedPeers), NEW list, Once(list), NEW k \in 1..Len(list),
         NEW limit \in 0..k, Rising(peers, list, limit),
         NEW entry \in Entry, entry.public_key = list[k]
  PROVE  /\ PushEntry(peers, entry) \in Seq(ParsedPeers)
         /\ Rising(PushEntry(peers, entry), list, k)
<1> DEFINE n == Len(peers)
           p == ParsedPeer(entry)
<1>1. PICK place \in [DOMAIN peers -> 1..limit] :
        /\ \A i \in DOMAIN peers : list[place[i]] = peers[i].public_key
        /\ \A i, j \in DOMAIN peers : i < j => place[i] < place[j]
  BY DEF Rising
<1>2. n \in Nat /\ DOMAIN peers = 1..n /\ \A i \in 1..n : peers[i] \in ParsedPeers
  BY LenProperties, ElementOfSeq
<1>3. p \in ParsedPeers /\ p.public_key = list[k]
  BY ParsedPeerType
<1>4. k \in Nat /\ \A i \in 1..n : place[i] \in 1..k
  BY <1>2 DEF Once
<1>5. PushEntry(peers, entry) = PushPeer(peers, p)
  BY DEF PushEntry
<1> HIDE DEF p, n
<1>6. CASE peers # << >> /\ Last(peers).public_key = p.public_key
  <2>1. n \in 1..n /\ Last(peers) = peers[n]
    BY <1>2, <1>6, EmptySeq DEF n, Last
  <2> DEFINE whole == MergeContinuation(peers[n], p)
             pushed == [peers EXCEPT ![n] = whole]
  <2>2. whole \in ParsedPeers /\ whole.public_key = peers[n].public_key
    BY <1>2, <1>3, <2>1, MergeType
  <2>3. PushPeer(peers, p) = pushed
    BY <1>6, <2>1 DEF PushPeer, n
  <2> HIDE DEF whole
  <2>4. pushed \in Seq(ParsedPeers) /\ DOMAIN pushed = 1..n
    BY <1>2, <2>1, <2>2, ExceptSeq DEF n
  <2>5. \A i \in 1..n : pushed[i].public_key = peers[i].public_key
    BY <1>2, <2>1, <2>2
  <2> HIDE DEF pushed
  <2>6. place \in [DOMAIN pushed -> 1..k]
    BY <1>2, <1>4, <2>4
  <2>7. Rising(pushed, list, k)
    BY <1>1, <1>2, <2>4, <2>5, <2>6 DEF Rising
  <2> QED BY <1>5, <2>3, <2>4, <2>7
<1>7. CASE ~ (peers # << >> /\ Last(peers).public_key = p.public_key)
  <2> DEFINE pushed == Append(peers, p)
             further == [i \in 1..n + 1 |-> IF i = n + 1 THEN k ELSE place[i]]
  <2>1. /\ pushed \in Seq(ParsedPeers) /\ DOMAIN pushed = 1..n + 1
        /\ \A i \in 1..n : pushed[i] = peers[i]
        /\ pushed[n + 1] = p
    BY <1>2, <1>3, AppendProperties, LenProperties DEF n
  <2>2. PushPeer(peers, p) = pushed
    BY <1>7 DEF PushPeer
  <2>3. \A i \in 1..n : place[i] < k
    <3>1. SUFFICES ASSUME NEW i \in 1..n PROVE place[i] < k
      OBVIOUS
    <3>2. n \in 1..n /\ peers # << >> /\ Last(peers) = peers[n]
      BY <1>2, <3>1, EmptySeq DEF n, Last
    <3>3. place[n] # k
      BY <1>1, <1>2, <1>3, <1>7, <3>2
    <3>4. place[n] \in 1..k /\ place[i] \in 1..k
      BY <1>4, <3>2
    <3>5. i = n \/ i < n
      BY <1>2
    <3>6. place[n] < k
      BY <1>4, <3>3, <3>4
    <3>7. i < n => place[i] < place[n]
      BY <1>1, <1>2, <3>2
    <3> HIDE DEF further
    <3>8. place[i] \in Int /\ place[n] \in Int /\ k \in Int
      BY <3>4
    <3> QED BY <3>5, <3>6, <3>7, <3>8
  <2>4. further \in [1..n + 1 -> 1..k]
    BY <1>2, <1>4
  <2>5. \A i \in 1..n : further[i] = place[i] /\ i \in 1..n + 1 /\ i # n + 1
    BY <1>2
  <2>6. further[n + 1] = k
    BY <1>2
  <2> HIDE DEF further, pushed
  <2>7. ASSUME NEW i \in 1..n + 1 PROVE list[further[i]] = pushed[i].public_key
    <3>1. CASE i = n + 1
      BY <1>3, <2>1, <2>6, <3>1
    <3>2. CASE i \in 1..n
      BY <1>1, <1>2, <2>1, <2>5, <3>2
    <3> QED BY <1>2, <3>1, <3>2
  <2>8. ASSUME NEW i \in 1..n + 1, NEW j \in 1..n + 1, i < j PROVE further[i] < further[j]
    <3>1. i \in 1..n /\ (j = n + 1 \/ j \in 1..n)
      BY <1>2, <2>8
    <3>2. CASE j = n + 1
      BY <2>3, <2>5, <2>6, <3>1, <3>2
    <3>3. CASE j \in 1..n
      BY <1>1, <1>2, <2>5, <2>8, <3>1, <3>3
    <3> QED BY <3>1, <3>2, <3>3
  <2>9. Rising(pushed, list, k)
    BY <2>1, <2>4, <2>7, <2>8 DEF Rising
  <2> QED BY <1>5, <2>1, <2>2, <2>9
<1> QED BY <1>6, <1>7

\* Entries for the peers that follow in the list.
LEMMA PushEntriesRise ==
  ASSUME NEW peers \in Seq(ParsedPeers), NEW list, Once(list), NEW base \in Nat,
         NEW limit \in 0..base + 1, Rising(peers, list, limit),
         NEW entries \in Seq(Entry), base + Len(entries) <= Len(list), entries # << >>,
         \A j \in 1..Len(entries) : entries[j].public_key = list[base + j]
  PROVE  Rising(PushEntries(peers, entries), list, base + Len(entries))
<1> DEFINE Ends(acc, n) == acc \in Seq(ParsedPeers)
                             /\ Rising(acc, list, IF n = 0 THEN limit ELSE base + n)
           T == {n \in Nat : n <= Len(entries) => Ends(PushEntries(peers, SubSeq(entries, 1, n)), n)}
<1>1. Len(entries) \in Nat /\ Len(entries) # 0 /\ Len(list) \in Nat
  BY EmptySeq DEF Once
<1>2. 0 \in T
  <2>1. SubSeq(entries, 1, 0) = << >>
    BY SubSeqEmpty
  <2> QED BY <2>1, PushEntriesEmpty
<1>3. ASSUME NEW n \in Nat, n \in T PROVE n + 1 \in T
  <2>1. SUFFICES ASSUME n + 1 <= Len(entries)
                 PROVE  Ends(PushEntries(peers, SubSeq(entries, 1, n + 1)), n + 1)
    OBVIOUS
  <2> DEFINE acc == PushEntries(peers, SubSeq(entries, 1, n))
             below == IF n = 0 THEN limit ELSE base + n
  <2>2. acc \in Seq(ParsedPeers) /\ Rising(acc, list, below)
    BY <1>1, <1>3, <2>1
  <2>3. n + 1 \in 1..Len(entries) /\ (n + 1) - 1 = n
    BY <1>1, <2>1
  <2>4. PushEntries(peers, SubSeq(entries, 1, n + 1)) = PushEntry(acc, entries[n + 1])
    <3>1. OverEntries!Fold(0, peers, SubSeq(entries, 1, n + 1)) =
            EntryStep(0, OverEntries!Fold(0, peers, SubSeq(entries, 1, (n + 1) - 1)), entries[n + 1])
      <4> DEFINE m == n + 1
      <4>1. m \in 1..Len(entries)
        BY <2>3
      <4> HIDE DEF m
      <4>2. OverEntries!Fold(0, peers, SubSeq(entries, 1, m)) =
              EntryStep(0, OverEntries!Fold(0, peers, SubSeq(entries, 1, m - 1)), entries[m])
        BY <4>1, OverEntries!FoldNext
      <4> QED BY <4>2 DEF m
    <3> QED BY <2>3, <3>1, EntriesFold DEF EntryStep
  <2>5. entries[n + 1] \in Entry /\ entries[n + 1].public_key = list[base + (n + 1)]
    BY <2>3, ElementOfSeq
  <2>6. base + (n + 1) \in 1..Len(list) /\ below \in 0..base + (n + 1)
    BY <1>1, <2>1
  <2> HIDE DEF acc, below
  <2>7. /\ PushEntry(acc, entries[n + 1]) \in Seq(ParsedPeers)
        /\ Rising(PushEntry(acc, entries[n + 1]), list, base + (n + 1))
    BY <2>2, <2>5, <2>6, PushRises
  <2> QED BY <2>4, <2>7
<1>4. Len(entries) \in T
  <2> HIDE DEF T
  <2> QED BY <1>1, <1>2, <1>3, OverEntries!SetInduction
<1>5. SubSeq(entries, 1, Len(entries)) = entries
  OBVIOUS
<1>6. Ends(PushEntries(peers, SubSeq(entries, 1, Len(entries))), Len(entries))
  BY <1>1, <1>4
<1> QED BY <1>1, <1>5, <1>6
-----------------------------------------------------------------------------
(* Sets listed as sequences.                                               *)

\* seq lists every element of S once.
Lists(seq, S) ==
  /\ seq \in Seq(S)
  /\ \A i, j \in DOMAIN seq : seq[i] = seq[j] => i = j
  /\ \A x \in S : \E i \in DOMAIN seq : seq[i] = x

LEMMA ListsIsBijection ==
  ASSUME NEW S, IsFiniteSet(S), NEW seq, Lists(seq, S)
  PROVE  Len(seq) = Cardinality(S) /\ seq \in SetToSeqs(S)
<1> DEFINE n == Len(seq)
<1>1. n \in Nat /\ seq \in [1..n -> S] /\ DOMAIN seq = 1..n
  BY DEF Lists
<1>2. seq \in Bijection(1..n, S)
  BY <1>1 DEF Lists, Bijection, Injection, Surjection, IsInjective
<1>3. IsFiniteSet(1..n) /\ Cardinality(1..n) = n
  BY <1>1, FS_Interval
<1>4. Cardinality(S) = n
  BY <1>2, <1>3, FS_Bijection DEF ExistsBijection
<1> QED BY <1>1, <1>4 DEF SetToSeqs, Lists

LEMMA SetToSeqsLists ==
  ASSUME NEW S, IsFiniteSet(S), NEW seq \in SetToSeqs(S)
  PROVE  Lists(seq, S)
<1> DEFINE n == Cardinality(S)
<1>1. n \in Nat
  BY FS_CardinalityType
<1>2. seq \in [1..n -> S] /\ \A i, j \in 1..n : seq[i] = seq[j] => i = j
  BY DEF SetToSeqs
<1>3. IsFiniteSet(1..n) /\ Cardinality(1..n) = n
  BY <1>1, FS_Interval
<1>4. seq \in Injection(1..n, S)
  BY <1>2 DEF Injection, IsInjective
<1>5. seq \in Surjection(1..n, S)
  BY <1>3, <1>4, FS_Injection
<1>6. seq \in Seq(S)
  BY <1>1, <1>2
<1>7. DOMAIN seq = 1..n
  BY <1>2
<1>8. \A x \in S : \E i \in 1..n : seq[i] = x
  BY <1>5 DEF Surjection
<1> QED BY <1>2, <1>6, <1>7, <1>8 DEF Lists

LEMMA SetToSeqLists ==
  ASSUME NEW S, IsFiniteSet(S)
  PROVE  Lists(SetToSeq(S), S)
<1> DEFINE n == Cardinality(S)
<1>1. n \in Nat /\ ExistsBijection(1..n, S)
  BY FS_CardinalityType
<1>2. PICK f : f \in Bijection(1..n, S)
  BY <1>1 DEF ExistsBijection
<1>3. f \in [1..n -> S] /\ IsInjective(f)
  BY <1>2 DEF Bijection, Injection
<1>4. SetToSeq(S) \in [1..n -> S] /\ IsInjective(SetToSeq(S))
  BY <1>3 DEF SetToSeq
<1>5. SetToSeq(S) \in SetToSeqs(S)
  BY <1>4 DEF SetToSeqs, IsInjective
<1> QED BY <1>5, SetToSeqsLists

\* A new element comes last.
LEMMA ListsAppend ==
  ASSUME NEW S, NEW seq, Lists(seq, S), NEW x, x \notin S
  PROVE  Lists(Append(seq, x), S \cup {x})
<1> DEFINE longer == Append(seq, x)
           n == Len(seq)
<1>1. n \in Nat /\ DOMAIN seq = 1..n /\ \A i \in 1..n : seq[i] \in S
  BY LenProperties, ElementOfSeq DEF Lists
<1>2. longer \in Seq(S \cup {x})
  <2>1. seq \in Seq(S \cup {x})
    BY SeqMonotonic DEF Lists
  <2> QED BY <2>1
<1>3. DOMAIN longer = 1..n + 1 /\ (\A i \in 1..n : longer[i] = seq[i]) /\ longer[n + 1] = x
  BY AppendProperties DEF Lists
<1> HIDE DEF longer, n
<1>4. ASSUME NEW i \in 1..n + 1, NEW j \in 1..n + 1, longer[i] = longer[j] PROVE i = j
  <2>1. CASE i \in 1..n /\ j \in 1..n
    BY <1>1, <1>3, <1>4, <2>1 DEF Lists
  <2>2. CASE i = n + 1 \/ j = n + 1
    BY <1>1, <1>3, <1>4, <2>2
  <2> QED BY <1>1, <2>1, <2>2
<1>5. ASSUME NEW y \in S \cup {x} PROVE \E i \in 1..n + 1 : longer[i] = y
  <2>1. CASE y = x
    <3>1. n + 1 \in 1..n + 1
      BY <1>1
    <3> QED BY <1>3, <2>1, <3>1
  <2>2. CASE y \in S
    <3>1. PICK i \in 1..n : seq[i] = y
      BY <1>1, <2>2 DEF Lists
    <3>2. i \in 1..n + 1
      BY <1>1
    <3> QED BY <1>3, <3>1, <3>2
  <2> QED BY <2>1, <2>2
<1> QED BY <1>2, <1>3, <1>4, <1>5 DEF Lists, longer

\* One element less, the others keep their order.
LEMMA ListsRemove ==
  ASSUME NEW S, NEW seq, Lists(seq, S), NEW k \in DOMAIN seq
  PROVE  /\ Lists(RemoveAt(seq, k), S \ {seq[k]})
         /\ Len(RemoveAt(seq, k)) = Len(seq) - 1
<1> DEFINE n == Len(seq)
           front == SubSeq(seq, 1, k - 1)
           back == SubSeq(seq, k + 1, n)
           less == front \o back
<1>1. /\ n \in Nat /\ DOMAIN seq = 1..n /\ k \in 1..n /\ seq \in Seq(S)
      /\ \A i \in 1..n : seq[i] \in S
      /\ \A i, j \in 1..n : seq[i] = seq[j] => i = j
      /\ \A y \in S : \E i \in 1..n : seq[i] = y
  BY LenProperties, ElementOfSeq DEF Lists
<1>2. RemoveAt(seq, k) = less
  BY DEF RemoveAt
<1>3. front \in Seq(S) /\ Len(front) = k - 1 /\ \A i \in 1..k - 1 : front[i] = seq[i]
  BY <1>1
<1>4. back \in Seq(S) /\ Len(back) = n - k /\ \A i \in 1..n - k : back[i] = seq[i + k]
  <2>1. k + 1 \in 1..n + 1 /\ n \in k..n
    BY <1>1
  <2>2. \A i \in k + 1..n : seq[i] \in S
    BY <1>1
  <2>3. /\ back \in Seq(S)
        /\ Len(back) = (IF k + 1 <= n THEN n - (k + 1) + 1 ELSE 0)
        /\ \A i \in 1..n - (k + 1) + 1 : back[i] = seq[(k + 1) + i - 1]
    BY <1>1, <2>1, <2>2, SubSeqProperties
  <2> HIDE DEF back, n
  <2>4. n - (k + 1) + 1 = n - k /\ \A i \in 1..n - k : (k + 1) + i - 1 = i + k
    BY <1>1
  <2>5. Len(back) = n - k
    BY <1>1, <2>3
  <2>6. \A i \in 1..n - k : back[i] = seq[i + k]
    BY <2>3, <2>4
  <2> QED BY <2>3, <2>5, <2>6
<1> HIDE DEF n
<1>5. /\ less \in Seq(S) /\ Len(less) = n - 1 /\ DOMAIN less = 1..n - 1
      /\ \A i \in 1..n - 1 : less[i] = IF i < k THEN seq[i] ELSE seq[i + 1]
  <2> HIDE DEF front, back
  <2>1. less \in Seq(S) /\ Len(less) = n - 1 /\ DOMAIN less = 1..n - 1
    <3>1. less \in Seq(S) /\ Len(less) = Len(front) + Len(back)
      BY <1>3, <1>4, ConcatProperties
    <3>2. Len(less) = n - 1
      BY <1>1, <1>3, <1>4, <3>1
    <3> HIDE DEF less
    <3> QED BY <3>1, <3>2, LenProperties
  <2>2. ASSUME NEW i \in 1..n - 1, i < k PROVE less[i] = seq[i]
    BY <1>1, <1>3, <1>4, <2>2
  <2>3. ASSUME NEW i \in 1..n - 1, ~ (i < k) PROVE less[i] = seq[i + 1]
    <3>1. less[i] = back[i - (k - 1)]
      <4>1. i > Len(front) /\ i \in 1..Len(front) + Len(back)
        BY <1>1, <1>3, <1>4, <2>3
      <4> QED BY <1>3, <1>4, <4>1, ConcatProperties
    <3>2. i - (k - 1) \in 1..n - k /\ (i - (k - 1)) + k = i + 1
      BY <1>1, <2>3
    <3> QED BY <1>4, <3>1, <3>2
  <2> QED BY <2>1, <2>2, <2>3
<1> HIDE DEF less
<1>6. ASSUME NEW i \in 1..n - 1
      PROVE  \E m \in 1..n : m # k /\ less[i] = seq[m] /\ m = (IF i < k THEN i ELSE i + 1)
  BY <1>1, <1>5
<1>7. \A i \in 1..n - 1 : less[i] \in S \ {seq[k]}
  BY <1>1, <1>6
<1>8. less \in Seq(S \ {seq[k]})
  BY <1>5, <1>7, SeqOfElements
<1>9. ASSUME NEW i \in 1..n - 1, NEW j \in 1..n - 1, less[i] = less[j] PROVE i = j
  <2>1. PICK m1 \in 1..n : less[i] = seq[m1] /\ m1 = (IF i < k THEN i ELSE i + 1)
    BY <1>6
  <2>2. PICK m2 \in 1..n : less[j] = seq[m2] /\ m2 = (IF j < k THEN j ELSE j + 1)
    BY <1>6
  <2>3. m1 = m2
    BY <1>1, <1>9, <2>1, <2>2
  <2> QED BY <1>1, <2>1, <2>2, <2>3
<1>10. ASSUME NEW y \in S \ {seq[k]} PROVE \E i \in 1..n - 1 : less[i] = y
  <2>1. PICK m \in 1..n : seq[m] = y
    BY <1>1
  <2>2. m # k
    BY <2>1
  <2>3. CASE m < k
    <3>1. m \in 1..n - 1
      BY <1>1, <2>3
    <3> QED BY <1>5, <2>1, <2>3, <3>1
  <2>4. CASE m > k
    <3>1. m - 1 \in 1..n - 1 /\ ~ (m - 1 < k) /\ (m - 1) + 1 = m
      BY <1>1, <2>4
    <3>2. less[m - 1] = seq[(m - 1) + 1]
      BY <1>5, <3>1
    <3> QED BY <2>1, <3>1, <3>2
  <2> QED BY <1>1, <2>2, <2>3, <2>4
<1> QED BY <1>2, <1>5, <1>8, <1>9, <1>10 DEF Lists, n
-----------------------------------------------------------------------------
(* What is made of a dump of a device that nobody changes.                 *)

IpsIn(dev, key) == SetToSeq({ip \in Ips : dev.owner[ip] = key})

\* A peer of dev with the first of its allowed IPs, with all of them, and the
\* first peers of a list.
PeerUpTo(dev, key, to) ==
  ParsedPeer([public_key |-> key, attrs |-> dev.peers[key],
              has_allowed_ips |-> IpsIn(dev, key) # << >>,
              allowed_ips |-> SubSeq(IpsIn(dev, key), 1, to)])

FullPeer(dev, key) == PeerUpTo(dev, key, Len(IpsIn(dev, key)))

Listed(dev, list, n) == [i \in 1..n |-> FullPeer(dev, list[i])]

PeerOf(dev, key) == key \in Keys /\ dev.peers[key] # Absent

LEMMA IpsInFacts ==
  ASSUME IsFiniteSet(Ips), NEW dev, NEW key
  PROVE  /\ Lists(IpsIn(dev, key), {ip \in Ips : dev.owner[ip] = key})
         /\ IpsIn(dev, key) \in Seq(Ips) /\ Len(IpsIn(dev, key)) \in Nat
         /\ Len(IpsIn(dev, key)) = Cardinality({ip \in Ips : dev.owner[ip] = key})
<1>1. IsFiniteSet({ip \in Ips : dev.owner[ip] = key})
  BY FS_Subset
<1>2. Lists(IpsIn(dev, key), {ip \in Ips : dev.owner[ip] = key})
  BY <1>1, SetToSeqLists DEF IpsIn
<1>3. {ip \in Ips : dev.owner[ip] = key} \subseteq Ips
  OBVIOUS
<1>4. IpsIn(dev, key) \in Seq(Ips)
  BY <1>2, <1>3, SeqMonotonic DEF Lists
<1> QED BY <1>1, <1>2, <1>4, LenProperties, ListsIsBijection

\* The fields of an entry, parsed.
LEMMA ParsedFields ==
  ASSUME NEW entry \in Entry
  PROVE  LET p == ParsedPeer(entry)
         IN  /\ p \in ParsedPeers /\ p.public_key = entry.public_key
             /\ p.attrs = entry.attrs
             /\ p.preshared_key = IF entry.attrs = NoAttrs THEN "none" ELSE "valid"
             /\ p.has_allowed_ips <=> entry.has_allowed_ips
             /\ Len(p.allowed_ips) = Len(entry.allowed_ips)
             /\ \A i \in 1..Len(entry.allowed_ips) :
                  p.allowed_ips[i] = AddressOf[entry.allowed_ips[i]]
<1> DEFINE p == ParsedPeer(entry)
<1>1. /\ p \in ParsedPeers /\ p.public_key = entry.public_key /\ p.attrs = entry.attrs
      /\ DOMAIN p.allowed_ips = DOMAIN entry.allowed_ips
      /\ \A i \in DOMAIN entry.allowed_ips : p.allowed_ips[i] = AddressOf[entry.allowed_ips[i]]
  BY ParsedPeerType
<1>2. /\ p.preshared_key = IF entry.attrs = NoAttrs THEN "none" ELSE "valid"
      /\ p.has_allowed_ips = entry.has_allowed_ips
  BY DEF ParsedPeer
<1> HIDE DEF p
<1>3. p.allowed_ips \in Seq(AllowedIp) /\ entry.allowed_ips \in Seq(Ips)
  BY <1>1 DEF ParsedPeers, Entry
<1>4. Len(p.allowed_ips) = Len(entry.allowed_ips)
  BY <1>1, <1>3, LenProperties
<1>5. DOMAIN entry.allowed_ips = 1..Len(entry.allowed_ips)
  BY <1>3, LenProperties
<1> QED BY <1>1, <1>2, <1>4, <1>5 DEF p

\* Parsed peers are the same that agree in every field.
LEMMA SameParsedPeer ==
  ASSUME NEW p \in ParsedPeers, NEW q \in ParsedPeers,
         p.public_key = q.public_key, p.attrs = q.attrs, p.preshared_key = q.preshared_key,
         p.has_allowed_ips <=> q.has_allowed_ips,
         Len(p.allowed_ips) = Len(q.allowed_ips),
         \A i \in 1..Len(q.allowed_ips) : p.allowed_ips[i] = q.allowed_ips[i]
  PROVE  p = q
<1>1. p.allowed_ips \in Seq(AllowedIp) /\ q.allowed_ips \in Seq(AllowedIp)
  BY DEF ParsedPeers
<1>2. p.allowed_ips = q.allowed_ips
  BY <1>1, SeqEqual
<1>3. p.has_allowed_ips = q.has_allowed_ips
  BY DEF ParsedPeers
<1>4. p.flags = q.flags
  BY DEF ParsedPeers
<1> QED BY <1>2, <1>3, <1>4 DEF ParsedPeers

LEMMA PeerUpToFacts ==
  ASSUME IsFiniteSet(Ips), NEW dev \in Device, NEW key, PeerOf(dev, key),
         NEW to \in 0..Len(IpsIn(dev, key))
  PROVE  LET p == PeerUpTo(dev, key, to)
         IN  /\ p \in ParsedPeers /\ p.public_key = key /\ p.attrs = dev.peers[key]
             /\ p.preshared_key = IF dev.peers[key] = NoAttrs THEN "none" ELSE "valid"
             /\ p.has_allowed_ips <=> IpsIn(dev, key) # << >>
             /\ Len(p.allowed_ips) = to
             /\ \A i \in 1..to : p.allowed_ips[i] = AddressOf[IpsIn(dev, key)[i]]
<1> DEFINE ips == IpsIn(dev, key)
           part == SubSeq(ips, 1, to)
<1>1. ips \in Seq(Ips) /\ Len(ips) \in Nat /\ to \in Nat /\ to <= Len(ips)
  <2>1. IpsIn(dev, key) \in Seq(Ips) /\ Len(IpsIn(dev, key)) \in Nat
    BY IpsInFacts
  <2> QED BY <2>1
<1>2. PICK has \in BOOLEAN : has = (ips # << >>)
  OBVIOUS
<1>3. dev.peers[key] \in Attrs /\ key \in Keys
  BY DEF PeerOf, Device
<1> DEFINE entry == [public_key |-> key, attrs |-> dev.peers[key],
                     has_allowed_ips |-> has, allowed_ips |-> part]
<1>4. PeerUpTo(dev, key, to) = ParsedPeer(entry)
  BY <1>2, Zenon DEF PeerUpTo
<1> HIDE DEF ips
<1>5. part \in Seq(Ips) /\ Len(part) = to /\ \A i \in 1..to : part[i] = ips[i]
  BY <1>1
<1> HIDE DEF part
<1>6. entry \in Entry
  BY <1>3, <1>5 DEF Entry
<1>7. /\ entry.public_key = key /\ entry.attrs = dev.peers[key]
      /\ entry.has_allowed_ips = has /\ entry.allowed_ips = part
  OBVIOUS
<1> HIDE DEF entry
<1> DEFINE p == ParsedPeer(entry)
<1>8. /\ p \in ParsedPeers /\ p.public_key = entry.public_key
      /\ p.attrs = entry.attrs
      /\ p.preshared_key = IF entry.attrs = NoAttrs THEN "none" ELSE "valid"
      /\ p.has_allowed_ips <=> entry.has_allowed_ips
      /\ Len(p.allowed_ips) = Len(entry.allowed_ips)
      /\ \A i \in 1..Len(entry.allowed_ips) :
           p.allowed_ips[i] = AddressOf[entry.allowed_ips[i]]
  BY <1>6, ParsedFields
<1> HIDE DEF p
<1>9. /\ Len(p.allowed_ips) = to
      /\ \A i \in 1..to : p.allowed_ips[i] = AddressOf[ips[i]]
  BY <1>5, <1>7, <1>8
<1> QED BY <1>2, <1>4, <1>7, <1>8, <1>9 DEF ips, p

\* An entry of a peer that is listed from its beginning.
Fresh(entry, dev, key, to) ==
  /\ entry \in Entry /\ entry.public_key = key /\ entry.attrs = dev.peers[key]
  /\ entry.has_allowed_ips <=> IpsIn(dev, key) # << >>
  /\ entry.allowed_ips = SubSeq(IpsIn(dev, key), 1, to)

\* An entry of a peer that goes on after some of its allowed IPs.
Continuing(entry, dev, key, from, to) ==
  /\ entry \in Entry /\ entry.public_key = key /\ entry.attrs = NoAttrs
  /\ entry.has_allowed_ips <=> IpsIn(dev, key) # << >>
  /\ entry.allowed_ips = SubSeq(IpsIn(dev, key), from + 1, to)

LEMMA FreshPeer ==
  ASSUME IsFiniteSet(Ips), NEW dev \in Device, NEW key, PeerOf(dev, key),
         NEW to \in 0..Len(IpsIn(dev, key)), NEW entry, Fresh(entry, dev, key, to)
  PROVE  ParsedPeer(entry) = PeerUpTo(dev, key, to)
<1> DEFINE p == PeerUpTo(dev, key, to)
           q == ParsedPeer(entry)
<1>1. /\ p \in ParsedPeers /\ p.public_key = key /\ p.attrs = dev.peers[key]
      /\ p.preshared_key = IF dev.peers[key] = NoAttrs THEN "none" ELSE "valid"
      /\ p.has_allowed_ips <=> IpsIn(dev, key) # << >>
      /\ Len(p.allowed_ips) = to
      /\ \A i \in 1..to : p.allowed_ips[i] = AddressOf[IpsIn(dev, key)[i]]
  BY PeerUpToFacts
<1>2. entry \in Entry
  BY DEF Fresh
<1>3. /\ q \in ParsedPeers /\ q.public_key = entry.public_key
      /\ q.attrs = entry.attrs
      /\ q.preshared_key = IF entry.attrs = NoAttrs THEN "none" ELSE "valid"
      /\ q.has_allowed_ips <=> entry.has_allowed_ips
      /\ Len(q.allowed_ips) = Len(entry.allowed_ips)
      /\ \A i \in 1..Len(entry.allowed_ips) :
           q.allowed_ips[i] = AddressOf[entry.allowed_ips[i]]
  BY <1>2, ParsedFields
<1>4. /\ Len(entry.allowed_ips) = to
      /\ \A i \in 1..to : entry.allowed_ips[i] = IpsIn(dev, key)[i]
  BY IpsInFacts DEF Fresh
<1> HIDE DEF p, q
<1>5. q = p
  BY <1>1, <1>3, <1>4, SameParsedPeer DEF Fresh
<1> QED BY <1>5 DEF p, q

\* The parts of a peer, put together.
LEMMA PeerGrows ==
  ASSUME IsFiniteSet(Ips), NEW dev \in Device, NEW key, PeerOf(dev, key),
         NEW to \in 0..Len(IpsIn(dev, key)), NEW from \in 0..to, NEW entry,
         Continuing(entry, dev, key, from, to)
  PROVE  MergeContinuation(PeerUpTo(dev, key, from), ParsedPeer(entry)) = PeerUpTo(dev, key, to)
<1> DEFINE p == PeerUpTo(dev, key, from)
           q == ParsedPeer(entry)
           r == PeerUpTo(dev, key, to)
           whole == MergeContinuation(p, q)
           ips == IpsIn(dev, key)
<1>1. /\ Len(ips) \in Nat /\ to \in Nat /\ from \in Nat /\ from <= to /\ to <= Len(ips)
      /\ ips \in Seq(Ips) /\ from \in 0..Len(IpsIn(dev, key))
  <2>1. IpsIn(dev, key) \in Seq(Ips) /\ Len(IpsIn(dev, key)) \in Nat
    BY IpsInFacts
  <2> QED BY <2>1
<1>2. /\ p \in ParsedPeers /\ p.public_key = key /\ p.attrs = dev.peers[key]
      /\ p.preshared_key = IF dev.peers[key] = NoAttrs THEN "none" ELSE "valid"
      /\ p.has_allowed_ips <=> ips # << >>
      /\ Len(p.allowed_ips) = from
      /\ \A i \in 1..from : p.allowed_ips[i] = AddressOf[ips[i]]
  BY <1>1, PeerUpToFacts
<1>3. /\ r \in ParsedPeers /\ r.public_key = key /\ r.attrs = dev.peers[key]
      /\ r.preshared_key = IF dev.peers[key] = NoAttrs THEN "none" ELSE "valid"
      /\ r.has_allowed_ips <=> ips # << >>
      /\ Len(r.allowed_ips) = to
      /\ \A i \in 1..to : r.allowed_ips[i] = AddressOf[ips[i]]
  BY PeerUpToFacts
<1>4. entry \in Entry /\ entry.attrs = NoAttrs /\ (entry.has_allowed_ips <=> ips # << >>)
      /\ entry.allowed_ips = SubSeq(ips, from + 1, to)
  BY DEF Continuing
<1>5. /\ q \in ParsedPeers /\ q.attrs = NoAttrs /\ q.preshared_key = "none"
      /\ q.has_allowed_ips <=> ips # << >>
      /\ Len(q.allowed_ips) = Len(entry.allowed_ips)
      /\ \A i \in 1..Len(entry.allowed_ips) :
           q.allowed_ips[i] = AddressOf[entry.allowed_ips[i]]
  BY <1>4, ParsedFields
<1> HIDE DEF ips
<1>6. /\ Len(entry.allowed_ips) = to - from
      /\ \A i \in 1..to - from : entry.allowed_ips[i] = ips[from + i]
  <2>1. \A i \in from + 1..to : ips[i] \in Ips
    BY <1>1, ElementOfSeq
  <2>2. from + 1 \in Int /\ to \in Int
    BY <1>1
  <2>3. /\ Len(entry.allowed_ips) = IF from + 1 <= to THEN to - (from + 1) + 1 ELSE 0
        /\ \A i \in 1..to - (from + 1) + 1 : entry.allowed_ips[i] = ips[(from + 1) + i - 1]
    BY <1>4, <2>1, <2>2, SubSeqProperties
  <2>4. to - (from + 1) + 1 = to - from /\ \A i \in 1..to - from : (from + 1) + i - 1 = from + i
    BY <1>1
  <2> QED BY <1>1, <2>3, <2>4
<1> HIDE DEF p, q, r
<1>7. /\ whole \in ParsedPeers /\ whole.public_key = p.public_key
      /\ whole.preshared_key = IF p.preshared_key = "none" THEN q.preshared_key
                               ELSE p.preshared_key
      /\ whole.attrs = IF p.attrs = NoAttrs THEN q.attrs ELSE p.attrs
      /\ whole.has_allowed_ips <=> p.has_allowed_ips \/ q.has_allowed_ips
      /\ whole.allowed_ips = p.allowed_ips \o q.allowed_ips
  BY <1>2, <1>5, MergeType
<1>8. p.allowed_ips \in Seq(AllowedIp) /\ q.allowed_ips \in Seq(AllowedIp)
  BY <1>2, <1>5 DEF ParsedPeers
<1>9. /\ Len(whole.allowed_ips) = to
      /\ \A i \in 1..to : whole.allowed_ips[i] = AddressOf[ips[i]]
  <2> DEFINE front == p.allowed_ips
             back == q.allowed_ips
  <2>1. /\ Len(front) = from /\ Len(back) = to - from
        /\ \A i \in 1..from : front[i] = AddressOf[ips[i]]
        /\ \A i \in 1..to - from : back[i] = AddressOf[ips[from + i]]
    BY <1>2, <1>5, <1>6
  <2>2. front \in Seq(AllowedIp) /\ back \in Seq(AllowedIp) /\ whole.allowed_ips = front \o back
    BY <1>7, <1>8
  <2> HIDE DEF front, back, whole
  <2>3. /\ Len(front \o back) = Len(front) + Len(back)
        /\ \A i \in 1..Len(front) + Len(back) :
             (front \o back)[i] = IF i <= Len(front) THEN front[i] ELSE back[i - Len(front)]
    BY <2>2, ConcatProperties
  <2>4. Len(front) + Len(back) = to
    BY <1>1, <2>1
  <2>5. ASSUME NEW i \in 1..to PROVE (front \o back)[i] = AddressOf[ips[i]]
    <3>1. CASE i <= from
      <4>1. i \in 1..from
        BY <1>1, <3>1
      <4> QED BY <2>1, <2>3, <2>4, <3>1, <4>1
    <3>2. CASE ~ (i <= from)
      <4>1. i - from \in 1..to - from /\ from + (i - from) = i
        BY <1>1, <3>2
      <4>2. (front \o back)[i] = back[i - from]
        BY <2>1, <2>3, <2>4, <3>2
      <4> QED BY <2>1, <4>1, <4>2
    <3> QED BY <3>1, <3>2
  <2> QED BY <2>2, <2>3, <2>4, <2>5
<1> HIDE DEF whole
<1>10. whole = r
  <2>1. /\ whole.public_key = r.public_key /\ whole.attrs = r.attrs
        /\ whole.preshared_key = r.preshared_key
    BY <1>2, <1>3, <1>5, <1>7
  <2>2. whole.has_allowed_ips <=> r.has_allowed_ips
    BY <1>2, <1>3, <1>5, <1>7
  <2>3. /\ Len(whole.allowed_ips) = Len(r.allowed_ips)
        /\ \A i \in 1..Len(r.allowed_ips) : whole.allowed_ips[i] = r.allowed_ips[i]
    BY <1>3, <1>9
  <2> QED BY <1>3, <1>7, <2>1, <2>2, <2>3, SameParsedPeer
<1> QED BY <1>10 DEF whole, p, q, r
\* A list of peers of a device, each once.
PeerList(dev, list) ==
  dev \in Device /\ Once(list) /\ \A i \in 1..Len(list) : PeerOf(dev, list[i])

LEMMA FullPeerFacts ==
  ASSUME IsFiniteSet(Ips), NEW dev \in Device, NEW key, PeerOf(dev, key)
  PROVE  FullPeer(dev, key) \in ParsedPeers /\ FullPeer(dev, key).public_key = key
<1>1. Len(IpsIn(dev, key)) \in 0..Len(IpsIn(dev, key))
  BY IpsInFacts
<1> QED BY <1>1, PeerUpToFacts DEF FullPeer

LEMMA ListedFacts ==
  ASSUME IsFiniteSet(Ips), NEW dev, NEW list, PeerList(dev, list), NEW n \in 0..Len(list)
  PROVE  /\ Listed(dev, list, n) \in Seq(ParsedPeers) /\ Len(Listed(dev, list, n)) = n
         /\ DOMAIN Listed(dev, list, n) = 1..n
         /\ \A i \in 1..n : /\ Listed(dev, list, n)[i] = FullPeer(dev, list[i])
                            /\ Listed(dev, list, n)[i].public_key = list[i]
<1>1. n \in Nat /\ \A i \in 1..n : i \in 1..Len(list)
  BY DEF PeerList, Once
<1>2. \A i \in 1..n : /\ FullPeer(dev, list[i]) \in ParsedPeers
                      /\ FullPeer(dev, list[i]).public_key = list[i]
  BY <1>1, FullPeerFacts DEF PeerList
<1>3. Listed(dev, list, n) \in [1..n -> ParsedPeers]
  BY <1>2 DEF Listed
<1>4. Listed(dev, list, n) \in Seq(ParsedPeers)
  BY <1>1, <1>3, SeqDef
<1>5. Len(Listed(dev, list, n)) = n /\ DOMAIN Listed(dev, list, n) = 1..n
  BY <1>1, <1>3, <1>4, LenProperties
<1>6. \A i \in 1..n : Listed(dev, list, n)[i] = FullPeer(dev, list[i])
  BY DEF Listed
<1> QED BY <1>2, <1>4, <1>5, <1>6

LEMMA ListedNext ==
  ASSUME IsFiniteSet(Ips), NEW dev, NEW list, PeerList(dev, list), NEW n \in 0..Len(list) - 1
  PROVE  Append(Listed(dev, list, n), FullPeer(dev, list[n + 1])) = Listed(dev, list, n + 1)
<1>1. n \in Nat /\ n \in 0..Len(list) /\ n + 1 \in 0..Len(list) /\ n + 1 \in 1..Len(list)
  BY DEF PeerList, Once
<1> DEFINE short == Listed(dev, list, n)
           long == Listed(dev, list, n + 1)
           next == FullPeer(dev, list[n + 1])
<1>2. /\ short \in Seq(ParsedPeers) /\ Len(short) = n
      /\ \A i \in 1..n : short[i] = FullPeer(dev, list[i])
  BY <1>1, ListedFacts
<1>3. /\ long \in Seq(ParsedPeers) /\ Len(long) = n + 1
      /\ \A i \in 1..n + 1 : long[i] = FullPeer(dev, list[i])
  BY <1>1, ListedFacts
<1>4. next \in ParsedPeers
  BY <1>1, FullPeerFacts DEF PeerList
<1> HIDE DEF short, long
<1>5. /\ Append(short, next) \in Seq(ParsedPeers) /\ Len(Append(short, next)) = n + 1
      /\ \A i \in 1..n : Append(short, next)[i] = short[i]
      /\ Append(short, next)[n + 1] = next
  BY <1>2, <1>4, AppendProperties
<1>6. \A i \in 1..n + 1 : Append(short, next)[i] = long[i]
  <2>1. \A i \in 1..n + 1 : i \in 1..n \/ i = n + 1
    BY <1>1
  <2>2. n + 1 \in 1..n + 1
    BY <1>1
  <2> QED BY <1>2, <1>3, <1>5, <2>1, <2>2
<1>7. Append(short, next) = long
  BY <1>3, <1>5, <1>6, SeqEqual
<1> QED BY <1>7 DEF short, long

\* The first n peers of a list in full, and a part of the next.
ListedInto(dev, list, n, to) ==
  Append(Listed(dev, list, n), PeerUpTo(dev, list[n + 1], to))

LEMMA ListedIntoFacts ==
  ASSUME IsFiniteSet(Ips), NEW dev, NEW list, PeerList(dev, list), NEW n \in 0..Len(list) - 1,
         NEW to \in 0..Len(IpsIn(dev, list[n + 1]))
  PROVE  LET peers == ListedInto(dev, list, n, to)
         IN  /\ peers \in Seq(ParsedPeers) /\ Len(peers) = n + 1 /\ peers # << >>
             /\ \A i \in 1..n : peers[i] = Listed(dev, list, n)[i]
             /\ peers[n + 1] = PeerUpTo(dev, list[n + 1], to)
             /\ Last(peers).public_key = list[n + 1]
             /\ PeerUpTo(dev, list[n + 1], to) \in ParsedPeers
<1> DEFINE short == Listed(dev, list, n)
           next == PeerUpTo(dev, list[n + 1], to)
           peers == Append(short, next)
<1>1. n \in Nat /\ n \in 0..Len(list) /\ n + 1 \in 1..Len(list)
  BY DEF PeerList, Once
<1>2. short \in Seq(ParsedPeers) /\ Len(short) = n
  BY <1>1, ListedFacts
<1>3. next \in ParsedPeers /\ next.public_key = list[n + 1]
  BY <1>1, PeerUpToFacts DEF PeerList
<1> HIDE DEF short, next
<1>4. /\ peers \in Seq(ParsedPeers) /\ Len(peers) = n + 1
      /\ \A i \in 1..n : peers[i] = short[i]
      /\ peers[n + 1] = next
  BY <1>2, <1>3, AppendProperties
<1> HIDE DEF peers
<1>5. peers # << >> /\ Last(peers) = peers[n + 1]
  BY <1>1, <1>4, EmptySeq DEF Last
<1>6. Last(peers).public_key = list[n + 1]
  BY <1>3, <1>4, <1>5
<1> QED BY <1>3, <1>4, <1>5, <1>6 DEF peers, short, next, ListedInto

\* A peer that begins is one more: the one in front of it is another.
LEMMA PushFresh ==
  ASSUME IsFiniteSet(Ips), NEW dev, NEW list, PeerList(dev, list), NEW n \in 0..Len(list) - 1,
         NEW to \in 0..Len(IpsIn(dev, list[n + 1])),
         NEW entry, Fresh(entry, dev, list[n + 1], to)
  PROVE  PushEntry(Listed(dev, list, n), entry) = ListedInto(dev, list, n, to)
<1> DEFINE short == Listed(dev, list, n)
           p == ParsedPeer(entry)
<1>1. n \in Nat /\ n \in 0..Len(list) /\ n + 1 \in 1..Len(list) /\ (n # 0 => n \in 1..Len(list))
  BY DEF PeerList, Once
<1>2. /\ short \in Seq(ParsedPeers) /\ Len(short) = n
      /\ \A i \in 1..n : short[i].public_key = list[i]
  BY <1>1, ListedFacts
<1>3. p = PeerUpTo(dev, list[n + 1], to)
  BY <1>1, FreshPeer DEF PeerList
<1>4. p.public_key = list[n + 1]
  BY <1>1, <1>3, PeerUpToFacts DEF PeerList
<1> HIDE DEF short, p
<1>5. ~ (short # << >> /\ Last(short).public_key = p.public_key)
  <2>1. SUFFICES ASSUME short # << >> PROVE Last(short).public_key # p.public_key
    OBVIOUS
  <2>2. n # 0 /\ Last(short) = short[n]
    BY <1>2, <2>1, EmptySeq DEF Last
  <2>3. n \in 1..n /\ n \in 1..Len(list) /\ n # n + 1
    BY <1>1, <2>2
  <2>4. list[n] # list[n + 1]
    BY <1>1, <2>3 DEF PeerList, Once
  <2> QED BY <1>2, <1>4, <2>2, <2>3, <2>4
<1>6. PushPeer(short, p) = Append(short, p)
  BY <1>5 DEF PushPeer
<1> QED BY <1>3, <1>6 DEF PushEntry, ListedInto, short, p

\* A peer that goes on is put together with its parts before.
LEMMA PushMore ==
  ASSUME IsFiniteSet(Ips), NEW dev, NEW list, PeerList(dev, list), NEW n \in 0..Len(list) - 1,
         NEW to \in 0..Len(IpsIn(dev, list[n + 1])), NEW from \in 0..to,
         NEW entry, Continuing(entry, dev, list[n + 1], from, to)
  PROVE  PushEntry(ListedInto(dev, list, n, from), entry) = ListedInto(dev, list, n, to)
<1> DEFINE before == ListedInto(dev, list, n, from)
           after == ListedInto(dev, list, n, to)
           p == ParsedPeer(entry)
           pushed == [before EXCEPT ![n + 1] = MergeContinuation(before[n + 1], p)]
<1>1. /\ n \in Nat /\ n + 1 \in 1..Len(list)
      /\ from \in 0..Len(IpsIn(dev, list[n + 1]))
  <2>1. Len(IpsIn(dev, list[n + 1])) \in Nat
    BY IpsInFacts
  <2> QED BY <2>1 DEF PeerList, Once
<1>2. /\ before \in Seq(ParsedPeers) /\ Len(before) = n + 1 /\ before # << >>
      /\ \A i \in 1..n : before[i] = Listed(dev, list, n)[i]
      /\ before[n + 1] = PeerUpTo(dev, list[n + 1], from)
      /\ Last(before).public_key = list[n + 1]
  BY <1>1, ListedIntoFacts
<1>3. /\ after \in Seq(ParsedPeers) /\ Len(after) = n + 1
      /\ \A i \in 1..n : after[i] = Listed(dev, list, n)[i]
      /\ after[n + 1] = PeerUpTo(dev, list[n + 1], to)
      /\ PeerUpTo(dev, list[n + 1], to) \in ParsedPeers
  BY <1>1, ListedIntoFacts
<1>4. MergeContinuation(PeerUpTo(dev, list[n + 1], from), p) = PeerUpTo(dev, list[n + 1], to)
  BY <1>1, PeerGrows DEF PeerList
<1>5. p.public_key = list[n + 1]
  BY ParsedFields DEF Continuing
<1> HIDE DEF before, after, p
<1>6. PushPeer(before, p) = pushed
  BY <1>2, <1>5 DEF PushPeer
<1>7. pushed = [before EXCEPT ![n + 1] = after[n + 1]]
  BY <1>2, <1>3, <1>4
<1> HIDE DEF pushed
<1>8. /\ pushed \in Seq(ParsedPeers) /\ Len(pushed) = n + 1
      /\ \A i \in 1..n : pushed[i] = before[i]
      /\ pushed[n + 1] = after[n + 1]
  <2>1. n + 1 \in 1..Len(before) /\ after[n + 1] \in ParsedPeers
    BY <1>1, <1>2, <1>3
  <2>2. DOMAIN before = 1..n + 1
    BY <1>2, LenProperties
  <2>3. n + 1 \in 1..n + 1 /\ \A i \in 1..n : i \in 1..n + 1 /\ i # n + 1
    BY <1>1
  <2> QED BY <1>2, <1>7, <2>1, <2>2, <2>3, ExceptSeq
<1>9. pushed = after
  <2>1. \A i \in 1..n + 1 : i \in 1..n \/ i = n + 1
    BY <1>1
  <2>2. \A i \in 1..n + 1 : pushed[i] = after[i]
    BY <1>2, <1>3, <1>8, <2>1
  <2> QED BY <1>3, <1>8, <2>2, SeqEqual
<1> QED BY <1>6, <1>9 DEF PushEntry, before, after, p
\* What has been put together when n peers are listed in full and, if one is
\* begun, the first of the allowed IPs of the next.
ListedUpTo(dev, list, n, begun, to) ==
  IF begun THEN ListedInto(dev, list, n, to) ELSE Listed(dev, list, n)

\* Entries that go on from there, each up to the end of its peer.
WholeRest(entries, dev, list, n, begun, from) ==
  /\ entries \in Seq(Entry) /\ n + Len(entries) <= Len(list)
  /\ \A j \in 1..Len(entries) :
       LET all == Len(IpsIn(dev, list[n + j]))
       IN  IF begun /\ j = 1 THEN Continuing(entries[j], dev, list[n + j], from, all)
           ELSE Fresh(entries[j], dev, list[n + j], all)

LEMMA PushWhole ==
  ASSUME IsFiniteSet(Ips), NEW dev, NEW list, PeerList(dev, list), NEW n \in 0..Len(list),
         NEW begun, NEW from \in Nat,
         begun => n < Len(list) /\ from <= Len(IpsIn(dev, list[n + 1])),
         NEW entries, WholeRest(entries, dev, list, n, begun, from)
  PROVE  PushEntries(ListedUpTo(dev, list, n, begun, from), entries) =
           IF Len(entries) = 0 THEN ListedUpTo(dev, list, n, begun, from)
           ELSE Listed(dev, list, n + Len(entries))
<1> DEFINE base == ListedUpTo(dev, list, n, begun, from)
           Then(k) == IF k = 0 THEN base ELSE Listed(dev, list, n + k)
           T == {k \in Nat : k <= Len(entries) =>
                   PushEntries(base, SubSeq(entries, 1, k)) = Then(k)}
<1>1. entries \in Seq(Entry) /\ Len(entries) \in Nat /\ Len(list) \in Nat /\ n \in Nat
      /\ n + Len(entries) <= Len(list)
  BY DEF WholeRest, PeerList, Once
<1>2. 0 \in T
  <2>1. SubSeq(entries, 1, 0) = << >>
    BY SubSeqEmpty
  <2> QED BY <2>1, PushEntriesEmpty
<1>3. ASSUME NEW k \in Nat, k \in T PROVE k + 1 \in T
  <2>1. SUFFICES ASSUME k + 1 <= Len(entries)
                 PROVE  PushEntries(base, SubSeq(entries, 1, k + 1)) = Then(k + 1)
    OBVIOUS
  <2>2. PushEntries(base, SubSeq(entries, 1, k)) = Then(k)
    BY <1>1, <1>3, <2>1
  <2>3. k + 1 \in 1..Len(entries) /\ (k + 1) - 1 = k
    BY <1>1, <2>1
  <2> DEFINE m == n + k
             key == list[m + 1]
             entry == entries[k + 1]
             all == Len(IpsIn(dev, key))
  <2>4. PushEntries(base, SubSeq(entries, 1, k + 1)) = PushEntry(Then(k), entry)
    <3> DEFINE next == k + 1
    <3>1. next \in 1..Len(entries) /\ next - 1 = k
      BY <2>3
    <3> HIDE DEF next, Then
    <3>2. OverEntries!Fold(0, base, SubSeq(entries, 1, next)) =
            EntryStep(0, OverEntries!Fold(0, base, SubSeq(entries, 1, next - 1)), entries[next])
      BY <1>1, <3>1, OverEntries!FoldNext
    <3>3. PushEntries(base, SubSeq(entries, 1, next)) = PushEntry(Then(k), entries[next])
      BY <2>2, <3>1, <3>2, EntriesFold DEF EntryStep
    <3> QED BY <3>3 DEF next
  <2>5. m \in 0..Len(list) - 1 /\ m \in 0..Len(list) /\ m + 1 = n + (k + 1)
    BY <1>1, <2>1
  <2>6. all \in 0..Len(IpsIn(dev, list[m + 1]))
    BY IpsInFacts
  <2>7. IF begun /\ k + 1 = 1 THEN Continuing(entry, dev, key, from, all)
        ELSE Fresh(entry, dev, key, all)
    BY <2>3, <2>5 DEF WholeRest
  <2>8. ListedInto(dev, list, m, all) = Listed(dev, list, m + 1)
    BY <2>5, ListedNext DEF ListedInto, FullPeer
  <2>9. CASE begun /\ k = 0
    <3>1. m = n /\ Then(k) = ListedInto(dev, list, m, from)
      BY <1>1, <2>9 DEF ListedUpTo
    <3>2. from \in 0..all
      BY <2>6, <2>9, <3>1
    <3>3. Continuing(entry, dev, list[m + 1], from, all)
      BY <2>7, <2>9
    <3> HIDE DEF m, entry, all, Then
    <3>4. PushEntry(ListedInto(dev, list, m, from), entry) = ListedInto(dev, list, m, all)
      BY <2>5, <2>6, <3>2, <3>3, PushMore
    <3>5. Then(k + 1) = Listed(dev, list, m + 1)
      BY <2>5 DEF Then
    <3> QED BY <2>4, <2>8, <3>1, <3>4, <3>5
  <2>10. CASE ~ (begun /\ k = 0)
    <3>1. Then(k) = Listed(dev, list, m)
      BY <1>1, <2>10 DEF ListedUpTo
    <3>2. Fresh(entry, dev, list[m + 1], all)
      BY <2>7, <2>10
    <3> HIDE DEF m, entry, all, Then
    <3>3. PushEntry(Listed(dev, list, m), entry) = ListedInto(dev, list, m, all)
      BY <2>5, <2>6, <3>2, PushFresh
    <3>4. Then(k + 1) = Listed(dev, list, m + 1)
      BY <2>5 DEF Then
    <3> QED BY <2>4, <2>8, <3>1, <3>3, <3>4
  <2> QED BY <2>9, <2>10
<1>4. Len(entries) \in T
  <2> HIDE DEF T
  <2> QED BY <1>1, <1>2, <1>3, OverEntries!SetInduction
<1>5. SubSeq(entries, 1, Len(entries)) = entries
  BY <1>1
<1>6. PushEntries(base, SubSeq(entries, 1, Len(entries))) = Then(Len(entries))
  BY <1>1, <1>4
<1> QED BY <1>5, <1>6

-----------------------------------------------------------------------------
(* A list of all peers describes the device.                               *)

LEMMA FullPeerIsFull ==
  ASSUME IsFiniteSet(Ips), NEW dev \in Device, NEW key, PeerOf(dev, key)
  PROVE  /\ FullPeer(dev, key) \in FullPeers(dev)
         /\ Len(FullPeer(dev, key).allowed_ips) = Cardinality({ip \in Ips : dev.owner[ip] = key})
         /\ \A i \in DOMAIN FullPeer(dev, key).allowed_ips :
              ValidPrefix(FullPeer(dev, key).allowed_ips[i])
<1> DEFINE ips == IpsIn(dev, key)
           p == FullPeer(dev, key)
<1>1. /\ Lists(ips, {ip \in Ips : dev.owner[ip] = key})
      /\ ips \in Seq(Ips) /\ Len(ips) \in Nat
      /\ Len(ips) = Cardinality({ip \in Ips : dev.owner[ip] = key})
  BY IpsInFacts
<1>2. Len(IpsIn(dev, key)) \in 0..Len(IpsIn(dev, key))
  BY <1>1
<1>3. /\ p \in ParsedPeers /\ p.public_key = key /\ p.attrs = dev.peers[key]
      /\ Len(p.allowed_ips) = Len(ips)
      /\ \A i \in 1..Len(ips) : p.allowed_ips[i] = AddressOf[ips[i]]
  BY <1>2, PeerUpToFacts DEF FullPeer
<1> HIDE DEF p, ips
<1>4. p.allowed_ips \in Seq(AllowedIp) /\ DOMAIN p.allowed_ips = 1..Len(ips)
  BY <1>3, LenProperties DEF ParsedPeers
<1>5. ASSUME NEW i \in 1..Len(ips)
      PROVE  /\ p.allowed_ips[i].ip = ips[i] /\ p.allowed_ips[i] \in AddedIps
             /\ ValidPrefix(p.allowed_ips[i]) /\ dev.owner[ips[i]] = key /\ ips[i] \in Ips
  <2>1. ips[i] \in Ips /\ dev.owner[ips[i]] = key
    BY <1>1, ElementOfSeq DEF Lists
  <2>2. AddressOf[ips[i]].ip = ips[i] /\ AddressOf[ips[i]].flags = {}
        /\ ValidPrefix(AddressOf[ips[i]]) /\ AddressOf[ips[i]] \in AllowedIp
    BY <2>1, AddressAssumption
  <2> QED BY <1>3, <2>1, <2>2 DEF AddedIps
<1>6. p.allowed_ips \in Seq(AddedIps)
  BY <1>4, <1>5, SeqOfElements
<1>7. ASSUME NEW ip \in Ips
      PROVE  (\E i \in DOMAIN p.allowed_ips : p.allowed_ips[i].ip = ip) <=> dev.owner[ip] = key
  <2>1. ASSUME dev.owner[ip] = key PROVE \E i \in 1..Len(ips) : ips[i] = ip
    <3>1. DOMAIN ips = 1..Len(ips)
      BY <1>1, LenProperties
    <3> QED BY <1>1, <2>1, <3>1 DEF Lists
  <2> QED BY <1>4, <1>5, <2>1
<1>8. p \in FullPeers(dev)
  BY <1>3, <1>6, <1>7 DEF FullPeers, ParsedPeers
<1> QED BY <1>1, <1>3, <1>4, <1>5, <1>8 DEF p

LEMMA ListedIsFull ==
  ASSUME IsFiniteSet(Ips), NEW dev, NEW list, PeerList(dev, list)
  PROVE  Listed(dev, list, Len(list)) \in Seq(FullPeers(dev))
<1> DEFINE peers == Listed(dev, list, Len(list))
<1>1. Len(list) \in 0..Len(list)
  BY DEF PeerList, Once
<1>2. /\ peers \in Seq(ParsedPeers) /\ DOMAIN peers = 1..Len(list)
      /\ \A i \in 1..Len(list) : peers[i] = FullPeer(dev, list[i])
  BY <1>1, ListedFacts
<1>3. \A i \in 1..Len(list) : FullPeer(dev, list[i]) \in FullPeers(dev)
  BY FullPeerIsFull DEF PeerList
<1> HIDE DEF peers
<1>4. peers \in Seq(FullPeers(dev))
  BY <1>2, <1>3, SeqOfElements
<1> QED BY <1>4 DEF peers
=============================================================================
