# nl-wireguard in TLA+

A model of nl-wireguard, a Rust crate that reads and changes WireGuard
devices over generic netlink: what is modelled, what TLC checks on small
instances, and what TLAPS proves for every value of the constants. Paths such as
`parsed.rs` are in `src/` of the repository (`src/src/` from here).

## 1. The system

| part | state | operations | hard about it |
|---|---|---|---|
| configuration (`parsed.rs`, `peer_parsed.rs`) | none: values (`WireguardParsed`, `WireguardPeerParsed`, `WireguardIpAddress`) | `build()` of a peer, `validate()`, `decode_key()` | checks spread over many functions, each an early return |
| splitting (`parsed.rs:194-516`) | the local variables of two nested loops: chunks, their length, finished messages | `build_messages()`, `build_message()`, `peer_chunks()`, `take_allowed_ips_batch()`, `build()` | 64 KiB limit counted in three places; order, loss, repetition; what a later message must or must not repeat |
| applying (`handle.rs:57-144`) | one future per call: which part, which reply stream | `set()`, `remove_peer()`, `request()` | partial failure, cancelled futures, concurrent clones, an acknowledgement that is the absence of an item |
| reading (`handle.rs:26-55`, `parsed.rs:151-192`, `478-486`) | collected messages | `get_by_name()`, `push_peer()`, `merge_continuation()` | peers split by the kernel, torn or truncated dumps |
| replies (`handle.rs:146-251`) | none | `parse_nl_msg_stream()` | which payloads end a stream, yield an item, or are errors |
| conversions (`peer_parsed.rs:140-209`, `351-487`, `parsed.rs:36-58`) | none | `From`/`TryFrom` between wire and parsed types | integer ranges, unknown flag bits, invalid entries |
| redaction (`redact.rs`, `error.rs`) | none | `redact_message()`, `WireguardError::new()` | every path by which a key could reach an error text |
| connection (`connection.rs`; netlink-proto, genetlink: outside) | request channel, reply streams | `new_connection()` | the task may stop at any time |
| kernel driver (outside) | the device: peers, owner of each allowed IP | `WG_CMD_SET_DEVICE`, `WG_CMD_GET_DEVICE` | applies a message entry by entry |

Interaction: a caller hands a `WireguardParsed` to `set()`, which has
`build_messages()` cut it into messages and sends these one by one through the
channel of the Connection task, a future the application spawns; the kernel
answers each one, the task passes the answer on to a stream owned by the call,
and the call goes on when the stream ends or returns when it yields an error.
Clones of a `WireguardHandle` share the channel and the task, and nothing else.
There is no lock and no persistent state in the crate.

What makes each part correct:

- splitting: messages fit; they are the configuration and nothing but it, in
  order; one message if one suffices; refused if and only if something is
  invalid, with nothing sent; the device cannot tell that it was split;
- applying: an answer reaches the call it belongs to, `Ok` means applied, an error
  names the right part, calls that share no peer do not disturb each other, every
  call returns;
- reading: what is returned is what the device held, each peer once unless one is removed
  meanwhile; a failed dump is an error;
- conversions: what was read can be written back and is the same again, times and flags
  mean the same on both sides;
- errors: none holds a key, and each of a request that was sent shows that request.

`PROJECT.json` lists the hazards line by line, each with the properties that would
catch it.

## 2. Modules

| module | models | kind |
|---|---|---|
| `WireguardConfig` | configurations, lengths, input checks, chunks and messages, and the contract `IsSplitOf` | operators |
| `BuildMessages` | `build_messages()`, one step per chunk | state machine |
| `KernelDevice` | the driver's view of a message (external) | operators |
| `SplitEffect` | `BuildMessages` composed with `KernelDevice` | properties |
| `SetDevice` | `set()`, `remove_peer()`, `request()`, Connection task, kernel | state machine |
| `SetPromise` | what a caller of `set()` may rely on; `SetDevice` implements it | abstract specification |
| `ParsedDevice` | `From<Vec<WireguardMessage>>`, `push_peer()`, `merge_continuation()` | operators |
| `GetDevice` | `get_by_name()`, `parse_nl_msg_stream()`, the kernel's dump, others changing the device | state machine |
| `Conversions` | `From`/`TryFrom` between wire types and parsed types, `build()` field by field | operators |
| `RoundTrip` | building and parsing in turn | state machine |
| `ErrorReport` | the refusals of `build_messages()`, the errors of `request()`, `set()` and `get_by_name()`, `redact_message()` | state machine |
| `FoldInduction` | what `FoldLeft` computes, by induction, for an operator given on instantiation | proofs |
| `KernelDevice_proofs` | what the kernel makes of entries, messages and splits | proofs |
| `SplitEffect_proofs` | theorems about `BuildMessages` and `SplitEffect` | proofs |
| `SetDevice_proofs` | theorems about `SetDevice`, and that it implements `SetPromise` | proofs |
| `ParsedDevice_proofs` | what pushing the entries of a dump yields | proofs |
| `GetDevice_proofs`, `RoundTrip_proofs`, `ErrorReport_proofs` | theorems about these modules | proofs |
| `MCSplitEffect`, `MCSetDevice`, `MCGetDevice`, `MCRoundTrip`, `MCErrorReport` | instances for TLC | |

`KernelDevice` extends `WireguardConfig`; `SplitEffect`, `SetDevice` and `GetDevice` build
on it. `Conversions` is a second, finer view of the same types, with every field, for
configurations that are one message: `RoundTrip` and `ErrorReport` extend it. The two views
meet in what a chunk is: the peers of `WirePeer` are the chunks of peers that fit (`ToSend`
in `WireguardConfig`).

### WireguardConfig

A configuration is a record with what the code branches on. A key is present,
missing or undecodable; the interface is a name, an index, both or neither, the
name possibly bad; an allowed IP has a family, a prefix length and flags. Endpoint,
preshared key, keepalive and the other attributes of a peer are one opaque value of
`Attrs` with a length `AttrsLen`. The flag `Other` stands for a value of flags in which
nothing is set that a name is known for, `Some(vec![])` included: it means nothing to the
kernel and yet takes an attribute, which `IpLen` and `StateLen` count. `Some` and `None`
of `peers` are not told apart.

Lengths are bytes as emitted: 4 per attribute header, values padded to 4. `U16_MAX`
is a constant, so that TLC can use a limit that a few allowed IPs reach.
`IpsLen(p, lo, hi)`, the length of a range of allowed IPs, is a constant operator
pinned down by `IpsLenAssumption` (it is the sum of `IpLen`), so that a proof about the
loops needs no more of a length than what one allowed IP adds to it. TLC evaluates the
assumption.

A chunk is described by its place (peer, first or continuation, range of
allowed IPs, offset in the message), not by copies of its content. `IsSplitOf(cfg,
msgs)` says that the chunks, read in order, walk through the whole configuration.
It is the contract between the two halves of `set()`: `BuildMessages` is proved to
guarantee it, `SetDevice` assumes nothing else of its messages.

### BuildMessages

| code | model |
|---|---|
| `for peer in self.peers`, `for chunk in peer_chunks(peer)?` | `cur`, `pos`; `Advance` |
| `take_allowed_ips_batch()` | `Batch(p, lo, hi)`: the one `hi` at which the loop stops |
| the `if` at `parsed.rs:248` | `Full(hi)` |
| push, with or without a finished message | `PushChunk`, `FlushAndPushChunk` |
| after the loops | `Finish` |
| `peer.build()?`, `build_message()?` | `RejectPeer`, `RejectMessage` |

The code cuts a peer into all chunks before it packs the first; the model cuts
each one when it is packed. Nothing that packing writes is read by cutting, and
`build()` of a peer, the only thing in `peer_chunks()` that can fail, comes before
the first chunk in both (`parsed.rs:422-430` cannot fail after it).

### KernelDevice

External. A device maps keys to attributes or to `Absent`, and every allowed IP to
the peer that owns it. An entry with `RemoveMe` or `UpdateOnly` for a peer that is
absent does nothing; one with `RemoveMe` for a peer that is there removes it and
ignores the rest; `ReplaceAllowedIps` drops the peer's allowed IPs first; giving an
IP to one peer takes it from another; `ReplacePeers` empties the device before the
entries of its message. Comments (`parsed.rs:232-236`, `380-382`, `405-406`,
`peer_parsed.rs:212-220`, `handle.rs:101-107`) and `tests/wireguard_kernel.rs` rely on
exactly this.

### SetDevice

Each client is one clone of the handle and makes one call at a time (`set` takes
`&mut self`); the calls of different clones interleave at every `.await`.

| code | model |
|---|---|
| `build_messages()?` | `SetRejected`, `Set` |
| `self.request(...).await?` (`handle.rs:75`) | `Request`, `RequestFails` |
| `stream.next().await` is `Some(Err(_))` | `ReplyIsError` |
| it is `None` (`handle.rs:169`, or the stream is gone) | `ReplyEnded` in `NextPart`, `SetReturnsOk` |
| the future is dropped | `Cancel` |
| Connection task (external) | `requests`, `replies`, `ConnForwards`, `ConnStops` |
| kernel (external) | `KernelApplies`, `KernelRefuses` |

The kernel may refuse any message, at any of its entries, keeping what it did of it
until then. `resolved` stands for the genetlink family id, which the first request of
all asks for; the query itself is not a step of its own, but it may fail as
long as no request has succeeded. Error kinds other than `NetlinkError` in a reply
(an overrun, a decode error) take the same path through `set()` and are not told apart.
`start`, `acked` and `finished` are history variables.

### SetPromise

The abstract specification knows no channel, no stream and no task. A call is at some
part; each part is applied in one step, or refused; the call ends with `Ok`, an error, or
is cancelled. It says precisely what the code leaves open:

- `ReturnUnnamed`: an error without a part number, of a call of several parts, means that
  nothing has been applied, or that the connection is gone (`handle.rs:75`). A call of one part
  never has a number: it may have been refused half way, and be applied partly;
- `ReturnOk`: `Ok` after the connection has broken off may miss the last part, no other;
- `Cancel` and `AbandonedPart`: of a cancelled call, the part it was at may arrive later,
  and no other part does. `abandoned` counts, for each part, the calls cancelled at it whose
  part is still to arrive, so it arrives once for each;
- nothing is said of what comes between two parts of a call: that another clone removes a
  peer there is `ContinuationFindsPeer`'s subject, which the refinement cannot catch.

The mapping is in `SetDevice`: `StateOf(c)` is `"refused"` from the moment the kernel refuses
a part, wherever its answer is; `applied` is the history variable `acked`; `abandoned` counts
the requests in the channel whose client no longer waits (`AbandonedAt`). Taking a request into the
channel, forwarding an answer and going on to the next part are stutters.

### ParsedDevice and GetDevice

A dump is a list of messages, a message a list of entries; an entry with `NoAttrs` and
a public key is a continuation. `ParsedMessages` folds `PushPeer` over them and yields
a configuration of `WireguardConfig`, so that it can be handed to `ApplyWhole`: reading
and writing are composed by feeding the result of one to the other.

| code | model |
|---|---|
| `build(GetDevice)?` | `Get` |
| `self.request(...).await?` | `Ask`, `AskFails` |
| `parse_nl_msg_stream()` | `Item` |
| `while let Some(reply) = stream.next().await` | `Collect`, `Skip`, `ReplyIsError` |
| the end of the loop | `GetReturns`, `Parsed` |
| `conn.set_forward_done(true)` | `ConnForwards` passes on `done` and `done_error` |
| kernel (external) | `KernelListsRest`, `KernelListsSome`, `KernelEndsDump`, `KernelFails` |
| other clones and programs | `OthersSetPeer`, `OthersMoveIp`, `OthersRemovePeer` |

The kernel cuts a dump anywhere: between peers, between the allowed IPs of a peer, in
front of the first of them. It produces a message when the one before has been read,
from the device as it is then. If the allowed IPs have changed since a peer was
cut, the rest of that peer is left out; if the peer it stopped after is gone, the dump
ends. The driver behaves like this, and marks such a dump; the code never looks at
the mark. `Parsed` is only meaningful once `result` is `"ok"`. `past` and `removed` are
history variables. `NLMSG_NOOP` is not among the replies: the task does not pass it on,
and `Item` would treat it as it treats `done`.

### Conversions and RoundTrip

The attributes of a message, a peer or an allowed IP are a function from the names of
those which are there; a parsed type is a record with `None` for those which are not.
So `DOMAIN` is what the kernel gets, and a field that is forgotten in one direction shows.

| code | model |
|---|---|
| `Flags::iter()` of bitflags, one `From` per item | `Items`, `ParsedFlag`, `ParsedFlags` |
| `From` per flag, collected | `FlagBits` |
| `as i64`, `as u64`, `Duration::new()` | `AsI64`, `AsU64`, `NewDuration`, with `I64_MAX` for 2^63 - 1 |
| `BASE64_STANDARD.encode()`, `decode_key()` | `Encode`; `Decodes`, `Decode` |
| `From<WireguardPeer>`, `TryFrom<&WireguardAllowedIp>`, `From<WireguardMessage>` | `ParsedPeer`, `ParsedIp`, `ParsedMessage` |
| the loop that pushes the allowed IPs (`peer_parsed.rs:181-192`) | `ParsedIps`, a fold of `PushIp` |
| `build()` of a peer, `peer_chunks()` when one chunk is enough | `BuiltPeer`, `WirePeer` |
| `device_attributes()`, `build_message()` | `DeviceAttributes`, `BuiltMessage` |
| `iface_attribute()` | `ValidIface`, `DeviceAttributes`; `TooLong` and `HasNul` are the bad names |
| `build()` refusing several messages (`parsed.rs:215-226`) | `OneMessage`, with `PeersLen` for the sum of `buffer_len()` |

A flag is the set of its bits and whether it is a named one: `RemoveMe` and `Other(1)` are
two spellings of one bit, and the code must not care. A list of flags is a set, as they
are or-ed together. A key text is known by what it decodes to, or decodes to nothing.
Attributes without a branch of their own (endpoint, keepalive, counters, port, mark) are
passed on by one clause. `RoundTrip` starts with a configuration of a caller or a message
of the kernel and lets `Build` and `Parse` take turns. What a caller may start with is any
value of the parsed types (`Parsed`). Of a message of the kernel `MessageOK` asks what the
driver guarantees: a name or an index, a name it has room for, peers that one attribute can
hold, a public key for each peer, and the family and a possible prefix length next to each
address; an allowed IP may lack its address or its length, which the code drops with a
warning, and every flag bit and time may occur.

What is parsed is one message, by `From<WireguardMessage>`; `get_by_name()` uses
`From<Vec<WireguardMessage>>`, which converts peers in the same way and is `ParsedDevice`'s
subject. A device that takes several messages to read may be too large for `build()`, which
is as the code has it; `set()` takes it (`ResultCanBeAppliedAgain`).

`PeersLen` is computed from the attributes themselves. `WireguardConfig` has the lengths of
a configuration before it is cut, where `peer_chunks()` counts them in advance.

### ErrorReport

| code | model |
|---|---|
| `redact_message()`, `redact_attributes()` | `RedactMessage`, `RedactAttributes` |
| `WireguardError::new()` | `NewError` |
| `parse_nl_msg_stream()`, arms that yield an error | `ReplyError` |
| `request()` | `Request`, `RequestFails` |
| the loops of `set()` and `get_by_name()` | `ReplyIsMessage`, `ReplyIsError`, `NextPart`, `Returns` |
| `set()` taking an error apart and naming the part | `Named` |
| an application calling `WireguardError::new()` | `NewErrorByCaller` |
| `build_messages()?`, `build(GetDevice)?` | `Build`, `BuildFails` |
| the checks it makes, `decode_key()` | `BuildErrors`, `IfaceErrors`, `PeerErrors`, `DecodeKeyError` |
| `Display` and `Debug` of an error | `Shown` |

The text of an error is reduced to its cause, the part it names, and what it quotes:
a message or configuration that holds nothing else. A prefix length that is refused is quoted, a
name that is too long too, a text that is no key is not. The raw bytes in a payload are a message:
those of an error or overrun are a message that was sent, keys included, as `redact.rs:5-10`
says the kernel may send them, those of a `Done` an extended acknowledgement, which
`redact_message()` leaves as it is. `BuildErrors` has one error for each mistake in a
configuration; which of several is found first is `BuildMessages`' subject. `set()` and
`get_by_name()` share the actions; `call` tells which is running. `get_by_name()` reads one
message here, as collecting several is `GetDevice`'s subject.

Left out: the texts of errors of other crates which an error includes (an errno, a decode
error of netlink, base64's, which tells the position of a bad symbol and that symbol); `build()`
refusing several messages, which quotes their number; the errors of allowed IPs that cannot
be parsed, which are logged and never returned.

## 3. What TLC checks

| run | shows |
|---|---|
| `split` (`MCSplitEffect.cfg`) | `MessagesFit`, `BuiltIsSplit`, `OkIffValid`, `OneMessageIffFits`, `SplitIsTransparentElsewhere`, `TypeOK` |
| `split_update_only` (`UpdateOnlySplit.cfg`) | `SplitIsTransparent` is violated |
| `set` (`MCSetDevice.cfg`) | `OneAnswerAwaited`, `OkMeansApplied`, `ErrorNamesPart`, `ApartCallsDoNotMix`, `ImplementsPromise`, `TypeOK` |
| `set_returns` (`SetReturns.cfg`) | `EveryCallReturns` |
| `set_connection_lost` (`ConnectionLost.cfg`) | `OkMeansAcknowledged` is violated |
| `set_same_peer` (`SamePeer.cfg`) | `ContinuationFindsPeer` is violated |
| `get` (`MCGetDevice.cfg`) | `ResultIsDevice`, `ResultCanBeAppliedAgain`, `NothingMadeUp`, `EachPeerOnce`, `FailedDumpIsError`, `TypeOK` |
| `get_returns` (`GetReturns.cfg`) | `EveryGetReturns` |
| `get_connection_lost` (`DumpTruncated.cfg`) | `NeverTruncated` is violated |
| `round_trip` (`MCRoundTrip.cfg`) | `RemovalIsSeen`, `NeverAnotherTime`, `WrittenBackUnchanged`, `ReadIsAccepted` |
| `error_report` (`MCErrorReport.cfg`) | `NoKeyShown`, `ErrorShowsRequest` |

`ImplementsPromise` is the refinement as a temporal property. `WrittenBackUnchanged` says
that reading and writing change nothing, with the exceptions listed in its comment, each
of which is one the code makes on purpose; `ReadIsAccepted` that none of the checks on the way back,
those of the name and of the length included, stands in the way. `ErrorShowsRequest` keeps
`NoKeyShown` honest: dropping the whole message would hide the keys as well.

**Bounds of the split runs.** A limit of 136 bytes (`U16_MAX` = 143). It lies so that
lengths meet it exactly and miss it by one entry, within a chunk (two IPv4 addresses
next to a peer's attributes) as well as within a message (two peers). Up
to three peers over two keys, the same key twice included; up to five allowed IPs
over two addresses, the same one repeatedly, with and without flags of its own;
every combination of peer flags that the kernel treats differently; `ReplacePeers`.
A peer takes up to five chunks, a configuration up to seven messages. Every
configuration is applied to every consistent device there is over these keys,
addresses and attributes. Mistakes (bad key, preshared key, prefix length, interface,
device key) occur alone and combined, in the first message and in later ones.

**Bounds of the set runs.** Two clones with at most `MaxCalls` = 2 calls each, one with
a three part peer and its removal, the other with two peers in two messages and a
configuration that is rejected: all stages of one call meet all stages of another,
and a second call of a clone meets what a first one left behind. Two clones suffice
for every property, as they speak of one or of a pair; two calls, because nothing but
the channel survives a call. `set_returns` uses one configuration per client;
`set_same_peer` has one clone set a three part peer and the other remove it.

**Bounds of the get runs.** Devices of at most two peers, in either order, and three allowed
IPs, all with one peer or spread; `MaxChanges` = 2 changes by others, 1 in `get_returns`. Three allowed IPs give
a peer a first part, a middle and an end in three messages; two peers are
enough for one to be cut, followed by the other, or taken for it, as `push_peer()` looks at
neighbours only. One call: nothing of a call is left for the next one.

**Bounds of the round trip.** Integers of 3 bits (`I64_MAX` = 3) and a second of 2 nanoseconds, so
that every handshake time a kernel can send (negative ones, those too large for the
nanoseconds) and every `Duration` of a caller (those beyond the signed range) is tried. Four
flag bits, three of them named for a peer: every value from the kernel, and up to two
flags in every spelling from a caller. Prefix lengths 32, 33, 128 and 129 of both families;
allowed IPs without an address or a length; keys missing, undecodable, zero and not;
names that are too long or hold a NUL byte. One attribute holds 128 bytes (`U16_MAX` = 135),
which three peers, one of them with flags, or one peer with three allowed IPs fill exactly:
lists of peers meet the limit and miss it by the least there is, in the number of peers,
their attributes and allowed IPs.
Each aspect is varied alone or with the one it interacts with (flags with allowed IPs, name
with index), as the fields are converted independently. A configuration that is rejected
ends the exchange: deadlock is not checked.

**Bounds of the error report.** Calls of one and two parts, peers with and without a preshared
key, zero or not, alone and in pairs, with and without a private key; every kind of reply
with and without an error code, with and without a copy of the request or an extended
acknowledgement; configurations with each mistake alone and with several, where the text
that is no key is made of a private or preshared one. An error is about one
message, so two parts are enough to take the wrong one. A call returns once: deadlock is
not checked.

**Fairness** (`SetDevice!Fairness`, `GetDevice!Fairness`). Weak fairness of each client's steps and of the
task's forwarding: an executor polls a future again once it is woken, and the README
of the crate has the application spawn the task. Weak fairness of the kernel: it
answers a request while it is being sent. Calling, cancelling and stopping are not
fair: nothing forces them. Without `MaxCalls` the property would still hold, as it
speaks of one call at a time.

### Findings

1. *A large peer that is only to be updated is created.* Continuations carry the
   public key and allowed IPs alone (`parsed.rs:446-452`). If the device does not hold
   the peer, `UpdateOnly` makes the kernel skip the first chunk, and the second one,
   which has no flags, creates the peer with the tail of its allowed IPs and none of
   its attributes. This contradicts the comment at `parsed.rs:442-443` and what the README
   says of `set()` at lines 129-130. `SplitIsTransparentElsewhere` shows that this is
   the only case: every other split leaves the device as one large message would.
2. *A stopped task turns the last part into `Ok`.* `set()` cannot tell a stream that
   ended after an acknowledgement from one that ended because the Connection task
   is gone, against `handle.rs:65-68`. `OkMeansApplied` shows that `Ok` is reliable as
   long as the task runs.
3. *A stopped task truncates a dump.* The same mechanism in `get_by_name()`: the message
   that ends a dump without an error yields no item, so its absence is not noticed, and
   the peers that have arrived are returned with `Ok`, although `connection.rs:33-34`
   forwards that message "so that a failed dump is not silently truncated".
   `FailedDumpIsError` shows that it works as long as the task runs.
4. *A peer removed between its parts comes back.* A continuation relies on finding the peer
   by its public key (`parsed.rs:442-443`). `set()` gives other clones a turn between two
   parts; if one of them removes the peer, the next part creates it again, with nothing but
   its key and the last allowed IPs. `ApartCallsDoNotMix` shows that clones which keep to
   peers of their own are safe, unless finding 1 hits them: the pieces of a split peer with
   `UpdateOnly` create it, which its configuration in one message would not. The property
   excludes such splits (`SplitsUpdateOnly`).

## 4. What is proved

Every safety property that a passing run checks, and the refinement, is a theorem: it holds
for all values of the constants that satisfy the named assumptions, so for any number of
clients, calls, peers, allowed IPs and messages, and for the real limits.

| module | theorem | says |
|---|---|---|
| `SplitEffect_proofs` | `TypeCorrect` | `Spec => []TypeOK` |
| | `AllMessagesFit` | `Spec => []MessagesFit` |
| | `SplitIsFaithful` | `Spec => []BuiltIsSplit` |
| | `OkExactlyIfValid` | `Spec => []OkIffValid` |
| | `OneMessageExactlyIfFits` | `Spec => []OneMessageIffFits` |
| | `SplittingIsTransparent` | `Spec => []SplitIsTransparentElsewhere` |
| `KernelDevice_proofs` | `PiecesMakeTheWhole` | any split has the effect of the whole, unless it cuts an `UpdateOnly` peer |
| `SetDevice_proofs` | `CallsTyped`, `SetIsTyped` | `Spec => []CallsTypeOK`, `Spec => []TypeOK` |
| | `AnswersReachTheirCalls` | `Spec => []OneAnswerAwaited` |
| | `OkIsReliable` | `Spec => []OkMeansApplied` |
| | `ErrorsNameTheirPart` | `Spec => []ErrorNamesPart` |
| | `SetImplementsPromise` | `Spec => ImplementsPromise` |
| | `CallsApartDoNotMix` | `Spec => []ApartCallsDoNotMix` |
| `GetDevice_proofs` | `TypesHold` | `Spec => []TypeOK` |
| | `FailedDumpsAreErrors` | `Spec => []FailedDumpIsError` |
| | `NothingIsMadeUp` | `Spec => []NothingMadeUp` |
| | `PeersAreReportedOnce` | `Spec => []EachPeerOnce` |
| | `ResultsAreTheDevice` | `Spec => []ResultIsDevice` |
| | `ResultsCanBeAppliedAgain` | `Spec => []ResultCanBeAppliedAgain` |
| `RoundTrip_proofs` | `WhatIsReadIsAccepted` | `Spec => []ReadIsAccepted` |
| | `WritingBackChangesNothing` | `Spec => []WrittenBackUnchanged` |
| | `RemovalsAreSeen` | `Spec => []RemovalIsSeen` |
| | `TimesStayTheSame` | `Spec => []NeverAnotherTime` |
| `ErrorReport_proofs` | `KeysAreNotShown` | `Spec => []NoKeyShown` |
| | `ErrorsShowTheirRequest` | `Spec => []ErrorShowsRequest` |

Only model-checked are `EveryCallReturns` and `EveryGetReturns`, as liveness under fairness is
out of the prover's reach, and the four violations of section 3, which are facts about an
instance.

### Assumptions

- `TypeAssumption`, `IpsLenAssumption`: types of the constants, and that the length of a range of
  allowed IPs is the sum of theirs.
- `FitsAssumption`: one allowed IP fits next to the attributes of its peer. It is needed
  because `take_allowed_ips_batch()` takes the first one unchecked. With the real limit it
  is a few hundred bytes against 65528.
- `SentinelAssumption`, `NoneAssumption`: `Nobody`, `Absent` and `None` are not values
  of what they stand beside.
- `DevicesAssumption`, `GetAssumption`: the devices to begin with are ones the driver can hold,
  where only a peer of the device owns an allowed IP; keys and addresses are finitely many.
- `CallsAssumption`: the messages of a call are a split (`IsSplitOf`) of its configuration, and
  the peers of a configuration that is accepted have keys. `SplitIsFaithful` and
  `OkExactlyIfValid` prove this of `build_messages()`.
- `ConversionAssumption`, `GivenAssumption`: a second has at least one nanosecond and no more
  than an `i64` holds; a caller has values of the parsed types, the kernel sends what
  `MessageOK` says.
- `NamesAssumption`, `RoundTrip!FitsAssumption`: bad names are names; one peer with one allowed
  IP fits into a message.
- `AckAssumption`: an extended acknowledgement, the raw bytes of a `Done`, copies no request.
  `redact_message()` leaves these bytes alone. `ErrorReport` assumes nothing else of a
  message, only the names of its attributes say what is a key.

### Induction over sequences

Much of the code folds over a `Vec`: the kernel over entries, `push_peer()` over peers, a
conversion over allowed IPs. `FoldInduction` proves, for an operator `op` that a module supplies
in `INSTANCE FoldInduction WITH op <- ...`, what `FoldLeft` of the community modules does:
nothing on an empty sequence (`FoldEmpty`), one step of `op` more for one element more
(`FoldNext`, `FoldAppend`), and so it stays in every set that `op` stays in. It starts from the
definition of `FoldLeft` by folds over sets of positions, and from well-founded induction on
the naturals (`SetInduction` is induction for a set in place of a predicate). What
`op` reads besides its arguments comes in through its first parameter. Each module of
proofs has one instance for each fold of the model, `OverIps`, `OverChunks`, `OverDump`
and so on.

### Splitting

The inductive invariant is `IInv`. `BuiltIsSplit` says nothing until the function
returns, so it has to be strengthened by what holds in the loops:

- `CursorInPeer`: `pos` is 0 or strictly inside the current peer;
- `LengthInv`: `peers_len` is where the last chunk ends (`MessagesFit` needs it,
  as the code compares `peers_len` and never measures a message);
- `SplitSoFar`: finished messages and those under construction are one chain of
  chunks from the first peer, `device` being set in the first message only;
- `CursorInv`: the cursor is right behind the last chunk of that chain.

Each of `PushChunk`, `FlushAndPushChunk`, `Finish`, and the two rejections has a lemma
saying that it keeps `IInv`; they share `NextChunkFits` (a batch stays within the
limit), `NextChunkFollows` and `Advanced` (the chunk is next in the chain, and the
cursor then right behind it), `ChainExtends` and `FitsExtends` (appending to a list of
chunks). `OkExactlyIfValid` needs a second invariant, `ValidSoFar`: what has been
passed is valid, and an error is returned for a reason.

`OneMessageExactlyIfFits` needs that the loops are greedy, `GreedyInv`: as long as no message
is finished, what is packed are whole peers and `peers_len` is their length, or the last
one has been cut, and then the configuration is too long for one message and not even one
more allowed IP of that peer fits into this one. Without the last half a chunk
could be cut, the rest of it put behind it, and the configuration still be sent as one message.

`SplittingIsTransparent` is `PiecesMakeTheWhole` applied to `SplitIsFaithful`. It is an
induction over messages in which `UpTo(base, cfg, i, hi)` is the device after the first
`i - 1` peers and `hi` allowed IPs of the next: each chunk takes the kernel from where the last
chunk ended to its own end (`ApplyChunk`), whichever message it is in. `ContinuePeer` is the
step that fails for `UpdateOnly`: a continuation finds the peer, as the first chunk has left it.

### Applying

`OkMeansApplied` speaks of calls that have returned; what makes it true is spread over the
channel, the answers and the streams while the call runs. The inductive invariant
`SetDevice_proofs!IInv` follows a part on its way:

- `QueuesInv`: a client owns at most one entry in the two queues together, and both
  are empty when the task is gone;
- `StreamsInv`: it owns one exactly while its stream is open, and has a stream exactly
  while it waits;
- `RequestsInv`, `RepliesInv`, `ClientsInv`: the entry is about the part the client is
  at; the parts in front of it are applied (`Before`) until the kernel acknowledges it,
  those up to it (`Through`) from then on, whether the news is in the queue of answers,
  in the stream, or lost with the task;
- `ResolvedInv`, `ResultsInv`: nothing is applied before the family is known, and what a
  result says of the parts stays true until the next call.

Each action has a lemma that it keeps `IInv`. `TailFacts`, `AppendFacts` and `DisownFacts`
say what the three operations on queues do to their entries; `OthersQueued` and
`StreamClosed` are what the steps of clients have in common, `AnswerFacts` and
`AnswerKeepsQueues` those of the kernel.

`SetImplementsPromise`: initial states are initial states, and by `StepPromise` every step of
`SetDevice` from a state in `IInv` is a step of the promise or a stutter. `StateFacts` reads the
abstract state off the stream of a client; one lemma per action gives the step.
`AbandonedStep` and `HeadOfRequests` tell what the answer to a request means for the client
that asked, or for nobody; `AbandonedCount` that the request leaves the channel once: the count of
its part goes down by one and no other changes.

`CallsApartDoNotMix` has the inductive invariant `MixInv`, on top of `IInv` and the promise:

- `FinishedInv`: the calls that returned `Ok` are among those made;
- `OrphansInv`: a message nobody waits for is of a client that cancelled a call, for which
  nothing is promised any more;
- `OwnersInv`: no address of a client ever belongs to a peer of the others;
- `ViewInv`: as long as its calls were all `Ok`, a client sees of the device what these calls, and
  the parts of the current one that are applied, would have made of it alone.

`AppliesFound` is the step where a message of one client is applied: for its own client it
continues the view, for the others the kernel leaves it as it was, also when it refuses the
message half way (`EntriesAgree`, `EntriesLeave`, `EntriesOwners` of `KernelDevice_proofs`).

### Reading

`GetDevice_proofs` has one invariant per question, each using those in front of it:

- `Control`: where messages can be at each stage. `RepliesInv`, `WaitingInv` and `FailureInv` say
  that a dump that has failed has its failure on the way, as the last thing in the
  queue or the stream, for as long as the call waits; `FailedDumpIsError` follows. `CursorInv` says
  that the peer the kernel stopped after is in its list.
- `TrueInv`: what is collected (`Collected`), what it will be when the stream has been read
  (`Kept`), and when the queue of the task has been as well (`Gathered`), consists of peers of
  which each part was in the device at some moment (`TruePeers`). `TrueMerge` shows that
  `merge_continuation()` keeps it so.
- `OnceInv`: these lists follow the order of the kernel's list (`Rising`) up to where the dump
  has got (`Limit`), unless a peer has been removed. As `push_peer()` compares neighbours only,
  that each peer is there once rests on this order.
- `DeviceInv`: without changes by others they are the device up to there (`ListedSoFar`).
- `NamedInv`: the first message, the one that has the interface, is among them. It is what makes
  a result valid when applied again (`iface_attribute()` refuses it otherwise).

The four operators on the way, an entry, a message, a reply, a queue, are folds;
`PushFresh`, `PushMore` and `PushWhole` of `ParsedDevice_proofs` say what pushing the next part of
a peer yields. `ResultsCanBeAppliedAgain` ends in `ApplyToItself`, a lemma about the kernel.

### Conversions and errors

`RoundInv` says that the configuration, the last message and the first one belong together:
either side is the conversion of the other, and the last message is that first one but for
what is dropped on purpose (`SameMessage`). It is inductive as `SameMessageTwice` makes that relation
transitive. Under it are one lemma per conversion: `FlagsSurvive` (any bits, any spelling),
`ParsedTimeFacts` and `WireTimeFacts` (each integer of an `i64` or a `u64`; a time that cannot
be told is none), `IpThereAndBack`, `IpsThereAndBack`, `PeerThereAndBack`, `MessageThereAndBack`;
`BuiltPeerOK` and `BuiltMessageOK` say that what is built is what a kernel may send.

`WhatIsReadIsAccepted` needs a length: what is parsed and built again is no longer than the
message that was read. `AttrLen` depends on the attribute alone, so leaving one out
makes it shorter, and the sum over allowed IPs and peers follows by induction over the folds.

`ErrorInv` says that an error shows no key and, once requests are built, shows the request of
the part the call is at, which is kept when `set()` takes it apart and names the part.
`BuildErrorFacts` goes through the refusals one by one: none quotes more than a name or an
allowed IP. `NewErrorFacts` is for each payload there is: what `redact_message()` leaves of it
holds no key.

## 5. Plan

The order followed importance: what a caller loses if it goes wrong. Splitting and applying
change devices and came first, with the first proofs about the part that is hardest to
test; then reading; then the abstract specification of applying, the conversions and the
errors; then the theorems about all safety properties. Left are:

1. An abstract specification of `get_by_name()` along the lines of `SetPromise`: a call that
   sees the device at several moments, peer by peer, with a proof that `GetDevice`
   implements it.
2. The composition of `SplitIsFaithful` with `CallsAssumption` as a theorem about one
   specification, instead of one module proving what the other assumes.

## 6. Not modelled

- Wording of errors, logging, the `Debug` implementations of the parsed types (they name
  the fields with keys and print a placeholder for each).
- Base64 and its texts, beyond whether one decodes and to what; the order and repetition of
  flags in a `Vec`, which nothing reads; attributes that occur twice in one message.
- The last arm of `parse_nl_msg_stream()` (`handle.rs:207-214`): every payload that
  netlink-packet-core has today is taken by an arm in front of it.
- The mix that results when several clones set the same peer, or one replaces all peers:
  `SetPromise` leaves it open, as the code does.
- The device's own keys, port and mark beyond their being decodable: they travel in the
  first message only and interact with nothing.
- Loss of messages between the kernel and the task: netlink reports it as `ENOBUFS`,
  which the task passes on or dies of; the second case is `ConnStops`.
- `lib.rs` and the examples: no logic of their own.
