-------------------------- MODULE SetDevice_proofs --------------------------
(***************************************************************************)
(* Proofs about set(), for any number of clones of a handle, calls, and    *)
(* messages per call: its books, that it implements SetPromise, and what   *)
(* calls of several clones do to the device.                               *)
(***************************************************************************)
EXTENDS SetDevice, KernelDevice_proofs, FiniteSetTheorems

InReply == [from : Clients \cup {Nothing}, kind : {"ack", "error"}]

-----------------------------------------------------------------------------
(* Queues.                                                                 *)

LEMMA TailFacts ==
  ASSUME NEW S, NEW q \in Seq(S), q # << >>
  PROVE  /\ Tail(q) \in Seq(S) /\ Head(q) \in S /\ Head(q) = q[1] /\ 1 \in DOMAIN q
         /\ \A i \in DOMAIN Tail(q) : i + 1 \in DOMAIN q /\ Tail(q)[i] = q[i + 1] /\ i + 1 # 1
         /\ \A j \in DOMAIN q \ {1} :
              j - 1 \in DOMAIN Tail(q) /\ Tail(q)[j - 1] = q[j]
OBVIOUS

LEMMA AppendFacts ==
  ASSUME NEW S, NEW q \in Seq(S), NEW e \in S
  PROVE  /\ Append(q, e) \in Seq(S)
         /\ Len(q) + 1 \notin DOMAIN q
         /\ Append(q, e)[Len(q) + 1] = e
         /\ DOMAIN Append(q, e) = DOMAIN q \cup {Len(q) + 1}
         /\ \A i \in DOMAIN q : Append(q, e)[i] = q[i]
OBVIOUS

LEMMA DisownFacts ==
  ASSUME NEW c \in Clients
  PROVE  /\ \A q \in Seq(InFlight) :
              /\ Disown(q, c) \in Seq(InFlight)
              /\ DOMAIN Disown(q, c) = DOMAIN q
              /\ \A i \in DOMAIN q :
                   /\ Disown(q, c)[i].from = IF q[i].from = c THEN Nothing ELSE q[i].from
                   /\ Disown(q, c)[i].call = q[i].call
                   /\ Disown(q, c)[i].part = q[i].part
         /\ \A q \in Seq(InReply) :
              /\ Disown(q, c) \in Seq(InReply)
              /\ DOMAIN Disown(q, c) = DOMAIN q
              /\ \A i \in DOMAIN q :
                   /\ Disown(q, c)[i].from = IF q[i].from = c THEN Nothing ELSE q[i].from
                   /\ Disown(q, c)[i].kind = q[i].kind
<1>1. ASSUME NEW q \in Seq(InFlight)
      PROVE  /\ Disown(q, c) \in Seq(InFlight)
             /\ DOMAIN Disown(q, c) = DOMAIN q
             /\ \A i \in DOMAIN q :
                  /\ Disown(q, c)[i].from = IF q[i].from = c THEN Nothing ELSE q[i].from
                  /\ Disown(q, c)[i].call = q[i].call
                  /\ Disown(q, c)[i].part = q[i].part
  <2>1. \A i \in DOMAIN q : q[i] \in InFlight
    OBVIOUS
  <2>2. DOMAIN Disown(q, c) = 1..Len(q) /\ Len(q) \in Nat
    BY DEF Disown
  <2>3. \A i \in DOMAIN q : Disown(q, c)[i] \in InFlight
    BY <2>1 DEF Disown, InFlight
  <2> QED
    BY <2>1, <2>2, <2>3 DEF Disown, InFlight
<1>2. ASSUME NEW q \in Seq(InReply)
      PROVE  /\ Disown(q, c) \in Seq(InReply)
             /\ DOMAIN Disown(q, c) = DOMAIN q
             /\ \A i \in DOMAIN q :
                  /\ Disown(q, c)[i].from = IF q[i].from = c THEN Nothing ELSE q[i].from
                  /\ Disown(q, c)[i].kind = q[i].kind
  <2>1. \A i \in DOMAIN q : q[i] \in InReply
    OBVIOUS
  <2>2. DOMAIN Disown(q, c) = 1..Len(q) /\ Len(q) \in Nat
    BY DEF Disown
  <2>3. \A i \in DOMAIN q : Disown(q, c)[i] \in InReply
    BY <2>1 DEF Disown, InReply
  <2> QED
    BY <2>1, <2>2, <2>3 DEF Disown, InReply
<1> QED
  BY <1>1, <1>2

-----------------------------------------------------------------------------
(* The inductive invariant.                                                *)

AnswerDue(c) ==
  \/ \E i \in DOMAIN requests : requests[i].from = c
  \/ \E i \in DOMAIN replies : replies[i].from = c

\* A client has at most one entry in the two queues; both die with the task.
QueuesInv ==
  /\ ~ connected => requests = << >> /\ replies = << >>
  /\ \A i, j \in DOMAIN requests :
       requests[i].from = requests[j].from => i = j \/ requests[i].from = Nothing
  /\ \A i, j \in DOMAIN replies :
       replies[i].from = replies[j].from => i = j \/ replies[i].from = Nothing
  /\ \A i \in DOMAIN requests, j \in DOMAIN replies :
       requests[i].from = replies[j].from => requests[i].from = Nothing

\* It has one exactly while its stream is open, and a stream while it waits.
StreamsInv ==
  \A c \in Clients :
    /\ stream[c] = "pending" <=> AnswerDue(c)
    /\ stream[c] # "none" <=> pc[c] = "waiting"

\* The parts in front of the current one are applied, or those up to it.
Before(c) == acked[c] = 1..index[c] - 1
Through(c) == acked[c] = 1..index[c]

\* An entry in the queue tells which, and then the stream does.
RequestsInv ==
  \A i \in DOMAIN requests :
    requests[i].from # Nothing =>
      /\ requests[i].call = call[requests[i].from]
      /\ requests[i].part = index[requests[i].from]
      /\ Before(requests[i].from)

RepliesInv ==
  \A i \in DOMAIN replies :
    replies[i].from # Nothing =>
      IF replies[i].kind = "ack" THEN Through(replies[i].from) ELSE Before(replies[i].from)

ClientsInv ==
  \A c \in Clients :
    /\ pc[c] = "sending" /\ connected => Before(c)
    /\ stream[c] = "ack" => Through(c)
    /\ stream[c] = "error" => Before(c)
    /\ stream[c] = "lost" => ~ connected /\ (Before(c) \/ Through(c))

\* Before the family is known nothing is sent.
ResolvedInv ==
  ~ resolved => requests = << >> /\ \A c \in Clients : acked[c] = {}

ResultsInv ==
  \A c \in Clients :
    /\ pc[c] # "idle" => result[c].kind = "none" /\ result[c].part = 0
    /\ result[c].kind = "ok" /\ connected => acked[c] = 1..TotalParts(c)
    /\ result[c].part > 0 => acked[c] = 1..result[c].part - 1

IInv ==
  /\ CallsTypeOK
  /\ QueuesInv /\ StreamsInv
  /\ RequestsInv /\ RepliesInv /\ ClientsInv
  /\ ResolvedInv /\ ResultsInv

-----------------------------------------------------------------------------

LEMMA InitIInv == Init => IInv
<1> SUFFICES ASSUME Init PROVE IInv
  OBVIOUS
<1>1. CallsTypeOK
  <2>1. calls \in [Clients -> 0..MaxCalls]
    BY CallsAssumption DEF Init
  <2>2. requests \in Seq(InFlight) /\ replies \in Seq(InReply)
    BY DEF Init
  <2>3. \A i \in DOMAIN requests : requests[i].part \in 1..Len(MessagesOf[requests[i].call])
    BY DEF Init
  <2>4. result \in [Clients -> [kind : OutcomeKinds, part : Nat]]
    BY DEF Init, Outcome, OutcomeKinds
  <2>5. finished \in [Clients -> Seq(Calls)] /\ acked \in [Clients -> SUBSET (Nat \ {0})]
    BY DEF Init
  <2>6. start \in Devices /\ resolved \in BOOLEAN /\ connected \in BOOLEAN
    BY DEF Init
  <2>7. /\ pc \in [Clients -> {"idle", "sending", "waiting"}]
        /\ call \in [Clients -> Calls \cup {Nothing}]
        /\ index \in [Clients -> Nat \ {0}]
        /\ stream \in [Clients -> {"none", "pending", "ack", "error", "lost"}]
        /\ \A c \in Clients : pc[c] = "idle"
    BY DEF Init
  <2> QED
    BY <2>1, <2>2, <2>3, <2>4, <2>5, <2>6, <2>7 DEF CallsTypeOK, InReply
<1>2. QueuesInv /\ StreamsInv /\ RequestsInv /\ RepliesInv
  BY DEF Init, QueuesInv, StreamsInv, AnswerDue, RequestsInv, RepliesInv
<1>3. ClientsInv /\ ResolvedInv /\ ResultsInv
  BY DEF Init, ClientsInv, ResolvedInv, ResultsInv, Outcome
<1> QED
  BY <1>1, <1>2, <1>3 DEF IInv

LEMMA BuiltHasParts ==
  ASSUME NEW k \in Calls, BuiltOf[k] = "ok"
  PROVE  Len(MessagesOf[k]) \in Nat \ {0}
BY CallsAssumption DEF IsSplitOf

LEMMA EntryTypes ==
  ASSUME CallsTypeOK
  PROVE  /\ \A i \in DOMAIN requests :
              requests[i] \in InFlight /\ requests[i].from \in Clients \cup {Nothing}
         /\ \A i \in DOMAIN replies :
              replies[i] \in InReply /\ replies[i].from \in Clients \cup {Nothing}
<1>1. requests \in Seq(InFlight) /\ replies \in Seq(InReply)
  BY DEF CallsTypeOK, InReply
<1>2. \A i \in DOMAIN requests : requests[i] \in InFlight
  BY <1>1
<1>3. \A i \in DOMAIN replies : replies[i] \in InReply
  BY <1>1
<1> QED
  BY <1>2, <1>3 DEF InFlight, InReply

\* A client with nothing in the queues may change what it likes of its own.
LEMMA OthersQueued ==
  ASSUME CallsTypeOK, RequestsInv, RepliesInv, NEW c \in Clients, ~ AnswerDue(c),
         UNCHANGED <<requests, replies>>,
         \A e \in Clients \ {c} :
           call'[e] = call[e] /\ index'[e] = index[e] /\ acked'[e] = acked[e]
  PROVE  RequestsInv' /\ RepliesInv'
<1>1. \A i \in DOMAIN requests : requests[i].from # Nothing => requests[i].from \in Clients \ {c}
  BY EntryTypes DEF AnswerDue
<1>2. \A i \in DOMAIN replies : replies[i].from # Nothing => replies[i].from \in Clients \ {c}
  BY EntryTypes DEF AnswerDue
<1>3. RequestsInv'
  BY <1>1 DEF RequestsInv, Before
<1>4. RepliesInv'
  BY <1>2 DEF RepliesInv, Before, Through
<1> QED
  BY <1>3, <1>4

LEMMA SetRejectedKeepsIInv ==
  ASSUME IInv, NEW c \in Clients, SetRejected(c)
  PROVE  IInv'
<1> PICK k \in CallsOf[c] :
      /\ BuiltOf[k] # "ok"
      /\ Begin(c, k)
      /\ result' = [result EXCEPT ![c] = Outcome(BuiltOf[k], 0)]
      /\ UNCHANGED <<pc, finished>>
  BY DEF SetRejected
<1>k. k \in Calls
  BY CallsAssumption
<1> USE DEF Begin, Outcome, conn
<1>1. CallsTypeOK'
  <2>1. MaxCalls \in Nat /\ BuiltOf[k] \in OutcomeKinds
    BY <1>k, CallsAssumption DEF OutcomeKinds
  <2>2. result' \in [Clients -> [kind : OutcomeKinds, part : Nat]]
    BY <2>1 DEF IInv, CallsTypeOK
  <2>3. calls' \in [Clients -> 0..MaxCalls]
    BY <2>1 DEF IInv, CallsTypeOK
  <2> QED
    BY <1>k, <2>2, <2>3 DEF IInv, CallsTypeOK, TotalParts
<1>2. QueuesInv' /\ StreamsInv'
  BY DEF IInv, QueuesInv, StreamsInv, AnswerDue
<1>3. ~ AnswerDue(c) /\ stream[c] = "none"
  BY DEF IInv, StreamsInv
<1>4. RequestsInv' /\ RepliesInv'
  <2>1. \A e \in Clients \ {c} :
          call'[e] = call[e] /\ index'[e] = index[e] /\ acked'[e] = acked[e]
    BY DEF IInv, CallsTypeOK
  <2> QED
    BY <1>3, <2>1, OthersQueued DEF IInv
<1>5. ClientsInv'
  BY <1>3 DEF IInv, CallsTypeOK, ClientsInv, Before, Through
<1>6. ResolvedInv'
  BY DEF IInv, CallsTypeOK, ResolvedInv
<1>7. ResultsInv'
  BY DEF IInv, CallsTypeOK, ResultsInv, TotalParts
<1> QED
  BY <1>1, <1>2, <1>4, <1>5, <1>6, <1>7 DEF IInv

LEMMA SetKeepsIInv ==
  ASSUME IInv, NEW c \in Clients, Set(c)
  PROVE  IInv'
<1> PICK k \in CallsOf[c] :
      /\ BuiltOf[k] = "ok"
      /\ Begin(c, k)
      /\ pc' = [pc EXCEPT ![c] = "sending"]
      /\ result' = [result EXCEPT ![c] = Outcome("none", 0)]
      /\ UNCHANGED finished
  BY DEF Set
<1>k. k \in Calls
  BY CallsAssumption
<1> USE DEF Begin, Outcome, conn
<1>1. CallsTypeOK'
  <2>1. MaxCalls \in Nat /\ Len(MessagesOf[k]) \in Nat \ {0}
    BY <1>k, CallsAssumption, BuiltHasParts
  <2>2. result' \in [Clients -> [kind : OutcomeKinds, part : Nat]]
    BY DEF IInv, CallsTypeOK, OutcomeKinds
  <2>3. calls' \in [Clients -> 0..MaxCalls]
    BY <2>1 DEF IInv, CallsTypeOK
  <2>4. \A e \in Clients : pc'[e] # "idle" =>
          call'[e] \in CallsOf[e] /\ index'[e] \in 1..TotalParts(e)'
    BY <2>1 DEF IInv, CallsTypeOK, TotalParts
  <2> QED
    BY <1>k, <2>2, <2>3, <2>4 DEF IInv, CallsTypeOK
<1>3. ~ AnswerDue(c) /\ stream[c] = "none"
  BY DEF IInv, StreamsInv
<1>2. QueuesInv' /\ StreamsInv'
  <2>1. QueuesInv'
    BY DEF IInv, QueuesInv
  <2>2. \A e \in Clients : (AnswerDue(e))' <=> AnswerDue(e)
    BY DEF AnswerDue
  <2>3. \A e \in Clients : pc'[e] = IF e = c THEN "sending" ELSE pc[e]
    BY DEF IInv, CallsTypeOK
  <2>4. StreamsInv'
    BY <1>3, <2>2, <2>3 DEF IInv, StreamsInv
  <2> QED BY <2>1, <2>4
<1>4. RequestsInv' /\ RepliesInv'
  <2>1. \A e \in Clients \ {c} :
          call'[e] = call[e] /\ index'[e] = index[e] /\ acked'[e] = acked[e]
    BY DEF IInv, CallsTypeOK
  <2> QED
    BY <1>3, <2>1, OthersQueued DEF IInv
<1>5. ClientsInv'
  BY <1>3 DEF IInv, CallsTypeOK, ClientsInv, Before, Through
<1>6. ResolvedInv'
  BY DEF IInv, CallsTypeOK, ResolvedInv
<1>7. ResultsInv'
  BY DEF IInv, CallsTypeOK, ResultsInv, TotalParts
<1> QED
  BY <1>1, <1>2, <1>4, <1>5, <1>6, <1>7 DEF IInv

\* And give its stream back.
LEMMA StreamClosed ==
  ASSUME CallsTypeOK, QueuesInv, StreamsInv, NEW c \in Clients, stream[c] # "pending",
         UNCHANGED <<connected, requests, replies>>,
         NEW s \in {"idle", "sending"}, pc' = [pc EXCEPT ![c] = s],
         stream' = [stream EXCEPT ![c] = "none"]
  PROVE  QueuesInv' /\ StreamsInv'
<1>1. QueuesInv'
  BY DEF QueuesInv
<1>2. \A e \in Clients : AnswerDue(e)' <=> AnswerDue(e)
  BY DEF AnswerDue
<1>3. StreamsInv'
  BY <1>2 DEF CallsTypeOK, StreamsInv
<1> QED
  BY <1>1, <1>3

-----------------------------------------------------------------------------
(* The steps of a client.                                                  *)

LEMMA RequestKeepsIInv ==
  ASSUME IInv, NEW c \in Clients, Request(c)
  PROVE  IInv'
<1> DEFINE req == [from |-> c, call |-> call[c], part |-> index[c]]
<1> USE DEF Request
<1>1. /\ req \in InFlight /\ req.from = c /\ req.part = index[c] /\ req.call = call[c]
      /\ index[c] \in 1..Len(MessagesOf[call[c]])
  BY CallsAssumption DEF IInv, CallsTypeOK, InFlight, TotalParts
<1>2. requests \in Seq(InFlight) /\ requests' = Append(requests, req)
  BY DEF IInv, CallsTypeOK
<1>3. /\ requests' \in Seq(InFlight)
      /\ Len(requests) + 1 \notin DOMAIN requests
      /\ requests'[Len(requests) + 1] = req
      /\ DOMAIN requests' = DOMAIN requests \cup {Len(requests) + 1}
      /\ \A i \in DOMAIN requests : requests'[i] = requests[i]
  BY <1>1, <1>2, AppendFacts
<1>4. ~ AnswerDue(c) /\ Before(c)
  BY DEF IInv, StreamsInv, ClientsInv
<1>5. CallsTypeOK'
  <2>1. \A i \in DOMAIN requests' :
          requests'[i].part \in 1..Len(MessagesOf[requests'[i].call])
    BY <1>1, <1>3 DEF IInv, CallsTypeOK
  <2>2. /\ pc' \in [Clients -> {"idle", "sending", "waiting"}]
        /\ stream' \in [Clients -> {"none", "pending", "ack", "error", "lost"}]
        /\ \A e \in Clients : pc'[e] # "idle" => pc[e] # "idle"
    BY DEF IInv, CallsTypeOK
  <2> QED
    BY <1>3, <2>1, <2>2 DEF IInv, CallsTypeOK, TotalParts
<1>6. QueuesInv'
  BY <1>1, <1>3, <1>4, CallsAssumption DEF IInv, QueuesInv, AnswerDue
<1>7. StreamsInv'
  <2>1. \A e \in Clients : AnswerDue(e)' <=> AnswerDue(e) \/ e = c
    BY <1>1, <1>3 DEF AnswerDue
  <2> QED
    BY <2>1 DEF IInv, CallsTypeOK, StreamsInv
<1>8. RequestsInv' /\ RepliesInv'
  BY <1>1, <1>3, <1>4 DEF IInv, RequestsInv, RepliesInv, Before, Through
<1>9. ClientsInv'
  BY DEF IInv, CallsTypeOK, ClientsInv, Before, Through
<1>10. ResolvedInv' /\ ResultsInv'
  BY DEF IInv, CallsTypeOK, ResolvedInv, ResultsInv, TotalParts
<1> QED
  BY <1>5, <1>6, <1>7, <1>8, <1>9, <1>10 DEF IInv

LEMMA RequestFailsKeepsIInv ==
  ASSUME IInv, NEW c \in Clients, RequestFails(c)
  PROVE  IInv'
<1> USE DEF RequestFails, Return, Outcome, conn
<1>1. ~ AnswerDue(c) /\ stream[c] = "none"
  BY DEF IInv, StreamsInv
<1>2. CallsTypeOK'
  BY DEF IInv, CallsTypeOK, OutcomeKinds, TotalParts
<1>3. QueuesInv' /\ StreamsInv'
  BY <1>1 DEF IInv, CallsTypeOK, QueuesInv, StreamsInv, AnswerDue
<1>4. RequestsInv' /\ RepliesInv'
  BY <1>1, OthersQueued DEF IInv
<1>5. ClientsInv' /\ ResolvedInv'
  BY <1>1 DEF IInv, CallsTypeOK, ClientsInv, ResolvedInv, Before, Through
<1>6. ResultsInv'
  BY DEF IInv, CallsTypeOK, ResultsInv, TotalParts
<1> QED
  BY <1>2, <1>3, <1>4, <1>5, <1>6 DEF IInv

LEMMA ReplyIsErrorKeepsIInv ==
  ASSUME IInv, NEW c \in Clients, ReplyIsError(c)
  PROVE  IInv'
<1> USE DEF ReplyIsError, Return, Outcome, conn
<1>1. ~ AnswerDue(c) /\ Before(c)
  BY DEF IInv, StreamsInv, ClientsInv
<1>2. CallsTypeOK'
  BY DEF IInv, CallsTypeOK, OutcomeKinds, TotalParts
<1>3. QueuesInv' /\ StreamsInv'
  BY StreamClosed DEF IInv
<1>4. RequestsInv' /\ RepliesInv'
  BY <1>1, OthersQueued DEF IInv
<1>5. ClientsInv' /\ ResolvedInv'
  BY <1>1 DEF IInv, CallsTypeOK, ClientsInv, ResolvedInv, Before, Through
<1>6. ResultsInv'
  BY <1>1 DEF IInv, CallsTypeOK, ResultsInv, TotalParts, Before
<1> QED
  BY <1>2, <1>3, <1>4, <1>5, <1>6 DEF IInv

LEMMA NextPartKeepsIInv ==
  ASSUME IInv, NEW c \in Clients, NextPart(c)
  PROVE  IInv'
<1> USE DEF NextPart, ReplyEnded, conn
<1>1. ~ AnswerDue(c) /\ (connected => Through(c))
  BY DEF IInv, StreamsInv, ClientsInv
<1>2. CallsTypeOK'
  BY DEF IInv, CallsTypeOK, TotalParts
<1>3. QueuesInv' /\ StreamsInv'
  BY StreamClosed DEF IInv
<1>4. RequestsInv' /\ RepliesInv'
  BY <1>1, OthersQueued DEF IInv, CallsTypeOK
<1>5. ClientsInv'
  <2>1. connected => Before(c)'
    BY <1>1 DEF IInv, CallsTypeOK, Before, Through
  <2>2. ASSUME NEW e \in Clients \ {c}
        PROVE  /\ pc'[e] = pc[e] /\ stream'[e] = stream[e]
               /\ Before(e)' <=> Before(e)
               /\ Through(e)' <=> Through(e)
    BY DEF IInv, CallsTypeOK, Before, Through
  <2>3. stream'[c] = "none"
    BY DEF IInv, CallsTypeOK
  <2> QED
    BY <2>1, <2>2, <2>3 DEF IInv, ClientsInv
<1>6. ResolvedInv' /\ ResultsInv'
  BY DEF IInv, CallsTypeOK, ResolvedInv, ResultsInv, TotalParts
<1> QED
  BY <1>2, <1>3, <1>4, <1>5, <1>6 DEF IInv

LEMMA SetReturnsOkKeepsIInv ==
  ASSUME IInv, NEW c \in Clients, SetReturnsOk(c)
  PROVE  IInv'
<1> USE DEF SetReturnsOk, ReplyEnded, Return, Outcome, conn
<1>1. ~ AnswerDue(c) /\ (connected => Through(c))
  BY DEF IInv, StreamsInv, ClientsInv
<1>2. CallsTypeOK'
  <2>1. call[c] \in Calls
    BY CallsAssumption DEF IInv, CallsTypeOK
  <2>2. finished' \in [Clients -> Seq(Calls)]
    BY <2>1 DEF IInv, CallsTypeOK
  <2>3. result' \in [Clients -> [kind : OutcomeKinds, part : Nat]]
    BY DEF IInv, CallsTypeOK, OutcomeKinds
  <2> QED
    BY <2>2, <2>3 DEF IInv, CallsTypeOK, TotalParts
<1>3. QueuesInv' /\ StreamsInv'
  BY StreamClosed DEF IInv
<1>4. RequestsInv' /\ RepliesInv'
  BY <1>1, OthersQueued DEF IInv, CallsTypeOK
<1>5. ClientsInv' /\ ResolvedInv'
  BY <1>1 DEF IInv, CallsTypeOK, ClientsInv, ResolvedInv, Before, Through
<1>6. ResultsInv'
  BY <1>1 DEF IInv, CallsTypeOK, ResultsInv, TotalParts, Through
<1> QED
  BY <1>2, <1>3, <1>4, <1>5, <1>6 DEF IInv

LEMMA CancelKeepsIInv ==
  ASSUME IInv, NEW c \in Clients, Cancel(c)
  PROVE  IInv'
<1> USE DEF Cancel, Return, Outcome
<1>1. /\ requests' \in Seq(InFlight) /\ replies' \in Seq(InReply)
      /\ DOMAIN requests' = DOMAIN requests /\ DOMAIN replies' = DOMAIN replies
      /\ \A i \in DOMAIN requests :
           /\ requests'[i].from = IF requests[i].from = c THEN Nothing ELSE requests[i].from
           /\ requests'[i].call = requests[i].call /\ requests'[i].part = requests[i].part
      /\ \A i \in DOMAIN replies :
           /\ replies'[i].from = IF replies[i].from = c THEN Nothing ELSE replies[i].from
           /\ replies'[i].kind = replies[i].kind
  <2>1. requests \in Seq(InFlight) /\ replies \in Seq(InReply)
    BY DEF IInv, CallsTypeOK, InReply
  <2>2. requests' = Disown(requests, c) /\ replies' = Disown(replies, c)
    OBVIOUS
  <2> QED
    BY <2>1, <2>2, DisownFacts
<1>2. CallsTypeOK'
  <2>1. result' \in [Clients -> [kind : OutcomeKinds, part : Nat]]
    BY DEF IInv, CallsTypeOK, OutcomeKinds
  <2>2. \A i \in DOMAIN requests' :
          requests'[i].part \in 1..Len(MessagesOf[requests'[i].call])
    BY <1>1 DEF IInv, CallsTypeOK
  <2> QED
    BY <1>1, <2>1, <2>2 DEF IInv, CallsTypeOK, TotalParts, InReply
<1>3. QueuesInv'
  <2>1. requests = << >> => requests' = << >>
    BY DEF Disown
  <2>2. replies = << >> => replies' = << >>
    BY DEF Disown
  <2>3. Nothing # c
    BY CallsAssumption
  <2>4. \A i, j \in DOMAIN requests' :
          requests'[i].from = requests'[j].from => i = j \/ requests'[i].from = Nothing
    BY <1>1, <2>3 DEF IInv, QueuesInv
  <2>5. \A i, j \in DOMAIN replies' :
          replies'[i].from = replies'[j].from => i = j \/ replies'[i].from = Nothing
    BY <1>1, <2>3 DEF IInv, QueuesInv
  <2>6. \A i \in DOMAIN requests', j \in DOMAIN replies' :
          requests'[i].from = replies'[j].from => requests'[i].from = Nothing
    BY <1>1, <2>3 DEF IInv, QueuesInv
  <2> QED
    BY <2>1, <2>2, <2>4, <2>5, <2>6 DEF IInv, QueuesInv
<1>4. StreamsInv'
  <2>1. ASSUME NEW e \in Clients
        PROVE  AnswerDue(e)' <=> AnswerDue(e) /\ e # c
    <3>1. e # Nothing
      BY CallsAssumption
    <3>2. (\E i \in DOMAIN requests' : requests'[i].from = e)
             <=> e # c /\ \E i \in DOMAIN requests : requests[i].from = e
      BY <1>1, <3>1
    <3>3. (\E i \in DOMAIN replies' : replies'[i].from = e)
             <=> e # c /\ \E i \in DOMAIN replies : replies[i].from = e
      BY <1>1, <3>1
    <3> QED
      BY <3>2, <3>3 DEF AnswerDue
  <2> QED
    BY <2>1 DEF IInv, CallsTypeOK, StreamsInv
<1>5. RequestsInv' /\ RepliesInv'
  <2>1. UNCHANGED <<call, index, acked>>
    OBVIOUS
  <2>2. \A i \in DOMAIN requests :
          requests'[i].from # Nothing => requests'[i].from = requests[i].from
    BY <1>1
  <2>3. \A i \in DOMAIN replies :
          replies'[i].from # Nothing => replies'[i].from = replies[i].from
    BY <1>1
  <2>4. RequestsInv'
    BY <1>1, <2>1, <2>2 DEF IInv, RequestsInv, Before
  <2>5. RepliesInv'
    BY <1>1, <2>1, <2>3 DEF IInv, RepliesInv, Before, Through
  <2> QED
    BY <2>4, <2>5
<1>6. ClientsInv'
  BY DEF IInv, CallsTypeOK, ClientsInv, Before, Through
<1>7. ResolvedInv'
  <2>1. requests = << >> => requests' = << >>
    BY DEF Disown
  <2> QED
    BY <2>1 DEF IInv, ResolvedInv
<1>8. ResultsInv'
  BY DEF IInv, CallsTypeOK, ResultsInv, TotalParts
<1> QED
  BY <1>2, <1>3, <1>4, <1>5, <1>6, <1>7, <1>8 DEF IInv

-----------------------------------------------------------------------------
(* The steps of the kernel and of the Connection task.                     *)

\* The answer takes the place of its request.
LEMMA AnswerFacts ==
  ASSUME IInv, connected, requests # << >>,
         NEW kind \in {"ack", "error"}, Answer(Head(requests), kind)
  PROVE  LET req == Head(requests)
             new == Len(replies) + 1
         IN  /\ req = requests[1] /\ 1 \in DOMAIN requests
             /\ req \in InFlight /\ req.from \in Clients \cup {Nothing}
             /\ requests' \in Seq(InFlight) /\ replies' \in Seq(InReply)
             /\ \A i \in DOMAIN requests' : i + 1 \in DOMAIN requests /\ i + 1 # 1
                                              /\ requests'[i] = requests[i + 1]
             /\ \A i \in DOMAIN requests \ {1} : i - 1 \in DOMAIN requests'
                                                 /\ requests'[i - 1] = requests[i]
             /\ new \notin DOMAIN replies /\ DOMAIN replies' = DOMAIN replies \cup {new}
             /\ replies'[new].from = req.from /\ replies'[new].kind = kind
             /\ \A i \in DOMAIN replies : replies'[i] = replies[i]
<1> DEFINE req == Head(requests)
           reply == [from |-> req.from, kind |-> kind]
<1>1. requests \in Seq(InFlight) /\ replies \in Seq(InReply)
  BY DEF IInv, CallsTypeOK, InReply
<1>2. req = requests[1] /\ 1 \in DOMAIN requests /\ req \in InFlight
  BY <1>1, TailFacts
<1>3. reply \in InReply /\ req.from \in Clients \cup {Nothing}
  BY <1>2 DEF InFlight, InReply
<1>4. requests' = Tail(requests) /\ replies' = Append(replies, reply)
  BY DEF Answer
<1>5. /\ requests' \in Seq(InFlight)
      /\ \A i \in DOMAIN requests' : i + 1 \in DOMAIN requests /\ i + 1 # 1
                                       /\ requests'[i] = requests[i + 1]
      /\ \A i \in DOMAIN requests \ {1} : i - 1 \in DOMAIN requests'
                                          /\ requests'[i - 1] = requests[i]
  BY <1>1, <1>4, TailFacts
<1> HIDE DEF reply
<1>6. /\ replies' \in Seq(InReply)
      /\ Len(replies) + 1 \notin DOMAIN replies
      /\ DOMAIN replies' = DOMAIN replies \cup {Len(replies) + 1}
      /\ replies'[Len(replies) + 1] = reply
      /\ \A i \in DOMAIN replies : replies'[i] = replies[i]
  BY <1>1, <1>3, <1>4, AppendFacts
<1> QED
  BY <1>2, <1>3, <1>5, <1>6 DEF reply

\* What either answer keeps.
LEMMA AnswerKeepsQueues ==
  ASSUME IInv, connected, connected', requests # << >>, UNCHANGED <<stream, pc>>,
         NEW kind \in {"ack", "error"}, Answer(Head(requests), kind)
  PROVE  QueuesInv' /\ StreamsInv'
<1> DEFINE new == Len(replies) + 1
<1>1. /\ 1 \in DOMAIN requests
      /\ \A i \in DOMAIN requests' : i + 1 \in DOMAIN requests /\ i + 1 # 1
                                       /\ requests'[i] = requests[i + 1]
      /\ \A i \in DOMAIN requests \ {1} : i - 1 \in DOMAIN requests'
                                          /\ requests'[i - 1] = requests[i]
      /\ new \notin DOMAIN replies /\ DOMAIN replies' = DOMAIN replies \cup {new}
      /\ replies'[new].from = requests[1].from
      /\ \A i \in DOMAIN replies : replies'[i] = replies[i]
  BY AnswerFacts
<1> HIDE DEF new
<1>2. QueuesInv'
  <2>1. \A i, j \in DOMAIN requests' :
          requests'[i].from = requests'[j].from => i = j \/ requests'[i].from = Nothing
    <3> SUFFICES ASSUME NEW i \in DOMAIN requests', NEW j \in DOMAIN requests',
                        requests'[i].from = requests'[j].from, requests'[i].from # Nothing
                 PROVE  i = j
      OBVIOUS
    <3>1. i + 1 = j + 1
      BY <1>1 DEF IInv, QueuesInv
    <3>2. i \in Nat /\ j \in Nat
      BY AnswerFacts
    <3> QED
      BY <3>1, <3>2
  <2>2. \A i, j \in DOMAIN replies' :
          replies'[i].from = replies'[j].from => i = j \/ replies'[i].from = Nothing
    BY <1>1 DEF IInv, QueuesInv
  <2>3. \A i \in DOMAIN requests', j \in DOMAIN replies' :
          requests'[i].from = replies'[j].from => requests'[i].from = Nothing
    BY <1>1 DEF IInv, QueuesInv
  <2> QED
    BY <2>1, <2>2, <2>3 DEF QueuesInv
<1>3. ASSUME NEW c \in Clients
      PROVE  AnswerDue(c)' <=> AnswerDue(c)
  <2>1. AnswerDue(c)' => AnswerDue(c)
    BY <1>1 DEF AnswerDue
  <2>2. AnswerDue(c) => AnswerDue(c)'
    BY <1>1 DEF AnswerDue
  <2> QED
    BY <2>1, <2>2
<1>4. StreamsInv'
  BY <1>3 DEF IInv, StreamsInv
<1> QED
  BY <1>2, <1>4

LEMMA KernelAppliesKeepsIInv == IInv /\ KernelApplies => IInv'
<1> SUFFICES ASSUME IInv, KernelApplies PROVE IInv'
  OBVIOUS
<1> DEFINE req == Head(requests)
           new == Len(replies) + 1
<1>1. /\ connected /\ requests # << >> /\ Answer(req, "ack")
      /\ acked' = IF req.from = Nothing THEN acked ELSE [acked EXCEPT ![req.from] = @ \cup {req.part}]
      /\ UNCHANGED <<pc, call, index, result, calls, connected, resolved, stream, start, finished>>
  BY DEF KernelApplies, client
<1>f. PICK f \in Clients \cup {Nothing} : f = requests[1].from
  BY <1>1, AnswerFacts
<1>2. /\ req = requests[1] /\ 1 \in DOMAIN requests /\ req \in InFlight
      /\ requests' \in Seq(InFlight) /\ replies' \in Seq(InReply)
      /\ \A i \in DOMAIN requests' : i + 1 \in DOMAIN requests /\ i + 1 # 1
                                       /\ requests'[i] = requests[i + 1]
      /\ new \notin DOMAIN replies /\ DOMAIN replies' = DOMAIN replies \cup {new}
      /\ replies'[new].from = f /\ replies'[new].kind = "ack"
      /\ \A i \in DOMAIN replies : replies'[i] = replies[i]
  BY <1>1, <1>f, AnswerFacts
<1>3. QueuesInv' /\ StreamsInv'
  BY <1>1, AnswerKeepsQueues
<1>4. f # Nothing => /\ f \in Clients /\ requests[1].part = index[f] /\ Before(f)
                     /\ stream[f] = "pending" /\ pc[f] = "waiting"
  BY <1>f, <1>2 DEF IInv, RequestsInv, StreamsInv, AnswerDue
<1> HIDE DEF new
<1>5. /\ acked' \in [Clients -> SUBSET (Nat \ {0})]
      /\ \A c \in Clients : c # f => acked'[c] = acked[c]
      /\ f # Nothing => Through(f)'
  <2>1. CASE f = Nothing
    BY <1>f, <1>1, <1>2, <2>1 DEF IInv, CallsTypeOK
  <2>2. CASE f # Nothing
    <3>1. index[f] \in Nat \ {0} /\ acked \in [Clients -> SUBSET (Nat \ {0})]
      BY <1>4, <2>2 DEF IInv, CallsTypeOK
    <3>2. acked' = [acked EXCEPT ![f] = @ \cup {index[f]}]
      BY <1>f, <1>1, <1>2, <1>4, <2>2
    <3>3. acked'[f] = 1..index[f]
      <4>1. acked[f] = 1..index[f] - 1 /\ acked'[f] = acked[f] \cup {index[f]}
        BY <1>4, <2>2, <3>1, <3>2 DEF Before
      <4> QED
        BY <3>1, <4>1
    <3>4. acked' \in [Clients -> SUBSET (Nat \ {0})]
      BY <1>4, <2>2, <3>1, <3>2
    <3> QED
      BY <1>1, <3>1, <3>2, <3>3, <3>4 DEF Through
  <2> QED
    BY <2>1, <2>2
<1>6. CallsTypeOK'
  <2>1. \A i \in DOMAIN requests' :
          requests'[i].part \in 1..Len(MessagesOf[requests'[i].call])
    BY <1>2 DEF IInv, CallsTypeOK
  <2> QED
    BY <1>1, <1>2, <1>5, <2>1 DEF IInv, CallsTypeOK, InReply, TotalParts
<1>7. RequestsInv'
  <2> SUFFICES ASSUME NEW i \in DOMAIN requests', requests'[i].from # Nothing
               PROVE  /\ requests'[i].call = call'[requests'[i].from]
                      /\ requests'[i].part = index'[requests'[i].from]
                      /\ acked'[requests'[i].from] = 1..index'[requests'[i].from] - 1
    BY DEF RequestsInv, Before
  <2>1. requests'[i] = requests[i + 1] /\ i + 1 \in DOMAIN requests /\ requests[i + 1].from # f
    BY <1>f, <1>2 DEF IInv, QueuesInv
  <2>2. requests[i + 1].from \in Clients
    BY <2>1, EntryTypes DEF IInv
  <2> QED
    BY <1>1, <1>5, <2>1, <2>2 DEF IInv, RequestsInv, Before
<1>8. RepliesInv'
  <2> SUFFICES ASSUME NEW i \in DOMAIN replies', replies'[i].from # Nothing
               PROVE  acked'[replies'[i].from]
                        = IF replies'[i].kind = "ack" THEN 1..index'[replies'[i].from]
                          ELSE 1..index'[replies'[i].from] - 1
    BY DEF RepliesInv, Before, Through
  <2>1. CASE i = new
    BY <1>2, <1>5, <2>1 DEF Through
  <2>2. CASE i # new
    <3>1. i \in DOMAIN replies /\ replies'[i] = replies[i] /\ replies[i].from # f
      BY <1>f, <1>2, <2>2 DEF IInv, QueuesInv
    <3>2. replies[i].from \in Clients
      BY <3>1, EntryTypes DEF IInv
    <3> QED
      BY <1>1, <1>5, <3>1, <3>2 DEF IInv, RepliesInv, Before, Through
  <2> QED
    BY <2>1, <2>2
<1>9. ClientsInv'
  BY <1>1, <1>4, <1>5, CallsAssumption DEF IInv, ClientsInv, Before, Through
<1>10. ResolvedInv'
  BY <1>1 DEF IInv, ResolvedInv
<1>11. ResultsInv'
  <2>1. ASSUME NEW c \in Clients, c # f
        PROVE  acked'[c] = acked[c] /\ TotalParts(c)' = TotalParts(c)
    BY <1>1, <1>5, <2>1 DEF TotalParts
  <2>2. f \in Clients => result[f].kind = "none" /\ result[f].part = 0
    BY <1>4, CallsAssumption DEF IInv, ResultsInv
  <2>3. ASSUME NEW c \in Clients
        PROVE  /\ pc'[c] # "idle" => result'[c].kind = "none" /\ result'[c].part = 0
               /\ result'[c].kind = "ok" /\ connected' => acked'[c] = 1..TotalParts(c)'
               /\ result'[c].part > 0 => acked'[c] = 1..result'[c].part - 1
    <3>1. CASE c = f
      BY <1>1, <2>2, <3>1
    <3>2. CASE c # f
      BY <1>1, <2>1, <3>2 DEF IInv, ResultsInv
    <3> QED
      BY <3>1, <3>2
  <2> QED
    BY <2>3 DEF ResultsInv
<1> QED
  BY <1>3, <1>6, <1>7, <1>8, <1>9, <1>10, <1>11 DEF IInv

LEMMA KernelRefusesKeepsIInv == IInv /\ KernelRefuses => IInv'
<1> SUFFICES ASSUME IInv, KernelRefuses PROVE IInv'
  OBVIOUS
<1> DEFINE f == requests[1].from
           new == Len(replies) + 1
<1>1. /\ connected /\ requests # << >> /\ Answer(Head(requests), "error")
      /\ UNCHANGED <<pc, call, index, result, calls, connected, resolved, stream, start, acked, finished>>
  BY DEF KernelRefuses, client
<1>2. /\ 1 \in DOMAIN requests /\ f \in Clients \cup {Nothing}
      /\ requests' \in Seq(InFlight) /\ replies' \in Seq(InReply)
      /\ \A i \in DOMAIN requests' : i + 1 \in DOMAIN requests /\ requests'[i] = requests[i + 1]
      /\ DOMAIN replies' = DOMAIN replies \cup {new}
      /\ replies'[new].from = f /\ replies'[new].kind = "error"
      /\ \A i \in DOMAIN replies : replies'[i] = replies[i]
  BY <1>1, AnswerFacts
<1> HIDE DEF new
<1>3. QueuesInv' /\ StreamsInv'
  BY <1>1, AnswerKeepsQueues
<1>4. CallsTypeOK'
  <2>1. \A i \in DOMAIN requests' :
          requests'[i].part \in 1..Len(MessagesOf[requests'[i].call])
    BY <1>2 DEF IInv, CallsTypeOK
  <2> QED
    BY <1>1, <1>2, <2>1 DEF IInv, CallsTypeOK, InReply, TotalParts
<1>5. RequestsInv'
  BY <1>1, <1>2 DEF IInv, RequestsInv, Before
<1>6. RepliesInv'
  BY <1>1, <1>2 DEF IInv, RequestsInv, RepliesInv, Before, Through
<1>7. ClientsInv' /\ ResultsInv'
  BY <1>1 DEF IInv, ClientsInv, ResultsInv, Before, Through, TotalParts
<1>8. ResolvedInv'
  BY <1>1 DEF IInv, ResolvedInv
<1> QED
  BY <1>3, <1>4, <1>5, <1>6, <1>7, <1>8 DEF IInv

LEMMA ConnForwardsKeepsIInv == IInv /\ ConnForwards => IInv'
<1> SUFFICES ASSUME IInv, ConnForwards PROVE IInv'
  OBVIOUS
<1> DEFINE reply == Head(replies)
           f == reply.from
<1>1. /\ connected /\ replies # << >> /\ replies' = Tail(replies)
      /\ stream' = IF f = Nothing THEN stream ELSE [stream EXCEPT ![f] = reply.kind]
      /\ UNCHANGED <<pc, call, index, result, calls, connected, requests, resolved, start, acked, finished>>
  BY DEF ConnForwards, client
<1>2. /\ replies' \in Seq(InReply) /\ reply = replies[1] /\ 1 \in DOMAIN replies /\ reply \in InReply
      /\ \A i \in DOMAIN replies' : i + 1 \in DOMAIN replies /\ i + 1 # 1 /\ i \in Nat
                                      /\ replies'[i] = replies[i + 1]
      /\ \A i \in DOMAIN replies \ {1} : i - 1 \in DOMAIN replies' /\ replies'[i - 1] = replies[i]
  <2>1. replies \in Seq(InReply)
    BY DEF IInv, CallsTypeOK, InReply
  <2> QED
    BY <1>1, <2>1, TailFacts
<1>3. f \in Clients \cup {Nothing} /\ reply.kind \in {"ack", "error"}
  BY <1>2 DEF InReply
<1>4. f # Nothing =>
        /\ stream[f] = "pending"
        /\ IF reply.kind = "ack" THEN Through(f) ELSE Before(f)
  BY <1>2, <1>3 DEF IInv, StreamsInv, RepliesInv, AnswerDue
<1> HIDE DEF f, reply
<1>5. CallsTypeOK'
  <2>1. stream' \in [Clients -> {"none", "pending", "ack", "error", "lost"}]
    BY <1>1, <1>3 DEF IInv, CallsTypeOK
  <2> QED
    BY <1>1, <1>2, <2>1 DEF IInv, CallsTypeOK, InReply, TotalParts
<1>6. QueuesInv'
  <2>1. \A i, j \in DOMAIN replies' :
          replies'[i].from = replies'[j].from => i = j \/ replies'[i].from = Nothing
    <3> SUFFICES ASSUME NEW i \in DOMAIN replies', NEW j \in DOMAIN replies',
                        replies'[i].from = replies'[j].from, replies'[i].from # Nothing
                 PROVE  i = j
      OBVIOUS
    <3>1. i + 1 = j + 1
      BY <1>2 DEF IInv, QueuesInv
    <3> QED
      BY <1>2, <3>1
  <2>2. \A i \in DOMAIN requests, j \in DOMAIN replies' :
          requests[i].from = replies'[j].from => requests[i].from = Nothing
    BY <1>2 DEF IInv, QueuesInv
  <2> QED
    BY <1>1, <2>1, <2>2 DEF IInv, QueuesInv
<1>7. StreamsInv'
  <2>1. ASSUME NEW c \in Clients
        PROVE  AnswerDue(c)' <=> AnswerDue(c) /\ c # f
    <3>1. AnswerDue(c) /\ c # f => AnswerDue(c)'
      BY <1>1, <1>2 DEF AnswerDue, f
    <3>2. AnswerDue(c)' => AnswerDue(c)
      BY <1>1, <1>2 DEF AnswerDue
    <3>3. c = f => ~ AnswerDue(c)'
      BY <1>1, <1>2, CallsAssumption DEF AnswerDue, IInv, QueuesInv, f
    <3> QED
      BY <3>1, <3>2, <3>3
  <2>2. ASSUME NEW c \in Clients, c # f PROVE stream'[c] = stream[c]
    BY <1>1, <1>3, <2>2 DEF IInv, CallsTypeOK
  <2>3. f # Nothing => stream'[f] = reply.kind
    BY <1>1, <1>3 DEF IInv, CallsTypeOK
  <2> QED
    BY <1>1, <1>3, <1>4, <2>1, <2>2, <2>3, CallsAssumption DEF IInv, StreamsInv
<1>8. RequestsInv'
  BY <1>1 DEF IInv, RequestsInv, Before
<1>9. RepliesInv'
  BY <1>1, <1>2 DEF IInv, RepliesInv, Before, Through
<1>10. ClientsInv'
  BY <1>1, <1>3, <1>4 DEF IInv, CallsTypeOK, ClientsInv, Before, Through
<1>11. ResolvedInv' /\ ResultsInv'
  BY <1>1 DEF IInv, ResolvedInv, ResultsInv, TotalParts
<1> QED
  BY <1>5, <1>6, <1>7, <1>8, <1>9, <1>10, <1>11 DEF IInv

LEMMA ConnStopsKeepsIInv == IInv /\ ConnStops => IInv'
<1> SUFFICES ASSUME IInv, ConnStops PROVE IInv'
  OBVIOUS
<1> USE DEF ConnStops, client
<1>1. CallsTypeOK'
  <2>1. requests' \in Seq(InFlight) /\ replies' \in Seq(InReply)
    OBVIOUS
  <2>2. stream' \in [Clients -> {"none", "pending", "ack", "error", "lost"}]
    BY DEF IInv, CallsTypeOK
  <2>3. \A i \in DOMAIN requests' : FALSE
    OBVIOUS
  <2> QED
    BY <2>1, <2>2, <2>3 DEF IInv, CallsTypeOK, InReply, TotalParts
<1>2. QueuesInv' /\ RequestsInv' /\ RepliesInv'
  BY DEF QueuesInv, RequestsInv, RepliesInv
<1>3. StreamsInv'
  BY DEF IInv, CallsTypeOK, StreamsInv, AnswerDue
<1>4. ASSUME NEW c \in Clients, stream[c] = "pending"
      PROVE  Before(c) \/ Through(c)
  <2>1. CASE \E i \in DOMAIN requests : requests[i].from = c
    BY <2>1, CallsAssumption DEF IInv, RequestsInv
  <2>2. CASE \E i \in DOMAIN replies : replies[i].from = c
    BY <2>2, CallsAssumption DEF IInv, RepliesInv
  <2> QED
    BY <1>4, <2>1, <2>2 DEF IInv, StreamsInv, AnswerDue
<1>5. ClientsInv'
  BY <1>4 DEF IInv, CallsTypeOK, ClientsInv, Before, Through
<1>6. ResolvedInv' /\ ResultsInv'
  BY DEF IInv, ResolvedInv, ResultsInv, TotalParts
<1> QED
  BY <1>1, <1>2, <1>3, <1>5, <1>6 DEF IInv

LEMMA StutterKeepsIInv == IInv /\ UNCHANGED vars => IInv'
<1> SUFFICES ASSUME IInv, UNCHANGED vars PROVE IInv'
  OBVIOUS
<1> USE DEF vars, client, conn
<1>1. CallsTypeOK'
  BY DEF IInv, CallsTypeOK, TotalParts
<1>2. QueuesInv' /\ StreamsInv'
  BY DEF IInv, QueuesInv, StreamsInv, AnswerDue
<1>3. RequestsInv' /\ RepliesInv' /\ ClientsInv'
  BY DEF IInv, RequestsInv, RepliesInv, ClientsInv, Before, Through
<1>4. ResolvedInv' /\ ResultsInv'
  BY DEF IInv, ResolvedInv, ResultsInv, TotalParts
<1> QED
  BY <1>1, <1>2, <1>3, <1>4 DEF IInv

LEMMA StepKeepsIInv == IInv /\ [Next]_vars => IInv'
<1> SUFFICES ASSUME IInv, [Next]_vars PROVE IInv'
  OBVIOUS
<1>1. ASSUME NEW c \in Clients, SetRejected(c) \/ Set(c) \/ ClientStep(c) \/ Cancel(c)
      PROVE  IInv'
  BY <1>1, SetRejectedKeepsIInv, SetKeepsIInv, RequestKeepsIInv, RequestFailsKeepsIInv,
     ReplyIsErrorKeepsIInv, NextPartKeepsIInv, SetReturnsOkKeepsIInv, CancelKeepsIInv
     DEF ClientStep
<1>2. CASE KernelStep \/ ConnForwards \/ ConnStops
  BY <1>2, KernelAppliesKeepsIInv, KernelRefusesKeepsIInv, ConnForwardsKeepsIInv,
     ConnStopsKeepsIInv DEF KernelStep
<1>3. CASE AllReturned \/ UNCHANGED vars
  BY <1>3, StutterKeepsIInv DEF AllReturned
<1> QED
  BY <1>1, <1>2, <1>3 DEF Next

LEMMA IInvHolds == Spec => []IInv
<1> QED
  BY InitIInv, StepKeepsIInv, PTL DEF Spec

-----------------------------------------------------------------------------
(* The theorems.                                                           *)

\* The calls and the connection keep their types; above all, the loop over the
\* messages of a call never leaves them (handle.rs:73).
THEOREM CallsTyped == Spec => []CallsTypeOK
<1>1. IInv => CallsTypeOK
  BY DEF IInv
<1> QED
  BY <1>1, IInvHolds, PTL

\* An answer reaches the call it belongs to and no other, and a call that
\* waits has one coming: cancelled calls, errors and a task that stops
\* included (handle.rs:75-76).
THEOREM AnswersReachTheirCalls == Spec => []OneAnswerAwaited
<1>1. IInv => OneAnswerAwaited
  <2> SUFFICES ASSUME IInv, NEW c \in Clients
               PROVE  /\ IF stream[c] = "pending"
                         THEN \E entry \in UnderWay(c) : UnderWay(c) = {entry}
                         ELSE UnderWay(c) = {}
                      /\ stream[c] # "none" <=> pc[c] = "waiting"
    BY DEF OneAnswerAwaited
  <2>1. c # Nothing
    BY CallsAssumption
  <2>2. ASSUME NEW i \in DOMAIN requests, requests[i].from = c
        PROVE  UnderWay(c) = {<<"request", i>>}
    <3>1. {j \in DOMAIN requests : requests[j].from = c} = {i}
      BY <2>1, <2>2 DEF IInv, QueuesInv
    <3>2. {j \in DOMAIN replies : replies[j].from = c} = {}
      BY <2>1, <2>2 DEF IInv, QueuesInv
    <3> QED
      BY <3>1, <3>2 DEF UnderWay
  <2>3. ASSUME NEW i \in DOMAIN replies, replies[i].from = c
        PROVE  UnderWay(c) = {<<"reply", i>>}
    <3>1. {j \in DOMAIN replies : replies[j].from = c} = {i}
      BY <2>1, <2>3 DEF IInv, QueuesInv
    <3>2. {j \in DOMAIN requests : requests[j].from = c} = {}
      BY <2>1, <2>3 DEF IInv, QueuesInv
    <3> QED
      BY <3>1, <3>2 DEF UnderWay
  <2>4. ~ AnswerDue(c) => UnderWay(c) = {}
    BY DEF UnderWay, AnswerDue
  <2> QED
    BY <2>2, <2>3, <2>4 DEF IInv, StreamsInv, AnswerDue
<1> QED
  BY <1>1, IInvHolds, PTL

\* Ok means that every part is in the device, as long as the task runs.
THEOREM OkIsReliable == Spec => []OkMeansApplied
<1>1. IInv => OkMeansApplied
  BY DEF IInv, ResultsInv, OkMeansApplied
<1> QED
  BY <1>1, IInvHolds, PTL

\* "Failed to apply part k/n": exactly the parts in front of k are applied.
THEOREM ErrorsNameTheirPart == Spec => []ErrorNamesPart
<1>1. IInv => ErrorNamesPart
  BY DEF IInv, ResultsInv, ErrorNamesPart
<1> QED
  BY <1>1, IInvHolds, PTL

-----------------------------------------------------------------------------
(* SetDevice implements SetPromise: every step of a caller, of the kernel  *)
(* or of the Connection task is a step of the promise or changes nothing   *)
(* of it.                                                                  *)

State == [c \in Clients |-> StateOf(c)]

PromiseVars == <<State, call, acked, result, Abandoned, connected, device>>

LEMMA VarsOfPromise == UNCHANGED PromiseVars => UNCHANGED Promise!vars
BY DEF PromiseVars, State, Promise!vars

LEMMA ReplyOf ==
  ASSUME NEW q \in Seq(InReply), NEW c, NEW kind
  PROVE  (\E i \in DOMAIN q : q[i] = [from |-> c, kind |-> kind])
           <=> \E i \in DOMAIN q : q[i].from = c /\ q[i].kind = kind
<1>1. \A i \in DOMAIN q : q[i] \in InReply
  OBVIOUS
<1>2. ASSUME NEW i \in DOMAIN q, q[i].from = c, q[i].kind = kind
      PROVE  q[i] = [from |-> c, kind |-> kind]
  BY <1>1, <1>2 DEF InReply
<1>3. ASSUME NEW i \in DOMAIN q, q[i] = [from |-> c, kind |-> kind]
      PROVE  q[i].from = c /\ q[i].kind = kind
  BY <1>3
<1> QED
  BY <1>2, <1>3

LEMMA HasReplyFacts ==
  ASSUME CallsTypeOK, NEW c, NEW kind
  PROVE  HasReply(c, kind) <=> \E i \in DOMAIN replies : replies[i].from = c /\ replies[i].kind = kind
<1>1. replies \in Seq(InReply)
  BY DEF CallsTypeOK, InReply
<1> QED
  BY <1>1, ReplyOf DEF HasReply

LEMMA HasReplyNext ==
  ASSUME replies' \in Seq(InReply), NEW c, NEW kind
  PROVE  HasReply(c, kind)'
           <=> \E i \in DOMAIN replies' : replies'[i].from = c /\ replies'[i].kind = kind
<1>1. PICK q \in Seq(InReply) : q = replies'
  OBVIOUS
<1>2. (\E i \in DOMAIN q : q[i] = [from |-> c, kind |-> kind])
        <=> \E i \in DOMAIN q : q[i].from = c /\ q[i].kind = kind
  BY <1>1, ReplyOf
<1> QED
  BY <1>1, <1>2, Zenon DEF HasReply

LEMMA StateFacts ==
  ASSUME IInv, NEW c \in Clients
  PROVE  /\ pc[c] = "idle" => StateOf(c) = "idle"
         /\ pc[c] = "sending" => StateOf(c) = "running"
         /\ stream[c] = "error" => StateOf(c) = "refused"
         /\ stream[c] \in {"ack", "lost"} => StateOf(c) = "running"
         /\ stream[c] = "pending" =>
              StateOf(c) = IF HasReply(c, "error") THEN "refused" ELSE "running"
         /\ HasReply(c, "error") => stream[c] = "pending"
<1>1. HasReply(c, "error") => AnswerDue(c)
  BY HasReplyFacts DEF IInv, AnswerDue
<1>2. /\ stream[c] = "pending" <=> AnswerDue(c)
      /\ stream[c] # "none" <=> pc[c] = "waiting"
  BY DEF IInv, StreamsInv
<1> QED
  BY <1>1, <1>2 DEF StateOf

\* What a client that takes a step leaves of the others.
LEMMA OneStateChanges ==
  ASSUME NEW c \in Clients, NEW v, StateOf(c)' = v,
         \A e \in Clients \ {c} : StateOf(e)' = StateOf(e)
  PROVE  State' = [State EXCEPT ![c] = v]
BY DEF State

LEMMA OthersKeepState ==
  ASSUME CallsTypeOK, NEW c \in Clients, UNCHANGED replies, NEW s, NEW t,
         pc' = [pc EXCEPT ![c] = s], stream' = [stream EXCEPT ![c] = t]
  PROVE  \A e \in Clients \ {c} : StateOf(e)' = StateOf(e)
BY DEF CallsTypeOK, StateOf, HasReply

LEMMA AbandonedKept ==
  ASSUME UNCHANGED requests PROVE UNCHANGED Abandoned
BY DEF Abandoned, AbandonedAt

LEMMA AbandonedAtKept ==
  ASSUME \A p \in PartsOfCalls : AbandonedAt(p)' = AbandonedAt(p)
  PROVE  UNCHANGED Abandoned
BY DEF Abandoned

\* The parts in the channel are finitely many positive numbers.
LEMMA AbandonedAtFinite ==
  ASSUME CallsTypeOK, NEW p
  PROVE  IsFiniteSet(AbandonedAt(p)) /\ AbandonedAt(p) \subseteq Nat
<1>1. DOMAIN requests = 1..Len(requests) /\ Len(requests) \in Nat
  BY DEF CallsTypeOK
<1>2. AbandonedAt(p) \in SUBSET (1..Len(requests))
  BY <1>1 DEF AbandonedAt
<1>3. IsFiniteSet(1..Len(requests))
  BY <1>1, FS_Interval
<1> QED BY <1>1, <1>2, <1>3, FS_Subset

LEMMA AbandonedCount ==
  ASSUME CallsTypeOK, NEW p \in PartsOfCalls
  PROVE  Abandoned[p] = Cardinality(AbandonedAt(p)) /\ Abandoned[p] \in Nat
BY AbandonedAtFinite, FS_CardinalityType DEF Abandoned

\* Numbers are as many when each is one less.
LEMMA ShiftedSize ==
  ASSUME NEW A, IsFiniteSet(A), A \subseteq Nat
  PROVE  Cardinality({i - 1 : i \in A}) = Cardinality(A)
<1> DEFINE B == {i - 1 : i \in A}
           f == [i \in A |-> i - 1]
<1>1. f \in [A -> B] /\ (\A a, b \in A : f[a] = f[b] => a = b) /\ \A t \in B : \E a \in A : f[a] = t
  OBVIOUS
<1>2. f \in Bijection(A, B)
  <2> HIDE DEF f, B
  <2> QED BY <1>1 DEF Bijection, Injection, Surjection, IsInjective
<1>3. ExistsBijection(A, B)
  BY <1>2 DEF ExistsBijection
<1> QED BY <1>3, FS_Bijection

LEMMA InChannel ==
  ASSUME CallsTypeOK, NEW i \in DOMAIN requests
  PROVE  <<requests[i].call, requests[i].part>> \in PartsOfCalls
<1>1. requests[i] \in InFlight
  BY DEF CallsTypeOK
<1>2. requests[i].call \in Calls /\ requests[i].part \in 1..TotalPartsOf(requests[i].call)
  BY <1>1 DEF CallsTypeOK, InFlight, TotalPartsOf
<1> QED BY <1>2 DEF PartsOfCalls

-----------------------------------------------------------------------------

LEMMA InitPromise == Init => Promise!Init
<1> SUFFICES ASSUME Init PROVE Promise!Init
  OBVIOUS
<1>1. State = [c \in Clients |-> "idle"]
  <2>1. \A c \in Clients : pc[c] = "idle"
    BY DEF Init
  <2>2. \A c \in Clients : StateOf(c) = "idle"
    BY <2>1 DEF StateOf
  <2> QED
    BY <2>2 DEF State
<1>2. Abandoned = Promise!NoParts
  <2>1. \A p : AbandonedAt(p) = {}
    BY DEF Init, AbandonedAt
  <2> QED BY <2>1, FS_EmptySet DEF Abandoned, Promise!NoParts
<1> QED
  BY <1>1, <1>2, Zenon DEF Init, State, Promise!Init, Promise!Error, Outcome

LEMMA BeginStep ==
  ASSUME IInv, IInv', NEW c \in Clients, SetRejected(c) \/ Set(c)
  PROVE  Promise!Next
<1>1. PICK k \in CallsOf[c] :
        /\ Begin(c, k)
        /\ IF BuiltOf[k] = "ok"
           THEN /\ pc' = [pc EXCEPT ![c] = "sending"]
                /\ result' = [result EXCEPT ![c] = Outcome("none", 0)]
           ELSE /\ pc' = pc
                /\ result' = [result EXCEPT ![c] = Outcome(BuiltOf[k], 0)]
  BY DEF SetRejected, Set
<1>2. /\ UNCHANGED <<requests, replies, connected, stream, device>>
      /\ pc[c] = "idle" /\ stream[c] = "none"
  BY <1>1 DEF Begin, conn, IInv, StreamsInv
<1>3. State[c] = "idle"
  BY <1>2, StateFacts DEF State
<1>4. IF BuiltOf[k] = "ok" THEN State' = [State EXCEPT ![c] = "running"] ELSE State' = State
  <2>1. CASE BuiltOf[k] = "ok"
    <3>0. ~ HasReply(c, "error") /\ HasReply(c, "error")' = HasReply(c, "error")
      BY <1>2, StateFacts DEF HasReply
    <3>1. StateOf(c)' = "running"
      BY <1>1, <1>2, <2>1, <3>0 DEF IInv, CallsTypeOK, StateOf
    <3>2. \A e \in Clients \ {c} : StateOf(e)' = StateOf(e)
      BY <1>1, <1>2, <2>1 DEF IInv, CallsTypeOK, StateOf, HasReply
    <3> QED
      BY <2>1, <3>1, <3>2, OneStateChanges
  <2>2. CASE BuiltOf[k] # "ok"
    BY <1>1, <1>2, <2>2 DEF State, StateOf, HasReply
  <2> QED
    BY <2>1, <2>2
<1>5. UNCHANGED Abandoned
  BY <1>2, AbandonedKept
<1>6. Promise!Begin(c, k)
  BY <1>1, <1>2, <1>3, <1>4, <1>5 DEF State, Begin, Promise!Begin, Promise!Error, Outcome
<1> QED
  BY <1>6 DEF Promise!Next

LEMMA RequestStutters ==
  ASSUME IInv, IInv', NEW c \in Clients, Request(c)
  PROVE  UNCHANGED Promise!vars
<1>1. UNCHANGED State
  <2>1. StateOf(c) = "running" /\ HasReply(c, "error")' = HasReply(c, "error")
    BY StateFacts DEF Request, HasReply
  <2>2. pc'[c] = "waiting" /\ stream'[c] = "pending" /\ pc[c] = "sending" /\ stream[c] = "none"
    BY DEF Request, IInv, CallsTypeOK, StreamsInv
  <2>3. StateOf(c)' = "running"
    BY <2>1, <2>2, StateFacts DEF StateOf
  <2>4. \A e \in Clients \ {c} : StateOf(e)' = StateOf(e)
    BY OthersKeepState DEF Request, IInv
  <2> QED
    BY <2>1, <2>3, <2>4 DEF State
<1>2. UNCHANGED Abandoned
  <2> DEFINE req == [from |-> c, call |-> call[c], part |-> index[c]]
  <2>1. /\ requests' = Append(requests, req) /\ requests \in Seq(InFlight)
        /\ req \in InFlight /\ req.from # Nothing
    BY CallsAssumption DEF Request, IInv, CallsTypeOK, InFlight
  <2> HIDE DEF req
  <2>2. /\ DOMAIN requests' = DOMAIN requests \cup {Len(requests) + 1}
        /\ requests'[Len(requests) + 1] = req
        /\ \A i \in DOMAIN requests : requests'[i] = requests[i]
    BY <2>1, AppendFacts
  <2> QED
    BY <2>1, <2>2, AbandonedAtKept DEF AbandonedAt
<1> QED
  BY <1>1, <1>2, VarsOfPromise DEF Request, PromiseVars

\* How a call ends on its own.
LEMMA ReturnStep ==
  ASSUME IInv, NEW c \in Clients, NEW kind, NEW part, Return(c, Outcome(kind, part)),
         stream' = [stream EXCEPT ![c] = "none"] \/ (stream' = stream /\ stream[c] = "none"),
         UNCHANGED <<call, acked, requests, replies, connected, device>>
  PROVE  Promise!Return(c, Promise!Error(kind, part)) /\ UNCHANGED Abandoned
<1>1. StateOf(c)' = "idle"
  <2>1. pc'[c] = "idle"
    BY DEF Return, IInv, CallsTypeOK
  <2> QED
    BY <2>1 DEF StateOf
<1>2. \A e \in Clients \ {c} : StateOf(e)' = StateOf(e)
  BY DEF Return, IInv, CallsTypeOK, StateOf, HasReply
<1>3. State' = [State EXCEPT ![c] = "idle"]
  BY <1>1, <1>2, OneStateChanges
<1> QED
  BY <1>3, AbandonedKept DEF Return, Outcome, State, Promise!Return, Promise!Error

LEMMA RequestFailsStep ==
  ASSUME IInv, NEW c \in Clients, RequestFails(c)
  PROVE  Promise!Next
<1>1. stream[c] = "none" /\ State[c] = "running"
  BY StateFacts DEF RequestFails, IInv, StreamsInv, State
<1>2. acked[c] = {} \/ ~ connected
  BY DEF RequestFails, IInv, ResolvedInv
<1>3. Promise!Return(c, Promise!Error("NetlinkError", 0)) /\ UNCHANGED Abandoned
  BY <1>1, ReturnStep DEF RequestFails, conn
<1>4. Promise!ReturnUnnamed(c)
  BY <1>1, <1>2, <1>3 DEF Promise!ReturnUnnamed, State
<1> QED
  BY <1>4 DEF Promise!Next

LEMMA ReplyIsErrorStep ==
  ASSUME IInv, NEW c \in Clients, ReplyIsError(c)
  PROVE  Promise!Next
<1>1. State[c] = "refused" /\ Before(c) /\ index[c] \in 1..TotalParts(c)
  BY StateFacts DEF ReplyIsError, IInv, CallsTypeOK, ClientsInv, State
<1>2. /\ Promise!Return(c, Promise!Error("NetlinkError", IF TotalParts(c) > 1 THEN index[c] ELSE 0))
      /\ UNCHANGED Abandoned
  BY ReturnStep DEF ReplyIsError, conn
<1>3. Promise!Total(c) = TotalParts(c)
  BY DEF Promise!Total, TotalPartsOf, TotalParts
<1>4. Promise!ReturnRefused(c)
  BY <1>1, <1>2, <1>3 DEF Promise!ReturnRefused, Promise!At, Before, State
<1> QED
  BY <1>4 DEF Promise!Next

LEMMA NextPartStutters ==
  ASSUME IInv, IInv', NEW c \in Clients, NextPart(c)
  PROVE  UNCHANGED Promise!vars
<1>1. UNCHANGED State
  <2>1. StateOf(c) = "running"
    BY StateFacts DEF NextPart, ReplyEnded
  <2>2. pc'[c] = "sending" /\ stream'[c] = "none"
    BY DEF NextPart, IInv, CallsTypeOK
  <2>3. HasReply(c, "error")' <=> HasReply(c, "error")
    BY DEF NextPart, HasReply, conn
  <2>4. ~ HasReply(c, "error")
    BY StateFacts DEF NextPart, ReplyEnded
  <2>5. StateOf(c)' = "running"
    BY <2>2, <2>3, <2>4 DEF StateOf
  <2>6. \A e \in Clients \ {c} : StateOf(e)' = StateOf(e)
    BY OthersKeepState DEF NextPart, IInv, conn
  <2> QED
    BY <2>1, <2>5, <2>6 DEF State
<1> QED
  BY <1>1, AbandonedKept, VarsOfPromise DEF NextPart, PromiseVars, conn

LEMMA SetReturnsOkStep ==
  ASSUME IInv, NEW c \in Clients, SetReturnsOk(c)
  PROVE  Promise!Next
<1>1. State[c] = "running"
  BY StateFacts DEF SetReturnsOk, ReplyEnded, State
<1>2. Promise!Return(c, Promise!Error("ok", 0)) /\ UNCHANGED Abandoned
  BY ReturnStep DEF SetReturnsOk, conn
<1>3. Promise!Total(c) = TotalParts(c) /\ index[c] = TotalParts(c) /\ index[c] \in 1..TotalParts(c)
  BY DEF Promise!Total, TotalPartsOf, TotalParts, SetReturnsOk, ReplyEnded, IInv, CallsTypeOK
<1>4. acked[c] = 1..TotalParts(c) \/ (~ connected /\ acked[c] = 1..TotalParts(c) - 1)
  BY <1>3 DEF SetReturnsOk, ReplyEnded, IInv, ClientsInv, Before, Through
<1>5. Promise!ReturnOk(c)
  BY <1>1, <1>2, <1>3, <1>4 DEF Promise!ReturnOk, Promise!At, State
<1> QED
  BY <1>5 DEF Promise!Next

\* A cancelled call leaves its request in the channel, if it has one there.
LEMMA CancelStep ==
  ASSUME IInv, IInv', NEW c \in Clients, Cancel(c)
  PROVE  Promise!Next
<1>1. /\ pc' = [pc EXCEPT ![c] = "idle"] /\ pc[c] # "idle"
      /\ result' = [result EXCEPT ![c] = Outcome("cancelled", 0)]
      /\ requests' = Disown(requests, c) /\ replies' = Disown(replies, c)
      /\ stream' = [stream EXCEPT ![c] = "none"]
      /\ UNCHANGED <<call, acked, connected, device>>
  BY DEF Cancel, Return
<1>2. /\ requests \in Seq(InFlight) /\ replies \in Seq(InReply) /\ replies' \in Seq(InReply)
      /\ pc \in [Clients -> {"idle", "sending", "waiting"}]
      /\ stream \in [Clients -> {"none", "pending", "ack", "error", "lost"}]
      /\ c # Nothing
  BY CallsAssumption DEF IInv, CallsTypeOK, InReply
<1>3. /\ DOMAIN requests' = DOMAIN requests
      /\ \A i \in DOMAIN requests :
           /\ requests'[i].from = IF requests[i].from = c THEN Nothing ELSE requests[i].from
           /\ requests'[i].call = requests[i].call
           /\ requests'[i].part = requests[i].part
      /\ DOMAIN replies' = DOMAIN replies
      /\ \A i \in DOMAIN replies :
           /\ replies'[i].from = IF replies[i].from = c THEN Nothing ELSE replies[i].from
           /\ replies'[i].kind = replies[i].kind
  BY <1>1, <1>2, DisownFacts
<1>4. State' = [State EXCEPT ![c] = "idle"]
  <2>1. StateOf(c)' = "idle"
    <3>1. pc'[c] = "idle"
      BY <1>1, <1>2
    <3> QED
      BY <3>1 DEF StateOf
  <2>2. ASSUME NEW e \in Clients \ {c}
        PROVE  StateOf(e)' = StateOf(e)
    <3>1. pc'[e] = pc[e] /\ stream'[e] = stream[e] /\ e # Nothing
      BY <1>1, <1>2, CallsAssumption
    <3>2. (\E i \in DOMAIN replies' : replies'[i].from = e /\ replies'[i].kind = "error")
            <=> \E i \in DOMAIN replies : replies[i].from = e /\ replies[i].kind = "error"
      BY <1>3, <3>1
    <3>3. HasReply(e, "error")' <=> HasReply(e, "error")
      BY <1>2, <3>2, HasReplyFacts, HasReplyNext DEF IInv
    <3> QED
      BY <3>1, <3>3 DEF StateOf
  <2> QED
    BY <2>1, <2>2, OneStateChanges
<1>5. Promise!Return(c, Promise!Error("cancelled", 0)) /\ State[c] # "idle"
  BY <1>1, <1>4 DEF Outcome, State, StateOf, Promise!Return, Promise!Error
<1>6. CASE \E j \in DOMAIN requests : requests[j].from = c
  <2>1. PICK j \in DOMAIN requests : requests[j].from = c
    BY <1>6
  <2>2. requests[j].call = call[c] /\ requests[j].part = index[c] /\ Before(c) /\ connected
    BY <1>2, <2>1 DEF IInv, RequestsInv, QueuesInv
  <2>0. PICK given : given = <<call[c], index[c]>>
    OBVIOUS
  <2>3. Abandoned' = [Abandoned EXCEPT ![given] = @ + 1]
    <3>1. ASSUME NEW i \in DOMAIN requests
          PROVE  requests'[i].from = Nothing <=> requests[i].from = Nothing \/ i = j
      BY <1>2, <1>3, <2>1 DEF IInv, QueuesInv
    <3>2. \A i \in DOMAIN requests :
            <<requests'[i].call, requests'[i].part>> = <<requests[i].call, requests[i].part>>
      BY <1>3
    <3>3. AbandonedAt(given)' = AbandonedAt(given) \cup {j} /\ j \notin AbandonedAt(given)
      <4>1. requests[j].from # Nothing /\ given = <<requests[j].call, requests[j].part>>
        BY <1>2, <2>0, <2>1, <2>2
      <4>2. ASSUME NEW i \in DOMAIN requests
            PROVE  i \in AbandonedAt(given)' <=> i \in AbandonedAt(given) \/ i = j
        BY <1>3, <3>1, <3>2, <4>1, <4>2 DEF AbandonedAt
      <4> QED BY <1>3, <4>1, <4>2 DEF AbandonedAt
    <3>4. ASSUME NEW p \in PartsOfCalls, p # given
          PROVE  AbandonedAt(p)' = AbandonedAt(p)
      BY <1>3, <2>0, <2>2, <3>1, <3>2, <3>4 DEF AbandonedAt
    <3>5. given \in PartsOfCalls
      BY <2>0, <2>2, InChannel DEF IInv
    <3>6. Cardinality(AbandonedAt(given)') = Cardinality(AbandonedAt(given)) + 1
      BY <3>3, AbandonedAtFinite, FS_AddElement DEF IInv
    <3>7. Abandoned'[given] = Abandoned[given] + 1
      BY <3>5, <3>6 DEF Abandoned
    <3>8. \A p \in PartsOfCalls : p # given => Abandoned'[p] = Abandoned[p]
      BY <3>4 DEF Abandoned
    <3> QED
      BY <3>5, <3>7, <3>8 DEF Abandoned
  <2>4. State[c] = "running"
    <3>1. stream[c] = "pending"
      BY <2>1 DEF IInv, StreamsInv, AnswerDue
    <3>2. ~ HasReply(c, "error")
      BY <1>2, <2>1, HasReplyFacts DEF IInv, QueuesInv
    <3> QED
      BY <3>1, <3>2, StateFacts DEF State
  <2>5. index[c] \in 1..TotalPartsOf(call[c])
    BY <1>1 DEF IInv, CallsTypeOK, TotalParts, TotalPartsOf
  <2> QED
    BY <1>5, <2>0, <2>2, <2>3, <2>4, <2>5
       DEF Promise!Next, Promise!Cancel, Promise!At, Promise!Total, Before, State
<1>7. CASE ~ \E j \in DOMAIN requests : requests[j].from = c
  <2>1. UNCHANGED Abandoned
    BY <1>3, <1>7, AbandonedAtKept DEF AbandonedAt
  <2> QED
    BY <1>5, <2>1 DEF Promise!Next, Promise!Cancel, State
<1> QED
  BY <1>6, <1>7

-----------------------------------------------------------------------------

\* An answer to a cancelled call is of nobody's concern, but its part may have
\* reached the device.
LEMMA AbandonedStep ==
  ASSUME IInv, IInv', connected, requests # << >>, UNCHANGED <<pc, stream>>,
         NEW kind \in {"ack", "error"}, Answer(Head(requests), kind)
  PROVE  /\ \A c \in Clients :
              c # Head(requests).from \/ kind = "ack" => StateOf(c)' = StateOf(c)
         /\ Head(requests).from # Nothing => UNCHANGED Abandoned
         /\ Head(requests).from = Nothing =>
              LET p == <<Head(requests).call, Head(requests).part>>
              IN  /\ p \in PartsOfCalls /\ Abandoned[p] > 0
                  /\ Abandoned' = [Abandoned EXCEPT ![p] = @ - 1]
<1> DEFINE new == Len(replies) + 1
<1>1. /\ Head(requests) = requests[1] /\ 1 \in DOMAIN requests
      /\ \A i \in DOMAIN requests' : i + 1 \in DOMAIN requests /\ i + 1 # 1
                                       /\ requests'[i] = requests[i + 1]
      /\ \A i \in DOMAIN requests \ {1} : i - 1 \in DOMAIN requests'
                                          /\ requests'[i - 1] = requests[i]
      /\ new \notin DOMAIN replies /\ DOMAIN replies' = DOMAIN replies \cup {new}
      /\ replies'[new].from = requests[1].from /\ replies'[new].kind = kind
      /\ \A i \in DOMAIN replies : replies'[i] = replies[i]
  BY AnswerFacts
<1> HIDE DEF new
<1>2. replies \in Seq(InReply) /\ replies' \in Seq(InReply)
  BY DEF IInv, CallsTypeOK, InReply
<1>3. ASSUME NEW c \in Clients, c # Head(requests).from \/ kind = "ack"
      PROVE  StateOf(c)' = StateOf(c)
  <2>1. HasReply(c, "error")' <=> HasReply(c, "error")
    BY <1>1, <1>2, <1>3, ReplyOf DEF HasReply
  <2> QED
    BY <2>1 DEF StateOf
<1>4. ASSUME NEW p \in PartsOfCalls
      PROVE  /\ Cardinality(AbandonedAt(p)') = Cardinality(AbandonedAt(p) \ {1})
             /\ IsFiniteSet(AbandonedAt(p)) /\ Cardinality(AbandonedAt(p)) \in Nat
  <2>1. IsFiniteSet(AbandonedAt(p)) /\ AbandonedAt(p) \subseteq Nat
    BY AbandonedAtFinite DEF IInv
  <2> DEFINE rest == AbandonedAt(p) \ {1}
  <2>2. AbandonedAt(p)' = {i - 1 : i \in rest}
    <3>1. ASSUME NEW i \in AbandonedAt(p)' PROVE i \in {k - 1 : k \in rest}
      <4>1. i \in DOMAIN requests' /\ i + 1 \in rest /\ (i + 1) - 1 = i
        BY <1>1, <3>1, AbandonedAtFinite DEF AbandonedAt, IInv, CallsTypeOK
      <4> QED BY <4>1
    <3>2. ASSUME NEW k \in rest PROVE k - 1 \in AbandonedAt(p)'
      BY <1>1, <3>2 DEF AbandonedAt
    <3> HIDE DEF rest
    <3> QED BY <3>1, <3>2
  <2>3. IsFiniteSet(rest) /\ rest \subseteq Nat
    BY <2>1, FS_RemoveElement
  <2>4. Cardinality({i - 1 : i \in rest}) = Cardinality(rest)
    <3> HIDE DEF rest
    <3> QED BY <2>3, ShiftedSize
  <2> QED BY <2>1, <2>2, <2>4, FS_CardinalityType
<1>5. ASSUME NEW p \in PartsOfCalls, 1 \notin AbandonedAt(p)
      PROVE  Abandoned'[p] = Abandoned[p]
  <2>1. AbandonedAt(p) \ {1} = AbandonedAt(p)
    BY <1>5
  <2> QED BY <1>4, <2>1 DEF Abandoned
<1>6. ASSUME Head(requests).from # Nothing
      PROVE  Abandoned' = Abandoned
  <2>1. \A p \in PartsOfCalls : 1 \notin AbandonedAt(p)
    BY <1>1, <1>6 DEF AbandonedAt
  <2>2. \A p \in PartsOfCalls : Abandoned'[p] = Abandoned[p]
    BY <1>5, <2>1
  <2> QED BY <2>2 DEF Abandoned
<1>7. ASSUME Head(requests).from = Nothing, NEW p, p = <<Head(requests).call, Head(requests).part>>
      PROVE  /\ p \in PartsOfCalls /\ Abandoned[p] > 0
             /\ Abandoned' = [Abandoned EXCEPT ![p] = @ - 1]
  <2>1. p \in PartsOfCalls
    <3>1. <<requests[1].call, requests[1].part>> \in PartsOfCalls
      BY <1>1, InChannel DEF IInv
    <3> QED BY <1>1, <1>7, <3>1
  <2>2. 1 \in AbandonedAt(p)
    BY <1>1, <1>7 DEF AbandonedAt
  <2>3. Abandoned[p] > 0 /\ Abandoned'[p] = Abandoned[p] - 1
    <3>1. Cardinality(AbandonedAt(p) \ {1}) = Cardinality(AbandonedAt(p)) - 1
      BY <1>4, <2>1, <2>2, FS_RemoveElement
    <3>2. Cardinality(AbandonedAt(p)) # 0
      BY <1>4, <2>1, <2>2, FS_EmptySet
    <3> QED BY <1>4, <2>1, <3>1, <3>2 DEF Abandoned
  <2>4. ASSUME NEW q \in PartsOfCalls, q # p PROVE Abandoned'[q] = Abandoned[q]
    <3>1. 1 \notin AbandonedAt(q)
      BY <1>1, <1>7, <2>4 DEF AbandonedAt
    <3> QED BY <1>5, <3>1
  <2> QED
    BY <2>1, <2>3, <2>4 DEF Abandoned
<1> QED
  BY <1>3, <1>6, <1>7

\* The client whose request is at the head waits for it.
LEMMA HeadOfRequests ==
  ASSUME IInv, requests # << >>, Head(requests).from # Nothing
  PROVE  LET c == Head(requests).from
         IN  /\ c \in Clients /\ pc[c] = "waiting" /\ StateOf(c) = "running"
             /\ Head(requests).call = call[c] /\ Head(requests).part = index[c]
             /\ index[c] \in 1..TotalPartsOf(call[c]) /\ acked[c] = 1..index[c] - 1
<1>1. PICK req \in InFlight : req = Head(requests) /\ req = requests[1] /\ 1 \in DOMAIN requests
  <2>1. requests \in Seq(InFlight)
    BY DEF IInv, CallsTypeOK
  <2> QED
    BY <2>1, TailFacts
<1>2. PICK c \in Clients : c = req.from
  BY <1>1 DEF InFlight
<1>3. stream[c] = "pending" /\ pc[c] = "waiting" /\ req.call = call[c] /\ req.part = index[c]
      /\ Before(c)
  BY <1>1, <1>2 DEF IInv, StreamsInv, AnswerDue, RequestsInv
<1>4. ~ HasReply(c, "error")
  BY <1>1, <1>2, HasReplyFacts DEF IInv, QueuesInv
<1>5. StateOf(c) = "running"
  BY <1>3, <1>4, StateFacts
<1>6. index[c] \in 1..TotalPartsOf(call[c])
  BY <1>3 DEF IInv, CallsTypeOK, TotalParts, TotalPartsOf
<1> QED
  BY <1>1, <1>2, <1>3, <1>5, <1>6 DEF Before

LEMMA KernelAppliesStep ==
  ASSUME IInv, IInv', KernelApplies
  PROVE  Promise!Next
<1> DEFINE req == Head(requests)
<1>1. /\ connected /\ requests # << >> /\ Answer(req, "ack")
      /\ device' = Applied(device, req.call, req.part)
      /\ acked' = IF req.from = Nothing THEN acked ELSE [acked EXCEPT ![req.from] = @ \cup {req.part}]
      /\ UNCHANGED <<pc, call, result, connected, stream>>
  BY DEF KernelApplies, client
<1>2. UNCHANGED State
  BY <1>1, AbandonedStep DEF State
<1>3. CASE req.from = Nothing
  <2>1. /\ <<req.call, req.part>> \in PartsOfCalls /\ Abandoned[<<req.call, req.part>>] > 0
        /\ Abandoned' = [Abandoned EXCEPT ![<<req.call, req.part>>] = @ - 1]
    BY <1>1, <1>3, AbandonedStep
  <2>2. Promise!AbandonedPart
    BY <1>1, <1>2, <1>3, <2>1 DEF State, Promise!AbandonedPart
  <2> QED
    BY <2>2 DEF Promise!Next
<1>4. CASE req.from # Nothing
  <2>1. PICK c \in Clients :
          /\ c = req.from /\ StateOf(c) = "running"
          /\ req.call = call[c] /\ req.part = index[c]
          /\ index[c] \in 1..TotalPartsOf(call[c]) /\ acked[c] = 1..index[c] - 1
    BY <1>1, <1>4, HeadOfRequests
  <2>2. UNCHANGED Abandoned
    BY <1>1, <1>4, AbandonedStep
  <2>3. acked' = [acked EXCEPT ![c] = 1..index[c]]
    <3>1. acked' = [acked EXCEPT ![c] = (1..index[c] - 1) \cup {index[c]}]
      BY <1>1, <1>4, <2>1
    <3>2. index[c] \in Nat \ {0}
      BY DEF IInv, CallsTypeOK
    <3>3. (1..index[c] - 1) \cup {index[c]} = 1..index[c]
      BY <3>2
    <3> QED
      BY <3>1, <3>3
  <2>4. Promise!ApplyPart(c)
    BY <1>1, <1>2, <2>1, <2>2, <2>3 DEF State, Promise!ApplyPart, Promise!At, Promise!Total
  <2> QED
    BY <2>4 DEF Promise!Next
<1> QED
  BY <1>3, <1>4

LEMMA KernelRefusesStep ==
  ASSUME IInv, IInv', KernelRefuses
  PROVE  Promise!Next
<1> DEFINE req == Head(requests)
<1>1. /\ connected /\ requests # << >> /\ Answer(req, "error")
      /\ device' \in PartlyApplied(device, req.call, req.part)
      /\ UNCHANGED <<pc, call, result, connected, stream, acked>>
  BY DEF KernelRefuses, client
<1>3. CASE req.from = Nothing
  <2>1. /\ <<req.call, req.part>> \in PartsOfCalls /\ Abandoned[<<req.call, req.part>>] > 0
        /\ Abandoned' = [Abandoned EXCEPT ![<<req.call, req.part>>] = @ - 1]
    BY <1>1, <1>3, AbandonedStep
  <2>2. UNCHANGED State
    BY <1>1, <1>3, AbandonedStep, CallsAssumption DEF State
  <2>3. Promise!AbandonedPart
    BY <1>1, <1>3, <2>1, <2>2 DEF State, Promise!AbandonedPart
  <2> QED
    BY <2>3 DEF Promise!Next
<1>4. CASE req.from # Nothing
  <2>1. PICK c \in Clients :
          /\ c = req.from /\ StateOf(c) = "running" /\ pc[c] = "waiting"
          /\ req.call = call[c] /\ req.part = index[c]
          /\ index[c] \in 1..TotalPartsOf(call[c]) /\ acked[c] = 1..index[c] - 1
    BY <1>1, <1>4, HeadOfRequests
  <2>2. UNCHANGED Abandoned
    BY <1>1, <1>4, AbandonedStep
  <2>3. StateOf(c)' = "refused"
    <3>1. HasReply(c, "error")'
      <4>1. replies' = Append(replies, [from |-> c, kind |-> "error"])
        BY <1>1, <2>1 DEF Answer
      <4>2. replies \in Seq(InReply)
        BY DEF IInv, CallsTypeOK, InReply
      <4> QED
        BY <4>1, <4>2 DEF HasReply
    <3> QED
      BY <1>1, <2>1, <3>1 DEF StateOf
  <2>4. State' = [State EXCEPT ![c] = "refused"]
    <3>1. \A e \in Clients \ {c} : StateOf(e)' = StateOf(e)
      BY <1>1, <2>1, AbandonedStep
    <3> QED
      BY <2>3, <3>1, OneStateChanges
  <2>5. Promise!RefusePart(c)
    BY <1>1, <2>1, <2>2, <2>4 DEF State, Promise!RefusePart, Promise!At, Promise!Total
  <2> QED
    BY <2>5 DEF Promise!Next
<1> QED
  BY <1>3, <1>4

LEMMA ConnForwardsStutters ==
  ASSUME IInv, IInv', ConnForwards
  PROVE  UNCHANGED Promise!vars
<1>1. PICK reply \in InReply :
        /\ reply = replies[1] /\ 1 \in DOMAIN replies /\ replies' = Tail(replies)
        /\ stream' = IF reply.from = Nothing THEN stream
                     ELSE [stream EXCEPT ![reply.from] = reply.kind]
        /\ \A i \in DOMAIN replies' : i + 1 \in DOMAIN replies /\ i + 1 # 1
                                        /\ replies'[i] = replies[i + 1]
        /\ \A i \in DOMAIN replies \ {1} : i - 1 \in DOMAIN replies'
                                          /\ replies'[i - 1] = replies[i]
  <2>1. replies \in Seq(InReply) /\ replies # << >>
    BY DEF ConnForwards, IInv, CallsTypeOK, InReply
  <2> QED
    BY <2>1, TailFacts DEF ConnForwards
<1>2. replies \in Seq(InReply) /\ replies' \in Seq(InReply)
      /\ stream \in [Clients -> {"none", "pending", "ack", "error", "lost"}]
      /\ UNCHANGED <<pc, call, result, acked, connected, requests, device>>
  BY DEF IInv, CallsTypeOK, InReply, ConnForwards, client
<1>3. ASSUME NEW c \in Clients, c # reply.from
      PROVE  StateOf(c)' = StateOf(c)
  <2>1. stream'[c] = stream[c] /\ pc'[c] = pc[c]
    BY <1>1, <1>2, <1>3
  <2>2. ASSUME NEW i \in DOMAIN replies', replies'[i].from = c, replies'[i].kind = "error"
        PROVE  \E j \in DOMAIN replies : replies[j].from = c /\ replies[j].kind = "error"
    BY <1>1, <2>2
  <2>3. ASSUME NEW j \in DOMAIN replies, replies[j].from = c, replies[j].kind = "error"
        PROVE  \E i \in DOMAIN replies' : replies'[i].from = c /\ replies'[i].kind = "error"
    BY <1>1, <1>3, <2>3
  <2>4. HasReply(c, "error")' <=> HasReply(c, "error")
    BY <1>2, <2>2, <2>3, HasReplyFacts, HasReplyNext DEF IInv
  <2> QED
    BY <2>1, <2>4 DEF StateOf
<1>4. ASSUME NEW c \in Clients, c = reply.from
      PROVE  StateOf(c)' = StateOf(c)
  <2>1. stream[c] = "pending" /\ pc[c] = "waiting" /\ c # Nothing /\ pc'[c] = "waiting"
    BY <1>1, <1>2, <1>4, CallsAssumption DEF IInv, StreamsInv, AnswerDue
  <2>2. stream'[c] = reply.kind /\ reply.kind \in {"ack", "error"}
    BY <1>1, <1>2, <1>4, <2>1 DEF InReply
  <2>3. HasReply(c, "error") <=> reply.kind = "error"
    BY <1>1, <1>4, <2>1, HasReplyFacts DEF IInv, QueuesInv
  <2>4. ~ HasReply(c, "error")'
    BY <1>1, <1>2, <1>4, <2>1, ReplyOf DEF HasReply, IInv, QueuesInv
  <2> QED
    BY <2>1, <2>2, <2>3, <2>4 DEF StateOf
<1>5. UNCHANGED State
  BY <1>3, <1>4 DEF State
<1> QED
  BY <1>2, <1>5, AbandonedKept, VarsOfPromise DEF PromiseVars

LEMMA ConnStopsStep ==
  ASSUME IInv, ConnStops
  PROVE  Promise!Next
<1>1. /\ connected' = FALSE /\ Abandoned' = Promise!NoParts
      /\ UNCHANGED <<pc, call, acked, result, device>>
  <2>1. \A p : AbandonedAt(p)' = {}
    BY DEF ConnStops, AbandonedAt
  <2>2. Abandoned' = Promise!NoParts
    BY <2>1, FS_EmptySet DEF Abandoned, Promise!NoParts
  <2> QED BY <2>2 DEF ConnStops, client
<1>2. ASSUME NEW c \in Clients
      PROVE  /\ StateOf(c)' \in {"idle", "running", "refused"}
             /\ \/ StateOf(c)' = StateOf(c)
                \/ StateOf(c) = "refused" /\ StateOf(c)' = "running"
  <2>1. ~ HasReply(c, "error")'
    BY DEF ConnStops, HasReply
  <2>2. stream'[c] = "error" <=> stream[c] = "error"
    BY DEF ConnStops
  <2> QED
    BY <1>1, <2>1, <2>2 DEF StateOf
<1>3. Promise!Disconnect
  BY <1>1, <1>2 DEF State, Promise!Disconnect
<1> QED
  BY <1>3 DEF Promise!Next

LEMMA StutterStutters == UNCHANGED vars => UNCHANGED Promise!vars
<1> SUFFICES ASSUME UNCHANGED vars PROVE UNCHANGED Promise!vars
  OBVIOUS
<1>1. UNCHANGED State /\ UNCHANGED Abandoned
  BY AbandonedKept DEF vars, client, conn, State, StateOf, HasReply
<1> QED
  BY <1>1, VarsOfPromise DEF vars, client, conn, PromiseVars

LEMMA StepPromise == IInv /\ IInv' /\ [Next]_vars => [Promise!Next]_(Promise!vars)
<1> SUFFICES ASSUME IInv, IInv', [Next]_vars
             PROVE  Promise!Next \/ UNCHANGED Promise!vars
  OBVIOUS
<1>1. ASSUME NEW c \in Clients, SetRejected(c) \/ Set(c) \/ ClientStep(c) \/ Cancel(c)
      PROVE  Promise!Next \/ UNCHANGED Promise!vars
  BY <1>1, BeginStep, RequestStutters, RequestFailsStep, ReplyIsErrorStep, NextPartStutters,
     SetReturnsOkStep, CancelStep DEF ClientStep
<1>2. CASE KernelStep \/ ConnForwards \/ ConnStops
  BY <1>2, KernelAppliesStep, KernelRefusesStep, ConnForwardsStutters, ConnStopsStep
     DEF KernelStep
<1>3. CASE AllReturned \/ UNCHANGED vars
  BY <1>3, StutterStutters DEF AllReturned
<1> QED
  BY <1>1, <1>2, <1>3 DEF Next

-----------------------------------------------------------------------------

\* Whatever channel, Connection task, streams and cancelled futures do, the
\* callers of set() get what SetPromise promises them (handle.rs:57-99).
THEOREM SetImplementsPromise == Spec => ImplementsPromise
<1> QED
  BY InitPromise, StepPromise, IInvHolds, PTL DEF Spec, ImplementsPromise, Promise!Spec

-----------------------------------------------------------------------------
(* The device stays a device.                                              *)

\* What build_messages() is trusted to have made of an accepted configuration.
LEMMA BuiltFacts ==
  ASSUME NEW k \in Calls, BuiltOf[k] = "ok"
  PROVE  /\ ConfigOf[k] \in KeyedConfig
         /\ MessagesOf[k] \in Seq(Message) /\ IsSplitOf(ConfigOf[k], MessagesOf[k])
         /\ \A n \in 1..Len(MessagesOf[k]) : MessagesOf[k][n] \in GoodMessages(ConfigOf[k])
<1> DEFINE cfg == ConfigOf[k]
           msgs == MessagesOf[k]
<1>1. /\ cfg \in Config /\ msgs \in Seq(Message) /\ IsSplitOf(cfg, msgs)
      /\ \A p \in PeersOf(cfg) : p.public_key \in Keys
  BY CallsAssumption, TypeAssumption
<1> HIDE DEF cfg, msgs
<1>2. cfg \in KeyedConfig
  <2> DEFINE peers == cfg.peers
  <2>1. peers \in Seq(Peer)
    BY <1>1 DEF Config
  <2>2. \A i \in DOMAIN peers : peers[i] \in KeyedPeer
    <3>1. \A i \in DOMAIN peers : peers[i] \in Peer
      BY <2>1
    <3> QED BY <1>1, <3>1 DEF KeyedPeer, PeersOf
  <2> HIDE DEF peers
  <2>3. peers \in Seq(KeyedPeer)
    BY <2>1, <2>2
  <2> QED BY <1>1, <2>3 DEF KeyedConfig, peers
<1>3. ASSUME NEW n \in 1..Len(msgs) PROVE msgs[n] \in GoodMessages(cfg)
  <2>1. msgs[n] \in Message
    BY <1>1
  <2>2. \A j \in 1..Len(msgs[n].peers) : GoodChunk(cfg, msgs[n].peers[j])
    BY <1>1 DEF IsSplitOf
  <2>3. DOMAIN msgs[n].peers = 1..Len(msgs[n].peers)
    BY <2>1 DEF Message
  <2> QED BY <2>1, <2>2, <2>3 DEF GoodMessages
<1> QED BY <1>1, <1>2, <1>3 DEF cfg, msgs

\* The message at the head of the channel belongs to an accepted call.
LEMMA HeadIsBuilt ==
  ASSUME CallsTypeOK, requests # << >>
  PROVE  LET req == Head(requests)
         IN  /\ req.call \in Calls /\ BuiltOf[req.call] = "ok"
             /\ req.part \in 1..Len(MessagesOf[req.call])
<1>1. PICK req \in InFlight : req = Head(requests) /\ req = requests[1] /\ 1 \in DOMAIN requests
  <2>1. requests \in Seq(InFlight)
    BY DEF CallsTypeOK
  <2> QED BY <2>1, TailFacts
<1>2. req.call \in Calls /\ req.part \in 1..Len(MessagesOf[req.call])
  BY <1>1 DEF CallsTypeOK, InFlight
<1>3. BuiltOf[req.call] = "ok"
  <2>1. SUFFICES ASSUME BuiltOf[req.call] # "ok" PROVE FALSE
    OBVIOUS
  <2>2. Len(MessagesOf[req.call]) = 0
    BY <1>2, <2>1, CallsAssumption
  <2> QED BY <1>2, <2>2
<1> QED BY <1>1, <1>2, <1>3

\* What the kernel makes of it: nothing, or what its first n entries do.
LEMMA KernelTakesEntries ==
  ASSUME CallsTypeOK, KernelApplies \/ KernelRefuses
  PROVE  LET req == Head(requests)
             msg == MessagesOf[req.call][req.part]
         IN  /\ req.call \in Calls /\ BuiltOf[req.call] = "ok"
             /\ msg \in GoodMessages(ConfigOf[req.call])
             /\ \/ device' = device
                \/ \E n \in 0..Len(msg.peers) :
                     device' = ApplyEntries(device, ConfigOf[req.call], msg, n)
             /\ KernelApplies => device' = ApplyMessage(device, ConfigOf[req.call], msg)
<1> DEFINE req == Head(requests)
           msg == MessagesOf[req.call][req.part]
<1>1. requests # << >>
  BY DEF KernelApplies, KernelRefuses
<1>2. /\ req.call \in Calls /\ BuiltOf[req.call] = "ok"
      /\ msg \in GoodMessages(ConfigOf[req.call])
  BY <1>1, HeadIsBuilt, BuiltFacts
<1>3. Len(msg.peers) \in Nat
  BY <1>2 DEF GoodMessages, Message
<1>4. KernelApplies => device' = ApplyMessage(device, ConfigOf[req.call], msg)
  BY DEF KernelApplies, Applied
<1>5. KernelRefuses =>
        \/ device' = device
        \/ \E n \in 0..Len(msg.peers) - 1 :
             device' = ApplyEntries(device, ConfigOf[req.call], msg, n)
  BY DEF KernelRefuses, PartlyApplied
<1> HIDE DEF req, msg
<1>6. \/ device' = device
      \/ \E n \in 0..Len(msg.peers) :
           device' = ApplyEntries(device, ConfigOf[req.call], msg, n)
  BY <1>3, <1>4, <1>5 DEF ApplyMessage
<1> QED BY <1>2, <1>4, <1>6 DEF req, msg

LEMMA OthersKeepDevice ==
  ASSUME [Next]_vars, ~ KernelApplies, ~ KernelRefuses PROVE device' = device
BY DEF Next, vars, SetRejected, Set, Begin, ClientStep, Request, RequestFails, ReplyIsError,
       NextPart, SetReturnsOk, Cancel, KernelStep, ConnForwards, ConnStops, AllReturned

DeviceInv == device \in Device

LEMMA StepKeepsDevice == IInv /\ DeviceInv /\ [Next]_vars => DeviceInv'
<1> SUFFICES ASSUME IInv, device \in Device, [Next]_vars PROVE device' \in Device
  BY DEF DeviceInv
<1>1. CASE KernelApplies \/ KernelRefuses
  BY <1>1, KernelTakesEntries, BuiltFacts, ApplyEntriesIsDevice DEF IInv
<1> QED BY <1>1, OthersKeepDevice

LEMMA DeviceHolds == Spec => []DeviceInv
<1>1. Init => DeviceInv
  BY CallsAssumption DEF Init, DeviceInv
<1> QED BY <1>1, StepKeepsDevice, IInvHolds, PTL DEF Spec

\* Whatever the calls do, and however far the kernel gets with a message that
\* it refuses, the device has a value for every peer and every allowed IP
\* belongs to one peer or to none (handle.rs:73, parsed.rs:442-443).
THEOREM SetIsTyped == Spec => []TypeOK
<1>1. IInv /\ DeviceInv => TypeOK
  BY DEF IInv, TypeOK, DeviceInv
<1> QED BY <1>1, IInvHolds, DeviceHolds, PTL

-----------------------------------------------------------------------------
(* The configurations of a client, seen from the clients it is apart from. *)

OkCalls(c) == {k \in CallsOf[c] : BuiltOf[k] = "ok"}

\* Only what the device holds of the peers and allowed IPs of c is in its view.
LEMMA ViewIsAgree ==
  ASSUME NEW c, NEW dev, NEW other
  PROVE  View(dev, c) = View(other, c) <=> Agree(dev, other, KeysNamed(c), IpsNamed(c))
<1> DEFINE keys == KeysNamed(c)
           ips == IpsNamed(c)
           P(x) == [key \in keys |-> x.peers[key]]
           O(x) == [ip \in ips |-> x.owner[ip]]
<1> HIDE DEF keys, ips
<1>1. P(dev) = P(other) <=> \A key \in keys : dev.peers[key] = other.peers[key]
  <2>1. ASSUME P(dev) = P(other), NEW key \in keys PROVE dev.peers[key] = other.peers[key]
    <3>1. P(dev)[key] = P(other)[key]
      BY <2>1
    <3> QED BY <3>1
  <2> QED BY <2>1
<1>2. O(dev) = O(other) <=> \A ip \in ips : dev.owner[ip] = other.owner[ip]
  <2>1. ASSUME O(dev) = O(other), NEW ip \in ips PROVE dev.owner[ip] = other.owner[ip]
    <3>1. O(dev)[ip] = O(other)[ip]
      BY <2>1
    <3> QED BY <3>1
  <2> QED BY <2>1
<1>3. View(dev, c) = View(other, c) <=> P(dev) = P(other) /\ O(dev) = O(other)
  BY DEF View, keys, ips
<1> QED BY <1>1, <1>2, <1>3 DEF Agree, keys, ips

LEMMA NamedTypes ==
  ASSUME NEW c \in Clients
  PROVE  KeysNamed(c) \in SUBSET Keys /\ IpsNamed(c) \in SUBSET Ips
<1>1. SUFFICES ASSUME NEW j \in CallsOf[c], NEW p \in PeersOf(ConfigOf[j]),
                      NEW i \in DOMAIN p.allowed_ips
               PROVE  p.allowed_ips[i].ip \in Ips
  BY DEF IpsNamed, KeysNamed
<1>2. ConfigOf[j] \in Config
  BY CallsAssumption, TypeAssumption
<1>3. p \in Peer
  <2> DEFINE peers == ConfigOf[j].peers
  <2>1. peers \in Seq(Peer) /\ \E n \in DOMAIN peers : p = peers[n]
    BY <1>2 DEF Config, PeersOf
  <2> HIDE DEF peers
  <2> QED BY <2>1
<1> DEFINE list == p.allowed_ips
<1>4. list \in Seq(AllowedIp) /\ i \in DOMAIN list
  BY <1>3 DEF Peer, PeerFields
<1> HIDE DEF list
<1>5. list[i] \in AllowedIp
  BY <1>4
<1> QED BY <1>5 DEF list, AllowedIp

LEMMA CallIsOwn ==
  ASSUME NEW c \in Clients, NEW k \in OkCalls(c)
  PROVE  /\ k \in Calls /\ k \in CallsOf[c] /\ BuiltOf[k] = "ok"
         /\ KeysNamed(c) \in SUBSET Keys /\ IpsNamed(c) \in SUBSET Ips
         /\ IsAbout(ConfigOf[k], KeysNamed(c), IpsNamed(c))
<1>1. k \in Calls /\ k \in CallsOf[c] /\ BuiltOf[k] = "ok"
  BY CallsAssumption DEF OkCalls
<1>2. ConfigOf[k] \in KeyedConfig
  BY <1>1, BuiltFacts
<1>3. ASSUME NEW i \in 1..Len(ConfigOf[k].peers)
      PROVE  /\ ConfigOf[k].peers[i].public_key \in KeysNamed(c)
             /\ IpsWithin(ConfigOf[k].peers[i], IpsNamed(c))
  <2> DEFINE p == ConfigOf[k].peers[i]
             all == UNION {PeersOf(ConfigOf[j]) : j \in CallsOf[c]}
  <2>1. p \in PeersOf(ConfigOf[k]) /\ p.public_key \in Keys
    <3>1. i \in DOMAIN ConfigOf[k].peers /\ p \in KeyedPeer
      BY <1>2, KeyedConfigFacts
    <3> QED BY <3>1, KeyedPeerFacts DEF PeersOf
  <2>2. p \in all
    BY <1>1, <2>1
  <2> HIDE DEF all, p
  <2>3. p.public_key \in KeysNamed(c)
    BY <2>1, <2>2 DEF KeysNamed, all
  <2>4. \A j \in DOMAIN p.allowed_ips : p.allowed_ips[j].ip \in IpsNamed(c)
    BY <2>2 DEF IpsNamed, all
  <2> QED BY <2>3, <2>4 DEF IpsWithin, p
<1> QED BY <1>1, <1>3, NamedTypes DEF IsAbout

LEMMA CallIsOthers ==
  ASSUME NEW c \in Clients, NEW e \in Clients, Apart(c, e), NEW k \in OkCalls(e)
  PROVE  /\ IsNotAbout(ConfigOf[k], KeysNamed(c), IpsNamed(c))
         /\ \A i \in 1..Len(ConfigOf[k].peers) : ConfigOf[k].peers[i].public_key \in KeysNamed(e)
<1>1. /\ k \in Calls /\ k \in CallsOf[e] /\ BuiltOf[k] = "ok"
      /\ IsAbout(ConfigOf[k], KeysNamed(e), IpsNamed(e))
  BY CallIsOwn
<1>2. ConfigOf[k].replace_peers = FALSE
  <2>1. ConfigOf[k] \in Config /\ ~ ConfigOf[k].replace_peers
    BY <1>1, CallsAssumption, TypeAssumption DEF Apart
  <2>2. ConfigOf[k].replace_peers \in BOOLEAN
    BY <2>1 DEF Config
  <2> QED BY <2>1, <2>2
<1>3. KeysNamed(c) \cap KeysNamed(e) = {} /\ IpsNamed(c) \cap IpsNamed(e) = {}
  BY DEF Apart
<1>4. \A i \in 1..Len(ConfigOf[k].peers) :
        /\ ConfigOf[k].peers[i].public_key \notin KeysNamed(c)
        /\ IpsOutside(ConfigOf[k].peers[i], IpsNamed(c))
  BY <1>1, <1>3 DEF IsAbout, IpsWithin, IpsOutside
<1> QED BY <1>1, <1>2, <1>4 DEF IsNotAbout, IsAbout

-----------------------------------------------------------------------------
(* The inductive invariant.                                                *)

\* How many of its calls a client is done with, and whether all were Ok.
Due(c) == IF pc[c] = "idle" THEN calls[c] ELSE calls[c] - 1
AllOk(c) == Len(finished[c]) = Due(c)

FinishedInv ==
  \A c \in Clients : finished[c] \in Seq(OkCalls(c)) /\ Len(finished[c]) <= Due(c)

\* A message that nobody waits for is of a client which cancelled a call.
OrphansInv ==
  \A i \in DOMAIN requests :
    requests[i].from = Nothing =>
      \E c \in Clients : requests[i].call \in CallsOf[c] /\ ~ AllOk(c)

OthersApart(c) == \A e \in Clients \ {c} : Apart(c, e)

\* No peer of the others ever gets an allowed IP of c.
OwnersInv ==
  \A c \in Clients :
    OthersApart(c) =>
      \A e \in Clients \ {c} : \A ip \in IpsNamed(c) : device.owner[ip] \notin KeysNamed(e)

\* One call after the other, each applied whole.
WholeStep(env, dev, k) == ApplyWhole(dev, ConfigOf[k])

OverCalls == INSTANCE FoldInduction WITH op <- WholeStep

Alone(c) == OverCalls!Fold(0, start, finished[c])

\* And the first n parts of the call c is at.
WithParts(c, n) ==
  ApplyMessages(Alone(c), ConfigOf[call[c]], SubSeq(MessagesOf[call[c]], 1, n))

NoneSplits(c) == \A k \in CallsOf[c] : ~ SplitsUpdateOnly(ConfigOf[k], MessagesOf[k])

\* As long as all calls of c were Ok, it finds what they have made on their own,
\* and what its current call has made of it part by part.
ViewInv ==
  connected =>
    \A c \in Clients :
      OthersApart(c) /\ NoneSplits(c) /\ AllOk(c) =>
        IF pc[c] = "idle" THEN View(device, c) = View(Alone(c), c)
        ELSE StateOf(c) # "refused" =>
               \A n \in 0..TotalParts(c) :
                 acked[c] = 1..n => View(device, c) = View(WithParts(c, n), c)

MixInv == FinishedInv /\ OrphansInv /\ OwnersInv /\ ViewInv

-----------------------------------------------------------------------------
(* How the books of a client change.                                       *)

Quiet(c) ==
  /\ pc'[c] = "idle" <=> pc[c] = "idle"
  /\ call'[c] = call[c] /\ calls'[c] = calls[c] /\ finished'[c] = finished[c]

Starts(c) ==
  /\ pc[c] = "idle" /\ pc'[c] # "idle"
  /\ calls'[c] = calls[c] + 1 /\ finished'[c] = finished[c]

Fails(c) ==
  /\ finished'[c] = finished[c]
  /\ \/ pc[c] = "idle" /\ pc'[c] = "idle" /\ calls'[c] = calls[c] + 1
     \/ pc[c] # "idle" /\ pc'[c] = "idle" /\ calls'[c] = calls[c]

Succeeds(c) ==
  /\ pc[c] # "idle" /\ pc'[c] = "idle" /\ calls'[c] = calls[c]
  /\ finished'[c] = Append(finished[c], call[c])

LEMMA QuietStep == UNCHANGED <<pc, call, calls, finished>> => \A c \in Clients : Quiet(c)
BY DEF Quiet

LEMMA Books ==
  ASSUME IInv, [Next]_vars
  PROVE  \A c \in Clients :
           \/ Quiet(c)
           \/ Set(c) /\ Starts(c)
           \/ (SetRejected(c) \/ RequestFails(c) \/ ReplyIsError(c) \/ Cancel(c)) /\ Fails(c)
           \/ SetReturnsOk(c) /\ Succeeds(c)
<1> SUFFICES ASSUME NEW c \in Clients
             PROVE  \/ Quiet(c)
                    \/ Set(c) /\ Starts(c)
                    \/ (SetRejected(c) \/ RequestFails(c) \/ ReplyIsError(c) \/ Cancel(c)) /\ Fails(c)
                    \/ SetReturnsOk(c) /\ Succeeds(c)
  OBVIOUS
<1> USE DEF IInv, CallsTypeOK
<1>1. ASSUME NEW e \in Clients \ {c}, SetRejected(e) \/ Set(e) \/ ClientStep(e) \/ Cancel(e)
      PROVE  Quiet(c)
  <2>1. CASE SetRejected(e) \/ Set(e)
    BY <1>1, <2>1 DEF SetRejected, Set, Begin, Quiet
  <2>2. CASE Request(e) \/ NextPart(e)
    BY <1>1, <2>2 DEF Request, NextPart, Quiet
  <2>3. CASE RequestFails(e) \/ ReplyIsError(e) \/ SetReturnsOk(e) \/ Cancel(e)
    BY <1>1, <2>3 DEF RequestFails, ReplyIsError, SetReturnsOk, Cancel, Return, Quiet
  <2> QED BY <1>1, <2>1, <2>2, <2>3 DEF ClientStep
<1>2. CASE SetRejected(c)
  BY <1>2 DEF SetRejected, Begin, Fails
<1>3. CASE Set(c)
  BY <1>3 DEF Set, Begin, Starts
<1>4. CASE Request(c) \/ NextPart(c)
  BY <1>4 DEF Request, NextPart, ReplyEnded, Quiet
<1>5. CASE RequestFails(c) \/ ReplyIsError(c) \/ Cancel(c)
  BY <1>5 DEF RequestFails, ReplyIsError, Cancel, Return, Outcome, Fails
<1>6. CASE SetReturnsOk(c)
  BY <1>6 DEF SetReturnsOk, ReplyEnded, Return, Outcome, Succeeds
<1>7. CASE KernelApplies \/ KernelRefuses \/ ConnForwards \/ ConnStops \/ AllReturned \/ UNCHANGED vars
  BY <1>7, QuietStep DEF KernelApplies, KernelRefuses, ConnForwards, ConnStops, AllReturned,
                         vars, client
<1> QED BY <1>1, <1>2, <1>3, <1>4, <1>5, <1>6, <1>7 DEF Next, ClientStep, KernelStep

LEMMA DueFacts ==
  ASSUME CallsTypeOK, NEW c \in Clients
  PROVE  /\ calls[c] \in Nat /\ Due(c) \in Int
         /\ pc[c] = "idle" => Due(c) = calls[c]
         /\ pc[c] # "idle" => Due(c) = calls[c] - 1
BY CallsAssumption DEF CallsTypeOK, Due

LEMMA FinishedFacts ==
  ASSUME FinishedInv, NEW c \in Clients
  PROVE  finished[c] \in Seq(OkCalls(c)) /\ Len(finished[c]) \in Nat /\ Len(finished[c]) <= Due(c)
<1>1. finished[c] \in Seq(OkCalls(c)) /\ Len(finished[c]) <= Due(c)
  BY DEF FinishedInv
<1> DEFINE q == finished[c]
           S == OkCalls(c)
<1>2. q \in Seq(S)
  BY <1>1
<1> HIDE DEF q, S
<1>3. Len(q) \in Nat
  BY <1>2
<1> QED BY <1>1, <1>3 DEF q

\* The call that a client is at was accepted.
LEMMA CurrentIsOk ==
  ASSUME CallsTypeOK, NEW c \in Clients, pc[c] # "idle"
  PROVE  call[c] \in OkCalls(c) /\ index[c] \in 1..TotalParts(c) /\ TotalParts(c) \in Nat
<1>1. /\ call[c] \in CallsOf[c] /\ call[c] \in Calls /\ index[c] \in 1..TotalParts(c)
  BY CallsAssumption DEF CallsTypeOK
<1>2. BuiltOf[call[c]] = "ok"
  <2>1. SUFFICES ASSUME BuiltOf[call[c]] # "ok" PROVE FALSE
    OBVIOUS
  <2>2. Len(MessagesOf[call[c]]) = 0
    BY <1>1, <2>1, CallsAssumption
  <2> QED BY <1>1, <2>2 DEF TotalParts
<1>3. TotalParts(c) \in Nat
  <2>1. MessagesOf[call[c]] \in Seq(Message)
    BY <1>1, CallsAssumption
  <2> QED BY <2>1 DEF TotalParts
<1> QED BY <1>1, <1>2, <1>3 DEF OkCalls

\* Once a call of a client has failed, it will not be said to have had no
\* failures.
LEMMA BooksKept ==
  ASSUME IInv, IInv', FinishedInv, [Next]_vars, NEW c \in Clients
  PROVE  /\ finished'[c] \in Seq(OkCalls(c)) /\ Len(finished'[c]) <= Due(c)'
         /\ AllOk(c)' => AllOk(c)
<1>1. /\ calls[c] \in Nat /\ Due(c) \in Int
      /\ pc[c] = "idle" => Due(c) = calls[c]
      /\ pc[c] # "idle" => Due(c) = calls[c] - 1
  BY DueFacts DEF IInv
<1>2. /\ pc'[c] = "idle" => Due(c)' = calls'[c]
      /\ pc'[c] # "idle" => Due(c)' = calls'[c] - 1
  BY DEF Due
<1>3. finished[c] \in Seq(OkCalls(c)) /\ Len(finished[c]) \in Nat /\ Len(finished[c]) <= Due(c)
  BY FinishedFacts
<1>4. CASE Quiet(c) \/ Starts(c) \/ Fails(c)
  <2>1. finished'[c] = finished[c]
    BY <1>4 DEF Quiet, Starts, Fails
  <2>2. Due(c)' \in {Due(c), Due(c) + 1}
    BY <1>1, <1>2, <1>4 DEF Quiet, Starts, Fails
  <2> QED BY <1>1, <1>3, <2>1, <2>2 DEF AllOk
<1>5. CASE Succeeds(c)
  <2>1. pc[c] # "idle" /\ pc'[c] = "idle" /\ calls'[c] = calls[c]
        /\ finished'[c] = Append(finished[c], call[c])
    BY <1>5 DEF Succeeds
  <2>2. call[c] \in OkCalls(c)
    BY <2>1, CurrentIsOk DEF IInv
  <2>3. finished'[c] \in Seq(OkCalls(c)) /\ Len(finished'[c]) = Len(finished[c]) + 1
    BY <1>3, <2>1, <2>2, AppendProperties
  <2>4. Due(c)' = Due(c) + 1
    BY <1>1, <1>2, <2>1
  <2> QED BY <1>1, <1>3, <2>3, <2>4 DEF AllOk
<1> QED BY <1>4, <1>5, Books

LEMMA StepKeepsFinished ==
  ASSUME IInv, IInv', FinishedInv, [Next]_vars
  PROVE  FinishedInv'
BY BooksKept DEF FinishedInv, OkCalls

\* A call that ends without Ok is counted.
LEMMA FailureCounts ==
  ASSUME IInv, FinishedInv, NEW c \in Clients, Fails(c)
  PROVE  ~ AllOk(c)'
<1>1. /\ calls[c] \in Nat /\ Due(c) \in Int
      /\ pc[c] = "idle" => Due(c) = calls[c]
      /\ pc[c] # "idle" => Due(c) = calls[c] - 1
  BY DueFacts DEF IInv
<1>2. Due(c)' = Due(c) + 1 /\ finished'[c] = finished[c]
  BY <1>1 DEF Fails, Due
<1> QED BY <1>1, <1>2, FinishedFacts DEF AllOk

LEMMA StepKeepsOrphans ==
  ASSUME IInv, IInv', FinishedInv, OrphansInv, [Next]_vars
  PROVE  OrphansInv'
<1> SUFFICES ASSUME NEW i \in DOMAIN requests', requests'[i].from = Nothing
             PROVE  \E c \in Clients : requests'[i].call \in CallsOf[c] /\ ~ AllOk(c)'
  BY DEF OrphansInv
<1>k. \A c \in Clients : AllOk(c)' => AllOk(c)
  BY BooksKept
<1>o. ASSUME NEW j \in DOMAIN requests, requests'[i].call = requests[j].call, requests[j].from = Nothing
      PROVE  \E c \in Clients : requests'[i].call \in CallsOf[c] /\ ~ AllOk(c)'
  BY <1>k, <1>o DEF OrphansInv
<1>s. requests \in Seq(InFlight)
  BY DEF IInv, CallsTypeOK
<1>1. CASE UNCHANGED requests
  BY <1>o, <1>1
<1>2. ASSUME NEW c \in Clients, Request(c)
      PROVE  \E j \in DOMAIN requests : requests'[i] = requests[j]
  <2> DEFINE req == [from |-> c, call |-> call[c], part |-> index[c]]
  <2>1. requests' = Append(requests, req) /\ req \in InFlight /\ req.from = c
    BY <1>2, CallsAssumption DEF Request, IInv, CallsTypeOK, InFlight
  <2> HIDE DEF req
  <2>2. /\ DOMAIN requests' = DOMAIN requests \cup {Len(requests) + 1}
        /\ requests'[Len(requests) + 1] = req
        /\ \A j \in DOMAIN requests : requests'[j] = requests[j]
    BY <1>s, <2>1, AppendFacts
  <2> QED BY <2>1, <2>2, CallsAssumption
<1>3. ASSUME NEW c \in Clients, Cancel(c)
      PROVE  \E e \in Clients : requests'[i].call \in CallsOf[e] /\ ~ AllOk(e)'
  <2>1. requests' = Disown(requests, c) /\ pc[c] # "idle"
    BY <1>3 DEF Cancel
  <2>2. /\ i \in DOMAIN requests /\ requests'[i].call = requests[i].call
        /\ requests[i].from = c \/ requests[i].from = Nothing
    BY <1>s, <2>1, DisownFacts
  <2>3. CASE requests[i].from = c
    <3>1. requests[i].call = call[c]
      BY <2>2, <2>3, CallsAssumption DEF IInv, RequestsInv
    <3>2. call[c] \in CallsOf[c]
      BY <2>1, CurrentIsOk DEF IInv, OkCalls
    <3>3. Fails(c)
      BY <1>3 DEF Cancel, Return, Outcome, Fails, IInv, CallsTypeOK
    <3> QED BY <2>2, <3>1, <3>2, <3>3, FailureCounts
  <2>4. CASE requests[i].from = Nothing
    BY <1>o, <2>2, <2>4
  <2> QED BY <2>2, <2>3, <2>4
<1>4. ASSUME KernelApplies \/ KernelRefuses
      PROVE  \E j \in DOMAIN requests : requests'[i] = requests[j]
  <2>1. requests' = Tail(requests) /\ requests # << >>
    BY <1>4 DEF KernelApplies, KernelRefuses, Answer
  <2> QED BY <1>s, <2>1, TailFacts
<1>5. CASE ConnStops
  BY <1>5 DEF ConnStops
<1>6. ASSUME NEW c \in Clients,
             SetRejected(c) \/ Set(c) \/ RequestFails(c) \/ ReplyIsError(c) \/ NextPart(c) \/ SetReturnsOk(c)
      PROVE  UNCHANGED requests
  BY <1>6 DEF SetRejected, Set, Begin, RequestFails, ReplyIsError, NextPart, SetReturnsOk, conn
<1>7. ASSUME ConnForwards \/ AllReturned \/ UNCHANGED vars PROVE UNCHANGED requests
  BY <1>7 DEF ConnForwards, AllReturned, vars, conn
<1> QED BY <1>1, <1>2, <1>3, <1>4, <1>5, <1>6, <1>7, <1>o DEF Next, ClientStep, KernelStep

-----------------------------------------------------------------------------
(* Whose entries the kernel takes.                                         *)

LEMMA WhoseEntries ==
  ASSUME IInv, OrphansInv, KernelApplies \/ KernelRefuses
  PROVE  \E e \in Clients :
           /\ Head(requests).call \in OkCalls(e)
           /\ \/ Head(requests).from = e
              \/ Head(requests).from = Nothing /\ ~ AllOk(e)
<1>1. requests # << >>
  BY DEF KernelApplies, KernelRefuses
<1>2. Head(requests) = requests[1] /\ 1 \in DOMAIN requests /\ Head(requests) \in InFlight
  <2>1. requests \in Seq(InFlight)
    BY DEF IInv, CallsTypeOK
  <2> QED BY <1>1, <2>1, TailFacts
<1>3. BuiltOf[Head(requests).call] = "ok"
  BY <1>1, HeadIsBuilt DEF IInv
<1>4. CASE Head(requests).from = Nothing
  BY <1>2, <1>3, <1>4 DEF OrphansInv, OkCalls
<1>5. CASE Head(requests).from # Nothing
  <2>1. PICK e \in Clients : /\ e = Head(requests).from /\ pc[e] = "waiting"
                             /\ Head(requests).call = call[e]
    BY <1>1, <1>5, HeadOfRequests
  <2>2. call[e] \in CallsOf[e]
    BY <2>1, CurrentIsOk DEF IInv, OkCalls
  <2> QED BY <1>3, <2>1, <2>2 DEF OkCalls
<1> QED BY <1>4, <1>5

\* The entries of another client are not seen in the view of c.
LEMMA OthersEntries ==
  ASSUME IInv, DeviceInv, OwnersInv, KernelApplies \/ KernelRefuses,
         NEW c \in Clients, OthersApart(c),
         NEW e \in Clients, e # c, Head(requests).call \in OkCalls(e)
  PROVE  Agree(device', device, KeysNamed(c), IpsNamed(c))
<1> DEFINE k == Head(requests).call
           msg == MessagesOf[k][Head(requests).part]
<1>1. /\ k \in Calls /\ BuiltOf[k] = "ok" /\ msg \in GoodMessages(ConfigOf[k])
      /\ \/ device' = device
         \/ \E n \in 0..Len(msg.peers) : device' = ApplyEntries(device, ConfigOf[k], msg, n)
  BY KernelTakesEntries DEF IInv
<1> HIDE DEF k, msg
<1>2. ConfigOf[k] \in KeyedConfig /\ k \in OkCalls(e)
  BY <1>1, BuiltFacts DEF k
<1>3. /\ IsNotAbout(ConfigOf[k], KeysNamed(c), IpsNamed(c))
      /\ \A i \in 1..Len(ConfigOf[k].peers) : ConfigOf[k].peers[i].public_key \in KeysNamed(e)
  BY <1>2, CallIsOthers DEF OthersApart
<1>4. \A ip \in IpsNamed(c) : \A i \in 1..Len(ConfigOf[k].peers) :
        device.owner[ip] # ConfigOf[k].peers[i].public_key
  BY <1>3 DEF OwnersInv
<1>5. KeysNamed(c) \in SUBSET Keys /\ IpsNamed(c) \in SUBSET Ips
  BY NamedTypes
<1>6. CASE device' = device
  BY <1>6 DEF Agree
<1>7. ASSUME NEW n \in 0..Len(msg.peers), device' = ApplyEntries(device, ConfigOf[k], msg, n)
      PROVE  Agree(device', device, KeysNamed(c), IpsNamed(c))
  BY <1>1, <1>2, <1>3, <1>4, <1>5, <1>7, EntriesLeave DEF DeviceInv
<1> QED BY <1>1, <1>6, <1>7

LEMMA StepKeepsOwners ==
  ASSUME IInv, DeviceInv, OrphansInv, OwnersInv, [Next]_vars
  PROVE  OwnersInv'
<1>1. start' = start
  BY DEF Next, vars, SetRejected, Set, Begin, ClientStep, Request, RequestFails, ReplyIsError,
         NextPart, SetReturnsOk, Cancel, KernelStep, KernelApplies, KernelRefuses, ConnForwards,
         ConnStops, AllReturned
<1> SUFFICES ASSUME NEW c \in Clients, OthersApart(c)', NEW e \in Clients \ {c},
                    NEW ip \in IpsNamed(c)
             PROVE  device'.owner[ip] \notin KeysNamed(e)
  BY DEF OwnersInv, IpsNamed, KeysNamed
<1>2. OthersApart(c)
  BY <1>1 DEF OthersApart, Apart, KeysNamed, IpsNamed
<1>3. device.owner[ip] \notin KeysNamed(e)
  BY <1>2 DEF OwnersInv
<1>4. CASE KernelApplies \/ KernelRefuses
  <2>1. PICK f \in Clients : Head(requests).call \in OkCalls(f)
    BY <1>4, WhoseEntries
  <2>2. CASE f # c
    BY <1>2, <1>3, <1>4, <2>1, <2>2, OthersEntries DEF Agree
  <2>3. CASE f = c
    <3> DEFINE k == Head(requests).call
               msg == MessagesOf[k][Head(requests).part]
    <3>1. /\ k \in Calls /\ BuiltOf[k] = "ok" /\ msg \in GoodMessages(ConfigOf[k])
          /\ \/ device' = device
             \/ \E n \in 0..Len(msg.peers) : device' = ApplyEntries(device, ConfigOf[k], msg, n)
      BY <1>4, KernelTakesEntries DEF IInv
    <3>2. /\ ConfigOf[k] \in KeyedConfig /\ IsAbout(ConfigOf[k], KeysNamed(c), IpsNamed(c))
          /\ IpsNamed(c) \in SUBSET Ips
      BY <2>1, <2>3, <3>1, BuiltFacts, CallIsOwn
    <3> HIDE DEF k, msg
    <3>3. device'.owner[ip] \in {device.owner[ip], Nobody} \cup KeysNamed(c)
      BY <3>1, <3>2, EntriesOwners DEF DeviceInv
    <3>4. KeysNamed(c) \cap KeysNamed(e) = {} /\ Nobody \notin KeysNamed(e)
      BY <1>2, SentinelAssumption DEF OthersApart, Apart, KeysNamed
    <3> QED BY <1>3, <3>3, <3>4
  <2> QED BY <2>2, <2>3
<1>5. CASE ~ (KernelApplies \/ KernelRefuses)
  BY <1>3, <1>5, OthersKeepDevice
<1> QED BY <1>4, <1>5

-----------------------------------------------------------------------------
(* What c finds in the device.                                             *)

LEMMA AloneFacts ==
  ASSUME DeviceInv, FinishedInv, IInv, NEW c \in Clients
  PROVE  /\ Alone(c) \in Device
         /\ \A k \in OkCalls(c) :
              OverCalls!Fold(0, start, Append(finished[c], k)) = ApplyWhole(Alone(c), ConfigOf[k])
<1>1. start \in Device /\ finished[c] \in Seq(OkCalls(c))
  BY CallsAssumption DEF IInv, CallsTypeOK, FinishedInv
<1>2. \A dev \in Device, k \in OkCalls(c) : WholeStep(0, dev, k) \in Device
  BY CallIsOwn, BuiltFacts, ApplyWholeIsDevice DEF WholeStep
<1> DEFINE S == OkCalls(c)
           q == finished[c]
<1> HIDE DEF S, q
<1>3. OverCalls!Fold(0, start, q) \in Device
  BY <1>1, <1>2, OverCalls!FoldInvariant DEF S, q
<1>4. \A k \in S : OverCalls!Fold(0, start, Append(q, k))
                     = WholeStep(0, OverCalls!Fold(0, start, q), k)
  BY <1>1, OverCalls!FoldAppend DEF S, q
<1> QED BY <1>3, <1>4 DEF Alone, S, q, WholeStep

\* The call c is at, part by part.
LEMMA WithPartsFacts ==
  ASSUME DeviceInv, FinishedInv, IInv, NEW c \in Clients, NEW k \in OkCalls(c)
  PROVE  LET cfg == ConfigOf[k]
             msgs == MessagesOf[k]
             Parts(n) == ApplyMessages(Alone(c), cfg, SubSeq(msgs, 1, n))
         IN  /\ Parts(0) = Alone(c)
             /\ \A n \in 1..Len(msgs) : Parts(n) = ApplyMessage(Parts(n - 1), cfg, msgs[n])
             /\ \A n \in 0..Len(msgs) : Parts(n) \in Device
             /\ ~ SplitsUpdateOnly(cfg, msgs) => Parts(Len(msgs)) = ApplyWhole(Alone(c), cfg)
<1> DEFINE cfg == ConfigOf[k]
           msgs == MessagesOf[k]
           base == Alone(c)
           Parts(n) == ApplyMessages(base, cfg, SubSeq(msgs, 1, n))
<1>1. /\ cfg \in KeyedConfig /\ msgs \in Seq(Message) /\ IsSplitOf(cfg, msgs)
      /\ \A n \in 1..Len(msgs) : msgs[n] \in GoodMessages(cfg)
      /\ base \in Device
  BY CallIsOwn, BuiltFacts, AloneFacts
<1> HIDE DEF cfg, msgs, base
<1>2. Len(msgs) \in Nat /\ SubSeq(msgs, 1, Len(msgs)) = msgs
  BY <1>1
<1>3. Parts(0) = base
  <2> DEFINE none == << >>
  <2>1. SubSeq(msgs, 1, 0) = none
    BY <1>1
  <2>2. OverMessages!Fold(cfg, base, none) = base
    BY OverMessages!FoldEmpty
  <2> HIDE DEF none
  <2> QED BY <2>1, <2>2, ApplyMessagesFold
<1>4. ASSUME NEW n \in 1..Len(msgs) PROVE Parts(n) = ApplyMessage(Parts(n - 1), cfg, msgs[n])
  <2>1. OverMessages!Fold(cfg, base, SubSeq(msgs, 1, n))
          = MessageStep(cfg, OverMessages!Fold(cfg, base, SubSeq(msgs, 1, n - 1)), msgs[n])
    BY <1>1, OverMessages!FoldNext
  <2> QED BY <2>1, ApplyMessagesFold DEF MessageStep
<1>5. \A n \in 0..Len(msgs) : Parts(n) \in Device
  <2> DEFINE S == {n \in Nat : n <= Len(msgs) => Parts(n) \in Device}
  <2>1. 0 \in S
    BY <1>1, <1>3
  <2>2. ASSUME NEW n \in Nat, n \in S PROVE n + 1 \in S
    <3>1. SUFFICES ASSUME n + 1 <= Len(msgs) PROVE Parts(n + 1) \in Device
      OBVIOUS
    <3>2. Parts(n) \in Device /\ n + 1 \in 1..Len(msgs) /\ (n + 1) - 1 = n
      BY <1>2, <2>2, <3>1
    <3>3. Parts(n + 1) = ApplyMessage(Parts((n + 1) - 1), cfg, msgs[n + 1])
      <4> HIDE DEF Parts
      <4> QED BY <1>4, <3>2
    <3> HIDE DEF Parts
    <3> QED BY <1>1, <3>2, <3>3, ApplyMessageIsDevice
  <2>3. Nat \subseteq S
    <3> HIDE DEF S
    <3> QED BY <2>1, <2>2, OverMessages!SetInduction
  <2> HIDE DEF Parts
  <2> QED BY <1>2, <2>3
<1>6. ~ SplitsUpdateOnly(cfg, msgs) => Parts(Len(msgs)) = ApplyWhole(base, cfg)
  BY <1>1, <1>2, PiecesMakeTheWhole
<1> QED BY <1>3, <1>4, <1>5, <1>6 DEF cfg, msgs, base

\* What the invariant says of one client.
Found(c) ==
  IF pc[c] = "idle" THEN View(device, c) = View(Alone(c), c)
  ELSE StateOf(c) # "refused" =>
         \A n \in 0..TotalParts(c) :
           acked[c] = 1..n => View(device, c) = View(WithParts(c, n), c)

\* A step that leaves a client where it is and does not change its view.
LEMMA FoundKept ==
  ASSUME NEW c \in Clients, Found(c), Quiet(c),
         acked'[c] = acked[c], StateOf(c)' = StateOf(c), start' = start,
         View(device, c)' = View(device, c)
  PROVE  Found(c)'
<1>1. Alone(c)' = Alone(c) /\ TotalParts(c)' = TotalParts(c)
  BY DEF Quiet, Alone, TotalParts
<1>2. \A n : WithParts(c, n)' = WithParts(c, n)
  BY <1>1 DEF Quiet, WithParts
<1>3. View(Alone(c), c)' = View(Alone(c), c)
      /\ \A n : View(WithParts(c, n), c)' = View(WithParts(c, n), c)
  BY <1>1, <1>2 DEF View, KeysNamed, IpsNamed
<1> QED BY <1>1, <1>3 DEF Found, Quiet

LEMMA SameDeviceSameView ==
  ASSUME NEW c, device' = device PROVE View(device, c)' = View(device, c)
BY DEF View, KeysNamed, IpsNamed

LEMMA SameReplies ==
  ASSUME NEW c, UNCHANGED replies, pc'[c] = pc[c], stream'[c] = stream[c]
  PROVE  StateOf(c)' = StateOf(c)
BY DEF StateOf, HasReply

LEMMA PromiseKeepsState ==
  ASSUME UNCHANGED Promise!vars, NEW c \in Clients
  PROVE  StateOf(c)' = StateOf(c) /\ acked'[c] = acked[c]
<1>1. [e \in Clients |-> StateOf(e)]' = [e \in Clients |-> StateOf(e)] /\ acked' = acked
  BY DEF Promise!vars
<1>2. [e \in Clients |-> StateOf(e)'][c] = [e \in Clients |-> StateOf(e)][c]
  BY <1>1
<1> QED BY <1>1, <1>2

\* Clients other than the one that acts.
LEMMA OtherKeepsState ==
  ASSUME IInv, IInv', NEW c \in Clients, NEW e \in Clients \ {c},
         SetRejected(e) \/ Set(e) \/ ClientStep(e) \/ Cancel(e)
  PROVE  /\ StateOf(c)' = StateOf(c) /\ acked'[c] = acked[c] /\ start' = start /\ device' = device
         /\ Quiet(c)
<1>1. CASE SetRejected(e) \/ Set(e)
  BY <1>1, SameReplies DEF SetRejected, Set, Begin, Quiet, conn, IInv, CallsTypeOK
<1>2. CASE Request(e)
  BY <1>2, SameReplies DEF Request, Quiet, IInv, CallsTypeOK
<1>3. CASE NextPart(e)
  BY <1>3, SameReplies DEF NextPart, Quiet, conn, IInv, CallsTypeOK
<1>4. CASE RequestFails(e) \/ ReplyIsError(e) \/ SetReturnsOk(e)
  <2>1. /\ pc'[c] = pc[c] /\ stream'[c] = stream[c] /\ replies' = replies /\ acked' = acked
        /\ start' = start /\ device' = device /\ call' = call /\ calls' = calls
    BY <1>4 DEF RequestFails, ReplyIsError, SetReturnsOk, Return, conn, IInv, CallsTypeOK
  <2>2. finished'[c] = finished[c]
    <3>1. \E outcome : Return(e, outcome)
      BY <1>4, Zenon DEF RequestFails, ReplyIsError, SetReturnsOk
    <3> QED BY <3>1 DEF Return, IInv, CallsTypeOK
  <2> QED BY <2>1, <2>2, SameReplies DEF Quiet
<1>5. CASE Cancel(e)
  <2>1. /\ replies' = Disown(replies, e) /\ replies \in Seq(InReply) /\ replies' \in Seq(InReply)
        /\ pc'[c] = pc[c] /\ stream'[c] = stream[c] /\ acked' = acked /\ start' = start
        /\ device' = device
    BY <1>5 DEF Cancel, Return, InReply, IInv, CallsTypeOK
  <2>2. c # Nothing /\ c # e
    BY CallsAssumption
  <2>3. /\ DOMAIN replies' = DOMAIN replies
        /\ \A i \in DOMAIN replies :
             /\ replies'[i].from = IF replies[i].from = e THEN Nothing ELSE replies[i].from
             /\ replies'[i].kind = replies[i].kind
    BY <2>1, DisownFacts
  <2>4. (\E i \in DOMAIN replies' : replies'[i].from = c /\ replies'[i].kind = "error")
          <=> \E i \in DOMAIN replies : replies[i].from = c /\ replies[i].kind = "error"
    BY <2>2, <2>3
  <2>5. HasReply(c, "error")' <=> HasReply(c, "error")
    BY <2>1, <2>4, HasReplyFacts, HasReplyNext DEF IInv
  <2>6. StateOf(c)' = StateOf(c)
    BY <2>1, <2>5 DEF StateOf
  <2>7. Quiet(c)
    BY <1>5 DEF Cancel, Return, Outcome, Quiet, IInv, CallsTypeOK
  <2> QED BY <2>1, <2>6, <2>7
<1> QED BY <1>1, <1>2, <1>3, <1>4, <1>5 DEF ClientStep

-----------------------------------------------------------------------------
(* The steps of c itself.                                                  *)

LEMMA StartsFound ==
  ASSUME IInv, DeviceInv, FinishedInv, NEW c \in Clients, Found(c), Set(c), Starts(c)
  PROVE  Found(c)'
<1>1. PICK k \in OkCalls(c) : /\ call'[c] = k /\ acked'[c] = {} /\ start' = start /\ device' = device
                              /\ finished' = finished
  BY DEF Set, Begin, OkCalls, IInv, CallsTypeOK
<1>2. View(device, c) = View(Alone(c), c) /\ pc'[c] # "idle"
  BY DEF Found, Starts
<1>3. View(device, c)' = View(device, c) /\ Alone(c)' = Alone(c)
  BY <1>1, SameDeviceSameView DEF Alone
<1>4. WithParts(c, 0)' = Alone(c)
  BY <1>1, <1>3, WithPartsFacts DEF WithParts
<1>5. View(WithParts(c, 0), c)' = View(Alone(c), c)
  BY <1>4 DEF View, KeysNamed, IpsNamed
<1>6. ASSUME NEW n \in 0..TotalParts(c)', acked'[c] = 1..n PROVE n = 0
  <2>1. n \in Nat /\ 1..n = {}
    <3>1. TotalParts(c)' = Len(MessagesOf[k]) /\ MessagesOf[k] \in Seq(Message)
      BY <1>1, CallIsOwn, BuiltFacts DEF TotalParts
    <3>2. Len(MessagesOf[k]) \in Nat
      BY <3>1
    <3>3. n \in Nat
      <4> DEFINE total == Len(MessagesOf[k])
      <4>1. n \in 0..total /\ total \in Nat
        BY <3>1, <3>2, Zenon
      <4> HIDE DEF total
      <4> QED BY <4>1
    <3>4. 1..n = {}
      BY <1>1, <1>6, Zenon
    <3> QED BY <3>3, <3>4
  <2>2. ASSUME n # 0 PROVE 1 \in 1..n
    BY <2>1, <2>2
  <2> QED BY <2>1, <2>2
<1> QED BY <1>2, <1>3, <1>5, <1>6 DEF Found

LEMMA SucceedsFound ==
  ASSUME IInv, DeviceInv, FinishedInv, connected, NEW c \in Clients, Found(c), NoneSplits(c),
         SetReturnsOk(c), Succeeds(c)
  PROVE  Found(c)'
<1> DEFINE k == call[c]
           n == Len(MessagesOf[k])
<1>1. /\ pc[c] # "idle" /\ pc'[c] = "idle" /\ finished'[c] = Append(finished[c], k)
      /\ start' = start /\ device' = device
  BY DEF Succeeds, SetReturnsOk
<1>2. k \in OkCalls(c) /\ index[c] \in 1..n /\ n \in Nat
  BY <1>1, CurrentIsOk DEF IInv, TotalParts
<1>3. stream[c] = "ack" /\ index[c] = n
  BY DEF SetReturnsOk, ReplyEnded, IInv, ClientsInv, TotalParts
<1>4. acked[c] = 1..n /\ StateOf(c) # "refused"
  BY <1>3, StateFacts DEF IInv, ClientsInv, Through
<1>5. View(device, c) = View(WithParts(c, n), c)
  BY <1>1, <1>2, <1>4 DEF Found, TotalParts
<1>6. WithParts(c, n) = ApplyWhole(Alone(c), ConfigOf[k])
  BY <1>2, WithPartsFacts DEF WithParts, NoneSplits, OkCalls
<1>7. Alone(c)' = ApplyWhole(Alone(c), ConfigOf[k])
  <2>1. Alone(c)' = OverCalls!Fold(0, start, Append(finished[c], k))
    BY <1>1 DEF Alone
  <2> QED BY <1>2, <2>1, AloneFacts
<1>8. View(Alone(c), c)' = View(WithParts(c, n), c)
  BY <1>6, <1>7 DEF View, KeysNamed, IpsNamed
<1>9. View(device, c)' = View(device, c)
  BY <1>1, SameDeviceSameView
<1> QED BY <1>1, <1>5, <1>8, <1>9 DEF Found

\* The kernel takes the part c is at.
LEMMA AppliesFound ==
  ASSUME IInv, IInv', DeviceInv, DeviceInv', FinishedInv, NEW c \in Clients, Found(c), Quiet(c),
         KernelApplies, Head(requests).from = c
  PROVE  Found(c)'
<1> DEFINE k == call[c]
           cfg == ConfigOf[k]
           msgs == MessagesOf[k]
           n == index[c]
<1>0. c # Nothing /\ requests # << >>
  BY CallsAssumption DEF KernelApplies
<1>1. /\ pc[c] = "waiting" /\ StateOf(c) = "running"
      /\ Head(requests).call = k /\ Head(requests).part = n
      /\ acked[c] = 1..n - 1
  BY <1>0, HeadOfRequests
<1>2. k \in OkCalls(c) /\ n \in 1..Len(msgs) /\ Len(msgs) \in Nat
  BY <1>1, CurrentIsOk DEF IInv, TotalParts
<1>3. View(device, c) = View(WithParts(c, n - 1), c)
  <2>1. n - 1 \in 0..TotalParts(c)
    BY <1>2 DEF TotalParts
  <2> QED BY <1>1, <2>1 DEF Found
<1>4. device' = ApplyMessage(device, cfg, msgs[n]) /\ msgs[n] \in GoodMessages(cfg)
  BY <1>1, KernelTakesEntries DEF IInv
<1>5. /\ WithParts(c, n) = ApplyMessage(WithParts(c, n - 1), cfg, msgs[n])
      /\ WithParts(c, n - 1) \in Device
  <2>1. n - 1 \in 0..Len(msgs)
    BY <1>2
  <2> QED BY <1>2, <2>1, WithPartsFacts DEF WithParts
<1>6. Agree(device', WithParts(c, n), KeysNamed(c), IpsNamed(c))
  <2> DEFINE msg == msgs[n]
             other == WithParts(c, n - 1)
  <2>1. Agree(device, other, KeysNamed(c), IpsNamed(c))
    BY <1>3, ViewIsAgree
  <2>2. /\ cfg \in KeyedConfig /\ IsAbout(cfg, KeysNamed(c), IpsNamed(c))
        /\ KeysNamed(c) \in SUBSET Keys /\ IpsNamed(c) \in SUBSET Ips
    BY <1>2, CallIsOwn, BuiltFacts
  <2>3. Len(msg.peers) \in 0..Len(msg.peers)
    BY <1>4 DEF GoodMessages, Message
  <2>4. msg \in GoodMessages(cfg) /\ other \in Device /\ device \in Device
    BY <1>4, <1>5 DEF DeviceInv
  <2> HIDE DEF msg, other, cfg
  <2>5. Agree(ApplyEntries(device, cfg, msg, Len(msg.peers)),
              ApplyEntries(other, cfg, msg, Len(msg.peers)), KeysNamed(c), IpsNamed(c))
    BY <2>1, <2>2, <2>3, <2>4, EntriesAgree
  <2> QED BY <1>4, <1>5, <2>5 DEF ApplyMessage, msg, other
<1>7. /\ acked'[c] = 1..n /\ start' = start
  <2>1. acked' = [acked EXCEPT ![c] = @ \cup {n}] /\ start' = start
    BY <1>0, <1>1 DEF KernelApplies
  <2>2. acked'[c] = (1..n - 1) \cup {n}
    BY <1>1, <2>1 DEF IInv, CallsTypeOK
  <2>3. n \in Nat \ {0}
    BY <1>2
  <2>4. (1..n - 1) \cup {n} = 1..n
    <3> HIDE DEF n
    <3> QED BY <2>3
  <2> QED BY <2>1, <2>2, <2>4
<1>8. \A m \in Nat : acked'[c] = 1..m => m = n
  <2>1. n \in Nat \ {0}
    BY <1>2
  <2> HIDE DEF n
  <2>2. ASSUME NEW m \in Nat, 1..n = 1..m PROVE m = n
    <3>1. n \in 1..m
      BY <2>1, <2>2
    <3>2. m \in 1..n
      BY <2>1, <2>2, <3>1
    <3> QED BY <2>1, <3>1, <3>2
  <2> QED BY <1>7, <2>2
<1>10. /\ call'[c] = k /\ Alone(c)' = Alone(c)
  BY <1>7 DEF Quiet, Alone
<1>11. \A m : WithParts(c, m)' = ApplyMessages(Alone(c), cfg, SubSeq(msgs, 1, m))
  BY <1>10 DEF WithParts
<1>12. View(device, c)' = View(WithParts(c, n), c)
  <2>1. View(device', c) = View(WithParts(c, n), c)
    BY <1>6, ViewIsAgree
  <2> QED BY <2>1 DEF View, KeysNamed, IpsNamed
<1>13. ASSUME NEW m \in 0..TotalParts(c)', acked'[c] = 1..m
       PROVE  View(device, c)' = View(WithParts(c, m), c)'
  <2>1. m = n
    BY <1>8, <1>13
  <2>2. WithParts(c, m)' = WithParts(c, n)
    BY <1>11, <2>1 DEF WithParts
  <2>3. View(WithParts(c, m), c)' = View(WithParts(c, n), c)
    BY <2>2 DEF View, KeysNamed, IpsNamed
  <2> QED BY <1>12, <2>3
<1>14. pc'[c] # "idle"
  BY <1>1 DEF Quiet
<1> QED BY <1>13, <1>14 DEF Found

\* Whatever else happens to a client that goes on as it was.
LEMMA QuietFound ==
  ASSUME IInv, IInv', DeviceInv, DeviceInv', MixInv, [Next]_vars, connected, connected',
         NEW c \in Clients, OthersApart(c), AllOk(c), Found(c), Quiet(c),
         ~ Set(c), ~ SetReturnsOk(c),
         ~ (SetRejected(c) \/ RequestFails(c) \/ ReplyIsError(c) \/ Cancel(c))
  PROVE  Found(c)'
<1>1. CASE UNCHANGED Promise!vars /\ start' = start /\ device' = device
  BY <1>1, PromiseKeepsState, SameDeviceSameView, FoundKept
<1>2. CASE Request(c) \/ NextPart(c) \/ ConnForwards
  BY <1>1, <1>2, RequestStutters, NextPartStutters, ConnForwardsStutters
     DEF Request, NextPart, ConnForwards
<1>3. ASSUME NEW e \in Clients \ {c}, SetRejected(e) \/ Set(e) \/ ClientStep(e) \/ Cancel(e)
      PROVE  Found(c)'
  BY <1>3, OtherKeepsState, SameDeviceSameView, FoundKept
<1>4. CASE AllReturned \/ UNCHANGED vars
  BY <1>1, <1>4, StutterStutters DEF AllReturned, vars
<1>5. CASE (KernelApplies \/ KernelRefuses) /\ Head(requests).from # c
  <2>1. PICK e \in Clients : /\ Head(requests).call \in OkCalls(e)
                             /\ \/ Head(requests).from = e
                                \/ Head(requests).from = Nothing /\ ~ AllOk(e)
    BY <1>5, WhoseEntries DEF MixInv
  <2>2. e # c
    BY <1>5, <2>1
  <2>3. View(device, c)' = View(device, c)
    <3>1. Agree(device', device, KeysNamed(c), IpsNamed(c))
      BY <1>5, <2>1, <2>2, OthersEntries DEF MixInv
    <3>2. View(device', c) = View(device, c)
      BY <3>1, ViewIsAgree
    <3> QED BY <3>2 DEF View, KeysNamed, IpsNamed
  <2>4. StateOf(c)' = StateOf(c)
    BY <1>5, AbandonedStep DEF KernelApplies, KernelRefuses, client
  <2>5. acked'[c] = acked[c] /\ start' = start
    BY <1>5, <2>1 DEF KernelApplies, KernelRefuses, IInv, CallsTypeOK
  <2> QED BY <2>3, <2>4, <2>5, FoundKept
<1>6. CASE KernelApplies /\ Head(requests).from = c
  BY <1>6, AppliesFound DEF MixInv
<1>7. CASE KernelRefuses /\ Head(requests).from = c
  <2>1. requests # << >> /\ c # Nothing
    BY <1>7, CallsAssumption DEF KernelRefuses
  <2>2. pc[c] = "waiting" /\ pc' = pc
    BY <1>7, <2>1, HeadOfRequests DEF KernelRefuses, client
  <2>3. HasReply(c, "error")'
    <3>1. replies' = Append(replies, [from |-> c, kind |-> "error"])
      BY <1>7 DEF KernelRefuses, Answer
    <3>2. replies \in Seq(InReply)
      BY DEF IInv, CallsTypeOK, InReply
    <3> QED BY <3>1, <3>2 DEF HasReply
  <2>4. StateOf(c)' = "refused"
    BY <2>2, <2>3 DEF StateOf
  <2> QED BY <2>2, <2>4 DEF Found
<1>8. ~ ConnStops
  BY DEF ConnStops
<1> QED BY <1>2, <1>3, <1>4, <1>5, <1>6, <1>7, <1>8 DEF Next, ClientStep, KernelStep

LEMMA ActsAreNotQuiet ==
  ASSUME IInv, NEW c \in Clients, Quiet(c)
  PROVE  /\ ~ Set(c) /\ ~ SetReturnsOk(c)
         /\ ~ (SetRejected(c) \/ RequestFails(c) \/ ReplyIsError(c) \/ Cancel(c))
<1>1. calls[c] \in Nat /\ (pc'[c] = "idle" <=> pc[c] = "idle") /\ calls'[c] = calls[c]
  BY DueFacts DEF Quiet, IInv
<1>2. ~ Set(c) /\ ~ SetRejected(c)
  BY <1>1 DEF Set, SetRejected, Begin, IInv, CallsTypeOK
<1>3. ~ (SetReturnsOk(c) \/ RequestFails(c) \/ ReplyIsError(c) \/ Cancel(c))
  <2>1. SUFFICES ASSUME SetReturnsOk(c) \/ RequestFails(c) \/ ReplyIsError(c) \/ Cancel(c)
                 PROVE  FALSE
    OBVIOUS
  <2>2. pc[c] # "idle" /\ pc' = [pc EXCEPT ![c] = "idle"]
    BY <2>1 DEF SetReturnsOk, ReplyEnded, RequestFails, ReplyIsError, Cancel, Return
  <2> QED BY <1>1, <2>2 DEF IInv, CallsTypeOK
<1> QED BY <1>2, <1>3

LEMMA StepKeepsView ==
  ASSUME IInv, IInv', DeviceInv, DeviceInv', MixInv, [Next]_vars
  PROVE  ViewInv'
<1>1. start' = start /\ (connected' = connected \/ connected' = FALSE)
  BY DEF Next, vars, conn, SetRejected, Set, Begin, ClientStep, Request, RequestFails, ReplyIsError,
         NextPart, SetReturnsOk, Cancel, KernelStep, KernelApplies, KernelRefuses, ConnForwards,
         ConnStops, AllReturned
<1> SUFFICES ASSUME connected', NEW c \in Clients, OthersApart(c)', NoneSplits(c)', AllOk(c)'
             PROVE  Found(c)'
  BY DEF ViewInv, Found
<1>2. connected /\ OthersApart(c) /\ NoneSplits(c)
  BY <1>1 DEF OthersApart, Apart, KeysNamed, IpsNamed, NoneSplits
<1>3. AllOk(c)
  BY BooksKept DEF MixInv
<1>4. Found(c)
  BY <1>2, <1>3 DEF MixInv, ViewInv, Found
<1>5. ~ Fails(c)
  BY FailureCounts DEF MixInv
<1>6. CASE Set(c) /\ Starts(c)
  BY <1>4, <1>6, StartsFound DEF MixInv
<1>7. CASE SetReturnsOk(c) /\ Succeeds(c)
  BY <1>2, <1>4, <1>7, SucceedsFound DEF MixInv
<1>8. CASE Quiet(c)
  <2>1. ~ Set(c) /\ ~ SetReturnsOk(c)
        /\ ~ (SetRejected(c) \/ RequestFails(c) \/ ReplyIsError(c) \/ Cancel(c))
    BY <1>8, ActsAreNotQuiet
  <2> QED BY <1>2, <1>3, <1>4, <1>8, <2>1, QuietFound
<1> QED BY <1>5, <1>6, <1>7, <1>8, Books

LEMMA InitMixInv == Init => MixInv
<1> SUFFICES ASSUME Init PROVE MixInv
  OBVIOUS
<1>1. FinishedInv /\ OrphansInv
  <2>1. \A c \in Clients : finished[c] = << >> /\ Due(c) = 0
    BY DEF Init, Due
  <2> QED BY <2>1 DEF Init, FinishedInv, OrphansInv
<1>2. OwnersInv
  BY DEF Init, OwnersInv, OthersApart, Apart
<1>3. ViewInv
  <2>1. ASSUME NEW c \in Clients PROVE Alone(c) = device /\ pc[c] = "idle"
    <3>1. finished[c] = << >> /\ pc[c] = "idle" /\ start = device
      BY DEF Init
    <3>2. OverCalls!Fold(0, start, << >>) = start
      BY OverCalls!FoldEmpty
    <3> QED BY <3>1, <3>2 DEF Alone
  <2> QED BY <2>1 DEF ViewInv
<1> QED BY <1>1, <1>2, <1>3 DEF MixInv

LEMMA StepKeepsMixInv ==
  IInv /\ IInv' /\ DeviceInv /\ DeviceInv' /\ MixInv /\ [Next]_vars => MixInv'
BY StepKeepsFinished, StepKeepsOrphans, StepKeepsOwners, StepKeepsView DEF MixInv

LEMMA MixInvHolds == Spec => []MixInv
<1> QED BY InitMixInv, StepKeepsMixInv, IInvHolds, DeviceHolds, PTL DEF Spec

\* Clones of a handle that configure different peers do not disturb each other,
\* although their messages interleave in every way and the calls of the others
\* fail, are cancelled or leave a message behind: a client whose calls were all
\* Ok finds what they would have made of the device on their own, each in one
\* piece (handle.rs:73).
THEOREM CallsApartDoNotMix == Spec => []ApartCallsDoNotMix
<1>1. IInv /\ MixInv => ApartCallsDoNotMix
  <2> SUFFICES ASSUME IInv, MixInv, connected, NEW c \in Clients,
                      pc[c] = "idle", Len(finished[c]) = calls[c],
                      \A e \in Clients \ {c} : Apart(c, e),
                      \A k \in CallsOf[c] : ~ SplitsUpdateOnly(ConfigOf[k], MessagesOf[k])
               PROVE  View(device, c)
                        = View(FoldLeft(LAMBDA dev, k : ApplyWhole(dev, ConfigOf[k]),
                                        start, finished[c]), c)
    BY DEF ApartCallsDoNotMix
  <2>1. View(device, c) = View(Alone(c), c)
    BY DEF MixInv, ViewInv, OthersApart, NoneSplits, AllOk, Due
  <2>2. Alone(c) = FoldLeft(LAMBDA dev, k : ApplyWhole(dev, ConfigOf[k]), start, finished[c])
    BY DEF Alone, WholeStep, FoldLeft, MapThenFoldSet, Max, OverCalls!Fold,
           OverCalls!FoldLeft, OverCalls!MapThenFoldSet, OverCalls!Max
  <2> QED BY <2>1, <2>2
<1> QED BY <1>1, IInvHolds, MixInvHolds, PTL
=============================================================================
