----------------------------- MODULE SetPromise -----------------------------
(***************************************************************************)
(* What the callers of set() and remove_peer() may rely on, and nothing    *)
(* more: no channel, no streams, no Connection task, as if a call worked   *)
(* on the device directly.  SetDevice implements it.                       *)
(*                                                                         *)
(* A call applies its parts in order, each in one step.  It ends with Ok   *)
(* after the last one, or with an error; between its parts anything may    *)
(* happen to the device.                                                   *)
(***************************************************************************)
EXTENDS Naturals

CONSTANTS
  Clients, CallsOf, BuiltOf, Devices, Nothing,  \* as in SetDevice
  PartsOfCalls,           \* <<k, n>> for each part n of call k
  TotalPartsOf(_),        \* how many parts a call has
  Applied(_, _, _),       \* a device after part n of call k
  PartlyApplied(_, _, _)  \* the devices a refused part may leave behind

VARIABLES
  state,      \* of each client: "idle", "running", or "refused" by the kernel
  call,       \* its call, or the last one it made
  applied,    \* the parts of that call which are in the device
  result,     \* how its last call ended
  abandoned,  \* how often each part is on its way to the device, its call given up
  connected,  \* the device can be reached
  device

vars == <<state, call, applied, result, abandoned, connected, device>>

Error(kind, part) == [kind |-> kind, part |-> part]

NoParts == [p \in PartsOfCalls |-> 0]

Init ==
  /\ state = [c \in Clients |-> "idle"]
  /\ call = [c \in Clients |-> Nothing]
  /\ applied = [c \in Clients |-> {}]
  /\ result = [c \in Clients |-> Error("none", 0)]
  /\ abandoned = NoParts
  /\ connected = TRUE
  /\ device \in Devices

Total(c) == TotalPartsOf(call[c])

\* The parts in front of part n, and no others, are in the device.
At(c, n) == n \in 1..Total(c) /\ applied[c] = 1..n - 1

Return(c, outcome) ==
  /\ state' = [state EXCEPT ![c] = "idle"]
  /\ result' = [result EXCEPT ![c] = outcome]
  /\ UNCHANGED <<call, applied, connected, device>>

\* A call that is refused before it starts touches nothing.
Begin(c, k) ==
  /\ state[c] = "idle"
  /\ call' = [call EXCEPT ![c] = k]
  /\ applied' = [applied EXCEPT ![c] = {}]
  /\ IF BuiltOf[k] = "ok"
     THEN /\ state' = [state EXCEPT ![c] = "running"]
          /\ result' = [result EXCEPT ![c] = Error("none", 0)]
     ELSE /\ state' = state
          /\ result' = [result EXCEPT ![c] = Error(BuiltOf[k], 0)]
  /\ UNCHANGED <<abandoned, connected, device>>

ApplyPart(c) ==
  /\ state[c] = "running" /\ connected
  /\ \E n \in 1..Total(c) :
       /\ At(c, n)
       /\ device' = Applied(device, call[c], n)
       /\ applied' = [applied EXCEPT ![c] = 1..n]
  /\ UNCHANGED <<state, call, result, abandoned, connected>>

RefusePart(c) ==
  /\ state[c] = "running" /\ connected
  /\ \E n \in 1..Total(c) :
       At(c, n) /\ device' \in PartlyApplied(device, call[c], n)
  /\ state' = [state EXCEPT ![c] = "refused"]
  /\ UNCHANGED <<call, applied, result, abandoned, connected>>

\* Ok: every part is in the device.  When the connection has broken off, all
\* but the last one are.
ReturnOk(c) ==
  /\ state[c] = "running"
  /\ \/ applied[c] = 1..Total(c)
     \/ ~ connected /\ At(c, Total(c))
  /\ Return(c, Error("ok", 0))
  /\ UNCHANGED abandoned

\* The error of a refused part names it, if there are several.
ReturnRefused(c) ==
  /\ state[c] = "refused"
  /\ \E n \in 1..Total(c) :
       At(c, n) /\ Return(c, Error("NetlinkError", IF Total(c) > 1 THEN n ELSE 0))
  /\ UNCHANGED abandoned

\* An error that names no part, of a call that was not refused: nothing is
\* applied, or the connection is gone.
ReturnUnnamed(c) ==
  /\ state[c] = "running"
  /\ applied[c] = {} \/ ~ connected
  /\ Return(c, Error("NetlinkError", 0))
  /\ UNCHANGED abandoned

\* The part a cancelled call was at may still be on its way.
Cancel(c) ==
  /\ state[c] # "idle"
  /\ Return(c, Error("cancelled", 0))
  /\ \/ abandoned' = abandoned
     \/ /\ state[c] = "running" /\ connected
        /\ \E n \in 1..Total(c) :
             At(c, n) /\ abandoned' = [abandoned EXCEPT ![<<call[c], n>>] = @ + 1]

\* It arrives, once for each call that was given up.
AbandonedPart ==
  /\ connected
  /\ \E p \in PartsOfCalls :
       /\ abandoned[p] > 0
       /\ device' \in {Applied(device, p[1], p[2])} \cup PartlyApplied(device, p[1], p[2])
       /\ abandoned' = [abandoned EXCEPT ![p] = @ - 1]
  /\ UNCHANGED <<state, call, applied, result, connected>>

\* A refusal that was on its way back is lost with the connection.
Disconnect ==
  /\ connected' = FALSE
  /\ abandoned' = NoParts
  /\ state' \in [Clients -> {"idle", "running", "refused"}]
  /\ \A c \in Clients :
       \/ state'[c] = state[c]
       \/ state[c] = "refused" /\ state'[c] = "running"
  /\ UNCHANGED <<call, applied, result, device>>

Next ==
  \/ \E c \in Clients :
       \/ \E k \in CallsOf[c] : Begin(c, k)
       \/ ApplyPart(c) \/ RefusePart(c)
       \/ ReturnOk(c) \/ ReturnRefused(c) \/ ReturnUnnamed(c) \/ Cancel(c)
  \/ AbandonedPart
  \/ Disconnect

Spec == Init /\ [][Next]_vars
=============================================================================
