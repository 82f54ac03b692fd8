------------------------- MODULE LiveConnection_proofs -------------------------
(***************************************************************************)
(* Proofs about LiveConnection for any number of subscribers and failures: *)
(* its safety invariants, and that it implements LiveSubscription.         *)
(*                                                                         *)
(* What makes the invariants inductive is that the list of subscribers is  *)
(* exactly who waits or has an open subscription. The refinement rests on  *)
(* the same fact: a connect resolves everyone who waits, and an error      *)
(* rejects everyone who waits, only because nobody waits off the list.     *)
(***************************************************************************)
EXTENDS LiveConnection, TLAPS

Waiting(s) == live[s] = "waiting"
Open(s) == live[s] = "open"

\* The list of subscribers is that of the subscriptions which are not over, and keeps the client.
ListIsAlive ==
    /\ subscribers = {s \in Subscribers : Waiting(s) \/ Open(s)}
    /\ client = (subscribers # {})

\* A socket has a client, and an open connection a socket.
SocketNeedsClient ==
    /\ socket # 0 => client
    /\ open => socket # 0

OpenServed == open => \A s \in subscribers : Open(s) /\ stomp[s] = socket /\ s \in broker

BrokerKnowsOpen == \A s \in broker : Open(s)

IInv == TypeOK /\ ListIsAlive /\ SocketNeedsClient /\ OpenServed /\ BrokerKnowsOpen

-----------------------------------------------------------------------------

\* Nothing is subscribed at first.
LEMMA InitInvariant == Init => IInv
<1> SUFFICES ASSUME Init PROVE IInv
  OBVIOUS
<1> USE DEF Init
<1>1. TypeOK
  <2>1. failures \in 0..MaxFailures /\ subscribes \in 0..MaxSubscribes
    BY BoundsAssumption
  <2>2. client \in BOOLEAN /\ open \in BOOLEAN
    OBVIOUS
  <2>3. stomp \in [Subscribers -> Nat] /\ live \in [Subscribers -> Promise!States]
    BY DEF Promise!States
  <2>4. QED BY <2>1, <2>2, <2>3 DEF TypeOK
<1>2. ListIsAlive
  BY DEF ListIsAlive, Waiting, Open
<1>3. SocketNeedsClient /\ OpenServed /\ BrokerKnowsOpen
  BY DEF SocketNeedsClient, OpenServed, BrokerKnowsOpen
<1>4. QED BY <1>1, <1>2, <1>3 DEF IInv

\* add: who joins an open connection is served like the others, who comes first waits.
LEMMA SubscribeInvariant ==
    ASSUME IInv, NEW s \in Subscribers, Subscribe(s)
    PROVE  IInv'
<1> USE DEF Subscribe, Add, Attach
<1>1. TypeOK'
  BY BoundsAssumption DEF IInv, TypeOK, Promise!States
<1>2. CASE client /\ open
  BY <1>1, <1>2 DEF IInv, TypeOK, ListIsAlive, SocketNeedsClient, OpenServed, BrokerKnowsOpen, Waiting, Open
<1>3. CASE ~(client /\ open)
  BY <1>1, <1>3 DEF IInv, TypeOK, ListIsAlive, SocketNeedsClient, OpenServed, BrokerKnowsOpen, Waiting, Open
<1>4. QED BY <1>2, <1>3

\* remove: the subscription goes with the caller, the socket with the last of them.
LEMMA CloseInvariant ==
    ASSUME IInv, NEW s \in Subscribers, Close(s)
    PROVE  IInv'
<1> USE DEF Close, Remove, Unsubscribed
<1>1. TypeOK'
  BY DEF IInv, TypeOK, Promise!States
<1>2. ListIsAlive'
  BY DEF IInv, TypeOK, ListIsAlive, Waiting, Open
<1>3. SocketNeedsClient'
  BY DEF IInv, ListIsAlive, SocketNeedsClient
<1>4. OpenServed'
  BY DEF IInv, TypeOK, OpenServed, ListIsAlive, Open
<1>5. BrokerKnowsOpen'
  BY DEF IInv, TypeOK, BrokerKnowsOpen, Open
<1>6. QED BY <1>1, <1>2, <1>3, <1>4, <1>5 DEF IInv

\* onConnect: everyone on the list is subscribed in the new session.
LEMMA OnConnectInvariant ==
    ASSUME IInv, OnConnect
    PROVE  IInv'
<1> USE DEF OnConnect, Attach, Attachable
<1>1. TypeOK'
  BY DEF IInv, TypeOK, Promise!States
<1>2. ListIsAlive'
  BY DEF IInv, TypeOK, ListIsAlive, Waiting, Open
<1>3. SocketNeedsClient'
  BY DEF IInv, TypeOK, SocketNeedsClient
<1>4. OpenServed'
  BY DEF IInv, TypeOK, OpenServed, Open
<1>5. BrokerKnowsOpen'
  BY DEF IInv, TypeOK, BrokerKnowsOpen, Open
<1>6. QED BY <1>1, <1>2, <1>3, <1>4, <1>5 DEF IInv

\* An error: who waits leaves the list rejected, the connection is not open anymore.
LEMMA FailInvariant ==
    ASSUME IInv, Fail
    PROVE  IInv'
<1> USE DEF Fail, FailsNow, Rejected, Remove, Unsubscribed
<1>1. TypeOK'
  BY BoundsAssumption DEF IInv, TypeOK, Promise!States
<1>2. ListIsAlive'
  BY DEF IInv, TypeOK, ListIsAlive, Waiting, Open
<1>3. SocketNeedsClient'
  BY DEF IInv, SocketNeedsClient
<1>4. OpenServed'
  BY DEF OpenServed
<1>5. BrokerKnowsOpen'
  BY DEF IInv, TypeOK, BrokerKnowsOpen, Open
<1>6. QED BY <1>1, <1>2, <1>3, <1>4, <1>5 DEF IInv

\* The socket is dropped, or a caller is told that it waited for long: nobody leaves the list.
LEMMA OtherInvariant ==
    ASSUME IInv, OnWebSocketClose \/ \E s \in Subscribers : Timeout(s)
    PROVE  IInv'
<1>1. CASE OnWebSocketClose
  <2> USE <1>1 DEF OnWebSocketClose
  <2>1. TypeOK'
    <3>1. failures' \in 0..MaxFailures
      <4>1. CASE open
        BY <4>1, BoundsAssumption DEF IInv, TypeOK, FailsNow
      <4>2. CASE ~ open
        BY <4>2 DEF IInv, TypeOK
      <4>3. QED BY <4>1, <4>2
    <3>2. open' \in BOOLEAN
      OBVIOUS
    <3>3. QED BY <3>1, <3>2 DEF IInv, TypeOK
  <2>2. ListIsAlive'
    BY DEF IInv, ListIsAlive, Waiting, Open
  <2>3. SocketNeedsClient' /\ OpenServed' /\ BrokerKnowsOpen'
    BY DEF SocketNeedsClient, OpenServed, BrokerKnowsOpen
  <2>4. QED BY <2>1, <2>2, <2>3 DEF IInv
<1>2. CASE \E s \in Subscribers : Timeout(s)
  BY <1>2 DEF IInv, TypeOK, ListIsAlive, SocketNeedsClient, OpenServed, BrokerKnowsOpen,
     Waiting, Open, Timeout, TimedOut, connectionVars
<1>3. QED BY <1>1, <1>2

\* The inductive invariant is preserved by every step.
LEMMA NextInvariant == IInv /\ [Next]_vars => IInv'
<1> SUFFICES ASSUME IInv, [Next]_vars PROVE IInv'
  OBVIOUS
<1>1. ASSUME NEW s \in Subscribers, Subscribe(s) PROVE IInv'
  BY <1>1, SubscribeInvariant
<1>2. ASSUME NEW s \in Subscribers, Close(s) PROVE IInv'
  BY <1>2, CloseInvariant
<1>3. ASSUME NEW s \in Subscribers, Timeout(s) PROVE IInv'
  BY <1>3, OtherInvariant
<1>4. CASE OnConnect
  BY <1>4, OnConnectInvariant
<1>5. CASE OnWebSocketClose
  BY <1>5, OtherInvariant
<1>6. CASE Fail
  BY <1>6, FailInvariant
<1>7. CASE UNCHANGED vars
  BY <1>7 DEF vars, connectionVars, IInv, TypeOK, ListIsAlive, SocketNeedsClient, OpenServed,
     BrokerKnowsOpen, Waiting, Open
<1>8. QED BY <1>1, <1>2, <1>3, <1>4, <1>5, <1>6, <1>7 DEF Next

\* The inductive invariant holds in every reachable state.
THEOREM Invariant == Spec => []IInv
BY InitInvariant, NextInvariant, PTL DEF Spec

-----------------------------------------------------------------------------

\* While the connection is open everyone on it is served in its session, for any number of
\* subscribers, failures and sessions (add, onConnect).
THEOREM AllServed == Spec => []OpenMeansServed
<1>1. IInv => OpenMeansServed
  BY DEF IInv, ListIsAlive, OpenServed, Waiting, Open, OpenMeansServed, Promise!Alive
<1>2. QED BY <1>1, Invariant, PTL

\* Only who holds an open subscription is subscribed with the server, and without anyone there
\* is neither client nor socket (remove). Includes type correctness.
THEOREM NoOneElseServed == Spec => []OnlyAliveServed
<1>1. IInv => OnlyAliveServed
  BY DEF IInv, ListIsAlive, SocketNeedsClient, BrokerKnowsOpen, Waiting, Open, OnlyAliveServed, Promise!Alive
<1>2. QED BY <1>1, Invariant, PTL

-----------------------------------------------------------------------------

\* Every step of the connection is a step of the promise to each caller, or none.
LEMMA StepKeepsPromise == IInv /\ [Next]_vars => [Promise!Next]_live
<1> SUFFICES ASSUME IInv, [Next]_vars PROVE Promise!Next \/ UNCHANGED live
  OBVIOUS
<1> USE DEF Promise!Next
<1>1. ASSUME NEW s \in Subscribers, Subscribe(s) PROVE Promise!Next
  <2>1. \E state \in {"waiting", "open"} : live' = [live EXCEPT ![s] = state]
    BY <1>1 DEF Subscribe, Add, Attach, IInv, TypeOK
  <2>2. QED BY <1>1, <2>1 DEF Subscribe, Promise!Subscribe
<1>2. ASSUME NEW s \in Subscribers, Close(s) PROVE Promise!Next
  BY <1>2 DEF Close, Promise!Close
<1>3. ASSUME NEW s \in Subscribers, Timeout(s) PROVE UNCHANGED live
  BY <1>3 DEF Timeout
<1>4. CASE OnConnect
  <2>1. \A s \in Subscribers :
            (IF s \in subscribers THEN "open" ELSE live[s]) = (IF live[s] = "waiting" THEN "open" ELSE live[s])
    BY DEF IInv, ListIsAlive, Waiting, Open
  <2>2. Promise!Resolve
    BY <1>4, <2>1 DEF OnConnect, Attach, Attachable, Promise!Resolve
  <2>3. QED BY <2>2
<1>5. CASE OnWebSocketClose
  BY <1>5 DEF OnWebSocketClose
<1>6. CASE Fail
  <2>1. \A s \in Subscribers : s \in Rejected <=> live[s] = "waiting"
    BY DEF IInv, ListIsAlive, Waiting, Rejected
  <2>2. Promise!Reject
    BY <1>6, <2>1 DEF Fail, Promise!Reject
  <2>3. QED BY <2>2
<1>7. CASE UNCHANGED vars
  BY <1>7 DEF vars
<1>8. QED BY <1>1, <1>2, <1>3, <1>4, <1>5, <1>6, <1>7 DEF Next

\* The connection implements what LiveTransport.subscribe promises each caller: a promise is
\* settled at most once, by a connect or an error, and only an open subscription is closed.
THEOREM Implements == Spec => KeepsPromise
<1>1. Init => Promise!Init
  BY DEF Init, Promise!Init
<1>2. QED BY <1>1, StepKeepsPromise, Invariant, PTL DEF Spec, KeepsPromise, Promise!Spec
=============================================================================
