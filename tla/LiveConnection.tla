---------------------------- MODULE LiveConnection ----------------------------
(***************************************************************************)
(* The one STOMP connection of the web UI and everyone who subscribes over *)
(* it: SharedLiveConnection and SockJsStompLiveTransport.subscribe in      *)
(* api/live/transport.ts, with the client library and the server's broker  *)
(* as far as they show.                                                    *)
(*                                                                         *)
(* A client reconnects by itself as long as it is active. The broker       *)
(* forgets all subscriptions of a session when its socket is closed, which *)
(* is why each connect has to bring them all back.                         *)
(***************************************************************************)
EXTENDS Naturals, FiniteSets

CONSTANTS
    Subscribers,     \* callers of subscribe: downloader footer, notifications, a search
    MaxFailures,     \* bound: times the network or the server fails
    MaxSubscribes    \* bound: subscriptions after which no caller subscribes anymore

ASSUME SubscribersAssumption == IsFiniteSet(Subscribers)
ASSUME BoundsAssumption == MaxFailures \in Nat /\ MaxSubscribes \in Nat

VARIABLES
    live,          \* settled and closed of each subscriber, as LiveSubscription's state
    subscribers,   \* SharedLiveConnection.subscribers
    client,        \* whether there is a client, which then connects and reconnects
    open,          \* SharedLiveConnection.open
    stomp,         \* the session of each subscriber's STOMP subscription, 0 for none
    timer,         \* subscribers whose ready timeout is running
    socket,        \* the session the client's socket is in, 0 while it is down
    broker,        \* who is subscribed with the server in this session
    sessions,      \* sessions so far
    failures,      \* failures so far
    subscribes     \* calls of subscribe so far

connectionVars == <<subscribers, client, open, stomp, socket, broker>>
vars == <<live, connectionVars, timer, sessions, failures, subscribes>>

Promise == INSTANCE LiveSubscription

-----------------------------------------------------------------------------
(* SharedLiveConnection                                                    *)

\* attach, for all of S: in the client's session each is subscribed anew, and is resolved
\* if it still waits.
Attach(S, session) ==
    /\ stomp' = [s \in Subscribers |-> IF s \in S THEN session ELSE stomp[s]]
    /\ broker' = broker \cup S
    /\ live' = [s \in Subscribers |-> IF s \in S THEN "open" ELSE live[s]]
    /\ timer' = timer \ S

\* add. The first one activates the client, who joins an open connection does not wait.
Add(s) ==
    /\ subscribers' = subscribers \cup {s}
    /\ client' = TRUE
    /\ IF client /\ open
       THEN Attach({s}, socket)
       ELSE /\ live' = [live EXCEPT ![s] = "waiting"]
            /\ timer' = timer \cup {s}
            /\ UNCHANGED <<stomp, broker>>
    /\ UNCHANGED <<open, socket>>

\* Mutant: the subscription stays with the server.
UnsubscribedLocally(S) == broker

\* The frames of unsubscribe.
Unsubscribed(S) == broker \ S

\* remove, for all of S. With the last one the client and its session go; otherwise the
\* connection is as open as before, or not anymore.
Remove(S, stillOpen) ==
    LET left == subscribers \ S
    IN  /\ subscribers' = left
        /\ stomp' = [s \in Subscribers |-> IF s \in S THEN 0 ELSE stomp[s]]
        /\ client' = (left # {})
        /\ open' = (stillOpen /\ left # {})
        /\ socket' = IF left = {} THEN 0 ELSE socket
        /\ broker' = IF left = {} THEN {} ELSE Unsubscribed(S)

-----------------------------------------------------------------------------
(* SockJsStompLiveTransport.subscribe                                      *)

Subscribe(s) ==
    /\ live[s] \in {"none", "closed", "failed"}
    /\ subscribes < MaxSubscribes
    /\ subscribes' = subscribes + 1
    /\ Add(s)
    /\ UNCHANGED <<sessions, failures>>

\* The handle comes with the resolved promise, so that only an open one can be closed.
Close(s) ==
    /\ live[s] = "open"
    /\ live' = [live EXCEPT ![s] = "closed"]
    /\ Remove({s}, open)
    /\ UNCHANGED <<timer, sessions, failures, subscribes>>

\* Mutant: who waits for too long is taken off the connection.
TimedOutRemoved(s) == Remove({s}, open)

\* The caller is only told; it stays attached and is resolved when a connect comes late.
TimedOut(s) == UNCHANGED connectionVars

Timeout(s) ==
    /\ s \in timer
    /\ timer' = timer \ {s}
    /\ TimedOut(s)
    /\ UNCHANGED <<live, sessions, failures, subscribes>>

-----------------------------------------------------------------------------
(* The events of the client                                                *)

\* Mutant: only those who wait are subscribed on a connect.
AttachableWaiting == {s \in subscribers : live[s] = "waiting"}

\* Whom onConnect attaches.
Attachable == subscribers

\* onConnect, the first time and after every reconnect.
OnConnect ==
    /\ client
    /\ socket = 0
    /\ sessions' = sessions + 1
    /\ socket' = sessions'
    /\ open' = TRUE
    /\ Attach(Attachable, sessions')
    /\ UNCHANGED <<subscribers, client, failures, subscribes>>

FailsNow == failures < MaxFailures /\ failures' = failures + 1

\* onWebSocketClose: the network or the server drops the socket, and with it the session.
OnWebSocketClose ==
    /\ socket # 0
    /\ IF open THEN FailsNow ELSE UNCHANGED failures
    /\ socket' = 0
    /\ broker' = {}
    /\ open' = FALSE
    /\ UNCHANGED <<live, subscribers, client, stomp, timer, sessions, subscribes>>

\* Mutant: an error ends everyone's subscription.
RejectedEveryone == subscribers

\* Who still waits is closed and rejected, the others are told and stay.
Rejected == {s \in subscribers : live[s] = "waiting"}

\* onStompError and onWebSocketError. A socket which was up is closed next.
Fail ==
    /\ client
    /\ socket = 0 \/ open
    /\ FailsNow
    /\ live' = [s \in Subscribers |-> IF s \in Rejected THEN "failed" ELSE live[s]]
    /\ timer' = timer \ Rejected
    /\ Remove(Rejected, FALSE)
    /\ UNCHANGED <<sessions, subscribes>>

-----------------------------------------------------------------------------

Init ==
    /\ live = [s \in Subscribers |-> "none"]
    /\ subscribers = {}
    /\ client = FALSE
    /\ open = FALSE
    /\ stomp = [s \in Subscribers |-> 0]
    /\ timer = {}
    /\ socket = 0
    /\ broker = {}
    /\ sessions = 0
    /\ failures = 0
    /\ subscribes = 0

Next ==
    \/ \E s \in Subscribers : Subscribe(s) \/ Close(s) \/ Timeout(s)
    \/ OnConnect
    \/ OnWebSocketClose
    \/ Fail

\* The client tries to connect every second for as long as it is active, a socket which
\* failed is closed, and timeouts fire. Nothing makes a caller close or the network fail.
Spec ==
    /\ Init /\ [][Next]_vars
    /\ WF_vars(OnConnect)
    /\ WF_vars(~ open /\ OnWebSocketClose)
    /\ \A s \in Subscribers : WF_vars(Timeout(s))

-----------------------------------------------------------------------------
(* Correctness                                                             *)

\* Every variable has a value the code could store in it.
TypeOK ==
    /\ live \in [Subscribers -> Promise!States]
    /\ subscribers \in SUBSET Subscribers
    /\ client \in BOOLEAN /\ open \in BOOLEAN
    /\ stomp \in [Subscribers -> Nat]
    /\ timer \in SUBSET Subscribers
    /\ socket \in Nat
    /\ broker \in SUBSET Subscribers
    /\ sessions \in Nat
    /\ failures \in 0..MaxFailures
    /\ subscribes \in 0..MaxSubscribes

\* While the connection is open everyone on it is served: subscribed in the session of
\* this connect, not in one of an earlier connect, and nobody waits.
OpenMeansServed ==
    open => \A s \in Promise!Alive : live[s] = "open" /\ stomp[s] = socket /\ s \in broker

\* The server has a subscription only for who holds an open one: who closed it or was
\* rejected is gone, also while others stay on the connection. Who timed out stays attached
\* but has none before a late connect opens it. Without anyone attached there is no client
\* and no socket.
OnlyAliveServed ==
    /\ TypeOK
    /\ \A s \in broker : live[s] = "open"
    /\ Promise!Alive = {} <=> ~ client
    /\ ~ client => socket = 0

\* Once the network holds everyone who subscribed is told how it ended, and whoever is
\* still subscribed is served, however late the connection came up and however often it
\* was lost.
EveryoneServed ==
    \A s \in Subscribers :
        live[s] \in {"waiting", "open"} ~> s \in broker \/ live[s] \in {"closed", "failed"}

\* What each caller sees is what LiveTransport.subscribe promises.
KeepsPromise == Promise!Spec
=============================================================================
