--------------------------- MODULE RabbitMQBroker ---------------------------
(***************************************************************************)
(* RabbitMQBroker (queue/broker.py): one connection, made by the first     *)
(* publish that finds none, and again after close().  _channel tests the   *)
(* connection before it awaits the one it makes.  Connections are known by *)
(* the order in which they were made.                                      *)
(***************************************************************************)
EXTENDS Naturals, FiniteSets

CONSTANTS
    Publishes,      \* calls of publish
    MaxCloses       \* bound: calls of close

ASSUME BrokerAssumption == MaxCloses \in Nat /\ IsFiniteSet(Publishes)

VARIABLES
    connection,  \* _connection: 0 is None
    open,        \* the connections that are open
    made,        \* how many were ever made
    publish,     \* the await of each publish, or how it ended
    link,        \* the connection that each publish uses
    closes,      \* how many calls of close there were
    races        \* how many publishes began to connect while another did

brokerVars == <<connection, open, made, publish, link, closes, races>>

Connecting == {p \in Publishes : publish[p] = "connect"}

BrokerInit ==
    /\ connection = 0
    /\ open = {}
    /\ made = 0
    /\ publish = [p \in Publishes |-> "idle"]
    /\ link = [p \in Publishes |-> 0]
    /\ closes = 0
    /\ races = 0

\* _connection is None or closed, or it is used at once.
Channel_Always(p) ==
    /\ publish[p] = "idle"
    /\ publish' = [publish EXCEPT ![p] = "connect"]
    /\ races' = races + (IF Connecting = {} THEN 0 ELSE 1)
    /\ UNCHANGED <<connection, open, made, link, closes>>
Channel(p) ==
    /\ publish[p] = "idle"
    /\ \/ /\ connection \notin open
          /\ publish' = [publish EXCEPT ![p] = "connect"]
          /\ races' = races + (IF Connecting = {} THEN 0 ELSE 1)
          /\ UNCHANGED link
       \/ /\ connection \in open
          /\ publish' = [publish EXCEPT ![p] = "send"]
          /\ link' = [link EXCEPT ![p] = connection]
          /\ UNCHANGED races
    /\ UNCHANGED <<connection, open, made, closes>>

Connected(p) ==
    /\ publish[p] = "connect"
    /\ made' = made + 1
    /\ open' = open \union {made'}
    /\ connection' = made'
    /\ link' = [link EXCEPT ![p] = made']
    /\ publish' = [publish EXCEPT ![p] = "send"]
    /\ UNCHANGED <<closes, races>>

\* Channel, exchange and message go over the link: all, if it stays open.
Sent(p) ==
    /\ publish[p] = "send"
    /\ link[p] \in open
    /\ publish' = [publish EXCEPT ![p] = "returned"]
    /\ UNCHANGED <<connection, open, made, link, closes, races>>

\* The server is not reached, the link was closed, or the caller is cancelled.
PublishFails(p) ==
    /\ publish[p] \in {"connect", "send"}
    /\ publish' = [publish EXCEPT ![p] = "failed"]
    /\ UNCHANGED <<connection, open, made, link, closes, races>>

\* Nothing is closed when there is no connection, or one is being made.
Close ==
    /\ closes < MaxCloses
    /\ closes' = closes + 1
    /\ open' = open \ {connection}
    /\ UNCHANGED <<connection, made, publish, link, races>>

BrokerNext ==
    \/ \E p \in Publishes : Channel(p) \/ Connected(p) \/ Sent(p) \/ PublishFails(p)
    \/ Close

BrokerSpec == BrokerInit /\ [][BrokerNext]_brokerVars

-----------------------------------------------------------------------------
\* A connection that is open and not the broker's own will never be closed,
\* not by close() either.  Only a race of connects leaves one, and each racer
\* at most one, whatever fails, is cancelled or closed meanwhile.
OrphansWereRaced == Cardinality(open \ {connection}) <= races

=============================================================================
