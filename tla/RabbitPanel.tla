---------------------------- MODULE RabbitPanel ----------------------------
(***************************************************************************)
(* The RabbitMQ panel (CollectRabbit, internal/collector/rabbit.go): three *)
(* requests to the management API, one after the other, while queues and   *)
(* nodes of the broker come and go.  The first may fail and leave nothing, *)
(* the second is optional, the third may fail and leave the panel without  *)
(* queues.                                                                 *)
(*                                                                         *)
(* A queue is its name and, here, whether it has a consumer; counters,     *)
(* listeners and versions are shown as they were read.                     *)
(***************************************************************************)
EXTENDS Integers, SequencesExt, FiniteSetsExt

CONSTANTS
  QueueNames,
  Nodes        \* names of the nodes of a cluster

ASSUME Brokers == IsFiniteSet(QueueNames) /\ IsFiniteSet(Nodes)

VARIABLES
  queues,   \* broker: a function from the queues there are to BOOLEAN
  members,  \* broker: the nodes of the cluster
  step,     \* CollectRabbit: the request to make
  rabbit,   \* the snapshot
  stayed    \* ghost: the queues and nodes there since the first answer

rabbitVars == <<queues, members, step, rabbit, stayed>>

NoQueues == [q \in {} |-> FALSE]
NoInfo == "none"
Down(e) == [available |-> FALSE, node |-> NoInfo, info |-> NoInfo,
            queueCount |-> 0, queues |-> NoQueues, error |-> e]

-----------------------------------------------------------------------------
RabbitInit ==
  /\ queues = NoQueues /\ members = {}
  /\ step = "overview" /\ rabbit = Down("unprobed")
  /\ stayed = [queues |-> {}, nodes |-> {}]

\* Applications declare and delete queues, and consume or not, nodes join and
\* leave, until the last answer is in.
BrokerChanges ==
  /\ step # "done"
  /\ \/ /\ \E Q \in SUBSET QueueNames : queues' \in [Q -> BOOLEAN]
        /\ UNCHANGED members
     \/ members' \in SUBSET Nodes /\ UNCHANGED queues
  /\ stayed' = [queues |-> stayed.queues \cap DOMAIN queues',
                nodes |-> stayed.nodes \cap members']
  /\ UNCHANGED <<step, rabbit>>

\* GET /api/overview, answered by any node; the name of the node may be missing.
Overview ==
  /\ step = "overview" /\ step' = "nodes"
  /\ members # {}
  /\ \E n \in members \cup {NoInfo} :
       rabbit' = [Down("none") EXCEPT !.available = TRUE, !.node = n,
                                  !.queueCount = Cardinality(DOMAIN queues)]
  /\ stayed' = [queues |-> DOMAIN queues, nodes |-> members]
  /\ UNCHANGED <<queues, members>>

\* It fails, or no URL is configured.
OverviewFails ==
  /\ step = "overview" /\ step' = "done"
  /\ rabbit' = Down("overview")
  /\ UNCHANGED <<queues, members, stayed>>

\* The node of the overview, or else (it left, or had no name) the first listed.
NodeInfo_First(list) == IF list = <<>> THEN NoInfo ELSE list[1]
NodeInfo(list) ==
  IF rabbit.node \in ToSet(list) THEN rabbit.node
  ELSE IF list = <<>> THEN NoInfo ELSE list[1]

\* GET /api/nodes: an error is ignored.
ListNodes ==
  /\ step = "nodes" /\ step' = "queues"
  /\ \E list \in SetToSeqs(members) \cup {<<>>} :
       rabbit' = [rabbit EXCEPT !.info = NodeInfo(list)]
  /\ UNCHANGED <<queues, members, stayed>>

\* GET /api/queues
ListQueues_Consumed ==
  /\ step = "queues" /\ step' = "done"
  /\ rabbit' = [rabbit EXCEPT
       !.queues = [q \in {p \in DOMAIN queues : queues[p]} |-> TRUE]]
  /\ UNCHANGED <<queues, members, stayed>>

ListQueues ==
  /\ step = "queues" /\ step' = "done"
  /\ rabbit' = [rabbit EXCEPT !.queues = queues]
  /\ UNCHANGED <<queues, members, stayed>>

\* The panel stays available, with an error and no queues.
QueuesFail ==
  /\ step = "queues" /\ step' = "done"
  /\ rabbit' = [rabbit EXCEPT !.error = "queues"]
  /\ UNCHANGED <<queues, members, stayed>>

RabbitNext ==
  \/ BrokerChanges
  \/ Overview \/ OverviewFails \/ ListNodes \/ ListQueues \/ QueuesFail

\* rabbitLine of the digest: how many queues, and how many without consumer;
\* an unavailable broker has no such line.
RabbitLine ==
  [queues |-> Cardinality(DOMAIN rabbit.queues),
   idle |-> Cardinality({q \in DOMAIN rabbit.queues : ~rabbit.queues[q]})]
-----------------------------------------------------------------------------
RabbitTypeOK ==
  /\ DOMAIN queues \subseteq QueueNames /\ members \subseteq Nodes
  /\ step \in {"overview", "nodes", "queues", "done"}
  /\ rabbit.info \in Nodes \cup {NoInfo}
  /\ RabbitLine.idle <= RabbitLine.queues

Probed == step = "done" /\ rabbit.available

\* Without an error on the panel, every queue that was there from the first
\* answer on is listed, although the list is asked for two requests later.
QueuesListed ==
  (Probed /\ rabbit.error = "none") => stayed.queues \subseteq DOMAIN rabbit.queues

\* The state shown is that of the node the panel names, if that node stayed in the
\* cluster and the list of nodes was answered, whatever the order of the list.
NodeOfOverview ==
  (Probed /\ rabbit.node \in stayed.nodes) => rabbit.info \in {rabbit.node, NoInfo}

\* Where the digest counts no queue there was a time without one.
NoQueuesMeansNone ==
  (Probed /\ RabbitLine.queues = 0) => stayed.queues = {}
=============================================================================
