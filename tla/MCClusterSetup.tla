---------------------------- MODULE MCClusterSetup ----------------------------
EXTENDS ClusterSetup

Colocated(nodes, gpus, real, mp) ==
  [nodes |-> nodes, gpus |-> gpus, real |-> real, colocated |-> TRUE, inference |-> 0, mp |-> mp]
Apart(nodes, gpus, real, inference, mp) ==
  [nodes |-> nodes, gpus |-> gpus, real |-> real, colocated |-> FALSE, inference |-> inference,
   mp |-> mp]

CheckedSetups ==
  \* replicas of one GPU, of a node, of two nodes; a Ray cluster with a node more
  {Colocated(2, 2, 2, mp) : mp \in {1, 2, 4}} \cup {Colocated(2, 2, 3, 4)}
  \* replicas that leave a GPU of each node over, or do not divide the world
    \cup {Colocated(2, 3, 2, 2), Colocated(1, 3, 1, 2)}
  \* not colocated: on one node, on two, with no GPU left for training
    \cup {Apart(1, 3, 1, 2, 2), Apart(1, 2, 1, 1, 1), Apart(2, 2, 2, 1, 2), Apart(3, 1, 3, 2, 2),
          Apart(1, 2, 1, 2, 1), Apart(2, 1, 2, 2, 1), Apart(3, 3, 3, 2, 2)}

=============================================================================
