------------------------------- MODULE Gossip -------------------------------
(***************************************************************************)
(* The gossip between MEM nodes, and between the kernel and MEM nodes:     *)
(* ker/src/common/gossip.c, its messages in mem_protocol.c and             *)
(* ker_protocol.c, and the client connection each exchange runs over.      *)
(*                                                                         *)
(* Node p gossips with q over link[p][q]: it connects, sends AUTH, is      *)
(* acknowledged, asks for q's table and is disconnected.  One message at a *)
(* time is under way.  gossip_poll_events handles what a poll brings about *)
(* in the same pass over the table (a connection that is done or has       *)
(* failed is destroyed, one that was acknowledged asks for the table), so  *)
(* ACKNOWLEDGED, DONE and FAILED are no states between two steps.          *)
(*                                                                         *)
(* A node is its ip:port.  A number is only known or not.                  *)
(***************************************************************************)
EXTENDS Naturals, FiniteSets

CONSTANTS Mems,         \* MEM nodes
          Ker,          \* the kernel node
          Seeds,        \* node -> the seeds in its configuration
          MaxFaults,    \* bound: connections that break
          MaxCrashes    \* bound: MEM nodes that go down

Nodes == Mems \cup {Ker}

ASSUME NodesAssumption == Ker \notin Mems /\ IsFiniteSet(Mems)

(* Every MEM node can be reached over seeds, in one direction or the       *)
(* other: one that greets a node becomes known to it.                      *)
Reaches(S) == S \cup {q \in Mems : \E p \in S : q \in Seeds[p]}
                \cup {q \in Mems : Seeds[q] \cap S # {}}
ASSUME SeedsAssumption ==
    /\ Seeds \in [Nodes -> SUBSET Mems]
    /\ Seeds[Ker] # {}
    /\ \A S \in SUBSET Mems : Reaches(S) = S => S \in {{}, Mems}
ASSUME BoundsAssumption == {MaxFaults, MaxCrashes} \subseteq Nat

VARIABLES
    up,       \* the MEM nodes that run
    table,    \* node -> its gossip table
    link,     \* node -> MEM node -> client connection and message under way
    answer,   \* node -> MEM node -> the table in a RES_GOSSIP
    pool,     \* the MEM nodes the kernel has handed to mempool_add
    count     \* faults and crashes so far

vars == <<up, table, link, answer, pool, count>>

(* gossip_node_t                                                           *)
Unknown == [in |-> FALSE, known |-> FALSE, available |-> FALSE,
            stage |-> "NONE"]
Added(known) == [in |-> TRUE, known |-> known, available |-> TRUE,
                 stage |-> "NONE"]

NoLinks == [q \in Mems |-> "null"]
NoAnswer == [q \in Mems |-> {}]

(* gossip_add, which never adds the node itself nor changes an entry; and  *)
(* gossip_import, one gossip_add for each host the message names.          *)
Import(t, p, entries) ==
    [q \in Mems |->
        IF t[q].in \/ q = p \/ (\A e \in entries : e.host # q) THEN t[q]
        ELSE Added([host |-> q, known |-> TRUE] \in entries)]

(* gossip_init                                                             *)
Started(p) ==
    Import([q \in Mems |-> Unknown], p,
           [host : Seeds[p], known : {FALSE}])

Init ==
    /\ up = Mems
    /\ table = [p \in Nodes |-> Started(p)]
    /\ link = [p \in Nodes |-> NoLinks]
    /\ answer = [p \in Nodes |-> NoAnswer]
    /\ pool = {}
    /\ count = [fault |-> 0, crash |-> 0]

Runs(p) == p = Ker \/ p \in up

(* The numbers known to the kernel are handed to mempool_add.              *)
Known(t) == {q \in Mems : t[q].in /\ t[q].known}

-----------------------------------------------------------------------------
(* gossip_run, on the gossip timer: an exchange is started with every node *)
(* of the table that none is going on with, if there is any; the kernel    *)
(* adds the nodes it knows the numbers of to its pool in each round.       *)
Idle(p) == {q \in Mems : /\ table[p][q].in /\ table[p][q].stage = "NONE"
                         /\ link[p][q] = "null"}

GossipRun(p) ==
    /\ Runs(p)
    /\ table' = [table EXCEPT ![p] = [q \in Mems |->
           IF q \in Idle(p) THEN [@[q] EXCEPT !.stage = "HANDSHAKING"]
           ELSE @[q]]]
    /\ link' = [link EXCEPT ![p] = [q \in Mems |->
           IF q \in Idle(p) THEN "connecting" ELSE @[q]]]
    /\ pool' = IF p = Ker THEN pool \cup Known(table[p]) ELSE pool
    /\ UNCHANGED <<up, answer, count>>

(* _on_connected_to_mem sends AUTH.                                        *)
Connect(p, q) ==
    /\ Runs(p) /\ q \in up /\ link[p][q] = "connecting"
    /\ link' = [link EXCEPT ![p][q] = "auth"]
    /\ UNCHANGED <<up, table, answer, pool, count>>

(* Mutant: the table does not take in who authenticates.                   *)
HandleAuthOnly(q, p) ==
    /\ q \in up /\ link[p][q] = "auth"
    /\ link' = [link EXCEPT ![p][q] = "ack"]
    /\ UNCHANGED <<up, table, answer, pool, count>>

(* mem_handle_auth: a MEM node that authenticates is added to the table.   *)
HandleAuth(q, p) ==
    /\ q \in up /\ link[p][q] = "auth"
    /\ table' = IF p = Ker THEN table
                ELSE [table EXCEPT
                        ![q] = Import(@, q, {[host |-> p, known |-> TRUE]})]
    /\ link' = [link EXCEPT ![p][q] = "ack"]
    /\ UNCHANGED <<up, answer, pool, count>>

(* mem_handle_ack, ker_handle_ack: the number is known, and the table is   *)
(* asked for.                                                              *)
HandleAck(p, q) ==
    /\ Runs(p) /\ link[p][q] = "ack"
    /\ table' = [table EXCEPT ![p][q].known = TRUE,
                              ![p][q].stage = "REQUESTING"]
    /\ link' = [link EXCEPT ![p][q] = "req"]
    /\ UNCHANGED <<up, answer, pool, count>>

(* mem_handle_req_gossip, gossip_export: the nodes that are available, not *)
(* the node itself.                                                        *)
Export(q) == {[host |-> r, known |-> table[q][r].known] :
                 r \in {s \in Mems : table[q][s].in /\ table[q][s].available}}

HandleReqGossip(q, p) ==
    /\ q \in up /\ link[p][q] = "req"
    /\ answer' = [answer EXCEPT ![p][q] = Export(q)]
    /\ link' = [link EXCEPT ![p][q] = "res"]
    /\ UNCHANGED <<up, table, pool, count>>

(* mem_handle_res_gossip, ker_handle_res_gossip; _on_disconnected_from_mem *)
(* in stage DONE.                                                          *)
HandleResGossip(p, q) ==
    /\ Runs(p) /\ link[p][q] = "res"
    /\ table' = [table EXCEPT ![p] =
           [Import(@, p, answer[p][q]) EXCEPT ![q].available = TRUE,
                                              ![q].stage = "NONE"]]
    /\ link' = [link EXCEPT ![p][q] = "null"]
    /\ answer' = [answer EXCEPT ![p][q] = {}]
    /\ pool' = IF p = Ker /\ table[p][q].known THEN pool \cup {q} ELSE pool
    /\ UNCHANGED <<up, count>>

(* Mutant: the stage is not reset.                                         *)
FailStaged(p, q) ==
    /\ Runs(p)
    /\ \/ link[p][q] = "closed"
       \/ link[p][q] = "connecting" /\ q \notin up
    /\ table' = [table EXCEPT ![p][q].available = FALSE]
    /\ link' = [link EXCEPT ![p][q] = "null"]
    /\ UNCHANGED <<up, answer, pool, count>>

(* _on_disconnected_from_mem in any other stage: the connection was        *)
(* refused or closed.                                                      *)
Fail(p, q) ==
    /\ Runs(p)
    /\ \/ link[p][q] = "closed"
       \/ link[p][q] = "connecting" /\ q \notin up
    /\ table' = [table EXCEPT ![p][q].available = FALSE,
                              ![p][q].stage = "NONE"]
    /\ link' = [link EXCEPT ![p][q] = "null"]
    /\ UNCHANGED <<up, answer, pool, count>>

-----------------------------------------------------------------------------
Under == {"connecting", "auth", "ack", "req", "res"}

(* A connection breaks, or the server's timeouts close it.                 *)
Break(p, q) ==
    /\ link[p][q] \in Under /\ count.fault < MaxFaults
    /\ count' = [count EXCEPT !.fault = @ + 1]
    /\ link' = [link EXCEPT ![p][q] = "closed"]
    /\ answer' = [answer EXCEPT ![p][q] = {}]
    /\ UNCHANGED <<up, table, pool>>

(* A MEM node goes down; its table and its connections go with it.         *)
Crash(q) ==
    /\ q \in up /\ count.crash < MaxCrashes
    /\ count' = [count EXCEPT !.crash = @ + 1]
    /\ up' = up \ {q}
    /\ table' = [table EXCEPT ![q] = [r \in Mems |-> Unknown]]
    /\ link' = [p \in Nodes |-> IF p = q THEN NoLinks ELSE
           [link[p] EXCEPT ![q] = IF @ \in Under THEN "closed" ELSE @]]
    /\ answer' = [p \in Nodes |-> IF p = q THEN NoAnswer
                                  ELSE [answer[p] EXCEPT ![q] = {}]]
    /\ UNCHANGED pool

Restart(q) ==
    /\ q \in Mems \ up
    /\ up' = up \cup {q}
    /\ table' = [table EXCEPT ![q] = Started(q)]
    /\ UNCHANGED <<link, answer, pool, count>>

Poll(p, q) ==
    Connect(p, q) \/ HandleAck(p, q) \/ HandleResGossip(p, q) \/ Fail(p, q)
Serve(q, p) == HandleAuth(q, p) \/ HandleReqGossip(q, p)

Next ==
    \/ \E p \in Nodes : GossipRun(p)
    \/ \E p \in Nodes, q \in Mems : Poll(p, q) \/ Serve(q, p) \/ Break(p, q)
    \/ \E q \in Mems : Crash(q) \/ Restart(q)

(* The timers tick and the main loops poll for ever; a node that is down   *)
(* may stay down.                                                          *)
Fairness ==
    /\ \A p \in Nodes : WF_vars(GossipRun(p))
    /\ \A p \in Nodes, q \in Mems : WF_vars(Poll(p, q)) /\ WF_vars(Serve(q, p))

Spec == Init /\ [][Next]_vars /\ Fairness

-----------------------------------------------------------------------------
(* gossip.c:115, :165 and :274: a node is in an exchange exactly while it  *)
(* has a connection (or a later round would leave it out for ever), and    *)
(* has been acknowledged, its number learnt, before it asks.               *)
ExchangeExact ==
    \A p \in Nodes, q \in Mems :
       /\ table[p][q].in => q # p
       /\ link[p][q] = "null" <=> table[p][q].stage = "NONE"
       /\ link[p][q] \in {"req", "res"} =>
             table[p][q].stage = "REQUESTING" /\ table[p][q].known

AllKnown ==
    /\ \A p \in Nodes : \A q \in Mems \ {p} :
          table[p][q].in /\ table[p][q].available /\ table[p][q].known
    /\ pool = Mems

(* gossip.c:99: whatever connections broke and nodes went down, once every *)
(* MEM node stays up, everybody ends up in everybody's table as available, *)
(* and in the kernel's memory pool, for good.                              *)
Converges == <>[](up = Mems) => <>[]AllKnown
=============================================================================
