---------------------------- MODULE GossipProofs ----------------------------
(***************************************************************************)
(* The exchanges of the gossip, for any nodes, seeds and faults: stages    *)
(* and connections stay in step.                                           *)
(***************************************************************************)
EXTENDS Gossip, TLAPS

Entry == [in : BOOLEAN, known : BOOLEAN, available : BOOLEAN,
          stage : {"NONE", "HANDSHAKING", "REQUESTING"}]
Link == Under \cup {"null", "closed"}

(* What holds of the entry e that p has of q and of the connection l of    *)
(* their exchange.  Beside what ExchangeExact says, a node that is not in  *)
(* the table is in no exchange: it may be added at any time.               *)
InStep(e, l, p, q) ==
    /\ e.in => q # p
    /\ ~e.in => e.stage = "NONE"
    /\ l = "null" <=> e.stage = "NONE"
    /\ l \in {"req", "res"} => e.stage = "REQUESTING" /\ e.known

TypeInv ==
    /\ up \subseteq Mems
    /\ table \in [Nodes -> [Mems -> Entry]]
    /\ link \in [Nodes -> [Mems -> Link]]

(* The inductive invariant; a node that is down has no connections left,   *)
(* so that it starts again with a table that fits them.                    *)
IInv ==
    /\ TypeInv
    /\ \A p \in Nodes, q \in Mems : InStep(table[p][q], link[p][q], p, q)
    /\ \A q \in Mems \ up : link[q] = NoLinks

-----------------------------------------------------------------------------
(* gossip_add and gossip_import: an entry stays as it is, or one that was  *)
(* not there is added.                                                     *)
LEMMA ImportEntry ==
    ASSUME NEW t, NEW p, NEW S, NEW r \in Mems
    PROVE  \/ Import(t, p, S)[r] = t[r]
           \/ /\ ~t[r].in /\ r # p
              /\ \E k \in BOOLEAN : Import(t, p, S)[r] = Added(k)
<1> DEFINE k == [host |-> r, known |-> TRUE] \in S
<1>1. Import(t, p, S)[r] = IF t[r].in \/ r = p \/ (\A e \in S : e.host # r)
                           THEN t[r] ELSE Added(k)
  BY DEF Import
<1>2. k \in BOOLEAN
  OBVIOUS
<1> QED
  BY <1>1, <1>2

LEMMA AddedInStep ==
    ASSUME NEW e, NEW l, NEW p, NEW q, NEW k \in BOOLEAN,
           InStep(e, l, p, q), ~e.in, q # p
    PROVE  Added(k) \in Entry /\ InStep(Added(k), l, p, q)
BY DEF InStep, Added, Entry

LEMMA ImportInStep ==
    ASSUME NEW t \in [Mems -> Entry], NEW p, NEW S
    PROVE  /\ Import(t, p, S) \in [Mems -> Entry]
           /\ \A r \in Mems, l \in Link :
                 InStep(t[r], l, p, r) => InStep(Import(t, p, S)[r], l, p, r)
<1>1. \A k \in BOOLEAN : Added(k) \in Entry
  BY DEF Added, Entry
<1>2. \A r \in Mems : Import(t, p, S)[r] \in Entry
  BY <1>1, ImportEntry
<1>3. Import(t, p, S) \in [Mems -> Entry]
  BY <1>2 DEF Import
<1>4. ASSUME NEW r \in Mems, NEW l \in Link, InStep(t[r], l, p, r)
      PROVE  InStep(Import(t, p, S)[r], l, p, r)
  BY <1>4, ImportEntry, AddedInStep
<1> QED
  BY <1>3, <1>4

(* gossip_init                                                             *)
LEMMA StartedInStep ==
    ASSUME NEW p \in Nodes
    PROVE  /\ Started(p) \in [Mems -> Entry]
           /\ \A q \in Mems : InStep(Started(p)[q], "null", p, q)
<1> DEFINE t == [q \in Mems |-> Unknown]
<1>1. t \in [Mems -> Entry] /\ \A q \in Mems : InStep(t[q], "null", p, q)
  BY DEF Unknown, Entry, InStep
<1>2. "null" \in Link
  BY DEF Link
<1> QED
  BY <1>1, <1>2, ImportInStep DEF Started

LEMMA InitInv == Init => IInv
<1> SUFFICES ASSUME Init PROVE IInv
  OBVIOUS
<1>1. \A p \in Nodes, q \in Mems : link[p][q] = "null"
  BY DEF Init, NoLinks
<1>2. TypeInv
  BY StartedInStep DEF Init, TypeInv, NoLinks, Link
<1>3. \A p \in Nodes, q \in Mems : InStep(table[p][q], link[p][q], p, q)
  BY <1>1, StartedInStep DEF Init
<1> QED
  BY <1>2, <1>3 DEF Init, IInv
-----------------------------------------------------------------------------
(* A node with a connection runs.                                          *)
LEMMA ConnectedRuns ==
    ASSUME IInv, NEW p \in Nodes, NEW q \in Mems, link[p][q] # "null"
    PROVE  Runs(p)
BY DEF IInv, Runs, NoLinks, Nodes

(* A step that changes nothing but the exchange of p with q.               *)
LEMMA OneExchange ==
    ASSUME IInv, NEW p \in Nodes, NEW q \in Mems, Runs(p), up' = up,
           NEW e \in Entry, NEW l \in Link, InStep(e, l, p, q),
           table' = [table EXCEPT ![p][q] = e],
           link' = [link EXCEPT ![p][q] = l]
    PROVE  IInv'
<1>1. TypeInv'
  BY DEF IInv, TypeInv
<1>2. ASSUME NEW r \in Nodes, NEW s \in Mems
      PROVE  InStep(table'[r][s], link'[r][s], r, s)
  <2>1. CASE r = p /\ s = q
    BY <2>1 DEF IInv, TypeInv
  <2>2. CASE ~(r = p /\ s = q)
    <3>1. table'[r][s] = table[r][s] /\ link'[r][s] = link[r][s]
      BY <2>2 DEF IInv, TypeInv
    <3> QED
      BY <3>1 DEF IInv
  <2> QED
    BY <2>1, <2>2
<1>3. ASSUME NEW s \in Mems \ up'
      PROVE  link'[s] = NoLinks
  <2>1. s # p
    BY NodesAssumption DEF Runs
  <2> QED
    BY <2>1 DEF IInv, TypeInv, Nodes
<1> QED
  BY <1>1, <1>2, <1>3 DEF IInv

LEMMA ConnectInv ==
    ASSUME IInv, NEW p \in Nodes, NEW q \in Mems, Connect(p, q)
    PROVE  IInv'
<1>1. table[p][q] \in Entry /\ InStep(table[p][q], link[p][q], p, q)
  BY DEF IInv, TypeInv
<1>2. "auth" \in Link /\ InStep(table[p][q], "auth", p, q)
  BY <1>1 DEF Link, Under, InStep, Connect
<1>3. table' = [table EXCEPT ![p][q] = table[p][q]]
  BY DEF Connect, IInv, TypeInv
<1> QED
  BY <1>1, <1>2, <1>3, OneExchange DEF Connect

LEMMA HandleAckInv ==
    ASSUME IInv, NEW p \in Nodes, NEW q \in Mems, HandleAck(p, q)
    PROVE  IInv'
<1> DEFINE e == [table[p][q] EXCEPT !.known = TRUE, !.stage = "REQUESTING"]
<1>1. table[p][q] \in Entry /\ InStep(table[p][q], link[p][q], p, q)
  BY DEF IInv, TypeInv
<1>2. e \in Entry /\ "req" \in Link
  BY <1>1 DEF Entry, Link, Under
<1>3. InStep(e, "req", p, q)
  BY <1>1 DEF InStep, HandleAck, Entry
<1>4. table' = [table EXCEPT ![p][q] = e]
  BY DEF HandleAck, IInv, TypeInv
<1> QED
  BY <1>2, <1>3, <1>4, OneExchange DEF HandleAck

LEMMA FailInv ==
    ASSUME IInv, NEW p \in Nodes, NEW q \in Mems, Fail(p, q)
    PROVE  IInv'
<1> DEFINE e == [table[p][q] EXCEPT !.available = FALSE, !.stage = "NONE"]
<1>1. table[p][q] \in Entry /\ InStep(table[p][q], link[p][q], p, q)
  BY DEF IInv, TypeInv
<1>2. e \in Entry /\ "null" \in Link
  BY <1>1 DEF Entry, Link, Under
<1>3. InStep(e, "null", p, q)
  BY <1>1 DEF InStep, Entry
<1>4. table' = [table EXCEPT ![p][q] = e]
  BY DEF Fail, IInv, TypeInv
<1> QED
  BY <1>2, <1>3, <1>4, OneExchange DEF Fail

LEMMA HandleReqGossipInv ==
    ASSUME IInv, NEW p \in Nodes, NEW q \in Mems, HandleReqGossip(q, p)
    PROVE  IInv'
<1>1. table[p][q] \in Entry /\ InStep(table[p][q], "req", p, q) /\ Runs(p)
  BY ConnectedRuns DEF IInv, TypeInv, HandleReqGossip
<1>2. "res" \in Link /\ InStep(table[p][q], "res", p, q)
  BY <1>1 DEF Link, Under, InStep
<1>3. table' = [table EXCEPT ![p][q] = table[p][q]]
  BY DEF HandleReqGossip, IInv, TypeInv
<1> QED
  BY <1>1, <1>2, <1>3, OneExchange DEF HandleReqGossip

LEMMA BreakInv ==
    ASSUME IInv, NEW p \in Nodes, NEW q \in Mems, Break(p, q)
    PROVE  IInv'
<1>1. link[p][q] # "null"
  BY DEF Break, Under
<1>2. /\ table[p][q] \in Entry /\ InStep(table[p][q], link[p][q], p, q)
      /\ Runs(p)
  BY <1>1, ConnectedRuns DEF IInv, TypeInv
<1>3. "closed" \in Link /\ InStep(table[p][q], "closed", p, q)
  BY <1>1, <1>2 DEF Link, InStep
<1>4. table' = [table EXCEPT ![p][q] = table[p][q]]
  BY DEF Break, IInv, TypeInv
<1> QED
  BY <1>2, <1>3, <1>4, OneExchange DEF Break

LEMMA GossipRunInv ==
    ASSUME IInv, NEW p \in Nodes, GossipRun(p)
    PROVE  IInv'
<1> DEFINE E(q) == IF q \in Idle(p)
                   THEN [table[p][q] EXCEPT !.stage = "HANDSHAKING"]
                   ELSE table[p][q]
           L(q) == IF q \in Idle(p) THEN "connecting" ELSE link[p][q]
<1>1. /\ table' = [table EXCEPT ![p] = [q \in Mems |-> E(q)]]
      /\ link' = [link EXCEPT ![p] = [q \in Mems |-> L(q)]]
  BY DEF GossipRun, IInv, TypeInv
<1>2. ASSUME NEW q \in Mems
      PROVE  E(q) \in Entry /\ L(q) \in Link /\ InStep(E(q), L(q), p, q)
  <2>1. /\ table[p][q] \in Entry /\ link[p][q] \in Link
        /\ InStep(table[p][q], link[p][q], p, q)
    BY DEF IInv, TypeInv
  <2>2. CASE q \in Idle(p)
    BY <2>1, <2>2 DEF Entry, Link, Under, InStep, Idle
  <2>3. CASE q \notin Idle(p)
    BY <2>1, <2>3
  <2> QED
    BY <2>2, <2>3
<1>3. TypeInv'
  BY <1>1, <1>2 DEF IInv, TypeInv, GossipRun
<1>4. ASSUME NEW r \in Nodes, NEW q \in Mems
      PROVE  InStep(table'[r][q], link'[r][q], r, q)
  <2>1. CASE r = p
    <3>1. table'[r][q] = E(q) /\ link'[r][q] = L(q)
      BY <1>1, <2>1 DEF IInv, TypeInv
    <3> QED
      BY <1>2, <2>1, <3>1
  <2>2. CASE r # p
    BY <1>1, <2>2 DEF IInv, TypeInv
  <2> QED
    BY <2>1, <2>2
<1>5. ASSUME NEW q \in Mems \ up'
      PROVE  link'[q] = NoLinks
  <2>1. q # p /\ q \in Mems \ up
    BY NodesAssumption DEF GossipRun, Runs
  <2> QED
    BY <1>1, <2>1 DEF IInv, TypeInv, Nodes
<1> QED
  BY <1>3, <1>4, <1>5 DEF IInv

(* mem_handle_auth changes the exchange of p with q and the table of q.    *)
LEMMA HandleAuthInv ==
    ASSUME IInv, NEW p \in Nodes, NEW q \in Mems, HandleAuth(q, p)
    PROVE  IInv'
<1> DEFINE T == Import(table[q], q, {[host |-> p, known |-> TRUE]})
<1>1. Runs(p) /\ q \in Nodes
  BY ConnectedRuns DEF HandleAuth, Nodes
<1>2. /\ T \in [Mems -> Entry]
      /\ \A r \in Mems : InStep(T[r], link[q][r], q, r)
  BY <1>1, ImportInStep DEF IInv, TypeInv
<1>3. /\ link' = [link EXCEPT ![p][q] = "ack"]
      /\ table' = table \/ table' = [table EXCEPT ![q] = T]
  BY DEF HandleAuth
<1> HIDE DEF T
<1>4. TypeInv'
  <2>1. table' \in [Nodes -> [Mems -> Entry]]
    BY <1>2, <1>3 DEF IInv, TypeInv
  <2>2. "ack" \in Link
    BY DEF Link, Under
  <2>3. link' \in [Nodes -> [Mems -> Link]]
    BY <1>3, <2>2 DEF IInv, TypeInv
  <2> QED
    BY <2>1, <2>3 DEF HandleAuth, IInv, TypeInv
<1>5. ASSUME NEW r \in Nodes, NEW s \in Mems
      PROVE  InStep(table'[r][s], link[r][s], r, s)
  <2>1. CASE table' = table
    BY <2>1 DEF IInv
  <2>2. CASE table' = [table EXCEPT ![q] = T]
    <3>1. CASE r = q
      BY <1>1, <1>2, <2>2, <3>1 DEF IInv, TypeInv
    <3>2. CASE r # q
      BY <2>2, <3>2 DEF IInv, TypeInv
    <3> QED
      BY <3>1, <3>2
  <2> QED
    BY <1>3, <2>1, <2>2
<1>6. ASSUME NEW r \in Nodes, NEW s \in Mems
      PROVE  InStep(table'[r][s], link'[r][s], r, s)
  <2>1. CASE r = p /\ s = q
    <3>1. link[r][s] = "auth" /\ link'[r][s] = "ack"
      BY <1>3, <2>1 DEF HandleAuth, IInv, TypeInv
    <3> QED
      BY <1>5, <3>1 DEF InStep
  <2>2. CASE ~(r = p /\ s = q)
    BY <1>3, <1>5, <2>2 DEF IInv, TypeInv
  <2> QED
    BY <2>1, <2>2
<1>7. ASSUME NEW s \in Mems \ up'
      PROVE  link'[s] = NoLinks
  <2>1. s # p /\ s \in Mems \ up
    BY <1>1, NodesAssumption DEF HandleAuth, Runs
  <2> QED
    BY <1>3, <2>1 DEF IInv, TypeInv, Nodes
<1> QED
  BY <1>4, <1>6, <1>7 DEF IInv

LEMMA HandleResGossipInv ==
    ASSUME IInv, NEW p \in Nodes, NEW q \in Mems, HandleResGossip(p, q)
    PROVE  IInv'
<1> DEFINE T == Import(table[p], p, answer[p][q])
           e == [T[q] EXCEPT !.available = TRUE, !.stage = "NONE"]
<1>1. /\ T \in [Mems -> Entry]
      /\ \A r \in Mems : InStep(T[r], link[p][r], p, r)
  BY ImportInStep DEF IInv, TypeInv
<1>2. /\ link' = [link EXCEPT ![p][q] = "null"]
      /\ table' = [table EXCEPT ![p] = [T EXCEPT ![q] = e]]
  BY <1>1 DEF HandleResGossip
<1>3. e \in Entry /\ InStep(e, "null", p, q)
  <2>1. T[q] \in Entry /\ InStep(T[q], link[p][q], p, q)
    BY <1>1
  <2> HIDE DEF T
  <2> QED
    BY <2>1 DEF Entry, InStep
<1> HIDE DEF T, e
<1>4. TypeInv'
  <2>1. [T EXCEPT ![q] = e] \in [Mems -> Entry]
    BY <1>1, <1>3
  <2>2. table' \in [Nodes -> [Mems -> Entry]]
    BY <1>2, <2>1 DEF IInv, TypeInv
  <2>3. "null" \in Link
    BY DEF Link
  <2>4. link' \in [Nodes -> [Mems -> Link]]
    BY <1>2, <2>3 DEF IInv, TypeInv
  <2> QED
    BY <2>2, <2>4 DEF HandleResGossip, IInv, TypeInv
<1>5. ASSUME NEW r \in Nodes, NEW s \in Mems
      PROVE  InStep(table'[r][s], link'[r][s], r, s)
  <2>1. CASE r = p /\ s = q
    BY <1>1, <1>2, <1>3, <2>1 DEF IInv, TypeInv
  <2>2. CASE r = p /\ s # q
    BY <1>1, <1>2, <2>2 DEF IInv, TypeInv
  <2>3. CASE r # p
    BY <1>2, <2>3 DEF IInv, TypeInv
  <2> QED
    BY <2>1, <2>2, <2>3
<1>6. ASSUME NEW s \in Mems \ up'
      PROVE  link'[s] = NoLinks
  <2>1. s # p /\ s \in Mems \ up
    BY NodesAssumption DEF HandleResGossip, Runs
  <2> QED
    BY <1>2, <2>1 DEF IInv, TypeInv, Nodes
<1> QED
  BY <1>4, <1>5, <1>6 DEF IInv

(* A node goes down: its connections end, those to it are closed.          *)
LEMMA CrashInv ==
    ASSUME IInv, NEW q \in Mems, Crash(q)
    PROVE  IInv'
<1> DEFINE L(p, r) == IF p = q THEN "null"
                      ELSE IF r = q /\ link[p][r] \in Under THEN "closed"
                      ELSE link[p][r]
           E(p, r) == IF p = q THEN Unknown ELSE table[p][r]
<1>1. /\ table' \in [Nodes -> [Mems -> Entry]]
      /\ \A p \in Nodes, r \in Mems : table'[p][r] = E(p, r)
  BY DEF Crash, IInv, TypeInv, Unknown, Entry, Nodes
<1>2. /\ link' \in [Nodes -> [Mems -> Link]]
      /\ \A p \in Nodes, r \in Mems : link'[p][r] = L(p, r)
      /\ link'[q] = NoLinks
  BY DEF Crash, IInv, TypeInv, NoLinks, Link, Nodes
<1>3. TypeInv'
  BY <1>1, <1>2 DEF Crash, IInv, TypeInv
<1>4. ASSUME NEW p \in Nodes, NEW r \in Mems
      PROVE  InStep(table'[p][r], link'[p][r], p, r)
  <2>1. InStep(table[p][r], link[p][r], p, r)
    BY DEF IInv
  <2>2. InStep(E(p, r), L(p, r), p, r)
    BY <2>1 DEF InStep, Unknown, Under
  <2> QED
    BY <1>1, <1>2, <2>2
<1>5. ASSUME NEW s \in Mems \ up'
      PROVE  link'[s] = NoLinks
  <2>1. CASE s = q
    BY <1>2, <2>1
  <2>2. CASE s # q
    <3>1. link[s] = NoLinks
      BY <2>2 DEF Crash, IInv
    <3>2. \A r \in Mems : link'[s][r] = "null"
      BY <1>2, <2>2, <3>1 DEF NoLinks, Nodes, Under
    <3> QED
      BY <1>2, <3>2 DEF NoLinks, Nodes
  <2> QED
    BY <2>1, <2>2
<1> QED
  BY <1>3, <1>4, <1>5 DEF IInv

LEMMA RestartInv ==
    ASSUME IInv, NEW q \in Mems, Restart(q)
    PROVE  IInv'
<1>1. q \in Nodes /\ link' = link /\ link[q] = NoLinks
  BY DEF Restart, IInv, Nodes
<1>2. /\ Started(q) \in [Mems -> Entry]
      /\ \A r \in Mems : InStep(Started(q)[r], "null", q, r)
  BY <1>1, StartedInStep
<1>3. table' = [table EXCEPT ![q] = Started(q)] /\ up' = up \cup {q}
  BY DEF Restart
<1>4. TypeInv'
  BY <1>1, <1>2, <1>3 DEF IInv, TypeInv
<1>5. ASSUME NEW p \in Nodes, NEW r \in Mems
      PROVE  InStep(table'[p][r], link'[p][r], p, r)
  <2>1. CASE p = q
    BY <1>1, <1>2, <1>3, <2>1 DEF IInv, TypeInv, NoLinks
  <2>2. CASE p # q
    BY <1>1, <1>3, <2>2 DEF IInv, TypeInv
  <2> QED
    BY <2>1, <2>2
<1> QED
  BY <1>1, <1>3, <1>4, <1>5 DEF IInv

-----------------------------------------------------------------------------
LEMMA Inductive == IInv /\ [Next]_vars => IInv'
<1> SUFFICES ASSUME IInv, [Next]_vars PROVE IInv'
  OBVIOUS
<1>1. ASSUME NEW p \in Nodes, GossipRun(p) PROVE IInv'
  BY <1>1, GossipRunInv
<1>2. ASSUME NEW p \in Nodes, NEW q \in Mems, Poll(p, q) PROVE IInv'
  BY <1>2, ConnectInv, HandleAckInv, HandleResGossipInv, FailInv DEF Poll
<1>3. ASSUME NEW p \in Nodes, NEW q \in Mems, Serve(q, p) PROVE IInv'
  BY <1>3, HandleAuthInv, HandleReqGossipInv DEF Serve
<1>4. ASSUME NEW p \in Nodes, NEW q \in Mems, Break(p, q) PROVE IInv'
  BY <1>4, BreakInv
<1>5. ASSUME NEW q \in Mems, Crash(q) \/ Restart(q) PROVE IInv'
  BY <1>5, CrashInv, RestartInv
<1>6. CASE UNCHANGED vars
  BY <1>6 DEF vars, IInv, TypeInv
<1> QED
  BY <1>1, <1>2, <1>3, <1>4, <1>5, <1>6 DEF Next

(* gossip.c:115, :165 and :274: a node is in an exchange exactly while it  *)
(* has a connection, and asks only once it has been acknowledged, for any  *)
(* number of nodes, crashes and broken connections.                        *)
THEOREM ExchangeExactCorrect == Spec => []ExchangeExact
<1>1. IInv => ExchangeExact
  BY DEF IInv, InStep, ExchangeExact
<1> QED
  BY <1>1, InitInv, Inductive, PTL DEF Spec
=============================================================================
