----------------------------- MODULE InitGraph ------------------------------
(***************************************************************************)
(* lib::initgraph (lib/initgraph.cppm): the graph of boot stages and tasks *)
(* and the two engines that run it, presched_init_engine in kmain() and    *)
(* postsched_init_engine in the first kernel thread.                       *)
(*                                                                         *)
(* Global constructors register nodes and edges in an order C++ leaves     *)
(* open, so _nodes and _outlist are sets, and _pending, whose order is     *)
(* theirs, is a bag (a node pushed twice would count twice) from which any *)
(* node may be next. "pre" nodes belong to the first engine, "post" nodes  *)
(* to the second.                                                          *)
(***************************************************************************)
EXTENDS Naturals, FiniteSets

CONSTANT Nodes
ASSUME NodesFinite == IsFiniteSet(Nodes)

VARIABLES
    engine,       \* node::_engine, or "none" before realise_node
    edges,        \* the pairs <<source, target>> that were realised
    unsatisfied,  \* node::unsatisfied
    wanted,       \* the nodes with _wanted
    done,         \* the nodes with _done
    pending,      \* how often a node is in _pending
    phase         \* who runs

vars == <<engine, edges, unsatisfied, wanted, done, pending, phase>>

Phases == {"construct", "pre", "between", "post", "end", "panicked"}

TypeOK ==
    /\ engine \in [Nodes -> {"none", "pre", "post"}]
    /\ edges \in SUBSET (Nodes \X Nodes)
    /\ unsatisfied \in [Nodes -> Nat]
    /\ wanted \in SUBSET Nodes
    /\ done \in SUBSET Nodes
    /\ pending \in [Nodes -> Nat]
    /\ phase \in Phases

Predecessors(n) == {m \in Nodes : <<m, n>> \in edges}

Init ==
    /\ engine = [n \in Nodes |-> "none"]
    /\ edges = {}
    /\ unsatisfied = [n \in Nodes |-> 0]
    /\ wanted = {}
    /\ done = {}
    /\ pending = [n \in Nodes |-> 0]
    /\ phase = "construct"

-----------------------------------------------------------------------------
(* Mutations: plausible bugs in the definitions below.                     *)

\* run() starts every node of the engine, satisfied or not.
BugReady(e) == {n \in Nodes : engine[n] = e /\ n \notin done}

\* run() pushes a successor whenever an edge to it is satisfied.
BugReleased(n) == {s \in Nodes : <<n, s>> \in edges /\ s \in wanted}

\* run() forgets to count an edge down when the successor is in another engine.
BugCountedDown(n) ==
    [s \in Nodes |-> IF <<n, s>> \in edges /\ s \in wanted
                        THEN unsatisfied[s] - 1 ELSE unsatisfied[s]]

-----------------------------------------------------------------------------
\* realise_node() and realise_edge(), from the constructors of nodes, stages
\* and tasks. An edge leads to or from the task being constructed.
RealiseNode(n, e) ==
    /\ phase = "construct"
    /\ engine[n] = "none"
    /\ engine' = [engine EXCEPT ![n] = e]
    /\ UNCHANGED <<edges, unsatisfied, wanted, done, pending, phase>>

Counted(m, n) == [unsatisfied EXCEPT ![n] = @ + 1]

RealiseEdge(m, n) ==
    /\ phase = "construct"
    /\ engine[m] # "none" /\ engine[n] # "none"
    /\ m # n /\ <<m, n>> \notin edges
    /\ edges' = edges \union {<<m, n>>}
    /\ unsatisfied' = Counted(m, n)
    /\ UNCHANGED <<engine, wanted, done, pending, phase>>

\* engine::run(), the first two loops.
Ready(e) == {n \in Nodes : engine[n] = e /\ n \notin done /\ unsatisfied[n] = 0}

Run(e) ==
    /\ phase = IF e = "pre" THEN "construct" ELSE "between"
    /\ wanted' = wanted \union {n \in Nodes : engine[n] = e}
    /\ pending' = [n \in Nodes |-> IF n \in Ready(e) THEN pending[n] + 1 ELSE pending[n]]
    /\ phase' = e
    /\ UNCHANGED <<engine, edges, unsatisfied, done>>

\* engine::run(), one round of the third loop: activate a node, count down its
\* successors and push the ones this satisfied.
CountedDown(n) ==
    [s \in Nodes |-> IF <<n, s>> \in edges THEN unsatisfied[s] - 1 ELSE unsatisfied[s]]
Released(n) ==
    {s \in Nodes : /\ <<n, s>> \in edges /\ unsatisfied[s] = 1
                   /\ s \in wanted /\ s \notin done}

Activate(n) ==
    /\ phase \in {"pre", "post"}
    /\ pending[n] > 0
    /\ done' = done \union {n}
    /\ unsatisfied' = CountedDown(n)
    /\ pending' = [s \in Nodes |->
                     (IF s = n THEN pending[s] - 1 ELSE pending[s])
                       + (IF s \in Released(n) THEN 1 ELSE 0)]
    /\ UNCHANGED <<engine, edges, wanted, phase>>

\* engine::run(), the rest: panic if a node of the engine was not reached.
Unreached == {n \in Nodes : engine[n] = phase /\ n \in wanted /\ n \notin done}

\* A mutation: run() loops until no node is unreached.
BugFinish ==
    /\ phase \in {"pre", "post"} /\ Unreached = {}
    /\ phase' = IF phase = "pre" THEN "between" ELSE "end"
    /\ UNCHANGED <<engine, edges, unsatisfied, wanted, done, pending>>

Finish ==
    /\ phase \in {"pre", "post"}
    /\ \A n \in Nodes : pending[n] = 0
    /\ phase' = IF Unreached # {} THEN "panicked"
                ELSE IF phase = "pre" THEN "between" ELSE "end"
    /\ UNCHANGED <<engine, edges, unsatisfied, wanted, done, pending>>

Next ==
    \/ \E n \in Nodes, e \in {"pre", "post"} : RealiseNode(n, e)
    \/ \E m, n \in Nodes : RealiseEdge(m, n)
    \/ \E e \in {"pre", "post"} : Run(e)
    \/ \E n \in Nodes : Activate(n)
    \/ Finish

Spec == Init /\ [][Next]_vars

\* The boot thread keeps executing and every task returns.
Fairness ==
    /\ WF_vars(\E e \in {"pre", "post"} : Run(e))
    /\ WF_vars(\E n \in Nodes : Activate(n))
    /\ WF_vars(Finish)

FairSpec == Spec /\ Fairness

-----------------------------------------------------------------------------
(***************************************************************************)
(* unsatisfied counts exactly the predecessors that are not done, across   *)
(* both engines. So bug_on(successor->unsatisfied == 0) never fires.       *)
(***************************************************************************)
UnsatisfiedExact ==
    \A n \in Nodes : unsatisfied[n] = Cardinality(Predecessors(n) \ done)

(***************************************************************************)
(* _pending holds exactly the nodes that are wanted, satisfied and not     *)
(* done, each once: an intrusive list would not survive a second push, and *)
(* bug_on(current->_wanted == false || current->_done == true) never       *)
(* fires.                                                                  *)
(***************************************************************************)
PendingExact ==
    \A n \in Nodes :
        pending[n] = IF n \in wanted \ done /\ Predecessors(n) \subseteq done
                        THEN 1 ELSE 0

(***************************************************************************)
(* The books of both engines are exact, so that neither assertion of run() *)
(* fires and no node is lost or run twice.                                 *)
(***************************************************************************)
CountsExact == TypeOK /\ UnsatisfiedExact /\ PendingExact

(***************************************************************************)
(* A stage is reached, and a task run, only when everything it requires is *)
(* done, whichever engine that ran in; and nothing is run twice.           *)
(***************************************************************************)
DependenciesFirst ==
    [][\A n \in Nodes : Activate(n) => n \notin done /\ Predecessors(n) \subseteq done]_vars

\* Every node of S has a predecessor in S: S runs in circles.
Circular(S) == \A n \in S : \E m \in S : <<m, n>> \in edges

(***************************************************************************)
(* on_unreached() panics only for a reason: the nodes depend on each other *)
(* in a circle, or a node of the first engine depends on the second.       *)
(***************************************************************************)
PanicHasReason ==
    phase = "panicked" =>
        \/ \E S \in SUBSET Nodes : S # {} /\ Circular(S)
        \/ \E e \in edges : engine[e[1]] = "post" /\ engine[e[2]] = "pre"

(***************************************************************************)
(* Boot never completes past a circular dependency: the nodes that are     *)
(* done contain no circle, and at the end all nodes are done.              *)
(***************************************************************************)
NoCircleDone ==
    /\ \A S \in SUBSET done : Circular(S) => S = {}
    /\ phase = "end" => \A n \in Nodes : engine[n] # "none" => n \in done

(***************************************************************************)
(* Boot ends well when it can and only then: a panic has a reason in the   *)
(* graph, and a circle is never passed over.                               *)
(***************************************************************************)
OutcomeTrue == PanicHasReason /\ NoCircleDone

(***************************************************************************)
(* Both engines come to an end: boot completes or panics.                  *)
(***************************************************************************)
BootEnds == <>(phase \in {"end", "panicked"})
=============================================================================
