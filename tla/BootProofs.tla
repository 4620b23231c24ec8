----------------------------- MODULE BootProofs -----------------------------
(***************************************************************************)
(* Proofs about module Boot: the boot graph for every finite set of nodes  *)
(* and every graph the constructors can build; the loader of modules for   *)
(* every set of files; the glue to uACPI for every set of waiters, every   *)
(* set of timeouts and every bound on work, calls and signals.  A step of  *)
(* one part leaves the state of the others alone, so each part is proved   *)
(* by itself.                                                              *)
(***************************************************************************)
EXTENDS Boot, FiniteSetTheorems, SequenceTheorems, WellFoundedInduction, TLAPS

-----------------------------------------------------------------------------
(* The boot graph.  The properties are inductive together with             *)
(* Bookkeeping, which ties wanted and done to the phase: which engine's    *)
(* nodes are wanted, that the first engine's nodes are all done once it    *)
(* has finished, and that done is closed under predecessors.               *)

Of(e) == {n \in Nodes : engine[n] = e}

Bookkeeping ==
    /\ \A e \in edges : engine[e[1]] # "none" /\ engine[e[2]] # "none"
    /\ phase = "construct" => wanted = {}
    /\ phase \in {"pre", "between"} => wanted = Of("pre")
    /\ phase \in {"post", "end"} => wanted = Of("pre") \union Of("post")
    /\ phase \in {"between", "post", "end"} => Of("pre") \subseteq done
    /\ phase = "end" => Of("post") \subseteq done
    /\ done \subseteq wanted
    /\ \A n \in done : Predecessors(n) \subseteq done

IInv ==
    /\ TypeOK
    /\ UnsatisfiedExact
    /\ PendingExact
    /\ Bookkeeping
    /\ PanicHasReason
    /\ NoCircleDone

-----------------------------------------------------------------------------
(* Counting predecessors. *)

LEMMA PredecessorsFinite ==
    ASSUME NEW n \in Nodes
    PROVE  /\ IsFiniteSet(Predecessors(n) \ done)
           /\ Cardinality(Predecessors(n) \ done) \in Nat
           /\ Cardinality(Predecessors(n) \ done) = 0 <=> Predecessors(n) \subseteq done
<1>1. Predecessors(n) \ done \subseteq Nodes  BY DEF Predecessors
<1>2. IsFiniteSet(Predecessors(n) \ done)  BY <1>1, NodesFinite, FS_Subset
<1>3. Cardinality(Predecessors(n) \ done) \in Nat  BY <1>2, FS_CardinalityType
<1>4. Cardinality(Predecessors(n) \ done) = 0 <=> Predecessors(n) \ done = {}
  BY <1>2, FS_EmptySet
<1> QED BY <1>2, <1>3, <1>4

\* Taking one open predecessor away takes one off the count.
LEMMA OnePredecessorLess ==
    ASSUME NEW s \in Nodes, NEW n \in Predecessors(s), n \notin done
    PROVE  /\ Cardinality(Predecessors(s) \ (done \union {n}))
                = Cardinality(Predecessors(s) \ done) - 1
           /\ Cardinality(Predecessors(s) \ done) = 1
                <=> Predecessors(s) \subseteq done \union {n}
<1> DEFINE P == Predecessors(s) \ done
<1>1. IsFiniteSet(P) /\ Cardinality(P) \in Nat  BY PredecessorsFinite
<1>2. Predecessors(s) \ (done \union {n}) = P \ {n}  OBVIOUS
<1>3. n \in P  OBVIOUS
<1>4. IsFiniteSet(P \ {n}) /\ Cardinality(P \ {n}) = Cardinality(P) - 1
  BY <1>1, <1>3, FS_RemoveElement
<1>5. Cardinality(P \ {n}) = 0 <=> P \ {n} = {}
  BY <1>4, FS_EmptySet
<1>6. P \ {n} = {} <=> Predecessors(s) \subseteq done \union {n}  OBVIOUS
<1>7. Cardinality(P) = 1 <=> Cardinality(P \ {n}) = 0
  BY <1>1, <1>4
<1> HIDE DEF P
<1>8. /\ Cardinality(P \ {n}) = Cardinality(P) - 1
      /\ Cardinality(P) = 1 <=> Predecessors(s) \subseteq done \union {n}
  BY <1>4, <1>5, <1>6, <1>7
<1> QED BY <1>2, <1>8 DEF P

-----------------------------------------------------------------------------
LEMMA InitIInv == Init => IInv
<1> SUFFICES ASSUME Init PROVE IInv  OBVIOUS
<1> USE DEF Init
<1>1. TypeOK  BY DEF TypeOK, Phases
<1>2. \A n \in Nodes : Predecessors(n) = {}  BY DEF Predecessors
<1>3. UnsatisfiedExact
  <2> SUFFICES ASSUME NEW n \in Nodes
               PROVE  unsatisfied[n] = Cardinality(Predecessors(n) \ done)
    BY DEF UnsatisfiedExact
  <2>1. Predecessors(n) \ done = {}  BY <1>2
  <2> QED BY <2>1, FS_EmptySet
<1>4. PendingExact  BY DEF PendingExact
<1>5. Bookkeeping  BY DEF Bookkeeping
<1>6. PanicHasReason  BY DEF PanicHasReason
<1>7. NoCircleDone  BY DEF NoCircleDone
<1> QED BY <1>1, <1>3, <1>4, <1>5, <1>6, <1>7 DEF IInv

-----------------------------------------------------------------------------
(* One lemma per action. *)

LEMMA RealiseNodeStep ==
    ASSUME IInv, NEW n \in Nodes, NEW e \in {"pre", "post"}, RealiseNode(n, e)
    PROVE  IInv'
<1> USE DEF IInv, RealiseNode
<1>1. TypeOK'  BY DEF TypeOK
<1>2. \A m \in Nodes : Predecessors(m)' = Predecessors(m)  BY DEF Predecessors
<1>3. UnsatisfiedExact'  BY <1>2 DEF UnsatisfiedExact
<1>4. PendingExact'  BY <1>2 DEF PendingExact
<1>5. Bookkeeping'  BY <1>2 DEF Bookkeeping, TypeOK
<1>6. PanicHasReason'  BY DEF PanicHasReason
<1>7. NoCircleDone'  BY DEF NoCircleDone, Circular
<1> QED BY <1>1, <1>3, <1>4, <1>5, <1>6, <1>7

LEMMA RealiseEdgeStep ==
    ASSUME IInv, NEW m \in Nodes, NEW n \in Nodes, RealiseEdge(m, n)
    PROVE  IInv'
<1> USE DEF IInv, RealiseEdge
<1>0. done = {} /\ wanted = {}  BY DEF Bookkeeping
<1>1. TypeOK'  BY DEF TypeOK, Counted
<1>2. \A s \in Nodes : Predecessors(s)' = IF s = n THEN Predecessors(s) \union {m}
                                          ELSE Predecessors(s)
  BY DEF Predecessors, TypeOK
<1>3. UnsatisfiedExact'
  <2> SUFFICES ASSUME NEW s \in Nodes
               PROVE  unsatisfied'[s] = Cardinality(Predecessors(s)' \ done)
    BY DEF UnsatisfiedExact
  <2>1. CASE s # n
    BY <2>1, <1>2 DEF UnsatisfiedExact, Counted, TypeOK
  <2>2. CASE s = n
    <3>1. m \notin Predecessors(n)  BY DEF Predecessors
    <3>2. IsFiniteSet(Predecessors(n) \ done)  BY PredecessorsFinite
    <3>3. Cardinality((Predecessors(n) \ done) \union {m}) = Cardinality(Predecessors(n) \ done) + 1
      BY <3>1, <3>2, FS_AddElement
    <3>4. (Predecessors(n) \ done) \union {m} = Predecessors(n)' \ done
      BY <1>0, <1>2
    <3>5. unsatisfied'[n] = unsatisfied[n] + 1  BY DEF Counted, TypeOK
    <3> QED BY <2>2, <3>3, <3>4, <3>5 DEF UnsatisfiedExact
  <2> QED BY <2>1, <2>2
<1>4. PendingExact'  BY <1>0 DEF PendingExact
<1>5. Bookkeeping'  BY <1>0 DEF Bookkeeping, TypeOK, Of
<1>6. PanicHasReason'  BY DEF PanicHasReason
<1>7. NoCircleDone'  BY <1>0 DEF NoCircleDone
<1> QED BY <1>1, <1>3, <1>4, <1>5, <1>6, <1>7

LEMMA RunStep ==
    ASSUME IInv, NEW e \in {"pre", "post"}, Run(e)
    PROVE  IInv'
<1> USE DEF IInv, Run
<1>1. TypeOK'  BY DEF TypeOK, Phases
<1>2. \A n \in Nodes : Predecessors(n)' = Predecessors(n)  BY DEF Predecessors
<1>3. UnsatisfiedExact'  BY <1>2 DEF UnsatisfiedExact
<1>4. PendingExact'
  <2> SUFFICES ASSUME NEW n \in Nodes
               PROVE  pending'[n] = IF n \in wanted' \ done /\ Predecessors(n) \subseteq done
                                       THEN 1 ELSE 0
    BY <1>2 DEF PendingExact
  <2>1. wanted \subseteq done
    BY DEF Bookkeeping, Of
  <2>2. pending[n] = 0  BY <2>1 DEF PendingExact
  <2>3. unsatisfied[n] = 0 <=> Predecessors(n) \subseteq done
    BY PredecessorsFinite DEF UnsatisfiedExact
  <2>4. n \in wanted' \ done <=> engine[n] = e /\ n \notin done
    BY <2>1
  <2> QED BY <2>2, <2>3, <2>4 DEF Ready
<1>5. Bookkeeping'
  <2>1. Of("pre")' = Of("pre") /\ Of("post")' = Of("post")  BY DEF Of
  <2> QED BY <1>2, <2>1 DEF Bookkeeping, Of
<1>6. PanicHasReason'  BY DEF PanicHasReason
<1>7. NoCircleDone'  BY DEF NoCircleDone, Circular
<1> QED BY <1>1, <1>3, <1>4, <1>5, <1>6, <1>7

\* What is known of the node that is activated.
LEMMA ActivatedReady ==
    ASSUME IInv, NEW n \in Nodes, Activate(n)
    PROVE  /\ pending[n] = 1
           /\ n \in wanted /\ n \notin done
           /\ Predecessors(n) \subseteq done
           /\ <<n, n>> \notin edges
BY DEF IInv, PendingExact, Activate, TypeOK, Predecessors

LEMMA ActivateStep ==
    ASSUME IInv, NEW n \in Nodes, Activate(n)
    PROVE  IInv'
<1> USE DEF IInv, Activate
<1>0. /\ pending[n] = 1
      /\ n \in wanted /\ n \notin done
      /\ Predecessors(n) \subseteq done
      /\ <<n, n>> \notin edges
  BY ActivatedReady
<1>1. \A s \in Nodes : Predecessors(s)' = Predecessors(s)  BY DEF Predecessors
<1>2. \A s \in Nodes : <<n, s>> \in edges => /\ n \in Predecessors(s)
                                             /\ unsatisfied[s] = Cardinality(Predecessors(s) \ done)
                                             /\ unsatisfied[s] \in Nat \ {0}
  <2> SUFFICES ASSUME NEW s \in Nodes, <<n, s>> \in edges
               PROVE  /\ n \in Predecessors(s)
                      /\ unsatisfied[s] = Cardinality(Predecessors(s) \ done)
                      /\ unsatisfied[s] \in Nat \ {0}
    OBVIOUS
  <2>1. n \in Predecessors(s)  BY DEF Predecessors
  <2>2. unsatisfied[s] = Cardinality(Predecessors(s) \ done)  BY DEF UnsatisfiedExact
  <2> QED BY <2>1, <2>2, <1>0, PredecessorsFinite
<1>3. TypeOK'
  <2>1. unsatisfied' \in [Nodes -> Nat]
    <3> SUFFICES ASSUME NEW s \in Nodes
                 PROVE  (IF <<n, s>> \in edges THEN unsatisfied[s] - 1 ELSE unsatisfied[s]) \in Nat
      BY DEF CountedDown
    <3>1. unsatisfied[s] \in Nat  BY DEF TypeOK
    <3>2. <<n, s>> \in edges => unsatisfied[s] \in Nat \ {0}  BY <1>2
    <3> QED BY <3>1, <3>2
  <2>2. pending' \in [Nodes -> Nat]  BY <1>0 DEF TypeOK
  <2> QED BY <2>1, <2>2 DEF TypeOK
<1>4. UnsatisfiedExact'
  <2> SUFFICES ASSUME NEW s \in Nodes
               PROVE  unsatisfied'[s] = Cardinality(Predecessors(s) \ (done \union {n}))
    BY <1>1 DEF UnsatisfiedExact
  <2>1. CASE <<n, s>> \in edges
    BY <2>1, <1>0, <1>2, OnePredecessorLess DEF CountedDown
  <2>2. CASE <<n, s>> \notin edges
    <3>1. Predecessors(s) \ (done \union {n}) = Predecessors(s) \ done
      BY <2>2 DEF Predecessors
    <3> QED BY <2>2, <3>1 DEF CountedDown, UnsatisfiedExact
  <2> QED BY <2>1, <2>2
<1>5. PendingExact'
  <2> SUFFICES ASSUME NEW s \in Nodes
               PROVE  pending'[s] =
                        IF s \in wanted \ (done \union {n})
                             /\ Predecessors(s) \subseteq done \union {n}
                        THEN 1 ELSE 0
    BY <1>1 DEF PendingExact
  <2>1. CASE s = n
    BY <2>1, <1>0 DEF Released
  <2>2. CASE s # n /\ <<n, s>> \in edges
    <3>1. pending[s] = 0  BY <2>2, <1>0, <1>2 DEF PendingExact
    <3>2. unsatisfied[s] = 1 <=> Predecessors(s) \subseteq done \union {n}
      BY <2>2, <1>0, <1>2, OnePredecessorLess
    <3> QED BY <2>2, <3>1, <3>2 DEF Released
  <2>3. CASE s # n /\ <<n, s>> \notin edges
    <3>1. Predecessors(s) \subseteq done \union {n} <=> Predecessors(s) \subseteq done
      BY <2>3 DEF Predecessors
    <3>2. s \notin Released(n)  BY <2>3 DEF Released
    <3>3. pending'[s] = pending[s]  BY <2>3, <3>2 DEF TypeOK
    <3> QED BY <2>3, <3>1, <3>3 DEF PendingExact
  <2> QED BY <2>1, <2>2, <2>3
<1>6. Bookkeeping'
  <2>1. Of("pre")' = Of("pre") /\ Of("post")' = Of("post")  BY DEF Of
  <2>2. done' \subseteq Nodes /\ done \subseteq done'  BY DEF TypeOK
  <2>3. \A s \in done' : Predecessors(s) \subseteq done
    BY <1>0 DEF Bookkeeping
  <2> QED BY <1>0, <1>1, <2>1, <2>2, <2>3 DEF Bookkeeping
<1>7. PanicHasReason'  BY DEF PanicHasReason
<1>8. NoCircleDone'
  <2>1. phase # "end"  OBVIOUS
  <2>2. ASSUME NEW S \in SUBSET (done \union {n}), Circular(S)
        PROVE  S = {}
    <3>1. Circular(S \ {n})
      <4> SUFFICES ASSUME NEW x \in S \ {n}
                   PROVE  \E m \in S \ {n} : <<m, x>> \in edges
        BY DEF Circular
      <4>1. PICK m \in S : <<m, x>> \in edges  BY <2>2 DEF Circular
      <4>2. x \in done /\ x \in Nodes  BY DEF TypeOK
      <4>3. n \notin Predecessors(x)  BY <4>2, <1>0 DEF Bookkeeping
      <4>4. m # n  BY <4>1, <4>2, <4>3 DEF Predecessors
      <4> QED BY <4>1, <4>4
    <3>2. S \ {n} = {}  BY <3>1 DEF NoCircleDone
    <3>3. n \notin S  BY <3>2, <2>2, <1>0 DEF Circular
    <3> QED BY <3>2, <3>3
  <2>3. \A S : Circular(S)' <=> Circular(S)  BY DEF Circular
  <2> QED BY <2>1, <2>2, <2>3 DEF NoCircleDone
<1> QED BY <1>3, <1>4, <1>5, <1>6, <1>7, <1>8

LEMMA FinishStep ==
    ASSUME IInv, Finish
    PROVE  IInv'
<1> USE DEF IInv, Finish
<1>1. TypeOK'  BY DEF TypeOK, Phases
<1>2. \A n \in Nodes : Predecessors(n)' = Predecessors(n)  BY DEF Predecessors
<1>3. UnsatisfiedExact'  BY <1>2 DEF UnsatisfiedExact
<1>4. PendingExact'  BY <1>2 DEF PendingExact
<1>5. Unreached = {} => Of(phase) \subseteq done
  BY DEF Unreached, Of, Bookkeeping
<1>6. Bookkeeping'
  <2>1. Of("pre")' = Of("pre") /\ Of("post")' = Of("post")  BY DEF Of
  <2>2. done \subseteq Nodes  BY DEF TypeOK
  <2>3. \A n \in done : Predecessors(n)' \subseteq done
    BY <1>2, <2>2 DEF Bookkeeping
  <2> QED BY <1>5, <2>1, <2>3 DEF Bookkeeping
<1>7. PanicHasReason'
  <2> SUFFICES ASSUME Unreached # {},
                      \A e \in edges : ~(engine[e[1]] = "post" /\ engine[e[2]] = "pre")
               PROVE  Circular(Unreached)
    <3>1. Unreached \in SUBSET Nodes  BY DEF Unreached
    <3>2. \A S : Circular(S)' <=> Circular(S)  BY DEF Circular
    <3> QED BY <3>1, <3>2 DEF PanicHasReason
  <2> SUFFICES ASSUME NEW n \in Unreached
               PROVE  \E m \in Unreached : <<m, n>> \in edges
    BY DEF Circular
  <2>1. n \in Nodes /\ n \in wanted \ done /\ engine[n] = phase  BY DEF Unreached
  <2>2. PICK m \in Predecessors(n) : m \notin done
    BY <2>1 DEF PendingExact
  <2>3. m \in Nodes /\ <<m, n>> \in edges  BY <2>2 DEF Predecessors
  <2>4. engine[m] \in {"pre", "post"}
    BY <2>3 DEF Bookkeeping, TypeOK
  <2>5. engine[m] = phase
    BY <2>1, <2>2, <2>3, <2>4 DEF Bookkeeping, Of
  <2>6. m \in wanted
    BY <2>3, <2>5 DEF Bookkeeping, Of
  <2> QED BY <2>2, <2>3, <2>5, <2>6 DEF Unreached
<1>8. NoCircleDone'
  <2>1. \A S : Circular(S)' <=> Circular(S)  BY DEF Circular
  <2>2. phase' = "end" => Of("pre") \union Of("post") \subseteq done
    BY <1>5 DEF Bookkeeping
  <2>3. phase' = "end" => \A n \in Nodes : engine[n] # "none" => n \in done
    BY <2>2 DEF Of, TypeOK
  <2> QED BY <2>1, <2>3 DEF NoCircleDone
<1> QED BY <1>1, <1>3, <1>4, <1>6, <1>7, <1>8

LEMMA StutterStep == ASSUME IInv, UNCHANGED vars PROVE IInv'
<1> USE DEF IInv, vars
<1>1. TypeOK'  BY DEF TypeOK
<1>2. \A n \in Nodes : Predecessors(n)' = Predecessors(n)  BY DEF Predecessors
<1>3. UnsatisfiedExact' /\ PendingExact'  BY <1>2 DEF UnsatisfiedExact, PendingExact
<1>4. Bookkeeping'  BY <1>2 DEF Bookkeeping, Of, TypeOK
<1>5. PanicHasReason' /\ NoCircleDone'  BY DEF PanicHasReason, NoCircleDone, Circular
<1> QED BY <1>1, <1>3, <1>4, <1>5

\* The inductive invariant holds in every reachable state.
THEOREM Invariant == BootSpec => []IInv
<1>1. IInv /\ [Next]_vars => IInv'
  BY RealiseNodeStep, RealiseEdgeStep, RunStep, ActivateStep, FinishStep, StutterStep
  DEF Next
<1>2. BootInit => Init
  BY DEF BootInit
<1>3. [BootNext]_bootVars => [Next]_vars
  BY DEF BootNext, bootVars
<1> QED BY InitIInv, <1>1, <1>2, <1>3, PTL DEF BootSpec

\* Every reachable state of the boot graph and its engines is well typed.
THEOREM TypeCorrect == BootSpec => []TypeOK
BY Invariant, PTL DEF IInv

\* The count of open predecessors is exact, so the assertion at
\* initgraph.cppm:205 holds for every graph.
THEOREM UnsatisfiedExactInvariant == BootSpec => []UnsatisfiedExact
BY Invariant, PTL DEF IInv

\* The pending list holds exactly the nodes that can run, once each, so the
\* assertion at initgraph.cppm:191 holds for every graph.
THEOREM PendingExactInvariant == BootSpec => []PendingExact
BY Invariant, PTL DEF IInv

\* on_unreached() panics only for a circular or a backward dependency.
THEOREM PanicHasReasonInvariant == BootSpec => []PanicHasReason
BY Invariant, PTL DEF IInv

\* Boot never completes past a circular dependency.
THEOREM NoCircleDoneInvariant == BootSpec => []NoCircleDone
BY Invariant, PTL DEF IInv

\* The books of both engines are exact in every reachable state.
THEOREM CountsExactInvariant == BootSpec => []CountsExact
BY TypeCorrect, UnsatisfiedExactInvariant, PendingExactInvariant, PTL DEF CountsExact

\* A panic has a reason in the graph, and a circle is never passed over.
THEOREM OutcomeTrueInvariant == BootSpec => []OutcomeTrue
BY PanicHasReasonInvariant, NoCircleDoneInvariant, PTL DEF OutcomeTrue

\* run() activates a node only after everything it requires, and only once.
THEOREM DependenciesFirstHolds == BootSpec => DependenciesFirst
<1>1. IInv => \A n \in Nodes : Activate(n) => n \notin done /\ Predecessors(n) \subseteq done
  BY ActivatedReady
<1>2. IInv /\ [BootNext]_bootVars =>
        [\A n \in Nodes : Activate(n) => n \notin done /\ Predecessors(n) \subseteq done]_vars
  BY <1>1 DEF bootVars
<1> QED BY Invariant, <1>2, PTL DEF BootSpec, DependenciesFirst

-----------------------------------------------------------------------------
(* Events.                                                                 *)

Winners == {w \in EventWaiters : eventPc[w] = "true"}

EventTypes ==
  /\ counter \in Nat /\ given \in Nat /\ lost \in Nat
  /\ started \in BOOLEAN
  /\ eventPc \in [EventWaiters -> {"idle", "load", "exchange", "failed", "true", "false"}]
  /\ loaded \in [EventWaiters -> Nat]
  /\ left \in [EventWaiters -> Int]
  /\ waited \in [EventWaiters -> Nat]
  /\ call \in [EventWaiters -> [timeout : 0..Event!Forever, started : BOOLEAN]]

\* A signal is counted, wiped out, or has one winner. An exchange that is about
\* to be tried has loaded a counter that was not zero.
SignalsCounted ==
  /\ given = counter + lost + Cardinality(Winners)
  /\ \A w \in EventWaiters : eventPc[w] = "exchange" => loaded[w] > 0

\* What has been slept makes up for what is gone from the timeout.
TimeAccounted ==
  \A w \in EventWaiters :
    /\ call[w].started => started
    /\ eventPc[w] = "idle" => waited[w] = 0
    /\ call[w].started /\ call[w].timeout # Event!Forever =>
         waited[w] >= (call[w].timeout - left[w]) * 1000
    /\ eventPc[w] = "false" => left[w] <= 0 /\ call[w].timeout # Event!Forever

LEMMA EventWaitersFinite == IsFiniteSet(EventWaiters)
  BY BootAssumption DEF Event!AcpiEventAssumption, Event!IsFiniteSet, IsFiniteSet

LEMMA CardinalityOfEvent == \A S : Event!Cardinality(S) = Cardinality(S)
  BY DEF Event!Cardinality, Cardinality, Event!IsFiniteSet, IsFiniteSet

LEMMA ForeverNat == Event!Forever \in Nat
  BY DEF Event!Forever

LEMMA EventTypesKept ==
  ASSUME EventTypes, SignalsCounted, Event!Next
  PROVE  EventTypes'
<1>. USE BootAssumption, ForeverNat DEF Event!AcpiEventAssumption, Event!event
<1>1. CASE Event!Signal \/ Event!Reset \/ Event!Start
  <2>1. UNCHANGED <<eventPc, loaded, left, waited, call>>
    BY <1>1 DEF Event!Signal, Event!Reset, Event!Start
  <2>2. counter' \in Nat /\ given' \in Nat /\ lost' \in Nat
    BY <1>1 DEF EventTypes, Event!Signal, Event!Reset, Event!Start
  <2>3. started' \in BOOLEAN
    BY <1>1, Zenon DEF EventTypes, Event!Signal, Event!Reset, Event!Start
  <2>. QED
    BY <2>1, <2>2, <2>3 DEF EventTypes
<1>2. ASSUME NEW w \in EventWaiters, NEW timeout \in Timeouts, Event!Wait(w, timeout)
      PROVE  EventTypes'
  BY <1>2 DEF EventTypes, Event!Wait
<1>3. ASSUME NEW w \in EventWaiters, Event!Load(w)
      PROVE  EventTypes'
  BY <1>3 DEF EventTypes, Event!Load
<1>4. ASSUME NEW w \in EventWaiters, Event!Exchange(w)
      PROVE  EventTypes'
  BY <1>4 DEF EventTypes, SignalsCounted, Event!Exchange, Event!Exchanges
<1>5. ASSUME NEW w \in EventWaiters, Event!Failed(w)
      PROVE  EventTypes'
  BY <1>5 DEF EventTypes, Event!Failed, Event!Slept
<1>. QED
  BY <1>1, <1>2, <1>3, <1>4, <1>5 DEF Event!Next

LEMMA SignalsKept ==
  ASSUME EventTypes, SignalsCounted, Event!Next
  PROVE  SignalsCounted'
<1>. USE BootAssumption DEF Event!AcpiEventAssumption, Event!event
<1>1. IsFiniteSet(Winners) /\ Cardinality(Winners) \in Nat
  <2>1. Winners \subseteq EventWaiters
    BY DEF Winners
  <2>. QED
    BY <2>1, EventWaitersFinite, FS_Subset, FS_CardinalityType
<1>2. CASE Event!Signal \/ Event!Reset \/ Event!Start
  <2>1. UNCHANGED <<eventPc, loaded>> /\ given' - given = (counter' + lost') - (counter + lost)
    BY <1>2 DEF EventTypes, Event!Signal, Event!Reset, Event!Start
  <2>2. Winners' = Winners
    BY <2>1 DEF Winners
  <2>3. counter' \in Nat /\ given' \in Nat /\ lost' \in Nat
    BY EventTypesKept DEF EventTypes
  <2>. QED
    BY <2>1, <2>2, <2>3, <1>1 DEF SignalsCounted, EventTypes
<1>3. ASSUME NEW w \in EventWaiters, Event!Exchange(w)
      PROVE  SignalsCounted'
  <2>1. CASE counter = loaded[w]
    <3>1. /\ eventPc[w] = "exchange"
          /\ eventPc' = [eventPc EXCEPT ![w] = "true"]
          /\ counter' = counter - 1
          /\ UNCHANGED <<given, lost, loaded>>
      BY <1>3, <2>1 DEF Event!Exchange, Event!Exchanges
    <3>2. Winners' = Winners \cup {w} /\ w \notin Winners
      BY <3>1 DEF Winners, EventTypes
    <3>3. Cardinality(Winners') = Cardinality(Winners) + 1
      BY <3>2, <1>1, FS_AddElement
    <3>4. \A u \in EventWaiters : eventPc'[u] = "exchange" => loaded'[u] > 0
      BY <3>1 DEF EventTypes, SignalsCounted
    <3>. QED
      BY <3>1, <3>3, <3>4, <1>1, SMTT(30) DEF SignalsCounted, EventTypes
  <2>2. CASE counter # loaded[w]
    <3>1. /\ eventPc[w] = "exchange"
          /\ eventPc' = [eventPc EXCEPT ![w] = "load"]
          /\ UNCHANGED <<counter, given, lost, loaded>>
      BY <1>3, <2>2 DEF Event!Exchange, Event!Exchanges
    <3>2. Winners' = Winners
      BY <3>1 DEF Winners, EventTypes
    <3>3. \A u \in EventWaiters : eventPc'[u] = "exchange" => loaded'[u] > 0
      BY <3>1 DEF EventTypes, SignalsCounted
    <3>. QED
      BY <3>1, <3>2, <3>3 DEF SignalsCounted
  <2>. QED
    BY <2>1, <2>2
<1>4. ASSUME NEW w \in EventWaiters,
             Event!Load(w) \/ Event!Failed(w) \/ \E timeout \in Timeouts : Event!Wait(w, timeout)
      PROVE  SignalsCounted'
  <2>1. /\ UNCHANGED <<counter, given, lost>>
        /\ \A u \in EventWaiters : u # w => eventPc'[u] = eventPc[u] /\ loaded'[u] = loaded[u]
        /\ eventPc[w] # "true" /\ eventPc'[w] # "true"
        /\ eventPc'[w] = "exchange" => loaded'[w] > 0
    BY <1>4 DEF Event!Load, Event!Failed, Event!Wait, EventTypes
  <2>2. Winners' = Winners
    BY <2>1 DEF Winners
  <2>. QED
    BY <2>1, <2>2 DEF SignalsCounted
<1>. QED
  BY <1>2, <1>3, <1>4 DEF Event!Next

LEMMA TimeKept ==
  ASSUME EventTypes, TimeAccounted, Event!Next
  PROVE  TimeAccounted'
<1>. USE BootAssumption, ForeverNat DEF Event!AcpiEventAssumption, Event!event
<1>1. CASE Event!Signal \/ Event!Reset \/ Event!Start
  <2>1. UNCHANGED <<eventPc, left, waited, call>>
    BY <1>1 DEF Event!Signal, Event!Reset, Event!Start
  <2>2. started => started'
    BY <1>1, Zenon DEF Event!Signal, Event!Reset, Event!Start
  <2>. QED
    BY <2>1, <2>2 DEF TimeAccounted
<1>2. ASSUME NEW w \in EventWaiters, NEW timeout \in Timeouts, Event!Wait(w, timeout)
      PROVE  TimeAccounted'
  <2>0. /\ eventPc[w] = "idle"
        /\ eventPc' = [eventPc EXCEPT ![w] = "load"]
        /\ call' = [call EXCEPT ![w] = [timeout |-> timeout, started |-> started]]
        /\ left' = [left EXCEPT ![w] = timeout]
        /\ UNCHANGED <<started, waited>>
    BY <1>2 DEF Event!Wait
  <2>1. /\ eventPc[w] = "idle" /\ eventPc'[w] = "load"
        /\ call'[w] = [timeout |-> timeout, started |-> started]
        /\ left'[w] = timeout /\ waited' = waited /\ started' = started
        /\ \A u \in EventWaiters \ {w} :
             eventPc'[u] = eventPc[u] /\ call'[u] = call[u] /\ left'[u] = left[u]
    BY <2>0 DEF EventTypes
  <2>2. waited'[w] = 0
    BY <2>1 DEF TimeAccounted
  <2>4. timeout \in Int
    BY ForeverNat, BootAssumption DEF Event!AcpiEventAssumption
  <2>5. timeout - left'[w] = 0
    BY <2>1, <2>4
  <2>3. call'[w].timeout = timeout /\ (call'[w].started <=> started)
    BY <2>1
  <2>. QED
    BY <2>1, <2>2, <2>3, <2>5 DEF TimeAccounted
<1>3. ASSUME NEW w \in EventWaiters, Event!Load(w) \/ Event!Exchange(w)
      PROVE  TimeAccounted'
  BY <1>3 DEF Event!Load, Event!Exchange, TimeAccounted, EventTypes
<1>4. ASSUME NEW w \in EventWaiters, Event!Failed(w)
      PROVE  TimeAccounted'
  <2>1. /\ eventPc[w] = "failed" /\ UNCHANGED <<started, call>>
        /\ \A u \in EventWaiters \ {w} :
             eventPc'[u] = eventPc[u] /\ waited'[u] = waited[u] /\ left'[u] = left[u]
    BY <1>4 DEF Event!Failed, EventTypes
  <2>2. CASE call[w].timeout # Event!Forever /\ left[w] <= 0
    BY <1>4, <2>1, <2>2 DEF Event!Failed, Event!GivesUp, TimeAccounted, EventTypes
  <2>3. CASE call[w].timeout # Event!Forever /\ ~(left[w] <= 0)
    <3>1. /\ eventPc'[w] = "load"
          /\ waited'[w] = waited[w] + Event!Slept(10)
          /\ left'[w] = left[w] - 10
      BY <1>4, <2>3 DEF Event!Failed, Event!GivesUp, EventTypes
    <3>2. started => Event!Slept(10) = 10000
      BY DEF Event!Slept
    <3>3. waited[w] \in Nat /\ left[w] \in Int /\ call[w].timeout \in Int
      BY DEF EventTypes
    <3>4. call[w].started => waited'[w] >= (call[w].timeout - left'[w]) * 1000
      BY <2>3, <3>1, <3>2, <3>3 DEF TimeAccounted
    <3>. QED
      BY <2>1, <3>1, <3>4 DEF TimeAccounted
  <2>4. CASE call[w].timeout = Event!Forever
    BY <1>4, <2>1, <2>4 DEF Event!Failed, TimeAccounted, EventTypes
  <2>. QED
    BY <2>2, <2>3, <2>4
<1>. QED
  BY <1>1, <1>2, <1>3, <1>4 DEF Event!Next

-----------------------------------------------------------------------------
(* Work queues.                                                            *)

Kinds == Work!Kinds
Places == {"wait", "woken", "drain", "signal", "idle", "gpe", "look", "sleep", "return"}
Listed(t, q) == \E i \in 1..Len(q) : q[i] = t

WorkTypes ==
  /\ queue \in [Kinds -> Seq(Nat)] /\ ran \in [Kinds -> Seq(Nat)]
  /\ scheduled \in [Kinds -> Nat] /\ owed \in Nat
  /\ writer \in [Kinds -> BOOLEAN] /\ worked \in [Kinds -> BOOLEAN]
  /\ readers \in [Kinds -> SUBSET Waiters]
  /\ added \in [signals : Int, threads : Seq(Kinds)]
  /\ completed \in [signals : Int, threads : Seq(Waiters)]
  /\ pc \in [Kinds \cup Waiters -> Places]
  /\ taken \in [Kinds -> Nat] /\ reports \in [Waiters -> Nat]

\* What has run and what is queued is what was scheduled, in that order.
RunInOrder == \A k \in Kinds : ran[k] \o queue[k] = [i \in 1..scheduled[k] |-> i]

\* The books of `added`: a negative count is the length of its list, and a listed
\* worker is listed once and has not gone on.
Exact(n, q, p) ==
  /\ Len(q) = IF n < 0 THEN -n ELSE 0
  /\ \A i, j \in 1..Len(q) : q[i] = q[j] => i = j
  /\ \A i \in 1..Len(q) : p[q[i]] = "woken"
AddedExact == Exact(added.signals, added.threads, pc)

\* For each piece in a queue that its worker does not drain, a signal is still to
\* be given or taken, was taken by the other worker, or has woken this one.
LeftOver == owed + (IF added.signals > 0 THEN added.signals ELSE 0)
Coming(k) == IF pc[k] = "woken" /\ ~Listed(k, added.threads) THEN 1 ELSE 0
WorkSignalled ==
  \A k \in Kinds : pc[k] # "drain" => Len(queue[k]) <= LeftOver + taken[k] + Coming(k)

\* A caller that has seen work and sleeps, or is about to, has missed a report or
\* there is one to come.
ReportDue ==
  \E k \in Kinds : queue[k] # <<>> \/ (pc[k] = "drain" /\ worked[k]) \/ pc[k] = "signal"
Expects(w) == pc[w] = "sleep" \/ Listed(w, completed.threads)
ReportsKnown ==
  \A w \in Waiters :
    /\ Listed(w, completed.threads) => pc[w] = "return"
    /\ Expects(w) => reports[w] > 0 \/ ReportDue

\* The interrupt handler is at one of its places.
IrqTyped == irq \in {"none", "lock", "behind", "signal"}

WorkInv == IrqTyped /\ WorkTypes /\ RunInOrder /\ AddedExact /\ WorkSignalled /\ ReportsKnown

\* The two operations of a semaphore, as the invariant sees them.
LEMMA DownFacts ==
  ASSUME NEW T, NEW s \in [signals : Int, threads : Seq(T)], NEW t \in T
  PROVE  /\ Work!Down(s, t) \in [signals : Int, threads : Seq(T)]
         /\ Work!Down(s, t).signals = s.signals - 1
         /\ Work!Down(s, t).threads =
              IF s.signals - 1 < 0 THEN Append(s.threads, t) ELSE s.threads
  BY DEF Work!Down

LEMMA UpFacts ==
  ASSUME NEW T, NEW s \in [signals : Int, threads : Seq(T)], NEW drop \in BOOLEAN,
         s.signals < 0 \/ drop => s.threads # <<>>
  PROVE  /\ Work!Up(s, drop) \in [signals : Int, threads : Seq(T)]
         /\ Work!Up(s, drop).signals = s.signals + 1
         /\ Work!Up(s, drop).threads =
              IF s.signals + 1 <= 0 THEN Tail(s.threads) ELSE s.threads
<1>1. s.signals \in Int /\ s.threads \in Seq(T)
  OBVIOUS
<1>2. s.signals + 1 <= 0 => Tail(s.threads) \in Seq(T)
  BY <1>1, HeadTailProperties
<1>3. Work!Up(s, drop) =
        [signals |-> s.signals + 1,
         threads |-> IF s.signals + 1 <= 0 THEN Tail(s.threads) ELSE s.threads]
  BY DEF Work!Up
<1>. QED
  BY <1>1, <1>2, <1>3

LEMMA AppendListed ==
  ASSUME NEW S, NEW q \in Seq(S), NEW e \in S
  PROVE  /\ Append(q, e) \in Seq(S)
         /\ Append(q, e) # <<>>
         /\ Len(q) \in Nat
         /\ Len(Append(q, e)) = Len(q) + 1
         /\ \A i \in 1..Len(q) : Append(q, e)[i] = q[i]
         /\ Append(q, e)[Len(q) + 1] = e
         /\ \A x : Listed(x, Append(q, e)) <=> Listed(x, q) \/ x = e
<1>1. /\ Append(q, e) \in Seq(S)
      /\ Append(q, e) # <<>>
      /\ Len(q) \in Nat
      /\ Len(Append(q, e)) = Len(q) + 1
      /\ \A i \in 1..Len(q) : Append(q, e)[i] = q[i]
      /\ Append(q, e)[Len(q) + 1] = e
  BY AppendProperties, LenProperties
<1>. QED
  BY <1>1 DEF Listed

LEMMA TailListed ==
  ASSUME NEW S, NEW q \in Seq(S), q # <<>>
  PROVE  /\ Head(q) \in S
         /\ Head(q) = q[1]
         /\ Tail(q) \in Seq(S)
         /\ Len(q) \in Nat \ {0}
         /\ Len(Tail(q)) = Len(q) - 1
         /\ \A i \in 1..Len(Tail(q)) : Tail(q)[i] = q[i + 1]
         /\ \A x : Listed(x, Tail(q)) => Listed(x, q)
         /\ \A x : Listed(x, q) /\ x # Head(q) => Listed(x, Tail(q))
<1>1. /\ Head(q) \in S
      /\ Head(q) = q[1]
      /\ Tail(q) \in Seq(S)
      /\ Len(q) \in Nat \ {0}
      /\ Len(Tail(q)) = Len(q) - 1
      /\ \A i \in 1..Len(Tail(q)) : Tail(q)[i] = q[i + 1]
  BY HeadTailProperties, EmptySeq
<1>2. \A x : Listed(x, Tail(q)) => Listed(x, q)
  BY <1>1 DEF Listed
<1>3. ASSUME NEW x, Listed(x, q), x # Head(q)
      PROVE  Listed(x, Tail(q))
  <2>1. PICK i \in 1..Len(q) : q[i] = x
    BY <1>3 DEF Listed
  <2>2. i # 1
    BY <2>1, <1>1, <1>3
  <2>3. i - 1 \in 1..Len(Tail(q)) /\ Tail(q)[i - 1] = x
    BY <2>1, <2>2, <1>1
  <2>. QED
    BY <2>3 DEF Listed
<1>. QED
  BY <1>1, <1>2, <1>3

LEMMA AsleepListed ==
  ASSUME NEW T, NEW s \in [signals : Int, threads : Seq(T)], NEW t
  PROVE  Work!Asleep(t, s) <=> Listed(t, s.threads)
<1>1. DOMAIN s.threads = 1..Len(s.threads)
  BY LenProperties
<1>. QED
  BY <1>1 DEF Work!Asleep, Listed

LEMMA WorkersApart == \A k \in Kinds, w \in Waiters : k # w
  BY BootAssumption DEF Work!AcpiWorkAssumption, Kinds

\* Appending before and after a concatenation.
LEMMA AppendConcatIn ==
  ASSUME NEW S, NEW a \in Seq(S), NEW b \in Seq(S), NEW e \in S
  PROVE  /\ a \o Append(b, e) = Append(a \o b, e)
         /\ Append(a, e) \o b = a \o (<<e>> \o b)
<1>1. ASSUME NEW c \in Seq(S), c = <<e>>
      PROVE  /\ a \o Append(b, e) = Append(a \o b, e)
             /\ Append(a, e) \o b = a \o (c \o b)
  <2>1. a \o (b \o c) = (a \o b) \o c
    BY ConcatAssociative, SMTT(30)
  <2>2. (a \o c) \o b = a \o (c \o b)
    BY ConcatAssociative, SMTT(30)
  <2>3. a \o b \in Seq(S)
    BY ConcatProperties, SMT
  <2>4. Append(b, e) = b \o c /\ Append(a, e) = a \o c
    BY <1>1, AppendIsConcat, SMT
  <2>5. Append(a \o b, e) = (a \o b) \o c
    BY <1>1, <2>3, AppendIsConcat, SMT
  <2>. QED
    BY <2>1, <2>2, <2>4, <2>5, Zenon
<1>2. <<e>> \in Seq(S)
  OBVIOUS
<1>. QED
  BY <1>1, <1>2, Zenon

LEMMA AppendConcat ==
  \A a, b \in Seq(Nat), e \in Nat :
    /\ a \o Append(b, e) = Append(a \o b, e)
    /\ Append(a, e) \o b = a \o (<<e>> \o b)
<1>1. ASSUME NEW a \in Seq(Nat), NEW b \in Seq(Nat), NEW e \in Nat
      PROVE  a \o Append(b, e) = Append(a \o b, e)
  BY AppendConcatIn, SMT
<1>2. ASSUME NEW a \in Seq(Nat), NEW b \in Seq(Nat), NEW e \in Nat
      PROVE  Append(a, e) \o b = a \o (<<e>> \o b)
  BY AppendConcatIn, SMT
<1>. QED
  BY <1>1, <1>2, Zenon

(* The steps of the queues, whoever takes them: a thread and the interrupt *)
(* handler queue work and give its signal in the same way.                 *)
Interrupted ==
  UNCHANGED <<queue, writer, readers, added, completed, pc, worked, ran, scheduled, owed, taken, reports>>
Reads(w) == Work!ReadNotify(w) \/ Work!ReadGpe(w)

LEMMA WorkSteps ==
  ASSUME Work!Next
  PROVE  \/ Work!GiveSignal \/ Interrupted
         \/ \E k \in Kinds : \/ Work!Enqueue(k) \/ Work!WorkerWait(k) \/ Work!WorkerLock(k)
                             \/ Work!WorkerRun(k) \/ Work!WorkerUnlock(k) \/ Work!WorkerSignal(k)
         \/ \E w \in Waiters : Reads(w) \/ Work!IsEmpty(w) \/ Work!CompletedWait(w) \/ Work!Return(w)
<1>1. "gpe" \in Kinds
  BY DEF Kinds, Work!Kinds
<1>2. CASE Work!ScheduleSignal \/ Work!IrqSignal
  BY <1>2 DEF Work!ScheduleSignal, Work!IrqSignal
<1>3. CASE Work!IrqEnter
  BY <1>3 DEF Work!IrqEnter, Interrupted
<1>4. CASE Work!IrqQueue
  BY <1>1, <1>4 DEF Work!IrqQueue
<1>5. ASSUME NEW k \in Kinds, Work!Schedule(k)
      PROVE  Work!Enqueue(k)
  BY <1>5 DEF Work!Schedule
<1>. QED
  BY <1>2, <1>3, <1>4, <1>5 DEF Work!Next, Kinds, Reads

LEMMA IrqTypedKept ==
  ASSUME IrqTyped, Work!Next
  PROVE  IrqTyped'
  BY DEF IrqTyped, Work!Next, Work!ScheduleSignal, Work!IrqEnter, Work!IrqQueue, Work!IrqSignal, Work!Schedule,
     Work!WorkerWait, Work!WorkerLock, Work!WorkerRun, Work!WorkerUnlock, Work!WorkerSignal,
     Work!ReadNotify, Work!ReadGpe, Work!IsEmpty, Work!CompletedWait, Work!Return

\* Running the head of a queue moves it over, scheduling adds the next number.
LEMMA OrderKept ==
  ASSUME WorkTypes, RunInOrder, Work!Next
  PROVE  RunInOrder'
<1>1. ASSUME NEW k \in Kinds, Work!Enqueue(k)
      PROVE  RunInOrder'
  <2>1. /\ scheduled' = [scheduled EXCEPT ![k] = @ + 1]
        /\ queue' = [queue EXCEPT ![k] = Append(@, scheduled[k] + 1)]
        /\ ran' = ran
    BY <1>1 DEF Work!Enqueue
  <2>2. \A j \in Kinds \ {k} : scheduled'[j] = scheduled[j] /\ queue'[j] = queue[j]
    BY <2>1 DEF WorkTypes
  <2>. DEFINE n == scheduled[k]
  <2>3. n \in Nat /\ queue[k] \in Seq(Nat) /\ ran[k] \in Seq(Nat)
    BY DEF WorkTypes
  <2>4. queue'[k] = Append(queue[k], n + 1) /\ scheduled'[k] = n + 1
    BY <2>1 DEF WorkTypes
  <2>5. ran[k] \o Append(queue[k], n + 1) = Append(ran[k] \o queue[k], n + 1)
    <3>1. n + 1 \in Nat
      BY <2>3
    <3>. QED
      BY <2>3, <3>1, AppendConcat, Zenon
  <2>6. Append([i \in 1..n |-> i], n + 1) = [i \in 1..(n + 1) |-> i]
    <3>. DEFINE f == [i \in 1..n |-> i] g == [i \in 1..(n + 1) |-> i]
    <3>1. f \in Seq(Nat) /\ Len(f) = n /\ g \in Seq(Nat) /\ Len(g) = n + 1
      BY <2>3
    <3>2. /\ Append(f, n + 1) \in Seq(Nat) /\ Len(Append(f, n + 1)) = n + 1
          /\ \A i \in 1..n : Append(f, n + 1)[i] = f[i]
          /\ Append(f, n + 1)[n + 1] = n + 1
      BY <2>3, <3>1, AppendProperties
    <3>3. \A i \in 1..(n + 1) : Append(f, n + 1)[i] = g[i]
      BY <2>3, <3>2
    <3>4. Append(f, n + 1) = g
      BY <3>1, <3>2, <3>3, SeqEqual
    <3>. QED
      BY <3>4
  <2>7. ran'[k] \o queue'[k] = [i \in 1..scheduled'[k] |-> i]
    BY <2>1, <2>4, <2>5, <2>6 DEF RunInOrder
  <2>. QED
    BY <2>1, <2>2, <2>7 DEF RunInOrder
<1>2. ASSUME NEW k \in Kinds, Work!WorkerRun(k)
      PROVE  RunInOrder'
  <2>1. /\ queue[k] # <<>>
        /\ queue' = [queue EXCEPT ![k] = Tail(@)]
        /\ ran' = [ran EXCEPT ![k] = Append(@, Head(queue[k]))]
        /\ scheduled' = scheduled
    BY <1>2 DEF Work!WorkerRun
  <2>2. \A j \in Kinds \ {k} : ran'[j] = ran[j] /\ queue'[j] = queue[j]
    BY <2>1 DEF WorkTypes
  <2>3. queue'[k] = Tail(queue[k]) /\ ran'[k] = Append(ran[k], Head(queue[k]))
    BY <2>1 DEF WorkTypes
  <2>4. queue[k] \in Seq(Nat) /\ ran[k] \in Seq(Nat)
    BY DEF WorkTypes
  <2>5. Append(ran[k], Head(queue[k])) \o Tail(queue[k]) = ran[k] \o queue[k]
    <3>. DEFINE h == Head(queue[k]) r == Tail(queue[k])
    <3>1. h \in Nat /\ r \in Seq(Nat) /\ <<h>> \in Seq(Nat)
      BY <2>1, <2>4, HeadTailProperties
    <3>2. queue[k] = <<h>> \o r
      <4>1. /\ Len(r) = Len(queue[k]) - 1 /\ Len(queue[k]) \in Nat \ {0}
            /\ \A i \in 1..Len(r) : r[i] = queue[k][i + 1]
            /\ h = queue[k][1]
        BY <2>1, <2>4, TailListed
      <4>2. /\ <<h>> \o r \in Seq(Nat)
            /\ Len(<<h>> \o r) = Len(<<h>>) + Len(r)
            /\ \A i \in 1..(Len(<<h>>) + Len(r)) :
                 (<<h>> \o r)[i] = IF i <= Len(<<h>>) THEN <<h>>[i] ELSE r[i - Len(<<h>>)]
        BY <3>1, ConcatProperties
      <4>3. Len(<<h>>) = 1 /\ <<h>>[1] = h
        OBVIOUS
      <4>. HIDE DEF h, r
      <4>4. Len(queue[k]) = Len(<<h>> \o r)
        BY <4>1, <4>2, <4>3
      <4>5. \A i \in 1..Len(queue[k]) : queue[k][i] = (<<h>> \o r)[i]
        BY <4>1, <4>2, <4>3
      <4>. QED
        BY <2>4, <4>2, <4>4, <4>5, SeqEqual
    <3>3. Append(ran[k], h) \o r = ran[k] \o (<<h>> \o r)
      BY <2>4, <3>1, AppendConcat, Zenon
    <3>. QED
      BY <3>2, <3>3, Zenon
  <2>6. ran'[k] \o queue'[k] = [i \in 1..scheduled'[k] |-> i]
    BY <2>1, <2>3, <2>5 DEF RunInOrder
  <2>. QED
    BY <2>1, <2>2, <2>6 DEF RunInOrder
<1>3. CASE UNCHANGED <<queue, ran, scheduled>>
  BY <1>3 DEF RunInOrder
<1>. QED
  BY <1>1, <1>2, <1>3, WorkSteps DEF Interrupted, Work!GiveSignal, Work!WorkerWait, Work!WorkerLock,
     Work!WorkerUnlock, Work!WorkerSignal, Reads, Work!ReadNotify, Work!ReadGpe, Work!IsEmpty,
     Work!CompletedWait, Work!Return

\* What the two semaphores are made of.
LEMMA SemaphoreTypes ==
  ASSUME WorkTypes
  PROVE  /\ added.signals \in Int /\ added.threads \in Seq(Kinds)
         /\ completed.signals \in Int /\ completed.threads \in Seq(Waiters)
         /\ Len(added.threads) \in Nat /\ Len(completed.threads) \in Nat
  BY LenProperties DEF WorkTypes

\* A step of a waiter does not move a worker.
LEMMA WaiterMoves ==
  ASSUME WorkTypes, NEW w \in Waiters,
         Reads(w) \/ Work!IsEmpty(w) \/ Work!CompletedWait(w) \/ Work!Return(w)
  PROVE  /\ \A k \in Kinds : pc'[k] = pc[k]
         /\ \A u \in Waiters \ {w} : pc'[u] = pc[u]
         /\ UNCHANGED <<queue, added, worked, owed, taken>>
<1>1. PICK l \in Places : pc' = [pc EXCEPT ![w] = l]
  BY DEF Reads, Work!ReadNotify, Work!ReadGpe, Work!IsEmpty, Work!CompletedWait, Work!Return, Places
<1>2. \A k \in Kinds : pc'[k] = pc[k]
  BY <1>1, WorkersApart DEF WorkTypes
<1>. QED
  BY <1>1, <1>2 DEF WorkTypes, Reads, Work!ReadNotify, Work!ReadGpe, Work!IsEmpty, Work!CompletedWait, Work!Return

\* Nobody in the list moves.
LEMMA ExactQuiet ==
  ASSUME NEW n \in Int, NEW q \in Seq(Kinds), NEW p, NEW r, Exact(n, q, p),
         \A k \in Kinds : Listed(k, q) => r[k] = p[k]
  PROVE  Exact(n, q, r)
<1>1. \A i \in 1..Len(q) : q[i] \in Kinds
  BY ElementOfSeq
<1>2. \A i \in 1..Len(q) : r[q[i]] = "woken"
  BY <1>1 DEF Exact, Listed
<1>. QED
  BY <1>2 DEF Exact

LEMMA ListedWoken ==
  ASSUME NEW n \in Int, NEW q \in Seq(Kinds), NEW p, Exact(n, q, p), NEW k, Listed(k, q)
  PROVE  p[k] = "woken" /\ n < 0
<1>1. Len(q) \in Nat
  BY LenProperties
<1>. QED
  BY <1>1 DEF Exact, Listed

\* wait(): the caller joins the list unless a signal is left over.
LEMMA ExactDown ==
  ASSUME NEW n \in Int, NEW q \in Seq(Kinds), NEW p, NEW r, Exact(n, q, p), NEW k \in Kinds,
         p[k] # "woken", \A j \in Kinds : r[j] = IF j = k THEN "woken" ELSE p[j]
  PROVE  Exact(n - 1, IF n - 1 < 0 THEN Append(q, k) ELSE q, r)
<1>1. Len(q) \in Nat /\ \A i \in 1..Len(q) : q[i] \in Kinds
  BY ElementOfSeq, LenProperties
<1>2. \A i \in 1..Len(q) : q[i] # k
  BY DEF Exact
<1>3. CASE n - 1 < 0
  <2>1. /\ Len(Append(q, k)) = Len(q) + 1
        /\ \A i \in 1..Len(q) : Append(q, k)[i] = q[i]
        /\ Append(q, k)[Len(q) + 1] = k
    BY AppendListed
  <2>2. Exact(n - 1, Append(q, k), r)
    BY <1>1, <1>2, <1>3, <2>1 DEF Exact
  <2>. QED
    BY <1>3, <2>2
<1>4. CASE ~(n - 1 < 0)
  <2>1. Exact(n - 1, q, r)
    BY <1>1, <1>4 DEF Exact
  <2>. QED
    BY <1>4, <2>1
<1>. QED
  BY <1>3, <1>4

\* signal(): the oldest worker leaves the list, or the count goes up.
LEMMA ExactUp ==
  ASSUME NEW n \in Int, NEW q \in Seq(Kinds), NEW p, Exact(n, q, p)
  PROVE  /\ Exact(n + 1, IF n + 1 <= 0 THEN Tail(q) ELSE q, p)
         /\ n < 0 <=> q # <<>>
         /\ n < 0 => Listed(Head(q), q) /\ ~Listed(Head(q), Tail(q))
         /\ n < 0 => Head(q) \in Kinds
<1>1. Len(q) \in Nat /\ (q = <<>> <=> Len(q) = 0)
  BY LenProperties, EmptySeq
<1>2. n < 0 <=> q # <<>>
  BY <1>1 DEF Exact
<1>3. CASE n < 0
  <2>1. /\ Head(q) \in Kinds /\ Head(q) = q[1] /\ Len(Tail(q)) = Len(q) - 1
        /\ \A i \in 1..Len(Tail(q)) : Tail(q)[i] = q[i + 1]
    BY <1>2, <1>3, TailListed
  <2>2. Exact(n + 1, Tail(q), p)
    BY <1>1, <1>3, <2>1 DEF Exact
  <2>3. Listed(Head(q), q)
    BY <1>1, <1>2, <1>3, <2>1 DEF Listed
  <2>4. ~Listed(Head(q), Tail(q))
    BY <1>1, <1>2, <1>3, <2>1 DEF Listed, Exact
  <2>. QED
    BY <1>2, <1>3, <2>1, <2>2, <2>3, <2>4
<1>4. CASE ~(n < 0)
  <2>1. Exact(n + 1, q, p)
    BY <1>1, <1>2, <1>4 DEF Exact
  <2>. QED
    BY <1>2, <1>4, <2>1
<1>. QED
  BY <1>3, <1>4

\* The signal of schedule_work(), as the invariant sees it.
LEMMA AddedDown ==
  ASSUME WorkTypes, NEW k \in Kinds
  PROVE  /\ Work!Down(added, k) \in [signals : Int, threads : Seq(Kinds)]
         /\ Work!Down(added, k).signals = added.signals - 1
         /\ Work!Down(added, k).threads =
              IF added.signals - 1 < 0 THEN Append(added.threads, k) ELSE added.threads
<1>1. added \in [signals : Int, threads : Seq(Kinds)]
  BY DEF WorkTypes
<1>. QED
  BY <1>1, DownFacts

LEMMA AddedUp ==
  ASSUME WorkTypes, AddedExact, added' = Work!Up(added, FALSE)
  PROVE  /\ added' \in [signals : Int, threads : Seq(Kinds)]
         /\ added'.signals = added.signals + 1
         /\ added'.threads = IF added.signals + 1 <= 0 THEN Tail(added.threads) ELSE added.threads
<1>1. added.signals < 0 <=> added.threads # <<>>
  BY SemaphoreTypes, ExactUp DEF AddedExact
<1>. QED
  BY <1>1, UpFacts DEF WorkTypes

LEMMA AddedKept ==
  ASSUME WorkTypes, AddedExact, Work!Next
  PROVE  AddedExact'
<1>. USE DEF Kinds
<1>0. added.signals \in Int /\ added.threads \in Seq(Kinds)
  BY SemaphoreTypes
<1>1. CASE Work!GiveSignal
  <2>1. added' = Work!Up(added, FALSE) /\ pc' = pc
    BY <1>1 DEF Work!GiveSignal
  <2>2. Exact(added.signals + 1,
              IF added.signals + 1 <= 0 THEN Tail(added.threads) ELSE added.threads, pc)
    BY <1>0, ExactUp DEF AddedExact
  <2>3. /\ added'.signals = added.signals + 1
        /\ added'.threads = IF added.signals + 1 <= 0 THEN Tail(added.threads) ELSE added.threads
    BY <2>1, AddedUp
  <2>. QED
    BY <2>1, <2>2, <2>3, Zenon DEF AddedExact
<1>2. ASSUME NEW k \in Kinds, Work!WorkerWait(k)
      PROVE  AddedExact'
  <2>1. /\ pc[k] = "wait" /\ added' = Work!Down(added, k)
        /\ pc' = [pc EXCEPT ![k] = "woken"]
    BY <1>2 DEF Work!WorkerWait
  <2>2. \A j \in Kinds : pc'[j] = IF j = k THEN "woken" ELSE pc[j]
    BY <2>1 DEF WorkTypes
  <2>3. /\ added'.signals = added.signals - 1
        /\ added'.threads =
             IF added.signals - 1 < 0 THEN Append(added.threads, k) ELSE added.threads
    BY <2>1, AddedDown
  <2>4. Exact(added.signals - 1,
              IF added.signals - 1 < 0 THEN Append(added.threads, k) ELSE added.threads, pc')
    BY <1>0, <2>1, <2>2, ExactDown, ZenonT(30) DEF AddedExact
  <2>. QED
    BY <2>3, <2>4, Zenon DEF AddedExact
<1>3. ASSUME NEW k \in Kinds, Work!WorkerLock(k) \/ Work!WorkerUnlock(k) \/ Work!WorkerSignal(k)
      PROVE  AddedExact'
  <2>1. added' = added /\ \A j \in Kinds \ {k} : pc'[j] = pc[j]
    BY <1>3 DEF Work!WorkerLock, Work!WorkerUnlock, Work!WorkerSignal, WorkTypes
  <2>2. ~Listed(k, added.threads)
    <3>1. CASE Work!WorkerLock(k)
      BY <3>1, AsleepListed DEF Work!WorkerLock, WorkTypes
    <3>2. CASE pc[k] # "woken"
      BY <3>2, <1>0, ListedWoken DEF AddedExact
    <3>. QED
      BY <1>3, <3>1, <3>2 DEF Work!WorkerUnlock, Work!WorkerSignal
  <2>. QED
    BY <1>0, <2>1, <2>2, ExactQuiet DEF AddedExact
<1>4. ASSUME NEW k \in Kinds, Work!Enqueue(k) \/ Work!WorkerRun(k)
      PROVE  AddedExact'
  BY <1>4 DEF AddedExact, Work!Enqueue, Work!WorkerRun
<1>5. ASSUME NEW w \in Waiters,
             Reads(w) \/ Work!IsEmpty(w) \/ Work!CompletedWait(w) \/ Work!Return(w)
      PROVE  AddedExact'
  BY <1>0, <1>5, WaiterMoves, ExactQuiet DEF AddedExact
<1>6. CASE Interrupted
  BY <1>6 DEF Interrupted, AddedExact
<1>. QED
  BY <1>1, <1>2, <1>3, <1>4, <1>5, <1>6, WorkSteps

\* The parts of the bound are numbers.
LEMMA SignalledTypes ==
  ASSUME WorkTypes
  PROVE  /\ LeftOver \in Nat /\ LeftOver >= owed /\ owed \in Nat
         /\ \A k \in Kinds : taken[k] \in Nat /\ Coming(k) \in 0..1 /\ Len(queue[k]) \in Nat
<1>1. LeftOver \in Nat /\ LeftOver >= owed /\ owed \in Nat
  BY SemaphoreTypes DEF LeftOver, WorkTypes
<1>2. \A k \in Kinds : taken[k] \in Nat /\ queue[k] \in Seq(Nat)
  BY DEF WorkTypes
<1>3. \A k \in Kinds : Len(queue[k]) \in Nat
  BY <1>2, LenProperties
<1>. QED
  BY <1>1, <1>2, <1>3 DEF Coming

LEMMA SignalledKept ==
  ASSUME WorkTypes, AddedExact, WorkSignalled, Work!Next
  PROVE  WorkSignalled'
<1>. DEFINE n == added.signals
            q == added.threads
<1>0. n \in Int /\ q \in Seq(Kinds) /\ Exact(n, q, pc) /\ owed \in Nat
  BY SemaphoreTypes DEF AddedExact, WorkTypes
<1>1. CASE Work!GiveSignal
  <2>0. added' = Work!Up(added, FALSE)
    BY <1>1 DEF Work!GiveSignal
  <2>1. /\ owed > 0 /\ owed' = owed - 1 /\ pc' = pc /\ queue' = queue
        /\ taken' = IF q = <<>> THEN taken ELSE Work!TakenBy(Head(q))
    BY <1>1 DEF Work!GiveSignal
  <2>2. added'.signals = n + 1 /\ added'.threads = IF n + 1 <= 0 THEN Tail(q) ELSE q
    BY <2>0, AddedUp
  <2>3. CASE q = <<>>
    <3>1. ~(n < 0)
      BY <1>0, <2>3, ExactUp
    <3>2. added'.threads = q /\ taken' = taken
      BY <1>0, <2>1, <2>2, <2>3, <3>1
    <3>4. LeftOver' = LeftOver
      BY <1>0, <2>1, <2>2, <3>1 DEF LeftOver
    <3>3. \A k \in Kinds : Coming(k)' = Coming(k)
      BY <2>1, <3>2 DEF Coming
    <3>. QED
      BY <2>1, <3>2, <3>3, <3>4 DEF WorkSignalled
  <2>4. CASE q # <<>>
    <3>0. PICK h \in Kinds : h = Head(q)
      BY <1>0, <2>4, ExactUp
    <3>1. n < 0 /\ h \in Kinds /\ Listed(h, q) /\ ~Listed(h, Tail(q))
      BY <1>0, <2>4, <3>0, ExactUp
    <3>2. added'.threads = Tail(q)
      BY <1>0, <2>2, <3>1
    <3>3. LeftOver' = LeftOver - 1
      BY <1>0, <2>1, <2>2, <3>1 DEF LeftOver
    <3>4. pc[h] = "woken"
      BY <1>0, <3>1, ListedWoken
    <3>5. Coming(h)' = 1 /\ Coming(h) = 0
      BY <2>1, <3>1, <3>2, <3>4 DEF Coming
    <3>6. \A k \in Kinds \ {h} : Listed(k, Tail(q)) <=> Listed(k, q)
      BY <1>0, <2>4, <3>0, TailListed
    <3>7. \A k \in Kinds \ {h} : Coming(k)' = Coming(k)
      BY <2>1, <3>2, <3>6 DEF Coming
    <3>8. taken' = [k \in Kinds |-> IF k = h THEN taken[k] ELSE taken[k] + 1]
      BY <2>1, <2>4, <3>0 DEF Work!TakenBy, Kinds
    <3>. HIDE DEF q, n
    <3>. QED
      BY <2>1, <3>1, <3>3, <3>5, <3>7, <3>8, SignalledTypes DEF WorkSignalled
  <2>. QED
    BY <2>3, <2>4
<1>2. ASSUME NEW k \in Kinds, Work!WorkerWait(k)
      PROVE  WorkSignalled'
  <2>1. /\ pc[k] = "wait" /\ added' = Work!Down(added, k)
        /\ pc' = [pc EXCEPT ![k] = "woken"]
        /\ taken' = IF n > 0 THEN Work!TakenBy(k) ELSE taken
        /\ owed' = owed /\ queue' = queue
    BY <1>2 DEF Work!WorkerWait
  <2>2. \A j \in Kinds : pc'[j] = IF j = k THEN "woken" ELSE pc[j]
    BY <2>1 DEF WorkTypes
  <2>3. added'.signals = n - 1 /\ added'.threads = IF n - 1 < 0 THEN Append(q, k) ELSE q
    BY <2>1, AddedDown
  <2>4. Coming(k) = 0
    BY <2>1 DEF Coming
  <2>5. CASE n > 0
    <3>1. added'.threads = q /\ LeftOver' = LeftOver - 1
      BY <1>0, <2>1, <2>3, <2>5 DEF LeftOver, WorkTypes
    <3>2. ~Listed(k, q)
      BY <1>0, <2>5, ListedWoken
    <3>3. Coming(k)' = 1 /\ taken'[k] = taken[k]
      BY <2>1, <2>2, <2>5, <3>1, <3>2 DEF Coming, Work!TakenBy, Kinds
    <3>4. \A j \in Kinds \ {k} : Coming(j)' = Coming(j)
      BY <2>2, <3>1 DEF Coming
    <3>5. \A j \in Kinds \ {k} : taken'[j] = taken[j] + 1
      BY <2>1, <2>5 DEF Work!TakenBy, Kinds
    <3>. HIDE DEF n, q
    <3>. QED
      BY <2>1, <2>2, <2>4, <3>1, <3>3, <3>4, <3>5, SignalledTypes DEF WorkSignalled
  <2>6. CASE ~(n > 0)
    <3>1. added'.threads = Append(q, k) /\ LeftOver' = LeftOver /\ taken' = taken
      BY <1>0, <2>1, <2>3, <2>6 DEF LeftOver, WorkTypes
    <3>2. \A x : Listed(x, Append(q, k)) <=> Listed(x, q) \/ x = k
      BY <1>0, AppendListed
    <3>3. \A j \in Kinds : Coming(j)' = Coming(j)
      BY <2>2, <2>4, <3>1, <3>2 DEF Coming
    <3>. HIDE DEF n, q
    <3>. QED
      BY <2>1, <2>2, <3>1, <3>3 DEF WorkSignalled
  <2>. QED
    BY <2>5, <2>6
<1>3. ASSUME NEW k \in Kinds, Work!Enqueue(k)
      PROVE  WorkSignalled'
  <2>1. /\ queue' = [queue EXCEPT ![k] = Append(@, scheduled[k] + 1)]
        /\ owed' = owed + 1
        /\ UNCHANGED <<added, pc, taken>>
    BY <1>3 DEF Work!Enqueue
  <2>2. queue[k] \in Seq(Nat) /\ scheduled[k] + 1 \in Nat
    BY DEF WorkTypes
  <2>3. Len(queue'[k]) = Len(queue[k]) + 1 /\ \A j \in Kinds \ {k} : queue'[j] = queue[j]
    BY <2>1, <2>2, AppendListed DEF WorkTypes
  <2>4. LeftOver' = LeftOver + 1 /\ \A j \in Kinds : Coming(j)' = Coming(j)
    BY <1>0, <2>1 DEF LeftOver, Coming
  <2>. QED
    BY <2>1, <2>3, <2>4, SignalledTypes, SMTT(30) DEF WorkSignalled
<1>4. ASSUME NEW k \in Kinds,
             Work!WorkerLock(k) \/ Work!WorkerRun(k) \/ Work!WorkerUnlock(k) \/ Work!WorkerSignal(k)
      PROVE  WorkSignalled'
  <2>1. UNCHANGED <<added, owed>> /\ LeftOver' = LeftOver
    BY <1>4 DEF LeftOver, Work!WorkerLock, Work!WorkerRun, Work!WorkerUnlock, Work!WorkerSignal
  <2>2. \A j \in Kinds \ {k} : pc'[j] = pc[j] /\ queue'[j] = queue[j] /\ taken'[j] = taken[j]
    BY <1>4 DEF Work!WorkerLock, Work!WorkerRun, Work!WorkerUnlock, Work!WorkerSignal, WorkTypes
  <2>3. \A j \in Kinds \ {k} : Coming(j)' = Coming(j)
    BY <2>1, <2>2 DEF Coming
  <2>4. pc'[k] # "drain" => Len(queue'[k]) <= LeftOver + taken'[k] + Coming(k)'
    <3>1. CASE Work!WorkerLock(k) \/ Work!WorkerRun(k)
      BY <3>1 DEF Work!WorkerLock, Work!WorkerRun, WorkTypes
    <3>2. CASE Work!WorkerUnlock(k)
      <4>1. queue'[k] = <<>> /\ taken' = taken
        BY <3>2 DEF Work!WorkerUnlock
      <4>2. Coming(k)' \in 0..1
        BY DEF Coming
      <4>. QED
        BY <4>1, <4>2, SignalledTypes
    <3>3. CASE Work!WorkerSignal(k)
      <4>1. pc[k] = "signal" /\ pc'[k] = "wait" /\ UNCHANGED <<queue, taken>>
        BY <3>3 DEF Work!WorkerSignal, WorkTypes
      <4>2. Coming(k)' = 0 /\ Coming(k) = 0
        BY <4>1 DEF Coming
      <4>. QED
        BY <4>1, <4>2 DEF WorkSignalled
    <3>. QED
      BY <1>4, <3>1, <3>2, <3>3
  <2>. QED
    BY <2>1, <2>2, <2>3, <2>4 DEF WorkSignalled
<1>5. ASSUME NEW w \in Waiters,
             Reads(w) \/ Work!IsEmpty(w) \/ Work!CompletedWait(w) \/ Work!Return(w)
      PROVE  WorkSignalled'
  <2>1. (\A k \in Kinds : pc'[k] = pc[k]) /\ UNCHANGED <<queue, added, owed, taken>>
    BY <1>5, WaiterMoves
  <2>2. LeftOver' = LeftOver /\ \A k \in Kinds : Coming(k)' = Coming(k)
    BY <2>1 DEF LeftOver, Coming
  <2>. QED
    BY <2>1, <2>2 DEF WorkSignalled
<1>6. CASE Interrupted
  BY <1>6 DEF Interrupted, WorkSignalled, LeftOver, Coming
<1>. QED
  BY <1>1, <1>2, <1>3, <1>4, <1>5, <1>6, WorkSteps

\* What the workers do to the report that is to come.
LEMMA ReportStaysDue ==
  ASSUME WorkTypes, ReportDue, NEW k \in Kinds,
         Work!Enqueue(k) \/ Work!WorkerWait(k) \/ Work!WorkerLock(k) \/ Work!WorkerRun(k)
         \/ Work!WorkerUnlock(k)
  PROVE  ReportDue'
<1>1. PICK j \in Kinds : queue[j] # <<>> \/ (pc[j] = "drain" /\ worked[j]) \/ pc[j] = "signal"
  BY DEF ReportDue
<1>2. CASE Work!Enqueue(k)
  <2>1. queue'[k] = Append(queue[k], scheduled[k] + 1)
    BY <1>2 DEF Work!Enqueue, WorkTypes
  <2>2. queue[k] \in Seq(Nat) /\ scheduled[k] + 1 \in Nat
    BY DEF WorkTypes
  <2>3. queue'[k] # <<>>
    BY <2>1, <2>2, AppendListed
  <2>. QED
    BY <2>3 DEF ReportDue
<1>3. CASE Work!WorkerWait(k)
  BY <1>1, <1>3 DEF ReportDue, Work!WorkerWait, WorkTypes
<1>4. CASE Work!WorkerLock(k)
  BY <1>1, <1>4 DEF ReportDue, Work!WorkerLock, WorkTypes
<1>5. CASE Work!WorkerRun(k)
  <2>1. pc'[k] = "drain" /\ worked'[k] = TRUE
    BY <1>5 DEF Work!WorkerRun, WorkTypes
  <2>. QED
    BY <2>1 DEF ReportDue
<1>6. CASE Work!WorkerUnlock(k)
  <2>1. /\ pc[k] = "drain" /\ queue[k] = <<>> /\ UNCHANGED <<queue, worked>>
        /\ pc' = [pc EXCEPT ![k] = IF worked[k] THEN "signal" ELSE "wait"]
    BY <1>6 DEF Work!WorkerUnlock, Work!AfterDrain
  <2>2. CASE j = k
    <3>1. pc'[k] = "signal"
      BY <1>1, <2>1, <2>2 DEF WorkTypes
    <3>. QED
      BY <3>1 DEF ReportDue
  <2>3. CASE j # k
    <3>1. pc'[j] = pc[j]
      BY <2>1, <2>3 DEF WorkTypes
    <3>. QED
      BY <1>1, <2>1, <3>1 DEF ReportDue
  <2>. QED
    BY <2>2, <2>3
<1>. QED
  BY <1>2, <1>3, <1>4, <1>5, <1>6

LEMMA ReportsKept ==
  ASSUME WorkTypes, AddedExact, ReportsKnown, Work!Next
  PROVE  ReportsKnown'
<1>. DEFINE c == completed.threads
<1>0. c \in Seq(Waiters) /\ completed.signals \in Int
  BY SemaphoreTypes
<1>1. ASSUME NEW k \in Kinds,
             Work!Enqueue(k) \/ Work!WorkerWait(k) \/ Work!WorkerLock(k) \/ Work!WorkerRun(k)
             \/ Work!WorkerUnlock(k)
      PROVE  ReportsKnown'
  <2>1. UNCHANGED <<completed, reports>> /\ \A j \in (Kinds \cup Waiters) \ {k} : pc'[j] = pc[j]
    BY <1>1 DEF Work!Enqueue, Work!WorkerWait, Work!WorkerLock, Work!WorkerRun,
       Work!WorkerUnlock, WorkTypes
  <2>2. \A w \in Waiters : pc'[w] = pc[w]
    BY <2>1, WorkersApart
  <2>3. ReportDue => ReportDue'
    BY <1>1, ReportStaysDue
  <2>. QED
    BY <2>1, <2>2, <2>3 DEF ReportsKnown, Expects
<1>2. CASE Work!GiveSignal
  <2>1. UNCHANGED <<queue, completed, reports, pc, worked>>
    BY <1>2 DEF Work!GiveSignal
  <2>. QED
    BY <2>1 DEF ReportsKnown, Expects, ReportDue
<1>3. ASSUME NEW k \in Kinds, Work!WorkerSignal(k)
      PROVE  ReportsKnown'
  <2>1. /\ completed' = Work!Up(completed, TRUE)
        /\ reports' = [w \in Waiters |-> reports[w] + 1]
        /\ pc' = [pc EXCEPT ![k] = "wait"]
    BY <1>3 DEF Work!WorkerSignal
  <2>2. \A w \in Waiters : pc'[w] = pc[w]
    BY <2>1, WorkersApart DEF WorkTypes
  <2>3. \A w \in Waiters : reports'[w] > 0
    BY <2>1 DEF WorkTypes
  <2>4. \A w : Listed(w, completed'.threads) => Listed(w, c)
    <3>1. CASE c = <<>>
      BY <2>1, <3>1 DEF Work!Up
    <3>2. CASE c # <<>>
      <4>1. completed'.threads = IF completed.signals + 1 <= 0 THEN Tail(c) ELSE c
        BY <2>1, <3>2, UpFacts DEF WorkTypes
      <4>2. \A w : Listed(w, Tail(c)) => Listed(w, c)
        BY <1>0, <3>2, TailListed
      <4>. QED
        BY <4>1, <4>2
    <3>. QED
      BY <3>1, <3>2
  <2>. QED
    BY <2>2, <2>3, <2>4 DEF ReportsKnown, Expects
<1>4. ASSUME NEW w \in Waiters,
             Reads(w) \/ Work!IsEmpty(w) \/ Work!CompletedWait(w) \/ Work!Return(w)
      PROVE  ReportsKnown'
  <2>1. /\ \A k \in Kinds : pc'[k] = pc[k]
        /\ \A u \in Waiters \ {w} : pc'[u] = pc[u]
        /\ UNCHANGED <<queue, worked>>
    BY <1>4, WaiterMoves
  <2>2. ReportDue' <=> ReportDue
    BY <2>1 DEF ReportDue
  <2>3. CASE Reads(w) \/ Work!Return(w)
    <3>1. UNCHANGED <<completed, reports>> /\ pc'[w] \in {"gpe", "look", "idle"}
      BY <2>3 DEF Reads, Work!ReadNotify, Work!ReadGpe, Work!Return, WorkTypes
    <3>2. ~Listed(w, c)
      <4>1. CASE Reads(w)
        BY <4>1 DEF ReportsKnown, Reads, Work!ReadNotify, Work!ReadGpe
      <4>2. CASE Work!Return(w)
        BY <4>2, AsleepListed DEF Work!Return, WorkTypes
      <4>. QED
        BY <2>3, <4>1, <4>2
    <3>. QED
      BY <2>1, <2>2, <3>1, <3>2 DEF ReportsKnown, Expects
  <2>4. CASE Work!IsEmpty(w)
    <3>1. /\ pc[w] = "look" /\ completed' = completed
          /\ pc' = [pc EXCEPT ![w] =
                      IF \A k \in Kinds : queue[k] = <<>> THEN "return" ELSE "sleep"]
          /\ \A u \in Waiters \ {w} : reports'[u] = reports[u]
      BY <2>4 DEF Work!IsEmpty, WorkTypes, Kinds
    <3>2. pc'[w] = "return" \/ (pc'[w] = "sleep" /\ ReportDue')
      <4>1. CASE \A k \in Kinds : queue[k] = <<>>
        BY <3>1, <4>1 DEF WorkTypes
      <4>2. CASE ~\A k \in Kinds : queue[k] = <<>>
        <5>1. pc'[w] = "sleep"
          BY <3>1, <4>2 DEF WorkTypes
        <5>. QED
          BY <4>2, <5>1, <2>2 DEF ReportDue
      <4>. QED
        BY <4>1, <4>2
    <3>3. ~Listed(w, c)
      BY <3>1 DEF ReportsKnown
    <3>. QED
      BY <2>1, <2>2, <3>1, <3>2, <3>3 DEF ReportsKnown, Expects
  <2>5. CASE Work!CompletedWait(w)
    <3>1. /\ pc[w] = "sleep" /\ pc'[w] = "return" /\ reports' = reports
          /\ completed' = Work!Down(completed, w)
      BY <2>5 DEF Work!CompletedWait, WorkTypes
    <3>2. completed'.threads = IF completed.signals - 1 < 0 THEN Append(c, w) ELSE c
      BY <3>1, DownFacts DEF WorkTypes
    <3>3. \A x : Listed(x, Append(c, w)) <=> Listed(x, c) \/ x = w
      BY <1>0, AppendListed
    <3>4. \A x : Listed(x, completed'.threads) => Listed(x, c) \/ x = w
      BY <3>2, <3>3
    <3>. QED
      BY <2>1, <2>2, <3>1, <3>4 DEF ReportsKnown, Expects
  <2>. QED
    BY <1>4, <2>3, <2>4, <2>5
<1>5. CASE Interrupted
  BY <1>5 DEF Interrupted, ReportsKnown, Expects, ReportDue
<1>. QED
  BY <1>1, <1>2, <1>3, <1>4, <1>5, WorkSteps

LEMMA TakenTypes ==
  ASSUME taken \in [Kinds -> Nat], NEW t
  PROVE  Work!TakenBy(t) \in [Kinds -> Nat]
  BY DEF Work!TakenBy, Kinds

LEMMA WorkTypesKept ==
  ASSUME WorkTypes, AddedExact, Work!Next
  PROVE  WorkTypes'
<1>1. CASE Work!GiveSignal
  <2>1. UNCHANGED <<queue, writer, readers, completed, pc, worked, ran, scheduled, reports>>
    BY <1>1 DEF Work!GiveSignal
  <2>2. owed' \in Nat
    BY <1>1 DEF Work!GiveSignal, WorkTypes
  <2>3. added' \in [signals : Int, threads : Seq(Kinds)]
    BY <1>1, AddedUp DEF Work!GiveSignal
  <2>4. taken' = taken \/ taken' = Work!TakenBy(Head(added.threads))
    BY <1>1 DEF Work!GiveSignal
  <2>5. taken' \in [Kinds -> Nat]
    BY <2>4, TakenTypes DEF WorkTypes
  <2>. QED
    BY <2>1, <2>2, <2>3, <2>5 DEF WorkTypes
<1>2. ASSUME NEW k \in Kinds, Work!Enqueue(k)
      PROVE  WorkTypes'
  <2>1. /\ UNCHANGED <<writer, readers, added, completed, pc, worked, ran, taken, reports>>
        /\ scheduled' = [scheduled EXCEPT ![k] = @ + 1]
        /\ queue' = [queue EXCEPT ![k] = Append(@, scheduled[k] + 1)]
        /\ owed' = owed + 1
    BY <1>2 DEF Work!Enqueue
  <2>2. Append(queue[k], scheduled[k] + 1) \in Seq(Nat)
    BY AppendProperties DEF WorkTypes
  <2>3. queue' \in [Kinds -> Seq(Nat)]
    BY <2>1, <2>2 DEF WorkTypes
  <2>4. scheduled' \in [Kinds -> Nat] /\ owed' \in Nat
    BY <2>1 DEF WorkTypes
  <2>. QED
    BY <2>1, <2>3, <2>4 DEF WorkTypes
<1>3. ASSUME NEW k \in Kinds, Work!WorkerWait(k)
      PROVE  WorkTypes'
  <2>1. /\ UNCHANGED <<queue, writer, readers, completed, worked, ran, scheduled, owed, reports>>
        /\ pc' = [pc EXCEPT ![k] = "woken"]
        /\ taken' = taken \/ taken' = Work!TakenBy(k)
        /\ added' = Work!Down(added, k)
    BY <1>3 DEF Work!WorkerWait
  <2>2. added' \in [signals : Int, threads : Seq(Kinds)]
    BY <2>1, AddedDown
  <2>3. taken' \in [Kinds -> Nat]
    BY <2>1, TakenTypes DEF WorkTypes
  <2>4. pc' \in [Kinds \cup Waiters -> Places]
    BY <2>1 DEF WorkTypes, Places
  <2>. QED
    BY <2>1, <2>2, <2>3, <2>4 DEF WorkTypes
<1>4. ASSUME NEW k \in Kinds, Work!WorkerLock(k)
      PROVE  WorkTypes'
  <2>1. /\ UNCHANGED <<queue, readers, added, completed, ran, scheduled, owed, reports>>
        /\ writer' = [writer EXCEPT ![k] = TRUE]
        /\ worked' = [worked EXCEPT ![k] = FALSE]
        /\ taken' = [taken EXCEPT ![k] = 0]
        /\ pc' = [pc EXCEPT ![k] = "drain"]
    BY <1>4 DEF Work!WorkerLock
  <2>2. writer' \in [Kinds -> BOOLEAN] /\ worked' \in [Kinds -> BOOLEAN]
    BY <2>1 DEF WorkTypes
  <2>3. taken' \in [Kinds -> Nat] /\ pc' \in [Kinds \cup Waiters -> Places]
    BY <2>1 DEF WorkTypes, Places
  <2>. QED
    BY <2>1, <2>2, <2>3 DEF WorkTypes
<1>5. ASSUME NEW k \in Kinds, Work!WorkerRun(k)
      PROVE  WorkTypes'
  <2>1. /\ UNCHANGED <<writer, readers, added, completed, pc, scheduled, owed, taken, reports>>
        /\ queue[k] # <<>>
        /\ queue' = [queue EXCEPT ![k] = Tail(@)]
        /\ ran' = [ran EXCEPT ![k] = Append(@, Head(queue[k]))]
        /\ worked' = [worked EXCEPT ![k] = TRUE]
    BY <1>5 DEF Work!WorkerRun
  <2>2. queue[k] \in Seq(Nat) /\ ran[k] \in Seq(Nat)
    BY DEF WorkTypes
  <2>3. Head(queue[k]) \in Nat /\ Tail(queue[k]) \in Seq(Nat)
    BY <2>1, <2>2, HeadTailProperties
  <2>4. Append(ran[k], Head(queue[k])) \in Seq(Nat)
    BY <2>2, <2>3, AppendProperties
  <2>5. queue' \in [Kinds -> Seq(Nat)] /\ ran' \in [Kinds -> Seq(Nat)]
    BY <2>1, <2>3, <2>4 DEF WorkTypes
  <2>6. worked' \in [Kinds -> BOOLEAN]
    BY <2>1 DEF WorkTypes
  <2>. QED
    BY <2>1, <2>5, <2>6 DEF WorkTypes
<1>6. ASSUME NEW k \in Kinds, Work!WorkerUnlock(k)
      PROVE  WorkTypes'
  <2>1. /\ UNCHANGED <<queue, readers, added, completed, worked, ran, scheduled, owed, taken, reports>>
        /\ writer' = [writer EXCEPT ![k] = FALSE]
        /\ pc' = [pc EXCEPT ![k] = IF worked[k] THEN "signal" ELSE "wait"]
    BY <1>6 DEF Work!WorkerUnlock, Work!AfterDrain
  <2>2. writer' \in [Kinds -> BOOLEAN]
    BY <2>1 DEF WorkTypes
  <2>3. pc' \in [Kinds \cup Waiters -> Places]
    BY <2>1 DEF WorkTypes, Places
  <2>. QED
    BY <2>1, <2>2, <2>3 DEF WorkTypes
<1>7. ASSUME NEW k \in Kinds, Work!WorkerSignal(k)
      PROVE  WorkTypes'
  <2>1. /\ UNCHANGED <<queue, writer, readers, added, worked, ran, scheduled, owed, taken>>
        /\ completed' = Work!Up(completed, TRUE)
        /\ reports' = [w \in Waiters |-> reports[w] + 1]
        /\ pc' = [pc EXCEPT ![k] = "wait"]
    BY <1>7 DEF Work!WorkerSignal
  <2>2. completed' \in [signals : Int, threads : Seq(Waiters)]
    <3>1. CASE completed.threads = <<>>
      BY <2>1, <3>1 DEF Work!Up, WorkTypes
    <3>2. CASE completed.threads # <<>>
      BY <2>1, <3>2, UpFacts DEF WorkTypes
    <3>. QED
      BY <3>1, <3>2
  <2>3. reports' \in [Waiters -> Nat] /\ pc' \in [Kinds \cup Waiters -> Places]
    BY <2>1 DEF WorkTypes, Places
  <2>. QED
    BY <2>1, <2>2, <2>3 DEF WorkTypes
<1>8. ASSUME NEW w \in Waiters, Reads(w) \/ Work!IsEmpty(w) \/ Work!Return(w)
      PROVE  WorkTypes'
  <2>1. UNCHANGED <<queue, writer, added, completed, worked, ran, scheduled, owed, taken>>
    BY <1>8 DEF Reads, Work!ReadNotify, Work!ReadGpe, Work!IsEmpty, Work!Return
  <2>2. pc' \in [Kinds \cup Waiters -> Places]
    <3>1. \E place \in {"gpe", "look", "return", "sleep", "idle"} : pc' = [pc EXCEPT ![w] = place]
      BY <1>8, Zenon DEF Reads, Work!ReadNotify, Work!ReadGpe, Work!IsEmpty, Work!Return
    <3>2. pc \in [Kinds \cup Waiters -> Places]
      BY DEF WorkTypes
    <3>. QED
      BY <3>1, <3>2 DEF Places
  <2>3. readers' \in [Kinds -> SUBSET Waiters]
    <3>1. \/ readers' = readers
          \/ readers' = [readers EXCEPT !["notify"] = @ \cup {w}]
          \/ readers' = [readers EXCEPT !["gpe"] = @ \cup {w}]
          \/ readers' = [k \in Kinds |-> readers[k] \ {w}]
      BY <1>8 DEF Reads, Work!ReadNotify, Work!ReadGpe, Work!IsEmpty, Work!Looked, Work!Return, Kinds
    <3>2. readers \in [Kinds -> SUBSET Waiters]
      BY DEF WorkTypes
    <3>. QED
      BY <3>1, <3>2
  <2>4. reports' \in [Waiters -> Nat]
    <3>1. reports' = reports \/ reports' = [reports EXCEPT ![w] = 0]
      BY <1>8 DEF Reads, Work!ReadNotify, Work!ReadGpe, Work!IsEmpty, Work!Return
    <3>2. reports \in [Waiters -> Nat]
      BY DEF WorkTypes
    <3>. QED
      BY <3>1, <3>2
  <2>. QED
    BY <2>1, <2>2, <2>3, <2>4 DEF WorkTypes
<1>9. ASSUME NEW w \in Waiters, Work!CompletedWait(w)
      PROVE  WorkTypes'
  <2>1. /\ UNCHANGED <<queue, writer, readers, added, worked, ran, scheduled, owed, taken, reports>>
        /\ completed' = Work!Down(completed, w)
        /\ pc' = [pc EXCEPT ![w] = "return"]
    BY <1>9 DEF Work!CompletedWait
  <2>2. completed' \in [signals : Int, threads : Seq(Waiters)]
    BY <2>1, DownFacts DEF WorkTypes
  <2>3. pc' \in [Kinds \cup Waiters -> Places]
    BY <2>1 DEF WorkTypes, Places
  <2>. QED
    BY <2>1, <2>2, <2>3 DEF WorkTypes
<1>10. CASE Interrupted
  BY <1>10 DEF Interrupted, WorkTypes
<1>. QED
  BY <1>1, <1>2, <1>3, <1>4, <1>5, <1>6, <1>7, <1>8, <1>9, <1>10, WorkSteps

-----------------------------------------------------------------------------
(* The composition.                                                        *)

EventInv == EventTypes /\ SignalsCounted /\ TimeAccounted

LEMMA EventInvInit ==
  ASSUME BootInit
  PROVE  EventInv
<1>1. Event!Init
  BY DEF BootInit
<1>2. EventTypes
  <2>1. 0 \in 0..Event!Forever
    BY ForeverNat
  <2>2. call = [w \in EventWaiters |-> [timeout |-> 0, started |-> FALSE]]
    BY <1>1 DEF Event!Init
  <2>3. call \in [EventWaiters -> [timeout : 0..Event!Forever, started : BOOLEAN]]
    BY <2>1, <2>2
  <2>4. counter \in Nat /\ given \in Nat /\ lost \in Nat /\ started \in BOOLEAN
    BY <1>1 DEF Event!Init
  <2>5. /\ eventPc \in [EventWaiters -> {"idle", "load", "exchange", "failed", "true", "false"}]
        /\ loaded \in [EventWaiters -> Nat]
        /\ left \in [EventWaiters -> Int]
        /\ waited \in [EventWaiters -> Nat]
    BY <1>1 DEF Event!Init
  <2>. QED
    BY <2>3, <2>4, <2>5 DEF EventTypes
<1>3. Winners = {}
  BY <1>1 DEF Event!Init, Winners
<1>4. SignalsCounted
  BY <1>1, <1>3, FS_EmptySet DEF Event!Init, SignalsCounted
<1>5. TimeAccounted
  BY <1>1, ForeverNat DEF Event!Init, TimeAccounted
<1>. QED
  BY <1>2, <1>4, <1>5 DEF EventInv

LEMMA EventInvKept ==
  ASSUME EventInv, [BootNext]_bootVars
  PROVE  EventInv'
<1>1. CASE Event!Next
  BY <1>1, EventTypesKept, SignalsKept, TimeKept DEF EventInv
<1>2. CASE UNCHANGED eventVars
  <2>1. Winners' = Winners
    BY <1>2 DEF Winners, eventVars
  <2>2. EventTypes'
    BY <1>2 DEF EventInv, EventTypes, eventVars
  <2>3. SignalsCounted'
    BY <1>2, <2>1 DEF EventInv, SignalsCounted, eventVars
  <2>4. TimeAccounted'
    BY <1>2 DEF EventInv, TimeAccounted, eventVars
  <2>. QED
    BY <2>2, <2>3, <2>4 DEF EventInv
<1>. QED
  BY <1>1, <1>2 DEF BootNext, bootVars

LEMMA WorkInvInit ==
  ASSUME BootInit
  PROVE  WorkInv
<1>1. Work!Init
  BY DEF BootInit
<1>2. WorkTypes
  <2>1. /\ queue \in [Kinds -> Seq(Nat)] /\ ran \in [Kinds -> Seq(Nat)]
        /\ scheduled \in [Kinds -> Nat] /\ owed \in Nat
        /\ writer \in [Kinds -> BOOLEAN] /\ worked \in [Kinds -> BOOLEAN]
    BY <1>1 DEF Work!Init, Kinds
  <2>2. /\ readers \in [Kinds -> SUBSET Waiters]
        /\ taken \in [Kinds -> Nat] /\ reports \in [Waiters -> Nat]
        /\ pc \in [Kinds \cup Waiters -> Places]
    BY <1>1 DEF Work!Init, Kinds, Places
  <2>3. /\ added \in [signals : Int, threads : Seq(Kinds)]
        /\ completed \in [signals : Int, threads : Seq(Waiters)]
    BY <1>1 DEF Work!Init
  <2>. QED
    BY <2>1, <2>2, <2>3 DEF WorkTypes
<1>3. /\ added.signals = 0 /\ added.threads = <<>> /\ completed.threads = <<>> /\ owed = 0
      /\ \A k \in Kinds : queue[k] = <<>> /\ ran[k] = <<>> /\ scheduled[k] = 0 /\ taken[k] = 0
      /\ \A w \in Waiters : pc[w] \in {"wait", "idle"}
      /\ \A k \in Kinds : pc[k] = "wait"
  BY <1>1 DEF Work!Init, Kinds
<1>4. RunInOrder
  <2>1. <<>> \o <<>> = [i \in 1..0 |-> i]
    OBVIOUS
  <2>. QED
    BY <1>3, <2>1 DEF RunInOrder
<1>5. AddedExact
  BY <1>3 DEF AddedExact, Exact
<1>6. WorkSignalled
  BY <1>3 DEF WorkSignalled, LeftOver, Coming
<1>7. ReportsKnown
  <2>1. \A w \in Waiters : ~Listed(w, completed.threads)
    <3>1. Len(completed.threads) = 0
      BY <1>3
    <3>. QED
      BY <3>1 DEF Listed
  <2>2. \A w \in Waiters : pc[w] # "sleep"
    BY <1>3
  <2>. QED
    BY <2>1, <2>2 DEF ReportsKnown, Expects
<1>. QED
  BY <1>1, <1>2, <1>4, <1>5, <1>6, <1>7 DEF WorkInv, IrqTyped, Work!Init

LEMMA WorkInvKept ==
  ASSUME WorkInv, [BootNext]_bootVars
  PROVE  WorkInv'
<1>1. CASE Work!Next
  BY <1>1, IrqTypedKept, WorkTypesKept, OrderKept, AddedKept, SignalledKept, ReportsKept DEF WorkInv
<1>2. CASE UNCHANGED workVars
  <2>. USE <1>2 DEF workVars
  <2>1. WorkTypes'
    BY DEF WorkInv, WorkTypes
  <2>2. RunInOrder'
    BY DEF WorkInv, RunInOrder
  <2>3. AddedExact'
    BY DEF WorkInv, AddedExact
  <2>4. WorkSignalled'
    BY DEF WorkInv, WorkSignalled, LeftOver, Coming
  <2>5. ReportsKnown'
    BY DEF WorkInv, ReportsKnown, Expects, ReportDue
  <2>6. IrqTyped'
    BY DEF WorkInv, IrqTyped
  <2>. QED
    BY <2>1, <2>2, <2>3, <2>4, <2>5, <2>6 DEF WorkInv
<1>. QED
  BY <1>1, <1>2 DEF BootNext, bootVars

(***************************************************************************)
(* uacpi_kernel_signal_event() and decrement(): whatever the interleaving  *)
(* of loads, exchanges, signals and resets, every signal lets at most one  *)
(* waiter of any number of waiters through.                                *)
(***************************************************************************)
THEOREM ConsumedOnceInvariant == BootSpec => []ConsumedOnce
<1>1. BootInit => EventInv
  BY EventInvInit
<1>2. EventInv /\ [BootNext]_bootVars => EventInv'
  BY EventInvKept
<1>3. EventInv => ConsumedOnce
  <2>1. {w \in EventWaiters : eventPc[w] = "true"} = Winners
    BY DEF Winners
  <2>2. Event!Cardinality({w \in EventWaiters : eventPc[w] = "true"}) = Cardinality(Winners)
    BY <2>1, CardinalityOfEvent
  <2>. QED
    BY <2>2 DEF EventInv, EventTypes, SignalsCounted, ConsumedOnce, Event!ConsumedOnce,
       Event!TypeOK
<1>. QED
  BY <1>1, <1>2, <1>3, PTL DEF BootSpec

(***************************************************************************)
(* uacpi_kernel_wait_for_event() that returns false has slept for at least *)
(* the timeout it was given, for every finite timeout, if the scheduler    *)
(* was running when it was called.                                         *)
(***************************************************************************)
THEOREM GivesUpLateInvariant == BootSpec => []GivesUpLate
<1>1. BootInit => EventInv
  BY EventInvInit
<1>2. EventInv /\ [BootNext]_bootVars => EventInv'
  BY EventInvKept
<1>3. EventInv => GivesUpLate
  <2>. SUFFICES ASSUME EventInv, NEW w \in EventWaiters, eventPc[w] = "false", call[w].started
                PROVE  waited[w] >= call[w].timeout * 1000
    BY DEF GivesUpLate, Event!GivesUpLate
  <2>1. waited[w] >= (call[w].timeout - left[w]) * 1000 /\ left[w] <= 0
    BY DEF EventInv, TimeAccounted
  <2>2. waited[w] \in Nat /\ left[w] \in Int /\ call[w].timeout \in Int
    BY ForeverNat DEF EventInv, EventTypes
  <2>. QED
    BY <2>1, <2>2
<1>. QED
  BY <1>1, <1>2, <1>3, PTL DEF BootSpec

(***************************************************************************)
(* Work of either kind runs once and in the order uACPI scheduled it. When *)
(* both workers sleep and every signal has been given, each piece that is  *)
(* left in a queue has its signal taken by the worker of the other kind.   *)
(***************************************************************************)
THEOREM StrandedOnlyByOtherInvariant == BootSpec => []StrandedOnlyByOther
<1>1. BootInit => WorkInv
  BY WorkInvInit
<1>2. WorkInv /\ [BootNext]_bootVars => WorkInv'
  BY WorkInvKept
<1>3. WorkInv => StrandedOnlyByOther
  <2>. SUFFICES ASSUME WorkInv
                PROVE  StrandedOnlyByOther
    OBVIOUS
  <2>. USE DEF WorkInv
  <2>1. Work!TypeOK
    BY SemaphoreTypes DEF WorkTypes, IrqTyped, Work!TypeOK, Kinds
  <2>2. ASSUME NEW k \in Kinds, Work!Quiet
        PROVE  taken[k] >= Len(queue[k])
    <3>1. Work!Asleep(k, added) /\ owed = 0
      BY <2>2 DEF Work!Quiet, Kinds
    <3>2. Listed(k, added.threads)
      BY <3>1, AsleepListed DEF WorkTypes
    <3>3. pc[k] = "woken" /\ added.signals < 0
      BY <3>2, SemaphoreTypes, ListedWoken DEF AddedExact
    <3>4. LeftOver = 0 /\ Coming(k) = 0
      BY <3>1, <3>2, <3>3, SemaphoreTypes DEF LeftOver, Coming
    <3>5. Len(queue[k]) <= LeftOver + taken[k] + Coming(k)
      BY <3>3 DEF WorkSignalled
    <3>. QED
      BY <3>4, <3>5, SignalledTypes
  <2>. QED
    BY <2>1, <2>2 DEF StrandedOnlyByOther, Work!StrandedOnlyByOther, RunInOrder, Kinds
<1>. QED
  BY <1>1, <1>2, <1>3, PTL DEF BootSpec

(***************************************************************************)
(* uacpi_kernel_wait_for_work_completion(), called by any number of        *)
(* threads: one that sleeps when all work is done was too late for a       *)
(* report, and never waits for work that ended before it looked.           *)
(***************************************************************************)
THEOREM HangsOnlyAfterReportInvariant == BootSpec => []HangsOnlyAfterReport
<1>1. BootInit => WorkInv
  BY WorkInvInit
<1>2. WorkInv /\ [BootNext]_bootVars => WorkInv'
  BY WorkInvKept
<1>3. WorkInv => HangsOnlyAfterReport
  <2>. SUFFICES ASSUME WorkInv, NEW w \in Waiters, Work!Quiet, Work!Asleep(w, completed),
                       \A k \in Kinds : queue[k] = <<>>
                PROVE  reports[w] > 0
    BY DEF HangsOnlyAfterReport, Work!HangsOnlyAfterReport, Kinds
  <2>. USE DEF WorkInv
  <2>1. Listed(w, completed.threads)
    BY AsleepListed DEF WorkTypes
  <2>2. \A k \in Kinds : pc[k] = "woken"
    <3>1. \A k \in Kinds : Listed(k, added.threads)
      BY AsleepListed DEF Work!Quiet, Kinds, WorkTypes
    <3>. QED
      BY <3>1, SemaphoreTypes, ListedWoken DEF AddedExact
  <2>3. ~ReportDue
    BY <2>2 DEF ReportDue
  <2>. QED
    BY <2>1, <2>3 DEF ReportsKnown, Expects
<1>. QED
  BY <1>1, <1>2, <1>3, PTL DEF BootSpec

-----------------------------------------------------------------------------
(* Numbers.                                                                *)

LEMMA LeastNatural ==
  ASSUME NEW T, T \subseteq Nat, T # {}
  PROVE  \E x \in T : \A y \in T : x <= y
<1>. DEFINE R == OpToRel(<, Nat)
<1>1. IsWellFoundedOn(R, Nat)
  BY NatLessThanWellFounded
<1>2. \E x \in T : \A y \in T : ~ (<<y, x>> \in R)
  <2>. HIDE DEF R
  <2>. QED BY <1>1, WFMin
<1>3. \A x, y \in Nat : y < x => <<y, x>> \in R
  BY DEF OpToRel
<1>. HIDE DEF R
<1>4. PICK x \in T : \A y \in T : ~ (<<y, x>> \in R)
  BY <1>2
<1>5. ASSUME NEW y \in T PROVE x <= y
  <2>1. x \in Nat /\ y \in Nat /\ ~ (y < x)
    BY <1>3, <1>4
  <2>. QED
    BY <2>1
<1>. QED
  BY <1>4, <1>5

LEMMA DivBounds ==
  ASSUME NEW n \in Int, NEW a \in Nat \ {0}
  PROVE  /\ n \div a \in Int
         /\ a * (n \div a) <= n /\ n < a * (n \div a) + a
  OBVIOUS

LEMMA DivUnique ==
  ASSUME NEW n \in Int, NEW a \in Nat \ {0}, NEW q \in Int, a * q <= n, n < a * q + a
  PROVE  n \div a = q
<1>. DEFINE d == n \div a
<1>1. d \in Int /\ a * d <= n /\ n < a * d + a
  BY DivBounds
<1>. HIDE DEF d
<1>2. \A x, y \in Int : x < y => a * x + a <= a * y
  <2>. SUFFICES ASSUME NEW x \in Int, NEW y \in Int, x < y
                PROVE  a * x + a <= a * y
    OBVIOUS
  <2>1. PICK k \in Nat : y = x + 1 + k
    <3>. WITNESS y - x - 1 \in Nat
    <3>. QED OBVIOUS
  <2>2. a * y = a * x + a + a * k /\ a * k >= 0
    BY <2>1
  <2>3. a * x \in Int /\ a * y \in Int /\ a * k \in Int
    OBVIOUS
  <2>. QED
    BY <2>2, <2>3
<1>3. ~(d < q) /\ ~(q < d)
  BY <1>1, <1>2
<1>4. d = q
  BY <1>1, <1>3
<1>. QED
  BY <1>4 DEF d

LEMMA LoaderFacts ==
  /\ Page \in Nat \ {0}
  /\ IsFiniteSet(Frames) /\ Frames \subseteq Nat \ {0}
  /\ \A f \in Files : f.segments \in Seq(Loader!Segments)
  BY BootAssumption DEF Loader!KernelModuleAssumption, Loader!IsFiniteSet, IsFiniteSet

LEMMA CardinalityOfLoader == \A S : Loader!Cardinality(S) = Cardinality(S)
  BY DEF Loader!Cardinality, Cardinality, Loader!IsFiniteSet, IsFiniteSet

\* A sequence of naturals has a largest element.
LEMMA LargestOf ==
  ASSUME NEW n \in Nat, NEW g \in [1..n -> Nat]
  PROVE  \E x \in {0} \cup {g[i] : i \in 1..n} : \A y \in {0} \cup {g[i] : i \in 1..n} : x >= y
<1>. DEFINE T == {k \in 0..n : ~\E u \in Nat : \A i \in 1..k : g[i] <= u}
<1>1. T = {}
  <2>. SUFFICES ASSUME T # {}
                PROVE  FALSE
    OBVIOUS
  <2>1. PICK k \in T : \A y \in T : k <= y
    <3>1. T \subseteq Nat
      OBVIOUS
    <3>. QED
      BY <3>1, LeastNatural
  <2>2. k # 0
    <3>1. \A i \in 1..0 : g[i] <= 0
      OBVIOUS
    <3>. QED
      BY <3>1
  <2>3. k - 1 \in 0..n /\ k - 1 \notin T /\ k \in 1..n
    <3>1. k \in 0..n
      OBVIOUS
    <3>2. k - 1 \in 0..n /\ k \in 1..n /\ ~(k <= k - 1)
      BY <3>1, <2>2
    <3>. HIDE DEF T
    <3>. QED
      BY <3>2, <2>1
  <2>4. PICK u \in Nat : \A i \in 1..(k - 1) : g[i] <= u
    BY <2>3
  <2>5. PICK w \in Nat : u <= w /\ g[k] <= w
    <3>1. g[k] \in Nat
      BY <2>3
    <3>. HIDE DEF T
    <3>2. CASE u <= g[k]
      <4>. WITNESS g[k] \in Nat
      <4>. QED BY <3>1, <3>2
    <3>3. CASE g[k] <= u
      <4>. WITNESS u \in Nat
      <4>. QED BY <3>1, <3>3
    <3>. QED
      BY <3>1, <3>2, <3>3
  <2>6. \A i \in 1..k : g[i] <= w
    <3>. SUFFICES ASSUME NEW i \in 1..k
                  PROVE  g[i] <= w
      OBVIOUS
    <3>1. CASE i = k
      BY <3>1, <2>5
    <3>2. CASE i # k
      <4>1. i \in 1..(k - 1) /\ i \in 1..n
        BY <3>2, <2>3
      <4>. HIDE DEF T
      <4>2. g[i] \in Nat /\ g[i] <= u
        BY <4>1, <2>4
      <4>3. PICK x \in Nat : x = g[i] /\ x <= u
        BY <4>2
      <4>4. x <= w
        BY <4>3, <2>5
      <4>. QED
        BY <4>3, <4>4
    <3>. QED
      BY <3>1, <3>2
  <2>. QED
    BY <2>1, <2>6
<1>2. PICK u \in Nat : \A i \in 1..n : g[i] <= u
  <2>1. n \in 0..n
    OBVIOUS
  <2>2. n \notin T
    <3>. HIDE DEF T
    <3>. QED BY <1>1
  <2>. QED
    BY <2>1, <2>2
<1>. DEFINE U == {w \in Nat : \A i \in 1..n : g[i] <= w}
<1>3. PICK m \in U : \A y \in U : m <= y
  <2>1. U \subseteq Nat /\ U # {}
    BY <1>2
  <2>. QED
    BY <2>1, LeastNatural
<1>4. m = 0 \/ \E i \in 1..n : g[i] = m
  <2>. SUFFICES ASSUME m # 0
                PROVE  \E i \in 1..n : g[i] = m
    OBVIOUS
  <2>1. m - 1 \in Nat /\ m - 1 \notin U
    BY <1>3
  <2>2. PICK i \in 1..n : ~(g[i] <= m - 1)
    BY <2>1
  <2>3. g[i] <= m /\ g[i] \in Nat /\ m \in Nat
    BY <1>3
  <2>. QED
    BY <2>2, <2>3
<1>. DEFINE S == {0} \cup {g[i] : i \in 1..n}
<1>5. m \in S /\ m \in Nat
  BY <1>3, <1>4
<1>6. \A y \in S : m >= y
  <2>1. \A i \in 1..n : g[i] <= m /\ g[i] \in Nat
    BY <1>3
  <2>. QED
    BY <2>1, <1>5
<1>. QED
  BY <1>5, <1>6

LEMMA RoundUpBounds ==
  ASSUME NEW n \in Nat, NEW a \in Nat \ {0}
  PROVE  /\ Loader!RoundUp(n, a) \in Nat
         /\ Loader!RoundUp(n, a) >= n
         /\ (n - 1) \div a \in Int /\ (n - 1) \div a >= -1
         /\ Loader!RoundUp(n, a) = a * ((n - 1) \div a + 1)
<1>. DEFINE r == (n - 1) \div a
<1>1. r \in Int /\ a * r <= n - 1 /\ n - 1 < a * r + a
  BY DivBounds
<1>2. Loader!RoundUp(n, a) = (r + 1) * a
  BY DEF Loader!RoundUp
<1>. HIDE DEF r
<1>3. (r + 1) * a = a * r + a /\ a * (r + 1) = a * r + a /\ a * r \in Int
  BY <1>1
<1>4. r >= -1
  <2>. SUFFICES ASSUME r < -1
                PROVE  FALSE
    BY <1>1
  <2>1. PICK k \in Nat : r = -2 - k
    <3>1. -2 - r \in Nat /\ r = -2 - (-2 - r)
      BY <1>1
    <3>. QED
      BY <3>1
  <2>2. a * r = - a - a - a * k /\ a * k >= 0 /\ a * k \in Int
    BY <2>1
  <2>. QED
    BY <2>2, <1>1
<1>. QED
  BY <1>1, <1>2, <1>3, <1>4 DEF r

-----------------------------------------------------------------------------
(* The loader of modules.  What a file needs.                              *)

NPages(f) == Loader!RoundUp(Loader!MaxSize(f), Page) \div Page

LEMMA MaxSizeBounds ==
  ASSUME NEW f \in Files
  PROVE  /\ Loader!MaxSize(f) \in Nat
         /\ \A i \in DOMAIN f.segments :
              f.segments[i].vaddr + f.segments[i].memsz <= Loader!MaxSize(f)
<1>1. f.segments \in Seq(Loader!Segments)
  BY LoaderFacts
<1>. DEFINE n == Len(f.segments)
            g == [i \in 1..n |-> Loader!RoundUp(f.segments[i].vaddr + f.segments[i].memsz, f.segments[i].align)]
            S == {0} \cup {g[i] : i \in 1..n}
<1>2. n \in Nat /\ DOMAIN f.segments = 1..n
  BY <1>1
<1>3. \A i \in 1..n : /\ f.segments[i].vaddr \in Nat /\ f.segments[i].memsz \in Nat
                      /\ f.segments[i].align \in Nat \ {0}
  <2>1. \A i \in 1..n : f.segments[i] \in Loader!Segments
    BY <1>1
  <2>. QED
    BY <2>1 DEF Loader!Segments
<1>4. \A i \in 1..n : g[i] \in Nat /\ g[i] >= f.segments[i].vaddr + f.segments[i].memsz
  <2>. SUFFICES ASSUME NEW i \in 1..n
                PROVE  g[i] \in Nat /\ g[i] >= f.segments[i].vaddr + f.segments[i].memsz
    OBVIOUS
  <2>. DEFINE x == f.segments[i].vaddr + f.segments[i].memsz
              a == f.segments[i].align
  <2>1. x \in Nat /\ a \in Nat \ {0}
    BY <1>3
  <2>2. g[i] = Loader!RoundUp(x, a)
    OBVIOUS
  <2>. HIDE DEF x, a, g
  <2>3. g[i] \in Nat /\ g[i] >= x
    BY <2>1, <2>2, RoundUpBounds
  <2>. QED
    BY <2>3 DEF x
<1>5. Loader!MaxSize(f) = Loader!Max(S)
  <2>1. {Loader!RoundUp(f.segments[i].vaddr + f.segments[i].memsz, f.segments[i].align) : i \in DOMAIN f.segments}
          = {g[i] : i \in 1..n}
    BY <1>2
  <2>. QED
    BY <2>1 DEF Loader!MaxSize
<1>6. g \in [1..n -> Nat]
  BY <1>4
<1>7. \E x \in S : \A y \in S : x >= y
  <2>. HIDE DEF g, n
  <2>. QED
    BY <1>2, <1>6, LargestOf
<1>8. Loader!Max(S) \in S /\ \A y \in S : Loader!Max(S) >= y
  <2>. HIDE DEF S
  <2>. QED
    BY <1>7 DEF Loader!Max
<1>. DEFINE M == Loader!Max(S)
<1>9. M \in Nat /\ \A i \in 1..n : M >= g[i]
  <2>. HIDE DEF g, n
  <2>. QED
    BY <1>6, <1>8
<1>10. ASSUME NEW i \in 1..n
       PROVE  f.segments[i].vaddr + f.segments[i].memsz <= M
  <2>1. M >= g[i] /\ g[i] \in Nat /\ g[i] >= f.segments[i].vaddr + f.segments[i].memsz
    BY <1>9, <1>4
  <2>. HIDE DEF g, M
  <2>. QED
    BY <2>1, <1>9, <1>3
<1>. QED
  BY <1>2, <1>5, <1>9, <1>10

LEMMA NPagesBounds ==
  ASSUME NEW f \in Files
  PROVE  /\ NPages(f) \in Nat
         /\ NPages(f) <= Loader!MaxSize(f)
         /\ Loader!MaxSize(f) <= Page * NPages(f)
<1>. DEFINE M == Loader!MaxSize(f)
            q == (M - 1) \div Page
<1>1. M \in Nat /\ Page \in Nat \ {0}
  BY MaxSizeBounds, LoaderFacts
<1>. HIDE DEF M
<1>2. q \in Int /\ q >= -1 /\ Loader!RoundUp(M, Page) = Page * (q + 1) /\ Loader!RoundUp(M, Page) >= M
  BY <1>1, RoundUpBounds
<1>3. Page * q <= M - 1
  BY <1>1, DivBounds
<1>. HIDE DEF q
<1>4. (Page * (q + 1)) \div Page = q + 1
  <2>1. Page * (q + 1) \in Int /\ q + 1 \in Int /\ Page * (q + 1) < Page * (q + 1) + Page
    BY <1>1, <1>2
  <2>. QED
    BY <2>1, <1>1, DivUnique
<1>5. NPages(f) = q + 1
  BY <1>2, <1>4 DEF NPages, M
<1>6. q + 1 <= M
  <2>1. CASE q = -1
    BY <2>1, <1>1
  <2>2. CASE q >= 0
    <3>1. q <= Page * q
      BY <1>1, <1>2, <2>2
    <3>2. Page * q \in Int
      BY <1>1, <1>2
    <3>. QED
      BY <3>1, <3>2, <1>1, <1>2, <1>3
  <2>. QED
    BY <1>2, <2>1, <2>2
<1>. QED
  BY <1>1, <1>2, <1>5, <1>6 DEF M

LEMMA SegmentPagesBounds ==
  ASSUME NEW f \in Files, NEW i \in DOMAIN f.segments
  PROVE  LET s == f.segments[i]
         IN  /\ Loader!SegmentPages(s) = (s.vaddr \div Page)..((s.vaddr + s.memsz - 1) \div Page)
             /\ Loader!SegmentPages(s) \subseteq 0..(NPages(f) - 1)
<1>. DEFINE s == f.segments[i]
            v == s.vaddr
            m == s.memsz
            d == v \div Page
<1>1. s \in Loader!Segments
  BY LoaderFacts
<1>2. v \in Nat /\ m \in Nat /\ Page \in Nat \ {0}
  BY <1>1, LoaderFacts DEF Loader!Segments
<1>3. v + m <= Loader!MaxSize(f)
  BY MaxSizeBounds
<1>4. Loader!SegmentPages(s) =
        ((d * Page) \div Page)..((d * Page + Loader!RoundUp(m + (v - d * Page), Page)) \div Page - 1)
  BY DEF Loader!SegmentPages
<1>. HIDE DEF s, v, m
<1>5. d \in Int /\ Page * d <= v /\ v < Page * d + Page
  BY <1>2, DivBounds
<1>. HIDE DEF d
<1>6. d >= 0
  <2>. SUFFICES ASSUME d < 0
                PROVE  FALSE
    BY <1>5
  <2>1. -1 - d \in Nat /\ d = -1 - (-1 - d)
    BY <1>5
  <2>2. PICK k \in Nat : d = -1 - k
    BY <2>1
  <2>3. Page * d = - Page - Page * k /\ Page * k >= 0 /\ Page * k \in Int
    BY <2>2, <1>2
  <2>. QED
    BY <2>3, <1>5, <1>2
<1>7. d * Page = Page * d /\ Page * d \in Nat
  BY <1>2, <1>5, <1>6
<1>. DEFINE o == v - d * Page
            r == (m + o - 1) \div Page
<1>8. o \in Nat /\ v = Page * d + o
  BY <1>2, <1>5, <1>7
<1>. HIDE DEF o
<1>9. /\ r \in Int /\ r >= -1 /\ Loader!RoundUp(m + o, Page) = Page * (r + 1)
      /\ Page * r <= m + o - 1 /\ m + o - 1 < Page * r + Page
  <2>. DEFINE x == m + o
  <2>1. x \in Nat /\ x - 1 \in Int /\ r = (x - 1) \div Page
    BY <1>2, <1>8
  <2>. HIDE DEF x, r
  <2>2. r \in Int /\ r >= -1 /\ Loader!RoundUp(x, Page) = Page * (r + 1)
    BY <2>1, <1>2, RoundUpBounds
  <2>3. Page * r <= x - 1 /\ x - 1 < Page * r + Page
    BY <2>1, <1>2, DivBounds
  <2>. QED
    BY <2>2, <2>3, <1>2, <1>8 DEF x
<1>. HIDE DEF r
<1>10. (d * Page) \div Page = d
  <2>1. Page * d <= d * Page /\ d * Page < Page * d + Page /\ d * Page \in Int
    BY <1>2, <1>7
  <2>. QED
    BY <2>1, <1>2, <1>5, DivUnique
<1>11. (d * Page + Page * (r + 1)) \div Page = d + r + 1
  <2>1. d * Page + Page * (r + 1) = Page * (d + r + 1) /\ Page * (d + r + 1) \in Int /\ d + r + 1 \in Int
    BY <1>2, <1>5, <1>9
  <2>2. Page * (d + r + 1) < Page * (d + r + 1) + Page
    BY <2>1, <1>2
  <2>. HIDE DEF r
  <2>. QED
    BY <2>1, <2>2, <1>2, DivUnique
<1>12. Page * (d + r) = Page * d + Page * r /\ Page * (d + r) \in Int /\ d + r \in Int
  BY <1>2, <1>5, <1>9
<1>13. Page * (d + r) <= v + m - 1 /\ v + m - 1 < Page * (d + r) + Page
  <2>1. Page * d \in Int /\ Page * r \in Int
    BY <1>2, <1>5, <1>9
  <2>. QED
    BY <2>1, <1>12, <1>8, <1>9, <1>2
<1>14. (v + m - 1) \div Page = d + r
  BY <1>12, <1>13, <1>2, DivUnique
<1>15. Loader!SegmentPages(s) = d..((v + m - 1) \div Page)
  <2>1. Loader!RoundUp(m + (v - d * Page), Page) = Page * (r + 1)
    BY <1>9 DEF o
  <2>2. Loader!SegmentPages(s) = d..(d + r + 1 - 1)
    <3>. DEFINE u == Loader!RoundUp(m + (v - d * Page), Page)
    <3>1. Loader!SegmentPages(s) = ((d * Page) \div Page)..((d * Page + u) \div Page - 1)
      BY <1>4
    <3>2. u = Page * (r + 1)
      BY <2>1
    <3>. HIDE DEF u
    <3>3. (d * Page + u) \div Page = d + r + 1
      BY <3>2, <1>11
    <3>. DEFINE lo == (d * Page) \div Page
                hi == (d * Page + u) \div Page
    <3>4. Loader!SegmentPages(s) = lo..(hi - 1) /\ lo = d /\ hi = d + r + 1
      BY <3>1, <3>3, <1>10
    <3>. HIDE DEF lo, hi
    <3>. QED
      BY <3>4, <1>5, <1>9
  <2>. QED
    BY <2>2, <1>14, <1>12
<1>16. d + r <= NPages(f) - 1
  <2>. DEFINE N == NPages(f)
  <2>1. N \in Nat /\ v + m <= Page * N
    <3>1. Loader!MaxSize(f) \in Nat /\ Page * NPages(f) \in Int
      BY MaxSizeBounds, NPagesBounds, <1>2
    <3>. QED
      BY <3>1, <1>3, NPagesBounds, <1>2 DEF v, m, s
  <2>. HIDE DEF N
  <2>. SUFFICES ASSUME d + r >= N
                PROVE  FALSE
    BY <2>1, <1>12 DEF N
  <2>2. PICK k \in Nat : d + r = N + k
    <3>. DEFINE z == d + r
    <3>1. z \in Int /\ z >= N
      BY <1>12
    <3>. HIDE DEF z
    <3>2. z - N \in Nat /\ z = N + (z - N)
      BY <3>1, <2>1
    <3>3. \E k \in Nat : z = N + k
      BY <3>2
    <3>. QED
      BY <3>3 DEF z
  <2>3. Page * (d + r) = Page * N + Page * k /\ Page * k >= 0 /\ Page * N \in Int /\ Page * k \in Int
    BY <2>2, <2>1, <1>2
  <2>. QED
    BY <2>3, <2>1, <1>13, <1>12, <1>2
<1>17. Loader!SegmentPages(s) \subseteq 0..(NPages(f) - 1)
  BY <1>15, <1>16, <1>14, <1>6, <1>5, <1>12, NPagesBounds
<1>. QED
  BY <1>15, <1>17 DEF s, v, m, d

\* The elements of a finite set of numbers, by rank.
UpTo(S, x) == {y \in S : y <= x}

LEMMA RankExists ==
  ASSUME NEW S, S \subseteq Nat, IsFiniteSet(S), NEW i \in 1..Cardinality(S)
  PROVE  \E x \in S : Cardinality(UpTo(S, x)) = i
<1>. DEFINE c == Cardinality(S)
            T == {k \in 1..c : ~\E x \in S : Cardinality(UpTo(S, x)) = k}
<1>1. c \in Nat
  BY FS_CardinalityType
<1>2. \A x \in S : IsFiniteSet(UpTo(S, x)) /\ Cardinality(UpTo(S, x)) \in Nat
  <2>1. \A x : UpTo(S, x) \subseteq S
    BY DEF UpTo
  <2>. QED
    BY <2>1, FS_Subset, FS_CardinalityType
<1>3. ASSUME NEW k \in Nat, k < c, NEW U, U \subseteq S, Cardinality(U) = k,
             \A y \in S, x \in U : y <= x => y \in U
      PROVE  \E x \in S : Cardinality(UpTo(S, x)) = k + 1
  <2>1. IsFiniteSet(U)
    BY <1>3, FS_Subset
  <2>2. S \ U # {}
    <3>. SUFFICES ASSUME S \ U = {}
                  PROVE  FALSE
      OBVIOUS
    <3>1. U = S
      BY <1>3
    <3>. QED
      BY <3>1, <1>3, <1>1
  <2>3. PICK x \in S \ U : \A y \in S \ U : x <= y
    <3>1. S \ U \subseteq Nat
      OBVIOUS
    <3>. QED
      BY <3>1, <2>2, LeastNatural
  <2>4. UpTo(S, x) = U \cup {x}
    <3>1. ASSUME NEW y \in UpTo(S, x), y # x
          PROVE  y \in U
      <4>1. y \in S /\ y <= x /\ y \in Nat /\ x \in Nat
        BY DEF UpTo
      <4>. QED
        BY <4>1, <2>3, <3>1
    <3>2. ASSUME NEW y \in U
          PROVE  y \in UpTo(S, x)
      <4>1. y \in Nat /\ x \in Nat /\ y \in S /\ ~(x <= y)
        BY <1>3, <2>3
      <4>. QED
        BY <4>1 DEF UpTo
    <3>3. x \in UpTo(S, x)
      BY DEF UpTo
    <3>. QED
      BY <3>1, <3>2, <3>3
  <2>5. Cardinality(U \cup {x}) = k + 1
    BY <2>1, <2>3, <1>3, FS_AddElement
  <2>. QED
    BY <2>3, <2>4, <2>5
<1>4. T = {}
  <2>. SUFFICES ASSUME T # {}
                PROVE  FALSE
    OBVIOUS
  <2>1. PICK k \in T : \A y \in T : k <= y
    <3>1. T \subseteq Nat
      BY <1>1
    <3>. HIDE DEF T
    <3>. QED
      BY <3>1, LeastNatural
  <2>2. k \in 1..c /\ k \in Nat
    BY <1>1
  <2>3. CASE k = 1
    <3>1. 0 < c /\ 0 \in Nat /\ {} \subseteq S /\ Cardinality({}) = 0
      BY <2>2, <1>1, FS_EmptySet
    <3>2. \E x \in S : Cardinality(UpTo(S, x)) = 0 + 1
      BY <3>1, <1>3
    <3>. QED
      BY <3>2, <2>3, <2>1
  <2>4. CASE k # 1
    <3>1. k - 1 \in 1..c /\ ~(k <= k - 1) /\ k - 1 \in Nat /\ k - 1 < c /\ k - 1 + 1 = k
      BY <2>2, <2>4, <1>1
    <3>2. k - 1 \notin T
      <4>. HIDE DEF T
      <4>. QED
        BY <3>1, <2>1
    <3>3. PICK x \in S : Cardinality(UpTo(S, x)) = k - 1
      BY <3>1, <3>2
    <3>4. UpTo(S, x) \subseteq S /\ \A y \in S, z \in UpTo(S, x) : y <= z => y \in UpTo(S, x)
      BY DEF UpTo
    <3>5. \E z \in S : Cardinality(UpTo(S, z)) = k - 1 + 1
      BY <3>1, <3>3, <3>4, <1>3
    <3>. QED
      BY <3>5, <3>1, <2>1
  <2>. QED
    BY <2>3, <2>4
<1>5. i \notin T
  <2>. HIDE DEF T
  <2>. QED
    BY <1>4
<1>. QED
  BY <1>5

-----------------------------------------------------------------------------
(* The invariant of the loader: every page is in the pool, which is what   *)
(* the file being loaded and the modules have; a module's pages are in a   *)
(* row and protected as its segments say.                                  *)

Pool == memory \cup (UNION Loader!Owners)
Firsts(P) == {m[1] : m \in P}
Seconds(P) == {m[2] : m \in P}
Covering(f, v) == {i \in DOMAIN f.segments : v \in Loader!SegmentPages(f.segments[i])}
Protected(pt, f, b) ==
  \A v \in 0..(NPages(f) - 1) :
    Covering(f, v) # {} => pt[b + v].flags = f.segments[Loader!Min(Covering(f, v))].flags
LaidOut(P, f, b) == Firsts(P) = b..(b + NPages(f) - 1)

LoaderTypes ==
  /\ Loader!TypeOK
  /\ loaded_at \in Nat /\ pages \in BOOLEAN
  /\ cur \in Files \cup {Loader!NoFile}
  /\ memory \subseteq Nat \X Frames
  /\ \A n \in DOMAIN modules :
       modules[n] \in [file : Files \cup {Loader!NoFile}, pages : SUBSET (Nat \X Frames)]
  /\ \A v \in DOMAIN ptes : ptes[v] \in [frame : Frames, flags : SUBSET {"r", "w", "x"}]

LoaderBooks ==
  /\ used = Seconds(Pool)
  /\ DOMAIN ptes = Firsts(Pool)
  /\ \A m \in Pool : ptes[m[1]].frame = m[2] /\ m[1] < vspace_base
  /\ \A m1, m2 \in Pool : m1 # m2 => m1[1] # m2[1] /\ m1[2] # m2[2]
  /\ memory \cap (UNION Loader!Owners) = {}

LoaderStages ==
  /\ stage \in {"internal", "pick", "done"} => memory = {}
  /\ stage \in {"reloc", "protect"} => pages
  /\ stage = "protect" => at = 1
  /\ stage = "declare" => (at = 1 \/ memory = {}) /\ (pages \/ memory = {})
  /\ stage \in {"reloc", "protect", "declare"} => cur \in Files

CurLaidOut ==
  stage \in {"reloc", "protect"} \/ (stage = "declare" /\ memory # {}) =>
    \E b \in Nat : /\ loaded_at = b * Page /\ LaidOut(memory, cur, b)
                   /\ stage = "declare" => Protected(ptes, cur, b)

ModulesLaidOut ==
  \A n \in DOMAIN modules : modules[n].pages # {} =>
    /\ modules[n].file \in Files
    /\ \E b \in Nat : LaidOut(modules[n].pages, modules[n].file, b) /\ Protected(ptes, modules[n].file, b)

LoaderInv == LoaderTypes /\ LoaderBooks /\ LoaderStages /\ CurLaidOut /\ ModulesLaidOut

LEMMA UnionWith == \A A, x : UNION (A \cup {x}) = (UNION A) \cup x
<1>. SUFFICES ASSUME NEW A, NEW x, NEW y
              PROVE  y \in UNION (A \cup {x}) <=> y \in (UNION A) \cup x
  BY Zenon
<1>1. y \in UNION (A \cup {x}) <=> \E z \in A \cup {x} : y \in z
  OBVIOUS
<1>2. y \in UNION A <=> \E z \in A : y \in z
  OBVIOUS
<1>. QED
  BY <1>1, <1>2

LEMMA OwnersDeclared ==
  ASSUME NEW name, name \notin DOMAIN modules, NEW file, NEW own,
         modules' = Loader!Declare(name, file, own)
  PROVE  /\ DOMAIN modules' = DOMAIN modules \cup {name}
         /\ modules'[name] = [file |-> file, pages |-> own]
         /\ \A n \in DOMAIN modules : modules'[n] = modules[n]
         /\ UNION Loader!Owners' = (UNION Loader!Owners) \cup own
<1>1. /\ DOMAIN modules' = DOMAIN modules \cup {name}
      /\ modules'[name] = [file |-> file, pages |-> own]
      /\ \A n \in DOMAIN modules : modules'[n] = modules[n]
  BY DEF Loader!Declare
<1>2. Loader!Owners' = Loader!Owners \cup {own}
  BY <1>1 DEF Loader!Owners
<1>3. UNION Loader!Owners' = (UNION Loader!Owners) \cup own
  BY <1>2, UnionWith
<1>. QED
  BY <1>1, <1>3

LEMMA PoolTyped == LoaderTypes => Pool \subseteq Nat \X Frames
<1>. SUFFICES ASSUME LoaderTypes, NEW P \in Loader!Owners
              PROVE  P \subseteq Nat \X Frames
  BY DEF Pool, LoaderTypes
<1>1. PICK n \in DOMAIN modules : P = modules[n].pages
  BY DEF Loader!Owners
<1>. QED
  BY <1>1 DEF LoaderTypes

LEMMA LoadInternalStep ==
  ASSUME LoaderInv, Loader!LoadInternal
  PROVE  LoaderInv'
<1>. USE DEF LoaderInv
<1>0. /\ stage = "internal" /\ memory = {} /\ at \in Nat
      /\ UNCHANGED <<todo, cur, loaded_at, memory, pages, vspace_base, ptes, used, failed>>
  BY DEF Loader!LoadInternal, LoaderStages, LoaderTypes, Loader!TypeOK
<1>1. CASE UNCHANGED modules /\ stage' \in {"pick", "panic"} /\ at' \in Nat
  <2>1. Pool' = Pool /\ Loader!Owners' = Loader!Owners
    BY <1>0, <1>1 DEF Pool, Loader!Owners
  <2>2. LoaderTypes'
    BY <1>0, <1>1 DEF LoaderTypes, Loader!TypeOK
  <2>3. LoaderBooks'
    BY <1>0, <2>1 DEF LoaderBooks
  <2>4. LoaderStages' /\ CurLaidOut'
    BY <1>0, <1>1 DEF LoaderStages, CurLaidOut
  <2>5. ModulesLaidOut'
    BY <1>0, <1>1 DEF ModulesLaidOut
  <2>. QED
    BY <2>2, <2>3, <2>4, <2>5
<1>2. CASE /\ Internal[at] \notin DOMAIN modules /\ stage' = stage /\ at' = at + 1
           /\ modules' = Loader!Declare(Internal[at], Loader!NoFile, {})
  <2>1. /\ DOMAIN modules' = DOMAIN modules \cup {Internal[at]}
        /\ modules'[Internal[at]] = [file |-> Loader!NoFile, pages |-> {}]
        /\ \A n \in DOMAIN modules : modules'[n] = modules[n]
        /\ UNION Loader!Owners' = UNION Loader!Owners
    <3>1. (UNION Loader!Owners) \cup {} = UNION Loader!Owners
      OBVIOUS
    <3>2. /\ DOMAIN modules' = DOMAIN modules \cup {Internal[at]}
          /\ modules'[Internal[at]] = [file |-> Loader!NoFile, pages |-> {}]
          /\ \A n \in DOMAIN modules : modules'[n] = modules[n]
          /\ UNION Loader!Owners' = (UNION Loader!Owners) \cup {}
      BY <1>2, OwnersDeclared, Zenon
    <3>. QED
      BY <3>1, <3>2
  <2>2. Pool' = Pool
    BY <1>0, <2>1 DEF Pool
  <2>3. LoaderTypes'
    BY <1>0, <1>2, <2>1 DEF LoaderTypes, Loader!TypeOK
  <2>4. LoaderBooks'
    BY <1>0, <2>1, <2>2 DEF LoaderBooks
  <2>5. LoaderStages' /\ CurLaidOut'
    BY <1>0, <1>2 DEF LoaderStages, CurLaidOut
  <2>6. ModulesLaidOut'
    <3>. SUFFICES ASSUME NEW n \in DOMAIN modules', modules'[n].pages # {}
                  PROVE  /\ modules'[n].file \in Files
                         /\ \E b \in Nat : /\ LaidOut(modules'[n].pages, modules'[n].file, b)
                                           /\ Protected(ptes', modules'[n].file, b)
      BY DEF ModulesLaidOut
    <3>1. n \in DOMAIN modules /\ modules'[n] = modules[n]
      BY <2>1
    <3>2. ptes' = ptes
      BY <1>0
    <3>. QED
      BY <3>1, <3>2 DEF ModulesLaidOut
  <2>. QED
    BY <2>3, <2>4, <2>5, <2>6
<1>. QED
  BY <1>0, <1>1, <1>2 DEF Loader!LoadInternal

\* Steps that touch neither pages nor modules.
LEMMA BooksUntouched ==
  ASSUME LoaderBooks, ModulesLaidOut, UNCHANGED <<memory, modules, ptes, used, vspace_base>>
  PROVE  LoaderBooks' /\ ModulesLaidOut'
<1>1. Pool' = Pool /\ Loader!Owners' = Loader!Owners
  BY DEF Pool, Loader!Owners
<1>. QED
  BY <1>1 DEF LoaderBooks, ModulesLaidOut

LEMMA RejectStep ==
  ASSUME LoaderInv, NEW f \in todo, Loader!Reject(f)
  PROVE  LoaderInv'
<1>. USE DEF LoaderInv
<1>1. /\ UNCHANGED <<stage, cur, loaded_at, at, memory, pages, vspace_base, ptes, used, modules>>
      /\ todo' \subseteq todo /\ failed' = failed \cup {f} /\ f \in todo
  BY DEF Loader!Reject, Loader!Drop
<1>2. LoaderTypes'
  BY <1>1 DEF LoaderTypes, Loader!TypeOK
<1>3. LoaderStages' /\ CurLaidOut'
  BY <1>1 DEF LoaderStages, CurLaidOut
<1>. QED
  BY <1>1, <1>2, <1>3, BooksUntouched

LEMMA DoneStep ==
  ASSUME LoaderInv, Loader!Done
  PROVE  LoaderInv'
<1>. USE DEF LoaderInv
<1>1. /\ stage = "pick" /\ stage' = "done"
      /\ UNCHANGED <<todo, cur, loaded_at, at, memory, pages, vspace_base, ptes, used, modules, failed>>
  BY DEF Loader!Done
<1>2. LoaderTypes'
  BY <1>1 DEF LoaderTypes, Loader!TypeOK
<1>3. LoaderStages' /\ CurLaidOut'
  BY <1>1 DEF LoaderStages, CurLaidOut
<1>. QED
  BY <1>1, <1>2, <1>3, BooksUntouched

LEMMA RelocStep ==
  ASSUME LoaderInv, Loader!Reloc
  PROVE  LoaderInv'
<1>. USE DEF LoaderInv
<1>1. /\ stage = "reloc" /\ stage' \in {"reloc", "protect"}
      /\ at' = 1 \/ (at' = at + 1 /\ stage' = "reloc")
      /\ UNCHANGED <<todo, cur, loaded_at, memory, pages, vspace_base, ptes, used, modules, failed>>
  BY DEF Loader!Reloc
<1>2. LoaderTypes'
  BY <1>1 DEF LoaderTypes, Loader!TypeOK
<1>3. LoaderStages'
  BY <1>1 DEF LoaderStages
<1>4. CurLaidOut'
  BY <1>1 DEF CurLaidOut
<1>. QED
  BY <1>1, <1>2, <1>3, <1>4, BooksUntouched

\* unmap_all() gives back what the file being loaded had, and no more.
LEMMA UnmapAllStep ==
  ASSUME LoaderTypes, LoaderBooks, ModulesLaidOut, Loader!UnmapAll, UNCHANGED <<modules, vspace_base>>
  PROVE  LoaderBooks' /\ ModulesLaidOut'
<1>. DEFINE O == UNION Loader!Owners
<1>1. /\ memory' = {} /\ used' = used \ Seconds(memory)
      /\ DOMAIN ptes' = DOMAIN ptes \ Firsts(memory)
      /\ \A v \in DOMAIN ptes' : ptes'[v] = ptes[v]
  BY DEF Loader!UnmapAll, Firsts, Seconds
<1>2. Loader!Owners' = Loader!Owners /\ Pool' = O /\ Pool = memory \cup O
  BY <1>1 DEF Pool, Loader!Owners
<1>3. \A m1 \in memory, m2 \in O : m1[1] # m2[1] /\ m1[2] # m2[2]
  <2>. SUFFICES ASSUME NEW m1 \in memory, NEW m2 \in O
                PROVE  m1[1] # m2[1] /\ m1[2] # m2[2]
    OBVIOUS
  <2>1. m1 # m2 /\ m1 \in Pool /\ m2 \in Pool
    BY <1>2 DEF LoaderBooks
  <2>. QED
    BY <2>1 DEF LoaderBooks
<1>. HIDE DEF O
<1>4. Firsts(O) = DOMAIN ptes' /\ used' = Seconds(O)
  <2>1. DOMAIN ptes = Firsts(memory \cup O) /\ used = Seconds(memory \cup O)
    BY <1>2 DEF LoaderBooks
  <2>. QED
    BY <2>1, <1>1, <1>3 DEF Firsts, Seconds
<1>5. LoaderBooks'
  <2>1. \A m \in O : ptes'[m[1]] = ptes[m[1]]
    BY <1>1, <1>4 DEF Firsts
  <2>2. \A m \in O : ptes'[m[1]].frame = m[2] /\ m[1] < vspace_base'
    BY <2>1, <1>2 DEF LoaderBooks
  <2>3. \A m1, m2 \in O : m1 # m2 => m1[1] # m2[1] /\ m1[2] # m2[2]
    BY <1>2 DEF LoaderBooks
  <2>. QED
    BY <1>1, <1>2, <1>4, <2>2, <2>3 DEF LoaderBooks
<1>6. ModulesLaidOut'
  <2>. SUFFICES ASSUME NEW n \in DOMAIN modules, modules[n].pages # {}
                PROVE  /\ modules[n].file \in Files
                       /\ \E b \in Nat : /\ LaidOut(modules[n].pages, modules[n].file, b)
                                         /\ Protected(ptes', modules[n].file, b)
    BY DEF ModulesLaidOut
  <2>1. modules[n].file \in Files
    BY DEF ModulesLaidOut
  <2>2. PICK b \in Nat : LaidOut(modules[n].pages, modules[n].file, b) /\ Protected(ptes, modules[n].file, b)
    BY DEF ModulesLaidOut
  <2>3. modules[n].pages \subseteq O
    BY DEF O, Loader!Owners
  <2>4. \A v \in 0..(NPages(modules[n].file) - 1) : b + v \in DOMAIN ptes'
    <3>1. NPages(modules[n].file) \in Nat
      BY <2>1, NPagesBounds
    <3>2. \A v \in 0..(NPages(modules[n].file) - 1) : b + v \in Firsts(modules[n].pages)
      BY <2>2, <3>1 DEF LaidOut
    <3>. QED
      BY <3>2, <2>3, <1>4 DEF Firsts
  <2>5. Protected(ptes', modules[n].file, b)
    BY <2>2, <2>4, <1>1 DEF Protected
  <2>. QED
    BY <2>1, <2>2, <2>5
<1>. QED
  BY <1>5, <1>6

LEMMA UnmapTypes ==
  ASSUME LoaderTypes, Loader!UnmapAll
  PROVE  /\ memory' = {} /\ used' \subseteq Frames
         /\ \A v \in DOMAIN ptes' : ptes'[v] \in [frame : Frames, flags : SUBSET {"r", "w", "x"}]
  BY DEF LoaderTypes, Loader!TypeOK, Loader!UnmapAll

LEMMA RelocFailedStep ==
  ASSUME LoaderInv, Loader!RelocFailed
  PROVE  LoaderInv'
<1>. USE DEF LoaderInv
<1>1. /\ stage = "reloc" /\ stage' = "pick" /\ cur \in Files
      /\ Loader!UnmapAll
      /\ failed' = failed \cup {cur} /\ todo' \subseteq todo
      /\ UNCHANGED <<cur, loaded_at, at, pages, vspace_base, modules>>
  BY DEF Loader!RelocFailed, Loader!Drop, LoaderStages
<1>2. LoaderTypes'
  BY <1>1, UnmapTypes DEF LoaderTypes, Loader!TypeOK
<1>3. LoaderStages' /\ CurLaidOut'
  BY <1>1, UnmapTypes DEF LoaderStages, CurLaidOut
<1>. QED
  BY <1>1, <1>2, <1>3, UnmapAllStep

LEMMA DeclareEndStep ==
  ASSUME LoaderInv, Loader!DeclareEnd
  PROVE  LoaderInv'
<1>. USE DEF LoaderInv
<1>1. /\ stage = "declare" /\ stage' = "pick" /\ cur \in Files
      /\ UNCHANGED <<cur, loaded_at, at, pages, vspace_base, modules>>
  BY DEF Loader!DeclareEnd, LoaderStages
<1>2. CASE at = 1
  <2>1. Loader!UnmapAll /\ failed' = failed \cup {cur} /\ todo' \subseteq todo
    BY <1>2 DEF Loader!DeclareEnd, Loader!Drop
  <2>2. LoaderTypes'
    BY <1>1, <2>1, UnmapTypes DEF LoaderTypes, Loader!TypeOK
  <2>3. LoaderStages' /\ CurLaidOut'
    BY <1>1, <2>1, UnmapTypes DEF LoaderStages, CurLaidOut
  <2>. QED
    BY <1>1, <2>1, <2>2, <2>3, UnmapAllStep
<1>3. CASE at # 1
  <2>1. UNCHANGED <<ptes, used, memory, failed, todo>> /\ memory = {}
    BY <1>3, <1>1 DEF Loader!DeclareEnd, LoaderStages
  <2>2. LoaderTypes'
    BY <1>1, <2>1 DEF LoaderTypes, Loader!TypeOK
  <2>3. LoaderStages' /\ CurLaidOut'
    BY <1>1, <2>1 DEF LoaderStages, CurLaidOut
  <2>. QED
    BY <1>1, <2>1, <2>2, <2>3, BooksUntouched
<1>. QED
  BY <1>2, <1>3

\* A declared module takes over the pages of the file, the first one all of them.
LEMMA DeclareNextStep ==
  ASSUME LoaderInv, Loader!DeclareNext
  PROVE  LoaderInv'
<1>. USE DEF LoaderInv
<1>1. /\ stage = "declare" /\ cur \in Files /\ at \in Nat
      /\ UNCHANGED <<todo, cur, loaded_at, vspace_base, ptes, used, failed>>
  BY DEF Loader!DeclareNext, LoaderStages, LoaderTypes, Loader!TypeOK
<1>2. CASE stage' = "panic" /\ UNCHANGED <<at, memory, pages, modules>>
  <2>1. LoaderTypes'
    BY <1>1, <1>2 DEF LoaderTypes, Loader!TypeOK
  <2>2. LoaderStages' /\ CurLaidOut'
    BY <1>1, <1>2 DEF LoaderStages, CurLaidOut
  <2>. QED
    BY <1>1, <1>2, <2>1, <2>2, BooksUntouched
<1>. DEFINE name == cur.modules[at]
<1>3. CASE name \notin DOMAIN modules
  <2>1. /\ modules' = Loader!Declare(name, cur, memory)
        /\ memory' = {} /\ pages' = FALSE /\ at' = at + 1 /\ stage' = stage
    <3>1. (IF pages THEN memory ELSE {}) = memory
      BY <1>1 DEF LoaderStages, LoaderTypes
    <3>. QED
      BY <3>1, <1>3 DEF Loader!DeclareNext
  <2>2. /\ DOMAIN modules' = DOMAIN modules \cup {name}
        /\ modules'[name] = [file |-> cur, pages |-> memory]
        /\ \A n \in DOMAIN modules : modules'[n] = modules[n]
        /\ UNION Loader!Owners' = (UNION Loader!Owners) \cup memory
    <3>. HIDE DEF name
    <3>. QED
      BY <1>3, <2>1, OwnersDeclared, Zenon
  <2>. HIDE DEF name
  <2>3. Pool' = Pool
    <3>. DEFINE O == UNION Loader!Owners
    <3>1. Pool' = {} \cup (O \cup memory) /\ Pool = memory \cup O
      BY <2>1, <2>2 DEF Pool
    <3>. HIDE DEF O
    <3>. QED
      BY <3>1
  <2>4. LoaderTypes'
    <3>1. \A n \in DOMAIN modules' :
            modules'[n] \in [file : Files \cup {Loader!NoFile}, pages : SUBSET (Nat \X Frames)]
      <4>. SUFFICES ASSUME NEW n \in DOMAIN modules'
                    PROVE  modules'[n] \in [file : Files \cup {Loader!NoFile}, pages : SUBSET (Nat \X Frames)]
        OBVIOUS
      <4>1. CASE n \in DOMAIN modules
        BY <4>1, <2>2 DEF LoaderTypes
      <4>2. CASE n = name
        <5>1. cur \in Files \cup {Loader!NoFile} /\ memory \in SUBSET (Nat \X Frames)
          BY DEF LoaderTypes
        <5>. QED
          BY <5>1, <4>2, <2>2
      <4>. QED
        BY <4>1, <4>2, <2>2
    <3>2. Loader!TypeOK'
      BY <1>1, <2>1 DEF LoaderTypes, Loader!TypeOK
    <3>3. /\ loaded_at' \in Nat /\ pages' \in BOOLEAN
          /\ cur' \in Files \cup {Loader!NoFile}
          /\ memory' \subseteq Nat \X Frames
      BY <1>1, <2>1 DEF LoaderTypes
    <3>4. \A v \in DOMAIN ptes' : ptes'[v] \in [frame : Frames, flags : SUBSET {"r", "w", "x"}]
      BY <1>1 DEF LoaderTypes
    <3>. QED
      BY <3>1, <3>2, <3>3, <3>4 DEF LoaderTypes
  <2>5. LoaderBooks'
    BY <1>1, <2>1, <2>3 DEF LoaderBooks
  <2>6. LoaderStages' /\ CurLaidOut'
    BY <1>1, <2>1 DEF LoaderStages, CurLaidOut
  <2>7. ModulesLaidOut'
    <3>. SUFFICES ASSUME NEW n \in DOMAIN modules', modules'[n].pages # {}
                  PROVE  /\ modules'[n].file \in Files
                         /\ \E b \in Nat : /\ LaidOut(modules'[n].pages, modules'[n].file, b)
                                           /\ Protected(ptes', modules'[n].file, b)
      BY DEF ModulesLaidOut
    <3>1. ptes' = ptes
      BY <1>1
    <3>2. CASE n \in DOMAIN modules
      <4>1. modules'[n] = modules[n]
        BY <3>2, <2>2
      <4>. QED
        BY <4>1, <3>1, <3>2 DEF ModulesLaidOut
    <3>3. CASE n = name
      <4>1. modules'[n].file = cur /\ modules'[n].pages = memory
        BY <3>3, <2>2
      <4>. QED
        BY <4>1, <3>1, <1>1 DEF CurLaidOut
    <3>. QED
      BY <3>2, <3>3, <2>2
  <2>. QED
    BY <2>4, <2>5, <2>6, <2>7
<1>. QED
  BY <1>1, <1>2, <1>3 DEF Loader!DeclareNext

\* The access of the pages changes only within the memory of the file.
LEMMA ProtectStep ==
  ASSUME LoaderInv, Loader!Protect
  PROVE  LoaderInv'
<1>. USE DEF LoaderInv
<1>. DEFINE base == loaded_at \div Page
            cov(v) == {i \in DOMAIN cur.segments : v - base \in Loader!SegmentPages(cur.segments[i])}
<1>1. /\ stage = "protect" /\ stage' = "declare" /\ cur \in Files /\ pages
      /\ UNCHANGED <<todo, cur, loaded_at, at, memory, pages, vspace_base, used, modules, failed>>
      /\ DOMAIN ptes' = DOMAIN ptes
      /\ \A v \in DOMAIN ptes : cov(v) = {} => ptes'[v] = ptes[v]
      /\ \A v \in DOMAIN ptes : cov(v) # {} =>
           ptes'[v] = [ptes[v] EXCEPT !.flags = cur.segments[Loader!Min(cov(v))].flags]
  BY DEF Loader!Protect, LoaderStages
<1>2. Page \in Nat \ {0} /\ NPages(cur) \in Nat
  BY <1>1, LoaderFacts, NPagesBounds
<1>3. Pool' = Pool /\ Loader!Owners' = Loader!Owners
  BY <1>1 DEF Pool, Loader!Owners
<1>4. ASSUME NEW v, cov(v) # {}
      PROVE  /\ Loader!Min(cov(v)) \in DOMAIN cur.segments
             /\ cur.segments[Loader!Min(cov(v))].flags \in SUBSET {"r", "w", "x"}
  <2>1. cur.segments \in Seq(Loader!Segments)
    BY <1>1, LoaderFacts
  <2>2. cov(v) \subseteq Nat /\ cov(v) \subseteq DOMAIN cur.segments
    BY <2>1
  <2>3. \E x \in cov(v) : \A y \in cov(v) : x <= y
    <3>. HIDE DEF cov
    <3>. QED
      BY <1>4, <2>2, LeastNatural
  <2>4. Loader!Min(cov(v)) \in cov(v)
    <3>. HIDE DEF cov
    <3>. QED
      BY <2>3 DEF Loader!Min
  <2>5. cur.segments[Loader!Min(cov(v))] \in Loader!Segments
    <3>. HIDE DEF cov
    <3>. QED
      BY <2>1, <2>2, <2>4
  <2>. QED
    BY <2>2, <2>4, <2>5 DEF Loader!Segments
<1>. HIDE DEF cov
<1>5. \A v \in DOMAIN ptes : /\ ptes'[v] \in [frame : Frames, flags : SUBSET {"r", "w", "x"}]
                             /\ ptes'[v].frame = ptes[v].frame
                             /\ cov(v) # {} => ptes'[v].flags = cur.segments[Loader!Min(cov(v))].flags
  <2>. SUFFICES ASSUME NEW v \in DOMAIN ptes
                PROVE  /\ ptes'[v] \in [frame : Frames, flags : SUBSET {"r", "w", "x"}]
                       /\ ptes'[v].frame = ptes[v].frame
                       /\ cov(v) # {} => ptes'[v].flags = cur.segments[Loader!Min(cov(v))].flags
    OBVIOUS
  <2>1. ptes[v] \in [frame : Frames, flags : SUBSET {"r", "w", "x"}]
    BY DEF LoaderTypes
  <2>2. CASE cov(v) = {}
    BY <2>1, <2>2, <1>1
  <2>3. CASE cov(v) # {}
    BY <2>1, <2>3, <1>1, <1>4
  <2>. QED
    BY <2>2, <2>3
<1>6. LoaderTypes'
  BY <1>1, <1>5 DEF LoaderTypes, Loader!TypeOK
<1>7. LoaderStages'
  BY <1>1 DEF LoaderStages
<1>8. LoaderBooks'
  <2>1. \A m \in Pool : ptes'[m[1]].frame = m[2]
    BY <1>5 DEF LoaderBooks, Firsts
  <2>. QED
    BY <1>1, <1>3, <2>1 DEF LoaderBooks
<1>9. PICK b \in Nat : loaded_at = b * Page /\ LaidOut(memory, cur, b)
  BY <1>1 DEF CurLaidOut
<1>10. base = b
  <2>1. b * Page = Page * b /\ Page * b \in Int /\ Page * b < Page * b + Page
    BY <1>2
  <2>2. loaded_at \in Int /\ Page * b <= loaded_at /\ loaded_at < Page * b + Page
    BY <1>9, <2>1
  <2>. QED
    BY <2>2, <1>2, DivUnique
<1>. HIDE DEF base
<1>11. ASSUME NEW v \in Int
       PROVE  cov(b + v) = Covering(cur, v)
  <2>1. PICK x : x = b + v
    OBVIOUS
  <2>2. x - base = v
    BY <2>1, <1>10
  <2>3. cov(x) = Covering(cur, v)
    BY <2>2 DEF cov, Covering
  <2>. QED
    BY <2>1, <2>3
<1>12. ASSUME NEW v \in Int, cov(v) # {}
       PROVE  v \in Firsts(memory)
  <2>1. PICK i \in DOMAIN cur.segments : v - b \in Loader!SegmentPages(cur.segments[i])
    BY <1>12, <1>10 DEF cov
  <2>2. v - b \in 0..(NPages(cur) - 1)
    BY <2>1, <1>1, SegmentPagesBounds
  <2>. QED
    BY <2>2, <1>2, <1>9 DEF LaidOut
<1>13. CurLaidOut'
  <2>1. Protected(ptes', cur, b)
    <3>. SUFFICES ASSUME NEW v \in 0..(NPages(cur) - 1), Covering(cur, v) # {}
                  PROVE  ptes'[b + v].flags = cur.segments[Loader!Min(Covering(cur, v))].flags
      BY DEF Protected
    <3>1. cov(b + v) = Covering(cur, v)
      BY <1>11, <1>2
    <3>2. b + v \in Firsts(memory)
      BY <1>2, <1>9 DEF LaidOut
    <3>3. b + v \in DOMAIN ptes
      BY <3>2 DEF LoaderBooks, Pool, Firsts
    <3>. QED
      BY <3>1, <3>3, <1>5
  <2>. QED
    BY <2>1, <1>1, <1>9 DEF CurLaidOut
<1>14. ModulesLaidOut'
  <2>. SUFFICES ASSUME NEW n \in DOMAIN modules, modules[n].pages # {}
                PROVE  /\ modules[n].file \in Files
                       /\ \E c \in Nat : /\ LaidOut(modules[n].pages, modules[n].file, c)
                                         /\ Protected(ptes', modules[n].file, c)
    BY <1>1 DEF ModulesLaidOut
  <2>. DEFINE g == modules[n].file
  <2>1. g \in Files
    BY DEF ModulesLaidOut
  <2>2. PICK c \in Nat : LaidOut(modules[n].pages, g, c) /\ Protected(ptes, g, c)
    BY DEF ModulesLaidOut
  <2>3. modules[n].pages \subseteq UNION Loader!Owners
    BY DEF Loader!Owners
  <2>4. NPages(g) \in Nat
    BY <2>1, NPagesBounds
  <2>. HIDE DEF g
  <2>5. ASSUME NEW v \in 0..(NPages(g) - 1)
        PROVE  ptes'[c + v] = ptes[c + v]
    <3>1. PICK m \in modules[n].pages : m[1] = c + v
      <4>1. c + v \in Firsts(modules[n].pages)
        BY <2>2, <2>4 DEF LaidOut
      <4>. QED
        BY <4>1 DEF Firsts
    <3>2. m \in UNION Loader!Owners
      BY <2>3
    <3>3. m \in Pool /\ m \notin memory
      BY <3>2 DEF Pool, LoaderBooks
    <3>4. c + v \in DOMAIN ptes
      BY <3>1, <3>3 DEF LoaderBooks, Firsts
    <3>5. c + v \notin Firsts(memory)
      <4>. SUFFICES ASSUME NEW k \in memory, k[1] = c + v
                    PROVE  FALSE
        BY DEF Firsts
      <4>1. k \in Pool /\ k # m
        BY <3>3 DEF Pool
      <4>. QED
        BY <4>1, <3>1, <3>3 DEF LoaderBooks
    <3>6. cov(c + v) = {}
      <4>1. c + v \in Int
        BY <2>4
      <4>. QED
        BY <4>1, <3>5, <1>12
    <3>. QED
      BY <3>4, <3>6, <1>1
  <2>6. Protected(ptes', g, c)
    BY <2>2, <2>5 DEF Protected
  <2>. QED
    BY <2>1, <2>2, <2>6 DEF g
<1>. QED
  BY <1>6, <1>7, <1>8, <1>13, <1>14

\* The frames for a file are different free ones.
LEMMA MapMemoryStep ==
  ASSUME LoaderInv, NEW f \in todo, Loader!MapMemory(f)
  PROVE  LoaderInv'
<1>. USE DEF LoaderInv
<1>. DEFINE n == NPages(f)
            S == Frames \ used
            free(i) == CHOOSE x \in S : Loader!Cardinality({y \in S : y <= x}) = i
            frame(v) == free(v - vspace_base + 1)
            new == vspace_base..(vspace_base + n - 1)
<1>1. /\ stage = "pick" /\ f \in todo
      /\ n <= Loader!Cardinality(S)
      /\ cur' = f /\ todo' = todo \ {f}
      /\ loaded_at' = vspace_base * Page
      /\ vspace_base' = vspace_base + Loader!MaxSize(f)
      /\ memory' = {<<v, frame(v)>> : v \in new}
      /\ pages' = TRUE
      /\ used' = used \cup {frame(v) : v \in new}
      /\ ptes' = [v \in DOMAIN ptes \cup new |->
                    IF v \in new THEN [frame |-> frame(v), flags |-> {"r", "w"}] ELSE ptes[v]]
      /\ stage' \in {"reloc", "panic"}
      /\ at' = 1
      /\ UNCHANGED <<modules, failed>>
  BY DEF Loader!MapMemory, NPages
<1>2. /\ f \in Files /\ vspace_base \in Nat /\ memory = {} /\ used \subseteq Frames
      /\ Frames \subseteq Nat
  BY <1>1, LoaderFacts DEF LoaderTypes, Loader!TypeOK, LoaderStages
<1>3. n \in Nat /\ Loader!MaxSize(f) \in Nat /\ n <= Loader!MaxSize(f) /\ Page \in Nat
  BY <1>2, NPagesBounds, MaxSizeBounds, LoaderFacts
<1>. HIDE DEF n
<1>4. ASSUME NEW i \in 1..n
      PROVE  free(i) \in S /\ Cardinality(UpTo(S, free(i))) = i
  <2>1. IsFiniteSet(S) /\ S \subseteq Nat
    <3>1. S \subseteq Frames /\ IsFiniteSet(Frames)
      BY LoaderFacts
    <3>. QED
      BY <3>1, <1>2, FS_Subset
  <2>2. i \in 1..Cardinality(S)
    <3>1. Cardinality(S) \in Nat /\ n <= Cardinality(S)
      BY <1>1, <2>1, FS_CardinalityType, CardinalityOfLoader
    <3>. HIDE DEF S
    <3>. QED
      BY <3>1, <1>3
  <2>3. \A x : Loader!Cardinality({y \in S : y <= x}) = Cardinality(UpTo(S, x))
    BY CardinalityOfLoader DEF UpTo
  <2>. HIDE DEF S
  <2>4. \E x \in S : Cardinality(UpTo(S, x)) = i
    BY <2>1, <2>2, RankExists
  <2>5. \E x \in S : Loader!Cardinality({y \in S : y <= x}) = i
    BY <2>3, <2>4
  <2>6. free(i) \in S /\ Loader!Cardinality({y \in S : y <= free(i)}) = i
    BY <2>5
  <2>. HIDE DEF free
  <2>. QED
    BY <2>3, <2>6
<1>5. \A v \in new : v \in Nat /\ v >= vspace_base /\ v < vspace_base' /\ v - vspace_base + 1 \in 1..n
  BY <1>1, <1>2, <1>3
<1>. HIDE DEF free
<1>6. \A v \in new : frame(v) \in S /\ Cardinality(UpTo(S, frame(v))) = v - vspace_base + 1
  BY <1>4, <1>5
<1>7. \A v, w \in new : v # w => frame(v) # frame(w)
  <2>. SUFFICES ASSUME NEW v \in new, NEW w \in new, frame(v) = frame(w)
                PROVE  v = w
    OBVIOUS
  <2>1. v - vspace_base + 1 = w - vspace_base + 1
    BY <1>6
  <2>2. v \in Nat /\ w \in Nat
    BY <1>5
  <2>. QED
    BY <2>1, <2>2, <1>2
<1>8. \A m \in memory' : m[1] \in new /\ m[2] = frame(m[1])
  BY <1>1
<1>9. \A v \in new : <<v, frame(v)>> \in memory'
  BY <1>1
<1>. DEFINE fr == [v \in new |-> frame(v)]
<1>10. /\ \A v \in new : fr[v] = frame(v)
       /\ DOMAIN ptes' = DOMAIN ptes \cup new
       /\ \A v \in new : ptes'[v] = [frame |-> frame(v), flags |-> {"r", "w"}]
       /\ \A v \in DOMAIN ptes \ new : ptes'[v] = ptes[v]
  BY <1>1
<1>. HIDE DEF new, frame
<1>11. Firsts(memory') = new /\ Seconds(memory') = {frame(v) : v \in new}
  <2>1. \A v \in new : <<v, frame(v)>>[1] = v /\ <<v, frame(v)>>[2] = frame(v)
    OBVIOUS
  <2>2. Firsts(memory') = new
    BY <2>1, <1>8, <1>9 DEF Firsts
  <2>3. ASSUME NEW x \in Seconds(memory')
        PROVE  x \in {frame(v) : v \in new}
    BY <1>8 DEF Seconds
  <2>4. ASSUME NEW v \in new
        PROVE  frame(v) \in Seconds(memory')
    BY <2>1, <1>9 DEF Seconds
  <2>. QED
    BY <2>2, <2>3, <2>4
<1>12. memory' \subseteq Nat \X Frames
  <2>. SUFFICES ASSUME NEW m \in memory'
                PROVE  m \in Nat \X Frames
    OBVIOUS
  <2>1. PICK v \in new : m = <<v, frame(v)>>
    BY <1>1
  <2>2. v \in Nat /\ frame(v) \in Frames
    BY <1>5, <1>6
  <2>. QED
    BY <2>1, <2>2
<1>. DEFINE O == UNION Loader!Owners
<1>13. Loader!Owners' = Loader!Owners /\ Pool = O /\ Pool' = memory' \cup O
  BY <1>1, <1>2 DEF Pool, Loader!Owners
<1>14. \A m \in O : m[1] \in Nat /\ m[1] < vspace_base /\ m[1] \in DOMAIN ptes /\ m[2] \in used
  BY <1>13, PoolTyped DEF LoaderBooks, Firsts, Seconds
<1>15. \A m \in O : m[1] \notin new
  BY <1>5, <1>14, <1>2
<1>. HIDE DEF O
<1>16. LoaderTypes'
  <2>1. Loader!TypeOK'
    <3>1. used' \subseteq Frames
      BY <1>1, <1>2, <1>6
    <3>2. vspace_base' \in Nat
      BY <1>1, <1>2, <1>3
    <3>. QED
      BY <1>1, <3>1, <3>2 DEF LoaderTypes, Loader!TypeOK
  <2>2. loaded_at' \in Nat
    BY <1>1, <1>2, <1>3
  <2>3. \A v \in DOMAIN ptes' : ptes'[v] \in [frame : Frames, flags : SUBSET {"r", "w", "x"}]
    <3>. SUFFICES ASSUME NEW v \in DOMAIN ptes'
                  PROVE  ptes'[v] \in [frame : Frames, flags : SUBSET {"r", "w", "x"}]
      OBVIOUS
    <3>1. CASE v \in new
      BY <3>1, <1>10, <1>6
    <3>2. CASE v \notin new
      BY <3>2, <1>10 DEF LoaderTypes
    <3>. QED
      BY <3>1, <3>2
  <2>4. pages' \in BOOLEAN /\ cur' \in Files \cup {Loader!NoFile}
    BY <1>1, <1>2
  <2>5. \A k \in DOMAIN modules' :
          modules'[k] \in [file : Files \cup {Loader!NoFile}, pages : SUBSET (Nat \X Frames)]
    BY <1>1 DEF LoaderTypes
  <2>. QED
    BY <2>1, <2>2, <2>3, <2>4, <2>5, <1>12 DEF LoaderTypes
<1>17. LoaderBooks'
  <2>1. used' = Seconds(Pool')
    <3>1. used' = used \cup Seconds(memory') /\ used = Seconds(O)
      BY <1>1, <1>11, <1>13 DEF LoaderBooks
    <3>. QED
      BY <3>1, <1>13 DEF Seconds
  <2>2. DOMAIN ptes' = Firsts(Pool')
    <3>1. DOMAIN ptes' = Firsts(O) \cup Firsts(memory')
      BY <1>10, <1>11, <1>13 DEF LoaderBooks
    <3>. QED
      BY <3>1, <1>13 DEF Firsts
  <2>3. ASSUME NEW m \in Pool'
        PROVE  ptes'[m[1]].frame = m[2] /\ m[1] < vspace_base'
    <3>1. CASE m \in memory'
      BY <3>1, <1>8, <1>10, <1>5
    <3>2. CASE m \in O
      <4>1. ptes'[m[1]] = ptes[m[1]]
        BY <3>2, <1>14, <1>15, <1>10
      <4>2. ptes[m[1]].frame = m[2] /\ m[1] < vspace_base
        BY <3>2, <1>13 DEF LoaderBooks
      <4>3. m[1] < vspace_base'
        BY <4>2, <3>2, <1>14, <1>1, <1>2, <1>3
      <4>. QED
        BY <4>1, <4>2, <4>3
    <3>. QED
      BY <3>1, <3>2, <1>13
  <2>4. ASSUME NEW m1 \in Pool', NEW m2 \in Pool', m1 # m2
        PROVE  m1[1] # m2[1] /\ m1[2] # m2[2]
    <3>1. CASE m1 \in memory' /\ m2 \in memory'
      <4>1. m1 = <<m1[1], m1[2]>> /\ m2 = <<m2[1], m2[2]>>
        BY <3>1, <1>12
      <4>2. m1[1] \in new /\ m2[1] \in new /\ m1[2] = frame(m1[1]) /\ m2[2] = frame(m2[1])
        BY <3>1, <1>8
      <4>3. m1[1] # m2[1]
        BY <4>1, <4>2, <2>4
      <4>. QED
        BY <4>2, <4>3, <1>7
    <3>2. CASE m1 \in O /\ m2 \in O
      BY <3>2, <2>4, <1>13 DEF LoaderBooks
    <3>3. ASSUME NEW x \in memory', NEW y \in O
          PROVE  x[1] # y[1] /\ x[2] # y[2]
      BY <1>8, <1>15, <1>6, <1>14 DEF S
    <3>. QED
      BY <3>1, <3>2, <3>3, <1>13
  <2>5. memory' \cap (UNION Loader!Owners') = {}
    BY <1>8, <1>15, <1>13 DEF O
  <2>. QED
    BY <2>1, <2>2, <2>3, <2>4, <2>5 DEF LoaderBooks
<1>18. LoaderStages'
  BY <1>1, <1>2 DEF LoaderStages
<1>19. CurLaidOut'
  <2>1. LaidOut(memory', f, vspace_base)
    BY <1>11 DEF LaidOut, new, n
  <2>. QED
    BY <2>1, <1>1, <1>2 DEF CurLaidOut
<1>20. ModulesLaidOut'
  <2>. SUFFICES ASSUME NEW k \in DOMAIN modules, modules[k].pages # {}
                PROVE  /\ modules[k].file \in Files
                       /\ \E c \in Nat : /\ LaidOut(modules[k].pages, modules[k].file, c)
                                         /\ Protected(ptes', modules[k].file, c)
    BY <1>1 DEF ModulesLaidOut
  <2>. DEFINE g == modules[k].file
  <2>1. g \in Files
    BY DEF ModulesLaidOut
  <2>2. PICK c \in Nat : LaidOut(modules[k].pages, g, c) /\ Protected(ptes, g, c)
    BY DEF ModulesLaidOut
  <2>3. modules[k].pages \subseteq O
    BY DEF Loader!Owners, O
  <2>4. NPages(g) \in Nat
    BY <2>1, NPagesBounds
  <2>. HIDE DEF g
  <2>5. ASSUME NEW v \in 0..(NPages(g) - 1)
        PROVE  ptes'[c + v] = ptes[c + v]
    <3>1. PICK m \in modules[k].pages : m[1] = c + v
      <4>1. c + v \in Firsts(modules[k].pages)
        BY <2>2, <2>4 DEF LaidOut
      <4>. QED
        BY <4>1 DEF Firsts
    <3>2. m \in O
      BY <2>3
    <3>3. c + v \in DOMAIN ptes /\ c + v \notin new
      BY <3>1, <3>2, <1>14, <1>15
    <3>. QED
      BY <3>3, <1>10
  <2>6. Protected(ptes', g, c)
    BY <2>2, <2>5 DEF Protected
  <2>. QED
    BY <2>1, <2>2, <2>6 DEF g
<1>. QED
  BY <1>16, <1>17, <1>18, <1>19, <1>20

LEMMA LoaderInvInit == Loader!Init => LoaderInv
<1>. SUFFICES ASSUME Loader!Init
              PROVE  LoaderInv
  OBVIOUS
<1>1. /\ stage = "internal" /\ memory = {} /\ used = {} /\ pages = FALSE /\ at = 1 /\ loaded_at = 0
      /\ vspace_base = 0 /\ failed = {} /\ todo \subseteq Files /\ cur = Loader!NoFile
      /\ DOMAIN ptes = {} /\ DOMAIN modules = {}
  BY DEF Loader!Init
<1>2. Loader!Owners = {} /\ Pool = {}
  BY <1>1 DEF Loader!Owners, Pool
<1>3. LoaderTypes
  BY <1>1 DEF LoaderTypes, Loader!TypeOK
<1>4. LoaderBooks
  BY <1>1, <1>2 DEF LoaderBooks, Firsts, Seconds
<1>5. LoaderStages /\ CurLaidOut /\ ModulesLaidOut
  BY <1>1 DEF LoaderStages, CurLaidOut, ModulesLaidOut
<1>. QED
  BY <1>3, <1>4, <1>5 DEF LoaderInv

LEMMA LoaderInvStep == LoaderInv /\ Loader!Next => LoaderInv'
<1>. SUFFICES ASSUME LoaderInv, Loader!Next
              PROVE  LoaderInv'
  OBVIOUS
<1>1. CASE \E f \in todo : Loader!Reject(f) \/ Loader!MapMemory(f)
  BY <1>1, RejectStep, MapMemoryStep
<1>. QED
  BY <1>1, LoadInternalStep, RelocStep, RelocFailedStep, ProtectStep, DeclareNextStep, DeclareEndStep,
     DoneStep DEF Loader!Next

\* The invariant says what the run checks: a module's lowest page is where its
\* row begins, and the pages of a segment are the ones its bounds name.
LEMMA LoaderInvOwned == LoaderInv => Loader!MemoryOwned
<1>. SUFFICES ASSUME LoaderInv
              PROVE  Loader!MemoryOwned
  OBVIOUS
<1>. USE DEF LoaderInv
<1>1. Loader!PagesOwned
  <2>. DEFINE own == memory \cup (UNION Loader!Owners)
  <2>1. own = Pool
    BY DEF Pool
  <2>2. /\ Loader!TypeOK
        /\ used = {m[2] : m \in own}
        /\ DOMAIN ptes = {m[1] : m \in own}
        /\ \A m \in own : ptes[m[1]].frame = m[2]
        /\ \A m1, m2 \in own : m1 # m2 => m1[1] # m2[1] /\ m1[2] # m2[2]
    <3>. HIDE DEF own
    <3>. QED
      BY <2>1 DEF LoaderTypes, LoaderBooks, Firsts, Seconds
  <2>. QED
    BY <2>2, Zenon DEF Loader!PagesOwned
<1>2. Loader!SegmentsProtected
  <2>. SUFFICES ASSUME NEW n \in DOMAIN modules, modules[n].pages # {},
                       NEW i \in DOMAIN modules[n].file.segments,
                       NEW v \in (modules[n].file.segments[i].vaddr \div Page)..
                                   ((modules[n].file.segments[i].vaddr + modules[n].file.segments[i].memsz - 1) \div Page)
                PROVE  LET f == modules[n].file
                           base == Loader!Min({m[1] : m \in modules[n].pages})
                           page(j) == (f.segments[j].vaddr \div Page)..((f.segments[j].vaddr + f.segments[j].memsz - 1) \div Page)
                       IN  /\ base + v \in DOMAIN ptes
                           /\ (\A j \in DOMAIN f.segments : v \in page(j) => j = i) => ptes[base + v].flags = f.segments[i].flags
    BY Zenon DEF Loader!SegmentsProtected
  <2>. DEFINE P == modules[n].pages
              f == modules[n].file
              base == Loader!Min({m[1] : m \in P})
              page(j) == (f.segments[j].vaddr \div Page)..((f.segments[j].vaddr + f.segments[j].memsz - 1) \div Page)
  <2>1. P # {} /\ f \in Files /\ i \in DOMAIN f.segments /\ v \in page(i)
    BY DEF ModulesLaidOut
  <2>2. PICK b \in Nat : LaidOut(P, f, b) /\ Protected(ptes, f, b)
    BY DEF ModulesLaidOut
  <2>3. P \subseteq Pool
    BY DEF Pool, Loader!Owners
  <2>. HIDE DEF P, f
  <2>4. NPages(f) \in Nat
    BY <2>1, NPagesBounds
  <2>5. base = b
    <3>. DEFINE F == {m[1] : m \in P}
    <3>1. F = b..(b + NPages(f) - 1) /\ F # {}
      BY <2>1, <2>2 DEF LaidOut, Firsts
    <3>2. b \in F /\ \A y \in F : b <= y /\ y \in Nat
      <4>. HIDE DEF F
      <4>. QED
        BY <3>1, <2>4
    <3>. HIDE DEF F
    <3>3. \A x \in F : (\A y \in F : x <= y) => x = b
      BY <3>2
    <3>4. Loader!Min(F) = b
      BY <3>2, <3>3 DEF Loader!Min
    <3>. QED
      BY <3>4 DEF F
  <2>. HIDE DEF base
  <2>6. \A j \in DOMAIN f.segments : Loader!SegmentPages(f.segments[j]) = page(j)
    BY <2>1, SegmentPagesBounds
  <2>7. v \in 0..(NPages(f) - 1)
    BY <2>1, <2>6, SegmentPagesBounds
  <2>8. base + v \in DOMAIN ptes
    <3>1. b + v \in Firsts(P)
      BY <2>2, <2>4, <2>7 DEF LaidOut
    <3>2. b + v \in DOMAIN ptes
      BY <3>1, <2>3 DEF LoaderBooks, Firsts
    <3>. QED
      BY <3>2, <2>5
  <2>9. ASSUME \A j \in DOMAIN f.segments : v \in page(j) => j = i
        PROVE  ptes[base + v].flags = f.segments[i].flags
    <3>1. Covering(f, v) = {i}
      <4>. HIDE DEF page
      <4>. QED
        BY <2>1, <2>6, <2>9 DEF Covering
    <3>2. i \in Nat
      <4>1. f.segments \in Seq(Loader!Segments)
        BY <2>1, LoaderFacts
      <4>. QED
        BY <4>1, <2>1
    <3>3. Loader!Min({i}) = i
      BY <3>2 DEF Loader!Min
    <3>4. ptes[b + v].flags = f.segments[i].flags
      BY <3>1, <3>3, <2>2, <2>7 DEF Protected
    <3>. QED
      BY <3>4, <2>5
  <2>. QED
    BY <2>8, <2>9 DEF P, f, base
<1>. QED
  BY <1>1, <1>2 DEF Loader!MemoryOwned

LEMMA LoaderInvKept == LoaderInv /\ [BootNext]_bootVars => LoaderInv'
<1>. SUFFICES ASSUME LoaderInv, [BootNext]_bootVars
              PROVE  LoaderInv'
  OBVIOUS
<1>1. CASE Loader!Next
  BY <1>1, LoaderInvStep
<1>2. CASE UNCHANGED loaderVars
  <2>1. UNCHANGED <<stage, todo, cur, loaded_at, at, memory, pages, vspace_base, ptes, used, modules, failed>>
    BY <1>2 DEF loaderVars
  <2>2. LoaderTypes' /\ LoaderStages' /\ CurLaidOut'
    BY <2>1 DEF LoaderInv, LoaderTypes, Loader!TypeOK, LoaderStages, CurLaidOut
  <2>3. LoaderBooks' /\ ModulesLaidOut'
    BY <2>1, BooksUntouched DEF LoaderInv
  <2>. QED
    BY <2>2, <2>3 DEF LoaderInv
<1>. QED
  BY <1>1, <1>2 DEF BootNext, bootVars

(***************************************************************************)
(* The module loader, for any files and any amount of memory: every frame  *)
(* and every mapping it made belongs to one module or to the file being    *)
(* loaded, a file that was refused leaves nothing behind, and a module's   *)
(* pages have the access its segments ask for.                             *)
(***************************************************************************)
THEOREM MemoryOwnedInvariant == BootSpec => []MemoryOwned
<1>1. BootInit => LoaderInv
  BY LoaderInvInit DEF BootInit
<1>2. LoaderInv /\ [BootNext]_bootVars => LoaderInv'
  BY LoaderInvKept
<1>3. LoaderInv => MemoryOwned
  BY LoaderInvOwned DEF MemoryOwned
<1>. QED
  BY <1>1, <1>2, <1>3, PTL DEF BootSpec
=============================================================================
