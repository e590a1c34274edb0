----------------------- MODULE ClientLifecycleProofs -----------------------
(* What ClientLifecycle promises, for any clients and any requests.         *)
EXTENDS ClientLifecycle, TLAPS

(* No request is ever served by a client that is not built yet or that has  *)
(* been shut down: whatever implements ClientLifecycle has this.            *)
THEOREM NobodyUsesARetiredClient == Spec => []ServedByLive
<1> DEFINE Inv == TypeOK /\ ServedByLive
<1>1. Init => Inv
  BY DEF Init, TypeOK, ServedByLive
<1>2. Inv /\ [Next]_vars => Inv'
  <2> SUFFICES ASSUME Inv, [Next]_vars PROVE Inv'
    OBVIOUS
  <2> USE DEF TypeOK, ServedByLive
  <2>1. ASSUME NEW c \in Clients, Build(c) \/ Retire(c) PROVE Inv'
    BY <2>1 DEF Build, Retire
  <2>2. ASSUME NEW c \in Clients, NEW group \in SUBSET Users, Enter(c, group) PROVE Inv'
    BY <2>2 DEF Enter
  <2>3. ASSUME NEW u \in Users, Exit(u) PROVE Inv'
    BY <2>3 DEF Exit
  <2>4. CASE UNCHANGED vars
    BY <2>4 DEF vars
  <2>5. QED
    BY <2>1, <2>2, <2>3, <2>4 DEF Next
<1>3. Inv => ServedByLive
  OBVIOUS
<1>4. QED
  BY <1>1, <1>2, <1>3, PTL DEF Spec

=============================================================================
