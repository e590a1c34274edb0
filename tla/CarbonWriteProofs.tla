-------------------------- MODULE CarbonWriteProofs --------------------------
(***************************************************************************)
(* Theorems about CarbonWrite, for every set of requests and connections,  *)
(* every set of configurations and every bound on buffers and chunks.      *)
(***************************************************************************)
EXTENDS CarbonWrite, TLAPS

(* What prepareWrite builds has a chunk count for each of its buffers. *)
LEMMA BatchesAreSizes == TypeOK => Batches \subseteq Sizes
<1> SUFFICES ASSUME TypeOK, NEW batch \in Batches PROVE batch \in Sizes
  OBVIOUS
<1>1. PICK n \in 1..MaxBuffers : batch \in [1..n -> ChunkCounts]
  BY BoundsAssumption DEF Batches
<1>2. ChunkCounts \subseteq 0..MaxChunks
  BY BoundsAssumption DEF ChunkCounts, FrameWrites
<1>3. batch \in [1..n -> 0..MaxChunks]
  BY <1>1, <1>2
<1>4. QED
  BY <1>3 DEF Sizes

(* A batch starts with the buffer of index 1 and has no more than           *)
(* MaxBuffers buffers.                                                      *)
LEMMA SizesBasics ==
    ASSUME NEW batch \in Sizes
    PROVE  /\ 1 \in DOMAIN batch
           /\ DOMAIN batch \subseteq 1..MaxBuffers
           /\ \A b \in DOMAIN batch : batch[b] \in 0..MaxChunks
<1>1. PICK n \in 1..MaxBuffers : batch \in [1..n -> 0..MaxChunks]
  BY DEF Sizes
<1>2. QED
  BY <1>1, BoundsAssumption

(* The buffer at hand exists, and the producer never has more left to give  *)
(* than the buffer holds; a chunk that has been read is one of its chunks.  *)
BufferOK ==
    \A r \in Requests :
        /\ buf[r] \in DOMAIN size[r]
        /\ pc[r] \in {"idle", "parse", "prepare"} => buf[r] = 1
        /\ pc[r] \in {"copy", "copied"} => left[r] <= size[r][buf[r]]
        /\ pc[r] = "send" => left[r] < size[r][buf[r]]

TypeInv == TypeOK /\ BufferOK

LEMMA TypeInit == Init => TypeInv
<1> SUFFICES ASSUME Init PROVE TypeInv
  OBVIOUS
<1>1. [b \in 1..1 |-> 0] \in Sizes
  <2>1. [b \in 1..1 |-> 0] \in [1..1 -> 0..MaxChunks]
    BY BoundsAssumption
  <2>2. QED
    BY <2>1, BoundsAssumption DEF Sizes
<1>2. log \in [Conn -> Seq(Requests \X (1..MaxBuffers) \X Nat)]
  BY DEF Init
<1>3. /\ 1 \in 1..MaxBuffers
      /\ 0 \in 0..MaxChunks
  BY BoundsAssumption
<1>4. pc \in [Requests -> Labels] /\ err \in [Requests -> Errors]
  BY DEF Init, Labels, Errors
<1>5. TypeOK
  BY <1>1, <1>2, <1>3, <1>4 DEF Init, TypeOK
<1>6. BufferOK
  BY <1>1, SizesBasics DEF Init, BufferOK
<1>7. QED
  BY <1>5, <1>6 DEF TypeInv

(* There is never a buffer beyond the bound to go on with. *)
LEMMA NextBuffer ==
    ASSUME TypeOK, NEW r \in Requests, buf[r] + 1 \in DOMAIN size[r]
    PROVE  buf[r] + 1 \in 1..MaxBuffers
<1>1. size[r] \in Sizes
  BY DEF TypeOK
<1>2. DOMAIN size[r] \subseteq 1..MaxBuffers
  BY <1>1, SizesBasics
<1>3. QED
  BY <1>2

LEMMA TypeStep == TypeInv /\ [Next]_vars => TypeInv'
<1> SUFFICES ASSUME TypeInv, [Next]_vars PROVE TypeInv'
  OBVIOUS
<1>14. ASSUME NEW r \in Requests, CopyDone(r) PROVE TypeInv'
  <2>1. CASE buf[r] + 1 \in DOMAIN size[r]
    <3>1. buf[r] + 1 \in 1..MaxBuffers
      BY <2>1, NextBuffer DEF TypeInv
    <3>2. QED
      BY <1>14, <2>1, <3>1, ZenonT(60)
      DEF CopyDone, TypeInv, TypeOK, BufferOK, At, Goto, handler, client, net, locals,
          Labels, Before, Locked, Copying, After, Errors
  <2>2. CASE buf[r] + 1 \notin DOMAIN size[r]
    BY <1>14, <2>2
    DEF CopyDone, TypeInv, TypeOK, BufferOK, At, Goto, handler, client, net, locals,
        Labels, Before, Locked, Copying, After, Errors
  <2>3. QED
    BY <2>1, <2>2
<1> USE SizesBasics, BoundsAssumption DEF TypeInv, TypeOK, BufferOK, At, Goto, handler, client, net, locals,
    Labels, Before, Locked, Copying, After, Errors
<1>1. ASSUME NEW r \in Requests, Start(r) PROVE TypeInv'
  BY <1>1 DEF Start
<1>2. ASSUME NEW r \in Requests, Cancel(r) PROVE TypeInv'
  BY <1>2 DEF Cancel
<1>3. ASSUME NEW r \in Requests, BadRequest(r) PROVE TypeInv'
  BY <1>3 DEF BadRequest
<1>4. ASSUME NEW r \in Requests, Decode(r) PROVE TypeInv'
  BY <1>4 DEF Decode
<1>5. ASSUME NEW r \in Requests, Skip(r) PROVE TypeInv'
  BY <1>5 DEF Skip
<1>6. ASSUME NEW r \in Requests, DryRun(r) PROVE TypeInv'
  BY <1>6 DEF DryRun
<1>7. ASSUME NEW r \in Requests, Prepare(r) PROVE TypeInv'
  <2>1. PICK batch \in Sizes : size' = [size EXCEPT ![r] = batch]
    BY <1>7, BatchesAreSizes DEF Prepare
  <2>2. 1 \in DOMAIN batch /\ buf[r] = 1
    BY <1>7 DEF Prepare
  <2>3. TypeOK'
    BY <1>7, <2>1 DEF Prepare
  <2>4. BufferOK'
    BY <1>7, <2>1, <2>2 DEF Prepare
  <2>5. QED
    BY <2>3, <2>4
<1>8. ASSUME NEW r \in Requests, Acquire(r) PROVE TypeInv'
  BY <1>8 DEF Acquire
<1>9. ASSUME NEW r \in Requests, CheckContext(r) PROVE TypeInv'
  BY <1>9, ZenonT(60) DEF CheckContext
<1>10. ASSUME NEW r \in Requests, Reuse(r) PROVE TypeInv'
  BY <1>10, SMTT(30) DEF Reuse, StartCopy
<1>11. ASSUME NEW r \in Requests, Disconnect(r) PROVE TypeInv'
  BY <1>11 DEF Disconnect
<1>12. ASSUME NEW r \in Requests, ReadPipe(r) PROVE TypeInv'
  BY <1>12, SMTT(30) DEF ReadPipe
<1>13. ASSUME NEW r \in Requests, EndOfPipe(r) PROVE TypeInv'
  BY <1>13 DEF EndOfPipe
<1>15. ASSUME NEW r \in Requests, CopyFailed(r) PROVE TypeInv'
  BY <1>15 DEF CopyFailed
<1>16. ASSUME NEW r \in Requests, CloseCon(r) PROVE TypeInv'
  BY <1>16 DEF CloseCon
<1>17. ASSUME NEW r \in Requests, Leave(r) PROVE TypeInv'
  BY <1>17, ZenonT(60) DEF Leave
<1>18. ASSUME NEW r \in Requests, Observe(r) PROVE TypeInv'
  BY <1>18, ZenonT(60) DEF Observe, TargetCheck, TargetPanics, TargetReturns
<1>19. ASSUME NEW r \in Requests, Label(r) PROVE TypeInv'
  BY <1>19, ZenonT(60) DEF Label, TargetCheck, TargetPanics, TargetReturns
<1>20. ASSUME NEW r \in Requests, Respond(r) PROVE TypeInv'
  BY <1>20 DEF Respond
<1>21. ASSUME NEW r \in Requests, Dial(r) PROVE TypeInv'
  <2>1. /\ size[r][buf[r]] \in 0..MaxChunks
        /\ left' = [left EXCEPT ![r] = size[r][buf[r]]]
        /\ pc' = [pc EXCEPT ![r] = "copy"]
        /\ prod' = [prod EXCEPT ![r] = "writing"]
        /\ err' = [err EXCEPT ![r] = "nil"]
        /\ UNCHANGED <<cfg, handler, lock, gone, log, accepted, size, buf>>
    BY <1>21 DEF Dial, StartCopy
  <2>2. /\ carbonCon' \in Conn /\ open' \subseteq Conn /\ dialed' \subseteq Conn
        /\ due' \in BOOLEAN
    BY <1>21 DEF Dial
  <2>3. TypeOK'
    BY <2>1, <2>2
  <2>4. BufferOK'
    BY <2>1, SMTT(30)
  <2>5. QED
    BY <2>3, <2>4
<1>22. ASSUME NEW r \in Requests, DialFails(r) PROVE TypeInv'
  BY <1>22 DEF DialFails
<1>23. ASSUME NEW r \in Requests, Send(r) PROVE TypeInv'
  <2>1. InHand(r) \in Nat
    BY <1>23 DEF Send, InHand
  <2>2. accepted' \in [Requests -> SUBSET ((1..MaxBuffers) \X Nat)]
    BY <1>23, <2>1 DEF Send
  <2>3. log' \in [Conn -> Seq(Requests \X (1..MaxBuffers) \X Nat)]
    <3>1. <<r, buf[r], InHand(r)>> \in Requests \X (1..MaxBuffers) \X Nat
      BY <2>1
    <3>2. CASE carbonCon \in gone
      BY <1>23, <3>2 DEF Send
    <3>3. CASE carbonCon \notin gone
      <4>1. carbonCon \in Conn
        BY <1>23 DEF Send
      <4>2. Append(log[carbonCon], <<r, buf[r], InHand(r)>>)
              \in Seq(Requests \X (1..MaxBuffers) \X Nat)
        BY <3>1, <4>1
      <4>3. QED
        BY <1>23, <3>3, <4>1, <4>2 DEF Send
    <3>4. QED
      BY <3>2, <3>3
  <2>4. /\ pc' = [pc EXCEPT ![r] = "copy"]
        /\ UNCHANGED <<cfg, handler, client, open, dialed, gone, locals>>
    BY <1>23 DEF Send
  <2>5. TypeOK'
    BY <2>2, <2>3, <2>4
  <2>6. BufferOK'
    <3>1. pc[r] = "send"
      BY <1>23 DEF Send
    <3>2. QED
      BY <2>4, <3>1, SMTT(30)
  <2>7. QED
    BY <2>5, <2>6
<1>24. ASSUME NEW r \in Requests, SendFails(r) PROVE TypeInv'
  BY <1>24, SMTT(30) DEF SendFails
<1>25. ASSUME NEW r \in Requests, ProducerReturns(r) PROVE TypeInv'
  BY <1>25 DEF ProducerReturns, Assign
<1>26. ASSUME NEW r \in Requests, ProducerInterrupted(r) PROVE TypeInv'
  BY <1>26 DEF ProducerInterrupted, Assign
<1>27. ASSUME NEW r \in Requests, CompressorFails(r) PROVE TypeInv'
  BY <1>27, SMTT(30) DEF CompressorFails, Assign
<1>28. ASSUME NEW r \in Requests, ProducerCloses(r) PROVE TypeInv'
  BY <1>28 DEF ProducerCloses
<1>29. CASE ApplyConfig
  BY <1>29 DEF ApplyConfig, ApplyCalled, ApplyLocked, Shutdown
<1>30. CASE IntervalPasses
  BY <1>30 DEF IntervalPasses
<1>31. CASE \E c \in Conn : PeerLost(c)
  BY <1>31 DEF PeerLost
<1>32. CASE UNCHANGED vars
  BY <1>32 DEF vars
<1>33. QED
  BY <1>1, <1>2, <1>3, <1>4, <1>5, <1>6, <1>7, <1>8, <1>9, <1>10, <1>11, <1>12, <1>13, <1>14, <1>15, <1>16, <1>17, <1>18, <1>19, <1>20, <1>21, <1>22, <1>23, <1>24, <1>25, <1>26, <1>27, <1>28, <1>29, <1>30, <1>31, <1>32 DEF Next, Compute, Network, Producer, Finished

(* Every reachable state is one of the states the variables are declared    *)
(* for: in particular a chunk that goes to the socket is a chunk of the     *)
(* request's current buffer, whatever the producer goroutine does.          *)
THEOREM TypeCorrect == Spec => []TypeOK
<1>1. TypeInv => TypeOK
  BY DEF TypeInv
<1>2. QED
  BY TypeInit, TypeStep, <1>1, PTL DEF Spec

-----------------------------------------------------------------------------
(* The discipline around carbonConLock: a request is in the locked part of  *)
(* Client.Write exactly when it owns the lock, it has no connection while   *)
(* it dials and one while it copies, and a reload takes the handler's lock  *)
(* only when nobody is in between.                                          *)
LockInv ==
    /\ \A r \in Requests : pc[r] \in Locked <=> lock = r
    /\ \A r \in Requests : pc[r] = "dial" => carbonCon = NoCon
    /\ \A r \in Requests : pc[r] \in Copying => carbonCon # NoCon
    /\ NoLeak
    /\ apply \in {"locked", "done"} => Readers = {}
    /\ apply = "done" => carbonCon = NoCon

LEMMA LockInit == Init => LockInv
  BY NoOneAssumption DEF Init, LockInv, NoLeak, Readers, Locked, Copying

LEMMA LockStep == TypeOK /\ LockInv /\ [Next]_vars => LockInv'
<1> SUFFICES ASSUME TypeOK, LockInv, [Next]_vars PROVE LockInv'
  OBVIOUS
<1> USE NoConAssumption, NoOneAssumption DEF TypeOK, LockInv, NoLeak, Readers, Locked, Copying, Before,
    At, Goto, handler, client, net, locals
<1>1. ASSUME NEW r \in Requests, Start(r) PROVE LockInv'
  BY <1>1 DEF Start
<1>2. ASSUME NEW r \in Requests, Cancel(r) PROVE LockInv'
  BY <1>2 DEF Cancel
<1>3. ASSUME NEW r \in Requests, BadRequest(r) PROVE LockInv'
  BY <1>3 DEF BadRequest
<1>4. ASSUME NEW r \in Requests, Decode(r) PROVE LockInv'
  BY <1>4 DEF Decode
<1>5. ASSUME NEW r \in Requests, Skip(r) PROVE LockInv'
  BY <1>5 DEF Skip
<1>6. ASSUME NEW r \in Requests, DryRun(r) PROVE LockInv'
  BY <1>6 DEF DryRun
<1>7. ASSUME NEW r \in Requests, Prepare(r) PROVE LockInv'
  BY <1>7 DEF Prepare
<1>8. ASSUME NEW r \in Requests, Acquire(r) PROVE LockInv'
  BY <1>8 DEF Acquire
<1>9. ASSUME NEW r \in Requests, CheckContext(r) PROVE LockInv'
  BY <1>9, ZenonT(60) DEF CheckContext
<1>10. ASSUME NEW r \in Requests, Reuse(r) PROVE LockInv'
  BY <1>10 DEF Reuse, StartCopy
<1>11. ASSUME NEW r \in Requests, Disconnect(r) PROVE LockInv'
  BY <1>11 DEF Disconnect
<1>12. ASSUME NEW r \in Requests, ReadPipe(r) PROVE LockInv'
  BY <1>12 DEF ReadPipe
<1>13. ASSUME NEW r \in Requests, EndOfPipe(r) PROVE LockInv'
  BY <1>13 DEF EndOfPipe
<1>14. ASSUME NEW r \in Requests, CopyDone(r) PROVE LockInv'
  BY <1>14 DEF CopyDone
<1>15. ASSUME NEW r \in Requests, CopyFailed(r) PROVE LockInv'
  BY <1>15 DEF CopyFailed
<1>16. ASSUME NEW r \in Requests, CloseCon(r) PROVE LockInv'
  BY <1>16 DEF CloseCon
<1>17. ASSUME NEW r \in Requests, Leave(r) PROVE LockInv'
  BY <1>17, ZenonT(60) DEF Leave
<1>18. ASSUME NEW r \in Requests, Observe(r) PROVE LockInv'
  BY <1>18, ZenonT(60) DEF Observe, TargetCheck, TargetPanics, TargetReturns
<1>19. ASSUME NEW r \in Requests, Label(r) PROVE LockInv'
  BY <1>19, ZenonT(60) DEF Label, TargetCheck, TargetPanics, TargetReturns
<1>20. ASSUME NEW r \in Requests, Respond(r) PROVE LockInv'
  BY <1>20 DEF Respond
<1>21. ASSUME NEW r \in Requests, Dial(r) PROVE LockInv'
  BY <1>21 DEF Dial, StartCopy
<1>22. ASSUME NEW r \in Requests, DialFails(r) PROVE LockInv'
  BY <1>22 DEF DialFails
<1>23. ASSUME NEW r \in Requests, Send(r) PROVE LockInv'
  BY <1>23 DEF Send
<1>24. ASSUME NEW r \in Requests, SendFails(r) PROVE LockInv'
  BY <1>24 DEF SendFails
<1>25. ASSUME NEW r \in Requests, ProducerReturns(r) PROVE LockInv'
  BY <1>25 DEF ProducerReturns
<1>26. ASSUME NEW r \in Requests, ProducerInterrupted(r) PROVE LockInv'
  BY <1>26 DEF ProducerInterrupted
<1>27. ASSUME NEW r \in Requests, CompressorFails(r) PROVE LockInv'
  BY <1>27 DEF CompressorFails
<1>28. ASSUME NEW r \in Requests, ProducerCloses(r) PROVE LockInv'
  BY <1>28 DEF ProducerCloses
<1>29. CASE ApplyConfig
  BY <1>29 DEF ApplyConfig, ApplyCalled, ApplyLocked, Shutdown
<1>30. CASE IntervalPasses
  BY <1>30 DEF IntervalPasses
<1>31. CASE \E c \in Conn : PeerLost(c)
  BY <1>31 DEF PeerLost
<1>32. CASE UNCHANGED vars
  BY <1>32 DEF vars
<1>33. QED
  BY <1>1, <1>2, <1>3, <1>4, <1>5, <1>6, <1>7, <1>8, <1>9, <1>10, <1>11, <1>12, <1>13, <1>14, <1>15, <1>16, <1>17, <1>18, <1>19, <1>20, <1>21, <1>22, <1>23, <1>24, <1>25, <1>26, <1>27, <1>28, <1>29, <1>30, <1>31, <1>32 DEF Next, Compute, Network, Producer, Finished

LEMMA LockCorrect == Spec => [](TypeOK /\ LockInv)
<1>1. Init => TypeInv /\ LockInv
  BY TypeInit, LockInit
<1>2. TypeInv /\ LockInv /\ [Next]_vars => (TypeInv /\ LockInv)'
  BY TypeStep, LockStep DEF TypeInv
<1>3. TypeInv => TypeOK
  BY DEF TypeInv
<1>4. QED
  BY <1>1, <1>2, <1>3, PTL DEF Spec

(* No connection to carbon is ever left open behind the client's back, and  *)
(* carbonCon is never a connection that was closed.                         *)
THEOREM NeverLeaks == Spec => []NoLeak
<1>1. LockInv => NoLeak
  BY DEF LockInv
<1>2. QED
  BY LockCorrect, <1>1, PTL

(* The connection that a request copies to is open until it has finished.   *)
THEOREM HoldsItsConnection == Spec => []ConnectionHeld
<1>1. LockInv => ConnectionHeld
  BY DEF LockInv, NoLeak, ConnectionHeld
<1>2. QED
  BY LockCorrect, <1>1, PTL

(* A client that was shut down stays shut down: what is left of its         *)
(* requests, their producer goroutines, no longer touches the client or the *)
(* network.                                                                 *)
THEOREM StaysShutDown == Spec => NothingAfterShutdown
<1>1. TypeOK /\ LockInv /\ [Next]_vars =>
        [apply = "done" => UNCHANGED <<client, net>>]_vars
  <2> SUFFICES ASSUME TypeOK, LockInv, Next, apply = "done"
               PROVE  UNCHANGED <<client, net>>
    BY DEF vars, client, net
  <2> USE DEF handler, client, net, locals, At
  <2>1. /\ Readers = {} /\ carbonCon = NoCon /\ open = {}
        /\ \A r \in Requests : pc[r] \in {"idle", "done"}
    BY DEF LockInv, NoLeak, Readers
  <2>2. ASSUME NEW r \in Requests, Start(r) \/ Cancel(r) PROVE UNCHANGED <<client, net>>
    BY <2>2 DEF Start, Cancel
  <2>3. ASSUME NEW r \in Requests, Compute(r) PROVE FALSE
    BY <2>1, <2>3 DEF Compute, BadRequest, Decode, Skip, DryRun, Prepare, Acquire,
       CheckContext, Reuse, Disconnect, ReadPipe, EndOfPipe, CopyDone, CopyFailed,
       CloseCon, Leave, Observe, Label, Respond, TargetCheck, TargetPanics, TargetReturns
  <2>4. ASSUME NEW r \in Requests, Network(r) PROVE FALSE
    BY <2>1, <2>4 DEF Network, Dial, DialFails, Send, SendFails
  <2>5. ASSUME NEW r \in Requests, Producer(r) PROVE UNCHANGED <<client, net>>
    BY <2>5 DEF Producer, ProducerReturns, ProducerInterrupted, CompressorFails,
       ProducerCloses
  <2>6. CASE ApplyConfig
    BY <2>6 DEF ApplyConfig, ApplyCalled, ApplyLocked, Shutdown
  <2>7. CASE IntervalPasses
    BY <2>1, <2>7 DEF IntervalPasses
  <2>8. ASSUME NEW c \in Conn, PeerLost(c) PROVE FALSE
    BY <2>1, <2>8 DEF PeerLost
  <2>9. CASE Finished
    BY <2>9 DEF Finished, vars
  <2>10. QED
    BY <2>2, <2>3, <2>4, <2>5, <2>6, <2>7, <2>8, <2>9 DEF Next
<1>2. QED
  BY LockCorrect, <1>1, PTL DEF Spec, NothingAfterShutdown

-----------------------------------------------------------------------------
(* Where a request is tells which counters it has been added to. *)
CountInv ==
    /\ sent \cap failed = {}
    /\ \A r \in Requests :
          /\ r \in sent \cup failed => pc[r] = "done" /\ r \in received
          /\ r \in received /\ pc[r] = "done" => r \in sent \cup failed
          /\ pc[r] \in {"idle", "parse"} => r \notin received
          /\ pc[r] \notin {"idle", "parse", "done"} => r \in received

LEMMA CountStep == TypeOK /\ CountInv /\ [Next]_vars => CountInv'
<1> SUFFICES ASSUME TypeOK, CountInv, [Next]_vars PROVE CountInv'
  OBVIOUS
<1> USE DEF TypeOK, CountInv, At, Goto, handler, Before
<1>1. ASSUME NEW r \in Requests, BadRequest(r) PROVE CountInv'
  BY <1>1 DEF BadRequest
<1>2. ASSUME NEW r \in Requests, Decode(r) PROVE CountInv'
  BY <1>2 DEF Decode
<1>3. ASSUME NEW r \in Requests, Respond(r) PROVE CountInv'
  <2>1. CASE err[r] = "nil"
    BY <1>3, <2>1 DEF Respond
  <2>2. CASE err[r] # "nil"
    BY <1>3, <2>2 DEF Respond
  <2>3. QED
    BY <2>1, <2>2
<1>4. ASSUME NEW r \in Requests, Start(r) PROVE CountInv'
  BY <1>4 DEF Start
<1>5. ASSUME NEW r \in Requests,
             \/ Skip(r) \/ DryRun(r) \/ Prepare(r) \/ Acquire(r) \/ CheckContext(r)
             \/ Reuse(r) \/ Disconnect(r) \/ ReadPipe(r) \/ EndOfPipe(r)
             \/ CopyDone(r) \/ CopyFailed(r) \/ CloseCon(r) \/ Leave(r)
             \/ Observe(r) \/ Label(r) \/ Network(r)
      PROVE  CountInv'
  <2>1. /\ UNCHANGED <<received, sent, failed>>
        /\ pc[r] \notin {"idle", "parse", "done"}
        /\ \E label \in Labels \ {"idle", "parse", "done"} :
              pc' \in {pc, [pc EXCEPT ![r] = label]}
    BY <1>5 DEF Skip, DryRun, Prepare, Acquire, CheckContext, Reuse, Disconnect,
       ReadPipe, EndOfPipe, CopyDone, CopyFailed, CloseCon, Leave, Observe, Label,
       Network, Dial, DialFails, Send, SendFails, StartCopy,
       TargetCheck, TargetPanics, TargetReturns, Labels, Locked, Copying, After
  <2>2. QED
    BY <2>1
<1>6. CASE UNCHANGED <<pc, received, sent, failed>>
  BY <1>6
<1>7. ASSUME NEW r \in Requests, Cancel(r) \/ Producer(r) PROVE CountInv'
  BY <1>6, <1>7 DEF Cancel, Producer, ProducerReturns, ProducerInterrupted,
     CompressorFails, ProducerCloses
<1>8. CASE ApplyConfig \/ IntervalPasses \/ (\E c \in Conn : PeerLost(c)) \/ Finished
  BY <1>6, <1>8 DEF ApplyConfig, ApplyCalled, ApplyLocked, Shutdown, IntervalPasses,
     PeerLost, Finished, vars
<1>9. CASE UNCHANGED vars
  BY <1>6, <1>9 DEF vars
<1>10. QED
  BY <1>1, <1>2, <1>3, <1>4, <1>5, <1>7, <1>8, <1>9 DEF Next, Compute

(* The counters of Handler.write add up: once no request is in progress,    *)
(* received_samples_total is sent_samples_total plus failed_samples_total.  *)
THEOREM CountersAddUp == Spec => []Accounted
<1>1. Init => CountInv
  BY DEF Init, CountInv
<1>2. TypeOK /\ CountInv => Accounted
  BY DEF TypeOK, CountInv, Accounted, Readers
<1>3. QED
  BY TypeCorrect, CountStep, <1>1, <1>2, PTL DEF Spec

-----------------------------------------------------------------------------
(* What the types say of the variables that a step of the copy touches. *)
Typing ==
    /\ pc \in [Requests -> Labels]
    /\ size \in [Requests -> Sizes]
    /\ buf \in [Requests -> 1..MaxBuffers]
    /\ left \in [Requests -> 0..MaxChunks]
    /\ prod \in [Requests -> {"none", "writing", "returned", "closed"}]
    /\ err \in [Requests -> Errors]
    /\ accepted \in [Requests -> SUBSET ((1..MaxBuffers) \X Nat)]
    /\ sent \subseteq Requests /\ failed \subseteq Requests
    /\ carbonCon \in Conn \cup {NoCon}
    /\ MaxBuffers \in Nat /\ MaxChunks \in Nat
    /\ TypeOK /\ BufferOK
    /\ \A r \in Requests : \A b \in DOMAIN size[r] :
          b \in 1..MaxBuffers /\ size[r][b] \in 0..MaxChunks

LEMMA Typed == TypeInv => Typing
  BY SizesBasics, BoundsAssumption DEF TypeInv, TypeOK, Typing

(* What prepareWrite leaves behind: one buffer for a stream, one chunk at   *)
(* most for a datagram, and nothing before it has run.                      *)
BatchInv ==
    \A r \in Requests :
        /\ cfg.transport = "tcp" => DOMAIN size[r] = {1}
        /\ \A b \in DOMAIN size[r] :
              /\ b > 1 => size[r][b] > 0
              /\ cfg.transport = "udp" /\ cfg.compress = "plain" => size[r][b] <= 1
              /\ pc[r] \in {"idle", "parse", "prepare"} => size[r][b] = 0

(* The shape of what prepareWrite builds, for each transport.               *)
LEMMA BatchesAre ==
    ASSUME TypeOK, NEW batch \in Batches
    PROVE  /\ cfg.transport = "tcp" => DOMAIN batch = {1}
           /\ \A b \in DOMAIN batch :
                 /\ b > 1 => batch[b] > 0
                 /\ cfg.transport = "udp" /\ cfg.compress = "plain" => batch[b] <= 1
<1>1. PICK n \in (IF cfg.transport = "udp" THEN 1..MaxBuffers ELSE {1}) :
         batch \in [1..n -> ChunkCounts]
  BY DEF Batches
<1>2. \A b \in DOMAIN batch : b > 1 => batch[b] > 0
  BY DEF Batches
<1>3. cfg.transport = "tcp" => DOMAIN batch = {1}
  BY <1>1
<1>4. ASSUME cfg.transport = "udp", cfg.compress = "plain", NEW b \in DOMAIN batch
      PROVE  batch[b] <= 1
  BY <1>1, <1>4 DEF ChunkCounts
<1>5. QED
  BY <1>2, <1>3, <1>4

LEMMA BatchInit == Init => BatchInv
<1> SUFFICES ASSUME Init, NEW r \in Requests
             PROVE  /\ DOMAIN size[r] = {1}
                    /\ \A b \in DOMAIN size[r] : ~(b > 1) /\ size[r][b] = 0 /\ size[r][b] <= 1
  BY Zenon DEF BatchInv
<1>1. size[r] = [b \in 1..1 |-> 0]
  BY DEF Init
<1>2. QED
  BY <1>1

LEMMA BatchStep == TypeOK /\ BatchInv /\ [Next]_vars => BatchInv'
<1> SUFFICES ASSUME TypeOK, BatchInv, [Next]_vars PROVE BatchInv'
  OBVIOUS
<1> USE DEF At, Goto, handler, client, net, locals
<1>1. ASSUME NEW r \in Requests, Prepare(r) PROVE BatchInv'
  <2>1. PICK batch \in Batches : size' = [size EXCEPT ![r] = batch]
    BY <1>1 DEF Prepare
  <2>2. pc' = [pc EXCEPT ![r] = "acquire"] /\ cfg' = cfg
    BY <1>1 DEF Prepare
  <2>3. QED
    BY <2>1, <2>2, BatchesAre DEF TypeOK, BatchInv
<1>2. ASSUME UNCHANGED <<cfg, size>>, NEW r \in Requests,
             NEW label \in Labels, pc' \in {pc, [pc EXCEPT ![r] = label]},
             pc[r] \in {"idle", "parse", "prepare"} \/ label \notin {"idle", "parse", "prepare"}
      PROVE  BatchInv'
  BY <1>2 DEF TypeOK, BatchInv
<1>3. ASSUME NEW r \in Requests, Start(r) \/ Decode(r) \/ BadRequest(r) \/ Skip(r) \/ DryRun(r)
      PROVE BatchInv'
  <2>1. /\ UNCHANGED <<cfg, size>> /\ pc[r] \in {"idle", "parse", "prepare"}
        /\ \E label \in Labels : pc' = [pc EXCEPT ![r] = label]
    BY <1>3 DEF Start, Decode, BadRequest, Skip, DryRun, Labels, Before, After
  <2>2. QED
    BY <2>1, <1>2
<1>4. ASSUME NEW r \in Requests,
             \/ Acquire(r) \/ CheckContext(r)
             \/ Reuse(r) \/ Disconnect(r) \/ ReadPipe(r) \/ EndOfPipe(r)
             \/ CopyDone(r) \/ CopyFailed(r) \/ CloseCon(r) \/ Leave(r)
             \/ Observe(r) \/ Label(r) \/ Respond(r) \/ Network(r)
      PROVE  BatchInv'
  <2>1. /\ UNCHANGED <<cfg, size>>
        /\ \E label \in Labels \ {"idle", "parse", "prepare"} :
              pc' \in {pc, [pc EXCEPT ![r] = label]}
    BY <1>4 DEF Acquire, CheckContext, Reuse, Disconnect,
       ReadPipe, EndOfPipe, CopyDone, CopyFailed, CloseCon, Leave, Observe, Label, Respond,
       Network, Dial, DialFails, Send, SendFails, StartCopy,
       TargetCheck, TargetPanics, TargetReturns, Labels, Locked, Copying, After
  <2>2. QED
    BY <2>1, <1>2
<1>5. CASE UNCHANGED <<cfg, size, pc>>
  BY <1>5 DEF BatchInv
<1>6. ASSUME NEW r \in Requests, Cancel(r) \/ Producer(r) PROVE BatchInv'
  BY <1>5, <1>6 DEF Cancel, Producer, ProducerReturns, ProducerInterrupted,
     CompressorFails, ProducerCloses
<1>7. CASE ApplyConfig \/ IntervalPasses \/ (\E c \in Conn : PeerLost(c)) \/ Finished
  BY <1>5, <1>7 DEF ApplyConfig, ApplyCalled, ApplyLocked, Shutdown, IntervalPasses,
     PeerLost, Finished, vars
<1>8. CASE UNCHANGED vars
  BY <1>5, <1>8 DEF vars
<1>9. QED
  BY <1>1, <1>3, <1>4, <1>6, <1>7, <1>8 DEF Next, Compute

-----------------------------------------------------------------------------
(* Before the first look at the connection. *)
Early == {"idle", "ctx"} \cup Before

(* Chunk k of buffer b was handed to the socket at some time in the past.   *)
Behind(r, b, k) ==
    /\ pc[r] \notin Early
    /\ b \in DOMAIN size[r]
    /\ k \in 1..size[r][b]
    /\ b <= buf[r]
    /\ b = buf[r] =>
          /\ pc[r] \notin {"connect", "dial"}
          /\ pc[r] \in {"copy", "send", "copied", "closeCon", "leave"} => k <= InHand(r)
          /\ pc[r] = "send" => k < InHand(r)

(* A socket takes the chunks of a request in order, each of them once.      *)
TakenInv ==
    \A r \in Requests : \A b \in 1..MaxBuffers, k \in Nat :
        <<b, k>> \in accepted[r] => Behind(r, b, k)

LEMMA TakenInit == Init => TakenInv
  BY DEF Init, TakenInv

LEMMA TakenStep == TypeInv /\ TakenInv /\ [Next]_vars => TakenInv'
<1> SUFFICES ASSUME TypeInv, TakenInv, [Next]_vars PROVE TakenInv'
  OBVIOUS
<1>0. Typing
  BY Typed
<1> USE <1>0 DEF Typing, TakenInv, Behind, Early, Before, InHand, BufferOK, At, Goto, handler, client, net, locals
<1>1. ASSUME NEW r \in Requests, Start(r) PROVE TakenInv'
  BY <1>1 DEF Start
<1>3. ASSUME NEW r \in Requests, BadRequest(r) PROVE TakenInv'
  BY <1>3 DEF BadRequest
<1>4. ASSUME NEW r \in Requests, Decode(r) PROVE TakenInv'
  BY <1>4 DEF Decode
<1>5. ASSUME NEW r \in Requests, Skip(r) PROVE TakenInv'
  BY <1>5 DEF Skip
<1>6. ASSUME NEW r \in Requests, DryRun(r) PROVE TakenInv'
  BY <1>6 DEF DryRun
<1>7. ASSUME NEW r \in Requests, Prepare(r) PROVE TakenInv'
  BY <1>7 DEF Prepare
<1>8. ASSUME NEW r \in Requests, Acquire(r) PROVE TakenInv'
  BY <1>8 DEF Acquire
<1>9. ASSUME NEW r \in Requests, CheckContext(r) PROVE TakenInv'
  BY <1>9 DEF CheckContext
<1>10. ASSUME NEW r \in Requests, Reuse(r) PROVE TakenInv'
  BY <1>10 DEF Reuse, StartCopy
<1>11. ASSUME NEW r \in Requests, Disconnect(r) PROVE TakenInv'
  BY <1>11 DEF Disconnect
<1>12. ASSUME NEW r \in Requests, ReadPipe(r) PROVE TakenInv'
  BY <1>12 DEF ReadPipe
<1>13. ASSUME NEW r \in Requests, EndOfPipe(r) PROVE TakenInv'
  BY <1>13 DEF EndOfPipe
<1>14. ASSUME NEW r \in Requests, CopyDone(r) PROVE TakenInv'
  BY <1>14 DEF CopyDone
<1>15. ASSUME NEW r \in Requests, CopyFailed(r) PROVE TakenInv'
  BY <1>15 DEF CopyFailed
<1>16. ASSUME NEW r \in Requests, CloseCon(r) PROVE TakenInv'
  BY <1>16 DEF CloseCon
<1>17. ASSUME NEW r \in Requests, Leave(r) PROVE TakenInv'
  BY <1>17 DEF Leave
<1>18. ASSUME NEW r \in Requests, Observe(r) PROVE TakenInv'
  BY <1>18 DEF Observe, TargetCheck, TargetPanics, TargetReturns
<1>19. ASSUME NEW r \in Requests, Label(r) PROVE TakenInv'
  BY <1>19 DEF Label, TargetCheck, TargetPanics, TargetReturns
<1>20. ASSUME NEW r \in Requests, Respond(r) PROVE TakenInv'
  BY <1>20 DEF Respond
<1>21. ASSUME NEW r \in Requests, Dial(r) PROVE TakenInv'
  BY <1>21 DEF Dial, StartCopy
<1>22. ASSUME NEW r \in Requests, DialFails(r) PROVE TakenInv'
  BY <1>22 DEF DialFails
<1>23. ASSUME NEW r \in Requests, Send(r) PROVE TakenInv'
  BY <1>23 DEF Send
<1>24. ASSUME NEW r \in Requests, SendFails(r) PROVE TakenInv'
  BY <1>24 DEF SendFails
<1>25. ASSUME NEW r \in Requests, CompressorFails(r) PROVE TakenInv'
  BY <1>25 DEF CompressorFails
<1>26. CASE UNCHANGED <<pc, size, buf, left, accepted>>
  BY <1>26
<1>27. ASSUME NEW r \in Requests,
              Cancel(r) \/ ProducerReturns(r) \/ ProducerInterrupted(r) \/ ProducerCloses(r)
       PROVE  TakenInv'
  BY <1>26, <1>27 DEF Cancel, ProducerReturns, ProducerInterrupted, ProducerCloses
<1>28. CASE ApplyConfig \/ IntervalPasses \/ (\E c \in Conn : PeerLost(c)) \/ Finished
  BY <1>26, <1>28 DEF ApplyConfig, ApplyCalled, ApplyLocked, Shutdown, IntervalPasses,
     PeerLost, Finished, vars
<1>29. CASE UNCHANGED vars
  BY <1>26, <1>29 DEF vars
<1>33. QED
  BY <1>1, <1>3, <1>4, <1>5, <1>6, <1>7, <1>8, <1>9, <1>10, <1>11, <1>12, <1>13, <1>14, <1>15, <1>16, <1>17, <1>18, <1>19, <1>20, <1>21, <1>22, <1>23, <1>24, <1>25, <1>27, <1>28, <1>29 DEF Next, Compute, Network, Producer, Finished

-----------------------------------------------------------------------------
(* A request with nothing to send, or with a chunk that no socket took. *)
Untaken(r) ==
    \/ \A b \in DOMAIN size[r] : size[r][b] = 0
    \/ \E b \in DOMAIN size[r] : \E k \in 1..size[r][b] : <<b, k>> \notin accepted[r]

(* What err and the producer goroutine can be at each step: in particular   *)
(* an error that survives to the end means that a chunk is missing.         *)
ErrorInv ==
    \A r \in Requests :
        /\ pc[r] \in Early => err[r] = "nil" /\ prod[r] = "none"
        /\ pc[r] \in {"connect", "dial"} => err[r] = "nil" /\ prod[r] # "writing"
        /\ pc[r] = "copied" /\ err[r] = "nil" => prod[r] # "writing"
        /\ pc[r] \in Locked /\ prod[r] = "writing" => left[r] <= size[r][buf[r]]
        /\ pc[r] \in {"closeCon", "leave"} \cup After /\ err[r] # "nil" => Untaken(r)
        /\ r \in failed => pc[r] = "done" /\ Untaken(r)

LEMMA ErrorInit == Init => ErrorInv
  BY DEF Init, ErrorInv, Early, After, Before, Locked, Copying

(* A chunk of the current buffer that the socket has not taken. *)
LEMMA NotYet ==
    ASSUME TypeInv, BatchInv, TakenInv, NEW r \in Requests,
           pc[r] \in Early \/ pc[r] = "dial"
    PROVE  Untaken(r)
<1>1. buf[r] \in DOMAIN size[r] /\ buf[r] \in 1..MaxBuffers
  BY DEF TypeInv, TypeOK, BufferOK
<1>1a. DOMAIN size[r] \subseteq 1..MaxBuffers /\ \A b \in DOMAIN size[r] : size[r][b] \in Nat
  BY SizesBasics, BoundsAssumption DEF TypeInv, TypeOK
<1>2. CASE pc[r] \in Early
  BY <1>2, <1>1a DEF Untaken, TakenInv, Behind
<1>3. CASE pc[r] = "dial" /\ buf[r] > 1
  <2>1. size[r][buf[r]] > 0
    BY <1>1, <1>3 DEF BatchInv
  <2>2. <<buf[r], 1>> \notin accepted[r]
    BY <1>1, <1>3 DEF TakenInv, Behind
  <2>3. QED
    BY <1>1, <1>1a, <2>1, <2>2 DEF Untaken
<1>4. CASE pc[r] = "dial" /\ ~(buf[r] > 1)
  <2>0. buf[r] = 1
    BY <1>1, <1>4, BoundsAssumption
  <2>1. ASSUME NEW b \in 1..MaxBuffers, NEW k \in Nat, <<b, k>> \in accepted[r]
        PROVE  FALSE
    <3>1. b <= buf[r] /\ b # buf[r]
      BY <1>4, <2>1 DEF TakenInv, Behind
    <3>2. QED
      BY <2>0, <3>1, BoundsAssumption
  <2>2. QED
    BY <1>1a, <2>1 DEF Untaken
<1>5. QED
  BY <1>2, <1>3, <1>4

(* A producer that is interrupted has left a chunk behind.                  *)
LEMMA Interrupted ==
    ASSUME TypeInv, TakenInv, ErrorInv, NEW r \in Requests, ProducerInterrupted(r), 
           pc[r] \in {"closeCon", "leave"}
    PROVE  Untaken(r)
<1>1. /\ buf[r] \in DOMAIN size[r] /\ buf[r] \in 1..MaxBuffers
      /\ left[r] \in Nat /\ size[r][buf[r]] \in Nat
  BY SizesBasics, BoundsAssumption DEF TypeInv, TypeOK, BufferOK
<1>2. left[r] > 0 /\ left[r] <= size[r][buf[r]]
  BY DEF ErrorInv, ProducerInterrupted, Locked
<1>3. <<buf[r], size[r][buf[r]]>> \notin accepted[r]
  BY <1>1, <1>2 DEF TakenInv, Behind, InHand
<1>4. QED
  BY <1>1, <1>2, <1>3 DEF Untaken

LEMMA ErrorStep == TypeInv /\ BatchInv /\ TakenInv /\ ErrorInv /\ [Next]_vars => ErrorInv'
<1> SUFFICES ASSUME TypeInv, BatchInv, TakenInv, ErrorInv, [Next]_vars PROVE ErrorInv'
  OBVIOUS
<1>0. Typing
  BY Typed
<1>a. \A r \in Requests : UNCHANGED <<size, accepted>> => (Untaken(r))' = Untaken(r)
  BY DEF Untaken
<1> USE <1>0 DEF Typing, ErrorInv, Early, Before, After, Locked, Copying, BufferOK, At, Goto, handler, client, net, locals
<1>1. ASSUME NEW r \in Requests, Start(r) PROVE ErrorInv'
  BY <1>1, <1>a DEF Start
<1>3. ASSUME NEW r \in Requests, BadRequest(r) PROVE ErrorInv'
  BY <1>3, <1>a DEF BadRequest
<1>4. ASSUME NEW r \in Requests, Decode(r) PROVE ErrorInv'
  BY <1>4, <1>a DEF Decode
<1>5. ASSUME NEW r \in Requests, Skip(r) PROVE ErrorInv'
  BY <1>5, <1>a DEF Skip
<1>6. ASSUME NEW r \in Requests, DryRun(r) PROVE ErrorInv'
  BY <1>6, <1>a DEF DryRun
<1>7. ASSUME NEW r \in Requests, Prepare(r) PROVE ErrorInv'
  <2>1. \A q \in Requests \ {r} : (Untaken(q))' = Untaken(q)
    BY <1>7 DEF Prepare, Untaken
  <2>2. QED
    BY <1>7, <2>1 DEF Prepare
<1>8. ASSUME NEW r \in Requests, Acquire(r) PROVE ErrorInv'
  BY <1>8, <1>a DEF Acquire
<1>9. ASSUME NEW r \in Requests, CheckContext(r) PROVE ErrorInv'
  <2>1. Untaken(r)
    BY <1>9, NotYet DEF CheckContext
  <2>2. QED
    BY <1>9, <1>a, <2>1 DEF CheckContext
<1>10. ASSUME NEW r \in Requests, Reuse(r) PROVE ErrorInv'
  BY <1>10, <1>a DEF Reuse, StartCopy
<1>11. ASSUME NEW r \in Requests, Disconnect(r) PROVE ErrorInv'
  BY <1>11, <1>a DEF Disconnect
<1>12. ASSUME NEW r \in Requests, ReadPipe(r) PROVE ErrorInv'
  BY <1>12, <1>a DEF ReadPipe
<1>13. ASSUME NEW r \in Requests, EndOfPipe(r) PROVE ErrorInv'
  BY <1>13, <1>a DEF EndOfPipe
<1>14. ASSUME NEW r \in Requests, CopyDone(r) PROVE ErrorInv'
  BY <1>14, <1>a DEF CopyDone
<1>15. ASSUME NEW r \in Requests, CopyFailed(r) PROVE ErrorInv'
  BY <1>15, <1>a DEF CopyFailed
<1>16. ASSUME NEW r \in Requests, CloseCon(r) PROVE ErrorInv'
  BY <1>16, <1>a DEF CloseCon
<1>17. ASSUME NEW r \in Requests, Leave(r) PROVE ErrorInv'
  BY <1>17, <1>a DEF Leave
<1>18. ASSUME NEW r \in Requests, Observe(r) PROVE ErrorInv'
  BY <1>18, <1>a DEF Observe, TargetCheck, TargetPanics, TargetReturns
<1>19. ASSUME NEW r \in Requests, Label(r) PROVE ErrorInv'
  BY <1>19, <1>a DEF Label, TargetCheck, TargetPanics, TargetReturns
<1>20. ASSUME NEW r \in Requests, Respond(r) PROVE ErrorInv'
  BY <1>20, <1>a DEF Respond
<1>21. ASSUME NEW r \in Requests, Dial(r) PROVE ErrorInv'
  BY <1>21, <1>a DEF Dial, StartCopy
<1>22. ASSUME NEW r \in Requests, DialFails(r) PROVE ErrorInv'
  <2>1. Untaken(r)
    BY <1>22, NotYet DEF DialFails
  <2>2. QED
    BY <1>22, <1>a, <2>1 DEF DialFails
<1>23. ASSUME NEW r \in Requests, Send(r) PROVE ErrorInv'
  <2>1. \A q \in Requests \ {r} : (Untaken(q))' = Untaken(q)
    BY <1>23 DEF Send, Untaken
  <2>2. QED
    BY <1>23, <2>1 DEF Send
<1>24. ASSUME NEW r \in Requests, SendFails(r) PROVE ErrorInv'
  BY <1>24, <1>a DEF SendFails
<1>25. ASSUME NEW r \in Requests, CompressorFails(r) PROVE ErrorInv'
  BY <1>25, <1>a DEF CompressorFails, Assign
<1>26. ASSUME NEW r \in Requests, ProducerReturns(r) PROVE ErrorInv'
  BY <1>26, <1>a DEF ProducerReturns, Assign
<1>27. ASSUME NEW r \in Requests, ProducerInterrupted(r) PROVE ErrorInv'
  <2>1. pc[r] \in {"closeCon", "leave"} => Untaken(r)
    BY <1>27, Interrupted
  <2>2. QED
    BY <1>27, <1>a, <2>1 DEF ProducerInterrupted, Assign
<1>28. ASSUME NEW r \in Requests, ProducerCloses(r) PROVE ErrorInv'
  BY <1>28, <1>a DEF ProducerCloses
<1>29. CASE UNCHANGED <<pc, size, buf, left, accepted, prod, err, failed>>
  BY <1>29, <1>a
<1>30. ASSUME NEW r \in Requests, Cancel(r) PROVE ErrorInv'
  BY <1>29, <1>30 DEF Cancel
<1>31. CASE ApplyConfig \/ IntervalPasses \/ (\E c \in Conn : PeerLost(c)) \/ Finished
  BY <1>29, <1>31 DEF ApplyConfig, ApplyCalled, ApplyLocked, Shutdown, IntervalPasses,
     PeerLost, Finished, vars
<1>32. CASE UNCHANGED vars
  BY <1>29, <1>32 DEF vars
<1>33. QED
  BY <1>1, <1>3, <1>4, <1>5, <1>6, <1>7, <1>8, <1>9, <1>10, <1>11, <1>12, <1>13, <1>14, <1>15, <1>16, <1>17, <1>18, <1>19, <1>20, <1>21, <1>22, <1>23, <1>24, <1>25, <1>26, <1>27, <1>28, <1>30, <1>31, <1>32 DEF Next, Compute, Network, Producer, Finished

LEMMA ErrorCorrect == Spec => [](TypeInv /\ BatchInv /\ TakenInv /\ ErrorInv)
<1>1. Init => TypeInv /\ BatchInv /\ TakenInv /\ ErrorInv
  BY TypeInit, BatchInit, TakenInit, ErrorInit
<1>2. TypeInv /\ BatchInv /\ TakenInv /\ ErrorInv /\ [Next]_vars
        => (TypeInv /\ BatchInv /\ TakenInv /\ ErrorInv)'
  BY TypeStep, BatchStep, TakenStep, ErrorStep DEF TypeInv
<1>3. QED
  BY <1>1, <1>2, PTL DEF Spec

(* A request that failed_samples_total reports really missed something: an  *)
(* error is only left in err when some chunk of the request was taken by no *)
(* socket, and what the producer of its last buffer assigns later does not  *)
(* change that.                                                             *)
THEOREM FailureIsReal == Spec => []FailedIsNotTaken
<1>1. TypeInv /\ ErrorInv => FailedIsNotTaken
  <2> SUFFICES ASSUME TypeInv, ErrorInv, NEW r \in failed, Chunks(r) # {}
               PROVE  accepted[r] # Chunks(r)
    BY DEF FailedIsNotTaken
  <2>1. r \in Requests /\ Untaken(r)
    BY DEF ErrorInv, TypeInv, TypeOK
  <2>2. \E b \in DOMAIN size[r] : size[r][b] # 0
    BY SizesBasics, <2>1 DEF Chunks, TypeInv, TypeOK
  <2>3. PICK b \in DOMAIN size[r], k \in Nat :
           k \in 1..size[r][b] /\ <<b, k>> \notin accepted[r]
    BY <2>1, <2>2 DEF Untaken
  <2>4. <<b, k>> \in Chunks(r)
    BY <2>3 DEF Chunks
  <2>5. QED
    BY <2>3, <2>4
<1>2. QED
  BY ErrorCorrect, <1>1, PTL

-----------------------------------------------------------------------------
(* A connection is dialed before it is written to, and what its peer got    *)
(* was taken by the socket.                                                 *)
LogInv ==
    /\ carbonCon # NoCon => carbonCon \in dialed
    /\ \A c \in Conn \ dialed : log[c] = <<>>
    /\ \A c \in Conn : \A i \in DOMAIN log[c] :
          <<log[c][i][2], log[c][i][3]>> \in accepted[log[c][i][1]]

LEMMA LogInit == Init => LogInv
  BY NoConAssumption DEF Init, LogInv

(* What Send does to the log of the connection. *)
LEMMA SendLogs ==
    ASSUME TypeOK, NEW r \in Requests, Send(r)
    PROVE  LET x == <<r, buf[r], InHand(r)>> IN
           /\ carbonCon \in Conn
           /\ pc[r] = "send" /\ pc' = [pc EXCEPT ![r] = "copy"]
           /\ accepted' = [accepted EXCEPT ![r] = @ \cup {<<buf[r], InHand(r)>>}]
           /\ UNCHANGED <<cfg, client, gone, dialed, open, size, buf, left, prod, err, apply, sent>>
           /\ \/ /\ log' = log
                 /\ carbonCon \in gone \/ cfg.transport = "udp"
              \/ /\ carbonCon \notin gone
                 /\ DOMAIN log' = Conn
                 /\ \A c \in Conn \ {carbonCon} : log'[c] = log[c]
                 /\ Len(log'[carbonCon]) = Len(log[carbonCon]) + 1
                 /\ DOMAIN log'[carbonCon] = 1..(Len(log[carbonCon]) + 1)
                 /\ \A i \in DOMAIN log[carbonCon] : log'[carbonCon][i] = log[carbonCon][i]
                 /\ log'[carbonCon][Len(log[carbonCon]) + 1] = x
<1> DEFINE x == <<r, buf[r], InHand(r)>>
<1>1. /\ carbonCon \in Conn
      /\ pc[r] = "send" /\ pc' = [pc EXCEPT ![r] = "copy"]
      /\ accepted' = [accepted EXCEPT ![r] = @ \cup {<<buf[r], InHand(r)>>}]
      /\ UNCHANGED <<cfg, client, gone, dialed, open, size, buf, left, prod, err, apply, sent>>
  BY DEF Send, At, Goto, handler, client, locals, TypeOK
<1>2. CASE log' = log /\ (carbonCon \in gone \/ cfg.transport = "udp")
  BY <1>1, <1>2
<1>3. CASE carbonCon \notin gone /\ log' = [log EXCEPT ![carbonCon] = Append(@, x)]
  <2>1. log \in [Conn -> Seq(Requests \X (1..MaxBuffers) \X Nat)]
    BY DEF TypeOK
  <2>2. log'[carbonCon] = Append(log[carbonCon], x)
    BY <1>1, <1>3, <2>1
  <2>3. \A c \in Conn \ {carbonCon} : log'[c] = log[c]
    BY <1>1, <1>3, <2>1
  <2>4. log[carbonCon] \in Seq(Requests \X (1..MaxBuffers) \X Nat)
    BY <1>1, <2>1
  <2>5. /\ Len(log'[carbonCon]) = Len(log[carbonCon]) + 1
        /\ DOMAIN log'[carbonCon] = 1..(Len(log[carbonCon]) + 1)
        /\ \A i \in DOMAIN log[carbonCon] : log'[carbonCon][i] = log[carbonCon][i]
        /\ log'[carbonCon][Len(log[carbonCon]) + 1] = x
    BY <2>2, <2>4, SMTT(20)
  <2>6. DOMAIN log' = Conn
    BY <1>3, <2>1
  <2>7. QED
    BY <1>1, <1>3, <2>3, <2>5, <2>6
<1>4. QED
  BY <1>2, <1>3 DEF Send

LEMMA LogStep == TypeOK /\ LogInv /\ [Next]_vars => LogInv'
<1> SUFFICES ASSUME TypeOK, LogInv, [Next]_vars PROVE LogInv'
  OBVIOUS
<1>0. /\ log \in [Conn -> Seq(Requests \X (1..MaxBuffers) \X Nat)]
      /\ accepted \in [Requests -> SUBSET ((1..MaxBuffers) \X Nat)]
      /\ carbonCon \in Conn \cup {NoCon}
  BY DEF TypeOK
<1> USE NoConAssumption DEF LogInv, At, Goto, handler, client, net, locals
<1>1. ASSUME NEW r \in Requests, Send(r) PROVE LogInv'
  <2>1. \A q \in Requests : accepted[q] \subseteq accepted'[q]
    BY <1>1, <1>0, SendLogs, SMTT(20)
  <2>2. <<buf[r], InHand(r)>> \in accepted'[r]
    BY <1>1, <1>0, SendLogs
  <2>3. carbonCon \in Conn /\ carbonCon \in dialed /\ dialed' = dialed /\ carbonCon' = carbonCon
    BY <1>1, SendLogs
  <2>4. \A c \in Conn : \A i \in DOMAIN log[c] : log[c][i][1] \in Requests
    BY <1>0
  <2>5. CASE log' = log
    BY <2>1, <2>3, <2>4, <2>5
  <2>6. CASE log' # log
    <3>1. /\ \A c \in Conn \ {carbonCon} : log'[c] = log[c]
          /\ DOMAIN log'[carbonCon] = 1..(Len(log[carbonCon]) + 1)
          /\ DOMAIN log[carbonCon] = 1..Len(log[carbonCon])
          /\ Len(log[carbonCon]) \in Nat
          /\ \A i \in DOMAIN log[carbonCon] : log'[carbonCon][i] = log[carbonCon][i]
          /\ log'[carbonCon][Len(log[carbonCon]) + 1] = <<r, buf[r], InHand(r)>>
      BY <1>1, <2>3, <2>6, SendLogs, <1>0
    <3>2. ASSUME NEW i \in DOMAIN log'[carbonCon]
          PROVE  <<log'[carbonCon][i][2], log'[carbonCon][i][3]>>
                    \in accepted'[log'[carbonCon][i][1]]
      <4>1. CASE i \in DOMAIN log[carbonCon]
        BY <2>1, <2>3, <2>4, <3>1, <4>1
      <4>2. CASE i = Len(log[carbonCon]) + 1
        BY <2>2, <3>1, <4>2
      <4>3. QED
        BY <3>1, <4>1, <4>2
    <3>3. QED
      BY <2>1, <2>3, <2>4, <3>1, <3>2, ZenonT(40)
  <2>7. QED
    BY <2>5, <2>6
<1>2. CASE UNCHANGED <<dialed, log, accepted>> /\ carbonCon' \in {carbonCon, NoCon}
  BY <1>2
<1>3. ASSUME NEW r \in Requests, Dial(r) PROVE LogInv'
  BY <1>3 DEF Dial
<1>4. ASSUME NEW r \in Requests,
             \/ Start(r) \/ Cancel(r) \/ BadRequest(r) \/ Decode(r) \/ Skip(r) \/ DryRun(r)
             \/ Prepare(r) \/ Acquire(r) \/ CheckContext(r)
             \/ Reuse(r) \/ Disconnect(r) \/ ReadPipe(r) \/ EndOfPipe(r)
             \/ CopyDone(r) \/ CopyFailed(r) \/ CloseCon(r) \/ Leave(r)
             \/ Observe(r) \/ Label(r) \/ Respond(r) \/ DialFails(r) \/ SendFails(r)
      PROVE  LogInv'
  BY <1>2, <1>4 DEF Start, Cancel, BadRequest, Decode, Skip, DryRun, Prepare, Acquire, CheckContext,
       Reuse, Disconnect, ReadPipe, EndOfPipe, CopyDone, CopyFailed, CloseCon, Leave, Observe,
       Label, Respond, DialFails, SendFails, TargetCheck, TargetPanics, TargetReturns
<1>5. ASSUME NEW r \in Requests, Producer(r) PROVE LogInv'
  BY <1>2, <1>5 DEF Producer, ProducerReturns, ProducerInterrupted,
     CompressorFails, ProducerCloses
<1>6. CASE ApplyConfig \/ IntervalPasses \/ (\E c \in Conn : PeerLost(c)) \/ Finished
  BY <1>2, <1>6 DEF ApplyConfig, ApplyCalled, ApplyLocked, Shutdown, IntervalPasses,
     PeerLost, Finished, vars
<1>7. CASE UNCHANGED vars
  BY <1>2, <1>7 DEF vars
<1>8. QED
  BY <1>1, <1>3, <1>4, <1>5, <1>6, <1>7 DEF Next, Compute, Network

-----------------------------------------------------------------------------
(* The last chunk that went to the connection in use. *)
Ends(x) ==
    /\ Len(log[carbonCon]) > 0
    /\ log[carbonCon][Len(log[carbonCon])] = x

(* Carbon reads a stream, and its end of the connection is there.           *)
Streaming == cfg.transport = "tcp" /\ carbonCon \in Conn /\ carbonCon \notin gone

(* Over TCP, the last chunk on the connection is the one before the next    *)
(* that the request in the critical section will send (unless its           *)
(* compressor has failed), and it stops without an error only when nothing  *)
(* is left.                                                                 *)
StreamInv ==
    Streaming =>
      \A r \in Requests :
        /\ pc[r] = "send" /\ InHand(r) > 1 => Ends(<<r, buf[r], InHand(r) - 1>>)
        /\ pc[r] \in {"copy", "copied"} /\ InHand(r) > 0
           /\ (prod[r] = "writing" \/ cfg.compress = "plain") => Ends(<<r, buf[r], InHand(r)>>)
        /\ pc[r] = "copied" => left[r] = 0
        /\ pc[r] \in {"copy", "send"} /\ cfg.compress = "plain" /\ prod[r] # "writing"
              => left[r] = 0

Torn(x) == x[3] < size[x[1]][x[2]]

(* An incomplete plain buffer at the end of the connection is the one that  *)
(* is being copied.                                                         *)
TornInv ==
    Streaming /\ cfg.compress = "plain" =>
      \A x \in Requests \X (1..MaxBuffers) \X Nat :
         Ends(x) /\ Torn(x) => pc[x[1]] \in Copying /\ x[2] = buf[x[1]]

LEMMA StreamInit == Init => StreamInv /\ TornInv
  BY NoConAssumption DEF Init, StreamInv, TornInv, Streaming

(* What a peer got was handed to the socket by the request it belongs to.   *)
LEMMA Entries ==
    ASSUME TypeOK, LogInv, TakenInv, NEW c \in Conn, NEW i \in DOMAIN log[c]
    PROVE  /\ log[c][i] \in Requests \X (1..MaxBuffers) \X Nat
           /\ Behind(log[c][i][1], log[c][i][2], log[c][i][3])
<1>1. log[c][i] \in Requests \X (1..MaxBuffers) \X Nat
  BY DEF TypeOK
<1>2. <<log[c][i][2], log[c][i][3]>> \in accepted[log[c][i][1]]
  BY DEF LogInv
<1>3. QED
  BY <1>1, <1>2 DEF TakenInv

LEMMA LastEntry ==
    ASSUME TypeOK, LogInv, TakenInv, carbonCon \in Conn,
           NEW x, Ends(x)
    PROVE  /\ x \in Requests \X (1..MaxBuffers) \X Nat
           /\ Behind(x[1], x[2], x[3])
<1>1. log[carbonCon] \in Seq(Requests \X (1..MaxBuffers) \X Nat)
  BY DEF TypeOK
<1>2. Len(log[carbonCon]) \in DOMAIN log[carbonCon]
  BY <1>1 DEF Ends
<1>3. QED
  BY <1>2, Entries DEF Ends

(* After Send, the chunk in hand is the last one of the connection.         *)
LEMMA SendEnds ==
    ASSUME TypeOK, NEW r \in Requests, Send(r), Streaming
    PROVE  \A x : (Ends(x))' <=> x = <<r, buf[r], InHand(r)>>
<1>1. log[carbonCon] \in Seq(Requests \X (1..MaxBuffers) \X Nat) /\ carbonCon' = carbonCon
  BY SendLogs DEF TypeOK, Streaming, client
<1>2. /\ Len(log'[carbonCon]) = Len(log[carbonCon]) + 1
      /\ log'[carbonCon][Len(log[carbonCon]) + 1] = <<r, buf[r], InHand(r)>>
  BY SendLogs DEF Streaming
<1>3. Len(log[carbonCon]) \in Nat
  BY <1>1
<1>4. QED
  BY <1>1, <1>2, <1>3 DEF Ends

LEMMA StreamStep == TypeInv /\ LockInv /\ LogInv /\ StreamInv /\ [Next]_vars => StreamInv'
<1> SUFFICES ASSUME TypeInv, LockInv, LogInv, StreamInv, [Next]_vars, Streaming' PROVE StreamInv'
  BY DEF StreamInv
<1>0. Typing
  BY Typed
<1>b. \A r \in Requests : pc[r] \in Locked <=> lock = r
  BY DEF LockInv
<1>a. ASSUME UNCHANGED <<log, carbonCon>> PROVE \A x : (Ends(x))' <=> Ends(x)
  BY <1>a DEF Ends
<1> USE <1>0, <1>b DEF Typing, Streaming, Before, After, Locked, Copying, BufferOK, InHand, At, Goto, handler, client, net, locals
<1>1. ASSUME NEW r \in Requests, Start(r) PROVE StreamInv'
  BY <1>1, <1>a DEF StreamInv, Start
<1>2. ASSUME NEW r \in Requests, Cancel(r) PROVE StreamInv'
  BY <1>2, <1>a DEF StreamInv, Cancel
<1>3. ASSUME NEW r \in Requests, BadRequest(r) PROVE StreamInv'
  BY <1>3, <1>a DEF StreamInv, BadRequest
<1>4. ASSUME NEW r \in Requests, Decode(r) PROVE StreamInv'
  BY <1>4, <1>a DEF StreamInv, Decode
<1>5. ASSUME NEW r \in Requests, Skip(r) PROVE StreamInv'
  BY <1>5, <1>a DEF StreamInv, Skip
<1>6. ASSUME NEW r \in Requests, DryRun(r) PROVE StreamInv'
  BY <1>6, <1>a DEF StreamInv, DryRun
<1>7. ASSUME NEW r \in Requests, Prepare(r) PROVE StreamInv'
  BY <1>7, <1>a DEF StreamInv, Prepare
<1>8. ASSUME NEW r \in Requests, Acquire(r) PROVE StreamInv'
  BY <1>8, <1>a DEF StreamInv, Acquire
<1>9. ASSUME NEW r \in Requests, CheckContext(r) PROVE StreamInv'
  BY <1>9, <1>a DEF StreamInv, CheckContext
<1>10. ASSUME NEW r \in Requests, Reuse(r) PROVE StreamInv'
  BY <1>10, <1>a DEF StreamInv, Reuse, StartCopy
<1>11. ASSUME NEW r \in Requests, Disconnect(r) \/ DialFails(r) \/ CloseCon(r) PROVE StreamInv'
  BY <1>11, NoConAssumption DEF StreamInv, Disconnect, DialFails, CloseCon
<1>12. ASSUME NEW r \in Requests, ReadPipe(r) PROVE StreamInv'
  <2>1. /\ pc[r] = "copy" /\ prod[r] = "writing"
        /\ pc' = [pc EXCEPT ![r] = "send"] /\ left' = [left EXCEPT ![r] = @ - 1]
        /\ UNCHANGED <<cfg, lock, carbonCon, gone, log, size, buf, prod>>
    BY <1>12 DEF ReadPipe
  <2>2. (InHand(r))' - 1 = InHand(r)
    BY <2>1
  <2>3. InHand(r) > 0 => Ends(<<r, buf[r], InHand(r)>>)
    BY <2>1 DEF StreamInv
  <2>4. \A q \in Requests \ {r} : pc'[q] \notin Locked
    BY <2>1
  <2>5. (InHand(r))' > 1 => (Ends(<<r, buf[r], InHand(r) - 1>>))'
    <3>1. InHand(r) \in Nat /\ (InHand(r))' \in Nat /\ buf' = buf
      BY <2>1
    <3>2. PICK y : y = <<r, buf[r], InHand(r)>>
      OBVIOUS
    <3>3. y = <<r, buf'[r], (InHand(r))' - 1>>
      BY <2>1, <2>2, <3>1, <3>2
    <3>4. InHand(r) > 0 => (Ends(y))'
      BY <1>a, <2>1, <2>3, <3>2
    <3>5. (InHand(r))' > 1 => InHand(r) > 0
      BY <2>2, <3>1
    <3>6. QED
      BY <3>3, <3>4, <3>5
  <2>6. QED
    BY <2>1, <2>4, <2>5 DEF StreamInv
<1>13. ASSUME NEW r \in Requests, EndOfPipe(r) PROVE StreamInv'
  BY <1>13, <1>a DEF StreamInv, EndOfPipe
<1>14. ASSUME NEW r \in Requests, CopyDone(r) PROVE StreamInv'
  BY <1>14, <1>a DEF StreamInv, CopyDone
<1>15. ASSUME NEW r \in Requests, CopyFailed(r) PROVE StreamInv'
  BY <1>15, <1>a DEF StreamInv, CopyFailed
<1>17. ASSUME NEW r \in Requests, Leave(r) PROVE StreamInv'
  BY <1>17, <1>a DEF StreamInv, Leave
<1>18. ASSUME NEW r \in Requests, Observe(r) PROVE StreamInv'
  BY <1>18, <1>a DEF StreamInv, Observe, TargetCheck, TargetPanics, TargetReturns
<1>19. ASSUME NEW r \in Requests, Label(r) PROVE StreamInv'
  BY <1>19, <1>a DEF StreamInv, Label, TargetCheck, TargetPanics, TargetReturns
<1>20. ASSUME NEW r \in Requests, Respond(r) PROVE StreamInv'
  BY <1>20, <1>a DEF StreamInv, Respond
<1>21. ASSUME NEW r \in Requests, Dial(r) PROVE StreamInv'
  BY <1>21 DEF StreamInv, Dial, StartCopy
<1>23. ASSUME NEW r \in Requests, Send(r) PROVE StreamInv'
  <2>1. /\ Streaming
        /\ UNCHANGED <<cfg, lock, size, buf, left, prod>>
        /\ pc[r] = "send" /\ pc' = [pc EXCEPT ![r] = "copy"]
        /\ InHand(r) \in Nat
    BY <1>23, SendLogs
  <2>2. (Ends(<<r, buf[r], InHand(r)>>))'
    BY <1>23, <2>1, SendEnds
  <2>3. \A q \in Requests \ {r} : pc'[q] \notin Locked
    BY <2>1
  <2>4. left[r] < size[r][buf[r]]
    BY <2>1
  <2>6. QED
    BY <2>1, <2>2, <2>3 DEF StreamInv
<1>24. ASSUME NEW r \in Requests, SendFails(r) PROVE StreamInv'
  BY <1>24, <1>a DEF StreamInv, SendFails
<1>25. ASSUME NEW r \in Requests, CompressorFails(r) PROVE StreamInv'
  BY <1>25, <1>a DEF StreamInv, CompressorFails
<1>26. ASSUME NEW r \in Requests, ProducerReturns(r) PROVE StreamInv'
  BY <1>26, <1>a DEF StreamInv, ProducerReturns
<1>27. ASSUME NEW r \in Requests, ProducerInterrupted(r) PROVE StreamInv'
  BY <1>27, <1>a DEF StreamInv, ProducerInterrupted
<1>28. ASSUME NEW r \in Requests, ProducerCloses(r) PROVE StreamInv'
  BY <1>28, <1>a DEF StreamInv, ProducerCloses
<1>29. CASE UNCHANGED <<cfg, pc, size, buf, left, prod, log, carbonCon>> /\ gone \subseteq gone'
  BY <1>29, <1>a DEF StreamInv
<1>30. CASE ApplyConfig
  BY <1>30, <1>29, NoConAssumption DEF ApplyConfig, ApplyCalled, ApplyLocked, Shutdown
<1>31. CASE IntervalPasses \/ (\E c \in Conn : PeerLost(c)) \/ Finished
  BY <1>29, <1>31 DEF IntervalPasses, PeerLost, Finished, vars
<1>32. CASE UNCHANGED vars
  BY <1>29, <1>32 DEF vars
<1>33. QED
  BY <1>1, <1>2, <1>3, <1>4, <1>5, <1>6, <1>7, <1>8, <1>9, <1>10, <1>11, <1>12, <1>13, <1>14, <1>15, <1>17, <1>18, <1>19, <1>20, <1>21, <1>23, <1>24, <1>25, <1>26, <1>27, <1>28, <1>30, <1>31, <1>32 DEF Next, Compute, Network, Producer, Finished

LEMMA TornStep ==
    TypeInv /\ LockInv /\ LogInv /\ TakenInv /\ StreamInv /\ TornInv /\ [Next]_vars => TornInv'
<1> SUFFICES ASSUME TypeInv, LockInv, LogInv, TakenInv, StreamInv, TornInv, [Next]_vars,
                    Streaming', cfg'.compress = "plain",
                    NEW x \in Requests \X (1..MaxBuffers) \X Nat, (Ends(x))', (Torn(x))'
             PROVE  pc'[x[1]] \in Copying /\ x[2] = buf'[x[1]]
  BY DEF TornInv
<1>0. Typing
  BY Typed
<1>b. x[1] \in Requests /\ x[2] \in 1..MaxBuffers /\ x[3] \in Nat
  OBVIOUS
<1>a. ASSUME UNCHANGED <<log, carbonCon>> PROVE Ends(x)
  BY <1>a DEF Ends
<1> USE <1>0, <1>b DEF Typing, Streaming, Torn, At, Goto, handler, client, net, locals
<1>1. CASE UNCHANGED <<cfg, log, carbonCon, size, buf>> /\ gone \subseteq gone'
           /\ (pc[x[1]] \in Copying => pc'[x[1]] \in Copying)
  BY <1>1, <1>a DEF TornInv
<1>2. ASSUME NEW r \in Requests, Send(r) PROVE x[1] = r /\ x[2] = buf[r] /\ buf' = buf /\ pc'[r] = "copy"
  <2>1. Streaming
    BY <1>2, SendLogs
  <2>2. QED
    BY <1>2, <2>1, SendEnds, SendLogs
<1>3. ASSUME NEW r \in Requests, pc[r] = "copied",
             CopyDone(r) \/ CopyFailed(r)
      PROVE  x[1] # r \/ x[2] # buf[r]
  <2>1. UNCHANGED <<cfg, log, carbonCon, size, gone>>
    BY <1>3 DEF CopyDone, CopyFailed
  <2>2. Ends(x) /\ Torn(x) /\ Streaming
    BY <2>1, <1>a
  <2>3. left[r] = 0 /\ (InHand(r) > 0 => Ends(<<r, buf[r], InHand(r)>>))
    BY <1>3, <2>1, <2>2 DEF StreamInv
  <2>4. ASSUME x[1] = r, x[2] = buf[r] PROVE FALSE
    <3>1. Behind(r, buf[r], x[3])
      BY <2>2, <2>4, LastEntry
    <3>2. x[3] \in 1..size[r][buf[r]]
      BY <3>1 DEF Behind
    <3>3. buf[r] \in DOMAIN size[r]
      BY DEF TypeInv, BufferOK
    <3>4. InHand(r) = size[r][buf[r]]
      BY <2>3, <3>3 DEF InHand
    <3>5. Ends(<<r, buf[r], size[r][buf[r]]>>)
      BY <2>3, <3>2, <3>3, <3>4
    <3>6. x = <<r, buf[r], size[r][buf[r]]>>
      BY <2>2, <3>5 DEF Ends
    <3>7. QED
      BY <2>2, <3>3, <3>6
  <2>5. QED
    BY <2>4
<1>4. ASSUME NEW r \in Requests, CopyDone(r) PROVE pc'[x[1]] \in Copying /\ x[2] = buf'[x[1]]
  <2>1. pc[r] = "copied" /\ UNCHANGED <<cfg, log, carbonCon, size, gone>>
    BY <1>4 DEF CopyDone
  <2>2. pc[x[1]] \in Copying /\ x[2] = buf[x[1]]
    BY <2>1, <1>a DEF TornInv
  <2>3. x[1] # r
    BY <1>3, <1>4, <2>1, <2>2
  <2>4. QED
    BY <1>4, <2>2, <2>3 DEF CopyDone
<1>5. ASSUME NEW r \in Requests, CopyFailed(r) PROVE pc'[x[1]] \in Copying /\ x[2] = buf'[x[1]]
  <2>1. pc[r] = "copied" /\ UNCHANGED <<cfg, log, carbonCon, size, gone, buf>>
    BY <1>5 DEF CopyFailed
  <2>2. pc[x[1]] \in Copying /\ x[2] = buf[x[1]]
    BY <2>1, <1>a DEF TornInv
  <2>3. x[1] # r
    BY <1>3, <1>5, <2>1, <2>2
  <2>4. QED
    BY <1>5, <2>1, <2>2, <2>3 DEF CopyFailed
<1>6. ASSUME NEW r \in Requests, Prepare(r) PROVE pc'[x[1]] \in Copying /\ x[2] = buf'[x[1]]
  <2>1. /\ pc[r] = "prepare" /\ pc' = [pc EXCEPT ![r] = "acquire"]
        /\ UNCHANGED <<cfg, log, carbonCon, gone, buf>>
        /\ \A q \in Requests \ {r} : size'[q] = size[q]
    BY <1>6 DEF Prepare
  <2>2. Behind(x[1], x[2], x[3])
    BY <2>1, <1>a, LastEntry
  <2>3. x[1] # r
    BY <2>1, <2>2 DEF Behind, Early, Before
  <2>4. QED
    BY <2>1, <2>3, <1>a DEF TornInv
<1>7. ASSUME NEW r \in Requests, Dial(r) PROVE FALSE
  <2>1. carbonCon' \in Conn \ dialed /\ log' = log
    BY <1>7 DEF Dial
  <2>2. log'[carbonCon'] = <<>>
    BY <2>1 DEF LogInv
  <2>3. QED
    BY <2>2 DEF Ends
<1>8. CASE carbonCon' = NoCon
  BY <1>8, NoConAssumption
<1>9. ASSUME NEW r \in Requests,
             \/ Start(r) \/ Cancel(r) \/ BadRequest(r) \/ Decode(r) \/ Skip(r) \/ DryRun(r)
             \/ Acquire(r) \/ CheckContext(r) \/ Reuse(r) \/ ReadPipe(r) \/ EndOfPipe(r)
             \/ Leave(r) \/ Observe(r) \/ Label(r) \/ Respond(r) \/ SendFails(r)
      PROVE  pc'[x[1]] \in Copying /\ x[2] = buf'[x[1]]
  <2>1. /\ UNCHANGED <<cfg, log, carbonCon, size, buf, gone>>
        /\ pc[x[1]] \in Copying => pc'[x[1]] \in Copying
    BY <1>9 DEF Start, Cancel, BadRequest, Decode, Skip, DryRun, Acquire, CheckContext, Before,
       Reuse, StartCopy, ReadPipe, EndOfPipe, Leave, Observe, Label, Respond, SendFails,
       TargetCheck, TargetPanics, TargetReturns, Copying
  <2>2. QED
    BY <1>1, <2>1
<1>10. ASSUME NEW r \in Requests, Disconnect(r) \/ CloseCon(r) \/ DialFails(r)
      PROVE  pc'[x[1]] \in Copying /\ x[2] = buf'[x[1]]
  BY <1>8, <1>10 DEF Disconnect, CloseCon, DialFails
<1>11. ASSUME NEW r \in Requests, Producer(r) PROVE pc'[x[1]] \in Copying /\ x[2] = buf'[x[1]]
  BY <1>1, <1>11 DEF Producer, ProducerReturns, ProducerInterrupted,
     CompressorFails, ProducerCloses
<1>12. CASE ApplyConfig
  BY <1>1, <1>8, <1>12 DEF ApplyConfig, ApplyCalled, ApplyLocked, Shutdown
<1>13. CASE IntervalPasses \/ (\E c \in Conn : PeerLost(c)) \/ Finished \/ UNCHANGED vars
  BY <1>1, <1>13 DEF IntervalPasses, PeerLost, Finished, vars
<1>14. ASSUME NEW r \in Requests, Send(r) PROVE pc'[x[1]] \in Copying /\ x[2] = buf'[x[1]]
  BY <1>2, <1>14 DEF Copying
<1>15. QED
  BY <1>4, <1>5, <1>6, <1>7, <1>9, <1>10, <1>11, <1>12, <1>13, <1>14 DEF Next, Compute, Network

-----------------------------------------------------------------------------
(* The three parts of WireIntegrity.                                        *)
InOrder(l) == \A i \in DOMAIN l : l[i][3] > 1 => i > 1 /\ l[i] = NextChunk(l[i-1])
NoRepeat(l) == \A i, j \in DOMAIN l : l[i] = l[j] => i = j
Whole(l, s) ==
    \A i \in 1..(Len(l) - 1) : l[i][3] < s[l[i][1]][l[i][2]] => l[i+1] = NextChunk(l[i])

LEMMA WireParts ==
    WireIntegrity <=>
       \A c \in Conn : /\ cfg.transport = "tcp" \/ cfg.compress = "plain" => InOrder(log[c])
                       /\ NoRepeat(log[c])
                       /\ cfg.compress = "plain" => Whole(log[c], size)
  BY DEF WireIntegrity, InOrder, NoRepeat, Whole

WireInv == TypeInv /\ LockInv /\ BatchInv /\ TakenInv /\ LogInv /\ StreamInv /\ TornInv

(* A chunk that is sent extends the log in the right order.                 *)
LEMMA WireSend ==
    ASSUME WireInv, WireIntegrity, NEW r \in Requests, Send(r) PROVE WireIntegrity'
<1> DEFINE l == log[carbonCon]
           m == log'[carbonCon]
           n == Len(l)
           x == <<r, buf[r], InHand(r)>>
<1>1. /\ carbonCon \in Conn
      /\ pc[r] = "send"
      /\ UNCHANGED <<cfg, carbonCon, size>>
      /\ buf[r] \in DOMAIN size[r] /\ buf[r] \in 1..MaxBuffers
      /\ size[r][buf[r]] \in Nat /\ InHand(r) \in Nat
      /\ InHand(r) >= 1 /\ InHand(r) <= size[r][buf[r]]
      /\ cfg \in Configs
  <2>1. /\ carbonCon \in Conn
        /\ pc[r] = "send"
        /\ UNCHANGED <<cfg, carbonCon, size>>
    BY SendLogs DEF WireInv, TypeInv, client
  <2>2. buf[r] \in DOMAIN size[r] /\ buf[r] \in 1..MaxBuffers /\ size[r][buf[r]] \in Nat /\ left[r] \in Nat
    BY SizesBasics, BoundsAssumption DEF WireInv, TypeInv, TypeOK, BufferOK
  <2>3. left[r] < size[r][buf[r]]
    BY <2>1 DEF WireInv, TypeInv, BufferOK
  <2>4. QED
    BY <2>1, <2>2, <2>3 DEF InHand, WireInv, TypeInv, TypeOK
<1>2. CASE log' = log
  BY <1>1, <1>2 DEF WireIntegrity
<1>3. CASE log' # log
  <2>1. /\ carbonCon \notin gone
        /\ \A c \in Conn \ {carbonCon} : log'[c] = log[c]
        /\ Len(m) = n + 1
        /\ DOMAIN m = 1..(n + 1)
        /\ \A i \in DOMAIN l : m[i] = l[i]
        /\ m[n + 1] = x
    BY <1>3, SendLogs DEF WireInv, TypeInv
  <2>2. l \in Seq(Requests \X (1..MaxBuffers) \X Nat) /\ n \in Nat /\ DOMAIN l = 1..n /\ n = Len(l)
    BY <1>1 DEF WireInv, TypeInv, TypeOK
  <2>3. \A i \in 1..n : l[i] # x
    <3>1. <<buf[r], InHand(r)>> \notin accepted[r]
      BY <1>1 DEF WireInv, TakenInv, Behind
    <3>2. ASSUME NEW i \in 1..n PROVE <<l[i][2], l[i][3]>> \in accepted[l[i][1]]
      BY <1>1, <2>2 DEF WireInv, LogInv
    <3>3. QED
      BY <3>1, <3>2
  <2>4. cfg.transport = "tcp" \/ cfg.transport = "udp"
    BY <1>1, ConfigsAssumption
  <2>5. ASSUME cfg.transport = "udp", cfg.compress = "plain" PROVE InHand(r) = 1
    BY <1>1, <2>5 DEF WireInv, BatchInv
  <2>6. ASSUME cfg.transport = "tcp", InHand(r) > 1
        PROVE  n > 0 /\ l[n] = <<r, buf[r], InHand(r) - 1>>
    BY <1>1, <2>1, <2>6 DEF WireInv, StreamInv, Streaming, Ends
  <2> HIDE DEF l, m, n
  <2>7. ASSUME cfg.transport = "tcp" \/ cfg.compress = "plain", InOrder(l) PROVE InOrder(m)
    <3>1. ASSUME NEW i \in 1..n, m[i][3] > 1 PROVE i > 1 /\ m[i] = NextChunk(m[i-1])
      <4>1. i > 1 /\ l[i] = NextChunk(l[i-1])
        BY <2>1, <2>2, <2>7, <3>1 DEF InOrder
      <4>2. i - 1 \in 1..n
        BY <2>2, <4>1
      <4>3. QED
        BY <2>1, <2>2, <4>1, <4>2
    <3>2. ASSUME m[n+1][3] > 1 PROVE n + 1 > 1 /\ m[n+1] = NextChunk(m[n])
      <4>1. InHand(r) > 1
        BY <2>1, <3>2
      <4>2. cfg.transport = "tcp"
        BY <2>4, <2>5, <2>7, <4>1
      <4>3. n > 0 /\ l[n] = <<r, buf[r], InHand(r) - 1>>
        BY <2>6, <4>1, <4>2
      <4>4. m[n] = l[n]
        <5>1. n \in 1..n
          BY <2>2, <4>3
        <5>2. QED
          BY <2>1, <2>2, <5>1
      <4>5. QED
        BY <1>1, <2>1, <2>2, <4>3, <4>4 DEF NextChunk
    <3>3. ASSUME NEW i \in DOMAIN m, m[i][3] > 1 PROVE i > 1 /\ m[i] = NextChunk(m[i-1])
      <4>1. i \in 1..n \/ i = n + 1
        BY <2>1, <2>2, <3>3
      <4>2. CASE i \in 1..n
        BY <3>1, <3>3, <4>2
      <4>3. CASE i = n + 1
        <5>1. i - 1 = n
          BY <2>2, <4>3
        <5>2. QED
          BY <3>2, <3>3, <4>3, <5>1
      <4>4. QED
        BY <4>1, <4>2, <4>3
    <3>4. QED
      BY <3>3 DEF InOrder
  <2>8. ASSUME NoRepeat(l) PROVE NoRepeat(m)
    <3>1. ASSUME NEW i \in DOMAIN m, NEW j \in DOMAIN m, m[i] = m[j] PROVE i = j
      <4>1. (i \in 1..n \/ i = n + 1) /\ (j \in 1..n \/ j = n + 1)
        BY <2>1, <2>2
      <4>2. CASE i \in 1..n /\ j \in 1..n
        BY <2>1, <2>2, <2>8, <3>1, <4>2 DEF NoRepeat
      <4>3. CASE i \in 1..n /\ j = n + 1
        BY <2>1, <2>2, <2>3, <3>1, <4>3
      <4>4. CASE i = n + 1 /\ j \in 1..n
        BY <2>1, <2>2, <2>3, <3>1, <4>4
      <4>5. QED
        BY <4>1, <4>2, <4>3, <4>4
    <3>2. QED
      BY <3>1 DEF NoRepeat
  <2>9. ASSUME cfg.compress = "plain", Whole(l, size) PROVE Whole(m, size)
    <3>1. ASSUME NEW i \in 1..n, m[i][3] < size[m[i][1]][m[i][2]] PROVE m[i+1] = NextChunk(m[i])
      <4>1. CASE i < n
        <5>1. i \in 1..(n - 1) /\ i + 1 \in 1..n
          BY <2>2, <4>1
        <5>2. l[i+1] = NextChunk(l[i])
          BY <2>1, <2>2, <2>9, <3>1, <5>1 DEF Whole
        <5>3. QED
          BY <2>1, <2>2, <5>1, <5>2
      <4>2. CASE i = n
        <5>0. n \in 1..n
          BY <3>1, <4>2
        <5>1. Ends(l[n])
          BY <2>2, <5>0 DEF Ends, l, n
        <5>1a. l[n] = m[n] /\ Torn(l[n])
          BY <2>1, <2>2, <3>1, <4>2, <5>0 DEF Torn
        <5>2. /\ l[n] \in Requests \X (1..MaxBuffers) \X Nat
              /\ Behind(l[n][1], l[n][2], l[n][3])
          BY <1>1, <5>1, LastEntry DEF WireInv, TypeInv
        <5>3. PICK q \in Requests, b \in 1..MaxBuffers, k \in Nat : l[n] = <<q, b, k>>
          BY <5>2
        <5>4. Behind(q, b, k) /\ k < size[q][b]
          BY <5>1a, <5>2, <5>3 DEF Torn
        <5>5. k >= 1 /\ b \in DOMAIN size[q] /\ size[q][b] \in Nat
          BY <5>4, SizesBasics, BoundsAssumption DEF Behind, WireInv, TypeInv, TypeOK
        <5>6. cfg.transport = "tcp"
          BY <2>4, <2>9, <5>4, <5>5 DEF WireInv, BatchInv
        <5>7. pc[q] \in Copying /\ b = buf[q]
          BY <1>1, <2>1, <2>9, <5>1, <5>1a, <5>2, <5>3, <5>6 DEF WireInv, TornInv, Streaming
        <5>8. q = r
          BY <1>1, <5>7 DEF WireInv, LockInv, Locked, Copying
        <5>9. k < InHand(r)
          BY <1>1, <5>4, <5>7, <5>8 DEF Behind
        <5>10. l[n] = <<r, buf[r], InHand(r) - 1>>
          BY <1>1, <2>6, <5>5, <5>6, <5>9
        <5>11. QED
          BY <1>1, <2>1, <4>2, <5>1a, <5>10 DEF NextChunk
      <4>3. i < n \/ i = n
        <5>1. n \in Nat /\ i \in 1..n
          BY <2>2
        <5>2. QED
          BY <5>1
      <4>4. QED
        BY <4>1, <4>2, <4>3
    <3>2. Len(m) - 1 = n
      BY <2>1, <2>2
    <3>3. QED
      BY <3>1, <3>2 DEF Whole
  <2>10. \A c \in Conn :
            /\ cfg.transport = "tcp" \/ cfg.compress = "plain" => InOrder(log[c])
            /\ NoRepeat(log[c])
            /\ cfg.compress = "plain" => Whole(log[c], size)
    BY WireParts
  <2>11. ASSUME NEW c \in Conn
         PROVE  /\ cfg'.transport = "tcp" \/ cfg'.compress = "plain" => InOrder(log'[c])
                /\ NoRepeat(log'[c])
                /\ cfg'.compress = "plain" => Whole(log'[c], size')
    <3>1. cfg' = cfg /\ size' = size
      BY <1>1
    <3>2. CASE c = carbonCon
      <4>1. m = log'[c] /\ l = log[c]
        BY <3>2 DEF l, m
      <4>2. cfg.transport = "tcp" \/ cfg.compress = "plain" => InOrder(m)
        BY <2>7, <2>10, <2>11, <4>1, Zenon
      <4>3. NoRepeat(m)
        BY <2>8, <2>10, <2>11, <4>1, Zenon
      <4>4. cfg.compress = "plain" => Whole(m, size)
        BY <2>9, <2>10, <2>11, <4>1, Zenon
      <4>5. QED
        BY <3>1, <4>1, <4>2, <4>3, <4>4, Zenon
    <3>3. CASE c # carbonCon
      <4>1. log'[c] = log[c]
        BY <2>1, <3>3
      <4>2. QED
        BY <2>10, <2>11, <3>1, <4>1, Zenon
    <3>4. QED
      BY <3>2, <3>3
  <2>12. QED
    BY <2>11 DEF WireIntegrity, InOrder, NoRepeat, Whole
<1>4. QED
  BY <1>2, <1>3

LEMMA WireStep == WireInv /\ WireIntegrity /\ [Next]_vars => WireIntegrity'
<1> SUFFICES ASSUME WireInv, WireIntegrity, [Next]_vars PROVE WireIntegrity'
  OBVIOUS
<1> USE DEF handler, client, net, locals
<1>1. CASE UNCHANGED <<cfg, log, size>>
  BY <1>1 DEF WireIntegrity
<1>2. ASSUME NEW r \in Requests, Prepare(r) PROVE WireIntegrity'
  <2>1. /\ pc[r] = "prepare"
        /\ UNCHANGED <<cfg, log>>
        /\ \A q \in Requests \ {r} : size'[q] = size[q]
    BY <1>2 DEF Prepare, At, WireInv, TypeInv, TypeOK
  <2>2. \A c \in Conn : \A i \in DOMAIN log[c] : log[c][i][1] \in Requests \ {r}
    BY <2>1, Entries DEF WireInv, TypeInv, Behind, Early, Before
  <2>3. \A c \in Conn : log[c] \in Seq(Requests \X (1..MaxBuffers) \X Nat)
    BY DEF WireInv, TypeInv, TypeOK
  <2>4. \A c \in Conn : \A i \in 1..(Len(log[c]) - 1) : i \in DOMAIN log[c]
    BY <2>3
  <2>5. QED
    BY <2>1, <2>2, <2>4 DEF WireIntegrity
<1>3. ASSUME NEW r \in Requests,
             \/ Start(r) \/ Cancel(r) \/ BadRequest(r) \/ Decode(r) \/ Skip(r) \/ DryRun(r)
             \/ Acquire(r) \/ CheckContext(r)
             \/ Reuse(r) \/ Disconnect(r) \/ ReadPipe(r) \/ EndOfPipe(r)
             \/ CopyDone(r) \/ CopyFailed(r) \/ CloseCon(r) \/ Leave(r)
             \/ Observe(r) \/ Label(r) \/ Respond(r) \/ Dial(r) \/ DialFails(r) \/ SendFails(r)
      PROVE  WireIntegrity'
  BY <1>1, <1>3 DEF Start, Cancel, BadRequest, Decode, Skip, DryRun, Acquire, CheckContext,
       Reuse, Disconnect, ReadPipe, EndOfPipe, CopyDone, CopyFailed, CloseCon, Leave, Observe,
       Label, Respond, Dial, DialFails, SendFails, TargetCheck, TargetPanics, TargetReturns
<1>4. ASSUME NEW r \in Requests, Producer(r) PROVE WireIntegrity'
  BY <1>1, <1>4 DEF Producer, ProducerReturns, ProducerInterrupted,
     CompressorFails, ProducerCloses
<1>5. CASE ApplyConfig \/ IntervalPasses \/ (\E c \in Conn : PeerLost(c)) \/ Finished
  BY <1>1, <1>5 DEF ApplyConfig, ApplyCalled, ApplyLocked, Shutdown, IntervalPasses,
     PeerLost, Finished, vars
<1>6. CASE UNCHANGED vars
  BY <1>1, <1>6 DEF vars
<1>7. QED
  BY <1>2, <1>3, <1>4, <1>5, <1>6, WireSend DEF Next, Compute, Network

(* What a peer reads on one connection is whole buffers, one after the      *)
(* other, whatever requests, dials, failures and producer goroutines are in *)
(* progress.                                                                *)
THEOREM WireKept == Spec => []WireIntegrity
<1>1. Init => WireInv /\ WireIntegrity
  <2>1. Init => WireIntegrity
    BY DEF Init, WireIntegrity
  <2>2. QED
    BY <2>1, TypeInit, LockInit, BatchInit, TakenInit, LogInit, StreamInit DEF WireInv
<1>2. WireInv /\ WireIntegrity /\ [Next]_vars => WireInv' /\ WireIntegrity'
  BY TypeStep, LockStep, BatchStep, TakenStep, LogStep, StreamStep, TornStep, WireStep DEF WireInv, TypeInv
<1>3. QED
  BY <1>1, <1>2, PTL DEF Spec

-----------------------------------------------------------------------------
(* Some peer got chunk k of buffer b. *)
Got(r, b, k) == \E c \in Conn : \E i \in DOMAIN log[c] : log[c][i] = <<r, b, k>>

(* The peers got everything of a request.                                   *)
AllGot(r) == \A b \in DOMAIN size[r] : \A k \in 1..size[r][b] : Got(r, b, k)

(* The case in which the counters can be exact: no peer is lost, nothing is *)
(* compressed, and the transport is reliable.                               *)
Faultless == cfg.transport = "tcp" /\ cfg.compress = "plain" /\ gone = {}

(* The chunks that have been sent have arrived, and the copy ends without   *)
(* an error only when all of them were.                                     *)
DeliveredInv ==
    Faultless =>
      \A r \in Requests :
        /\ pc[r] # "closeCon"
        /\ pc[r] = "copied" => err[r] = "nil" /\ left[r] = 0
        /\ pc[r] = "leave" => prod[r] # "writing"
        /\ pc[r] \in {"copy", "send"} /\ prod[r] # "writing" => left[r] = 0
        /\ pc[r] \in {"copy", "copied"} => \A k \in 1..InHand(r) : Got(r, buf[r], k)
        /\ pc[r] = "send" => \A k \in 1..(InHand(r) - 1) : Got(r, buf[r], k)
        /\ pc[r] \in {"leave"} \cup After /\ err[r] = "nil" => AllGot(r)
        /\ r \in sent => pc[r] = "done" /\ AllGot(r)

LEMMA DeliveredInit == Init => DeliveredInv
  BY DEF Init, DeliveredInv, After

(* What a peer got is never taken back.                                     *)
LEMMA GotStays ==
    ASSUME TypeOK, [Next]_vars, NEW r \in Requests, NEW b, NEW k, Got(r, b, k)
    PROVE  Got(r, b, k)'
<1> USE DEF handler, client, net, locals
<1>1. CASE log' = log
  BY <1>1 DEF Got
<1>2. ASSUME NEW q \in Requests, Send(q) PROVE Got(r, b, k)'
  <2>1. \A c \in Conn : \A i \in DOMAIN log[c] : i \in DOMAIN log'[c] /\ log'[c][i] = log[c][i]
    <3>1. CASE log' = log
      BY <3>1
    <3>2. CASE log' # log
      <4>1. /\ carbonCon \in Conn
            /\ \A c \in Conn \ {carbonCon} : log'[c] = log[c]
            /\ DOMAIN log'[carbonCon] = 1..(Len(log[carbonCon]) + 1)
            /\ \A i \in DOMAIN log[carbonCon] : log'[carbonCon][i] = log[carbonCon][i]
        BY <1>2, <3>2, SendLogs
      <4>2. DOMAIN log[carbonCon] = 1..Len(log[carbonCon]) /\ Len(log[carbonCon]) \in Nat
        BY <4>1 DEF TypeOK
      <4>3. QED
        BY <4>1, <4>2
    <3>3. QED
      BY <3>1, <3>2
  <2>2. QED
    BY <2>1 DEF Got
<1>3. ASSUME NEW q \in Requests,
             \/ Start(q) \/ Cancel(q) \/ BadRequest(q) \/ Decode(q) \/ Skip(q) \/ DryRun(q)
             \/ Prepare(q) \/ Acquire(q) \/ CheckContext(q)
             \/ Reuse(q) \/ Disconnect(q) \/ ReadPipe(q) \/ EndOfPipe(q)
             \/ CopyDone(q) \/ CopyFailed(q) \/ CloseCon(q) \/ Leave(q)
             \/ Observe(q) \/ Label(q) \/ Respond(q) \/ Dial(q) \/ DialFails(q) \/ SendFails(q)
      PROVE  log' = log
  BY <1>3 DEF Start, Cancel, BadRequest, Decode, Skip, DryRun, Prepare, Acquire, CheckContext,
       Reuse, Disconnect, ReadPipe, EndOfPipe, CopyDone, CopyFailed, CloseCon, Leave, Observe,
       Label, Respond, Dial, DialFails, SendFails, TargetCheck, TargetPanics, TargetReturns
<1>4. ASSUME NEW q \in Requests, Producer(q) PROVE log' = log
  BY <1>4 DEF Producer, ProducerReturns, ProducerInterrupted,
     CompressorFails, ProducerCloses
<1>5. CASE ApplyConfig \/ IntervalPasses \/ (\E c \in Conn : PeerLost(c)) \/ Finished
  BY <1>1, <1>5 DEF ApplyConfig, ApplyCalled, ApplyLocked, Shutdown, IntervalPasses,
     PeerLost, Finished, vars
<1>6. CASE UNCHANGED vars
  BY <1>1, <1>6 DEF vars
<1>7. QED
  BY <1>1, <1>2, <1>3, <1>4, <1>5, <1>6 DEF Next, Compute, Network

LEMMA DeliveredStep ==
    TypeInv /\ BatchInv /\ ErrorInv /\ DeliveredInv /\ [Next]_vars => DeliveredInv'
<1> SUFFICES ASSUME TypeInv, BatchInv, ErrorInv, DeliveredInv, [Next]_vars, Faultless'
             PROVE  DeliveredInv'
  BY DEF DeliveredInv
<1>0. Typing
  BY Typed
<1>a. \A r \in Requests : \A b, k : Got(r, b, k) => Got(r, b, k)'
  BY <1>0, GotStays DEF Typing
<1>b. size' = size => \A r \in Requests : AllGot(r) => AllGot(r)'
  BY <1>a DEF AllGot
<1> USE <1>0 DEF Typing, Faultless, DeliveredInv, Before, After, BufferOK, InHand, At, Goto, handler, client, net, locals
<1>1. ASSUME NEW r \in Requests, Start(r) PROVE DeliveredInv'
  BY <1>1, <1>a, <1>b DEF Start
<1>2. ASSUME NEW r \in Requests, Cancel(r) PROVE DeliveredInv'
  BY <1>2, <1>a, <1>b DEF Cancel
<1>3. ASSUME NEW r \in Requests, BadRequest(r) PROVE DeliveredInv'
  BY <1>3, <1>a, <1>b DEF BadRequest
<1>4. ASSUME NEW r \in Requests, Decode(r) PROVE DeliveredInv'
  BY <1>4, <1>a, <1>b DEF Decode
<1>5. ASSUME NEW r \in Requests, Skip(r) \/ DryRun(r) PROVE DeliveredInv'
  <2>1. pc[r] = "prepare" /\ size' = size /\ (AllGot(r))'
    BY <1>5 DEF Skip, DryRun, BatchInv, AllGot
  <2>2. QED
    BY <1>5, <1>a, <1>b, <2>1 DEF Skip, DryRun
<1>7. ASSUME NEW r \in Requests, Prepare(r) PROVE DeliveredInv'
  <2>1. \A q \in Requests \ {r} : AllGot(q) => AllGot(q)'
    BY <1>7, <1>a DEF Prepare, AllGot
  <2>2. QED
    BY <1>7, <1>a, <2>1 DEF Prepare
<1>8. ASSUME NEW r \in Requests, Acquire(r) PROVE DeliveredInv'
  BY <1>8, <1>a, <1>b DEF Acquire
<1>9. ASSUME NEW r \in Requests, CheckContext(r) PROVE DeliveredInv'
  BY <1>9, <1>a, <1>b DEF CheckContext, ErrorInv, Early
<1>10. ASSUME NEW r \in Requests, Reuse(r) PROVE DeliveredInv'
  BY <1>10, <1>a, <1>b DEF Reuse, StartCopy
<1>11. ASSUME NEW r \in Requests, Disconnect(r) PROVE DeliveredInv'
  BY <1>11, <1>a, <1>b DEF Disconnect
<1>12. ASSUME NEW r \in Requests, ReadPipe(r) PROVE DeliveredInv'
  <2>1. (InHand(r))' - 1 = InHand(r)
    BY <1>12 DEF ReadPipe
  <2>2. QED
    BY <1>12, <1>a, <1>b, <2>1 DEF ReadPipe
<1>13. ASSUME NEW r \in Requests, EndOfPipe(r) PROVE DeliveredInv'
  BY <1>13, <1>a, <1>b DEF EndOfPipe
<1>14. ASSUME NEW r \in Requests, CopyDone(r) PROVE DeliveredInv'
  <2>1. pc[r] = "copied" /\ left[r] = 0 /\ prod[r] # "writing" /\ err[r] = "nil" /\ UNCHANGED <<cfg, size, gone>>
    BY <1>14 DEF CopyDone, ErrorInv
  <2>2. DOMAIN size[r] = {1} /\ buf[r] = 1
    BY <2>1 DEF BatchInv
  <2>3. InHand(r) = size[r][1]
    BY <2>1, <2>2
  <2>4. AllGot(r)
    BY <2>1, <2>2, <2>3 DEF AllGot
  <2>5. pc' = [pc EXCEPT ![r] = "leave"]
    BY <1>14, <2>2 DEF CopyDone
  <2>6. QED
    BY <1>14, <1>a, <1>b, <2>1, <2>4, <2>5 DEF CopyDone
<1>15. ASSUME NEW r \in Requests, CopyFailed(r) PROVE DeliveredInv'
  BY <1>15, <1>a, <1>b DEF CopyFailed
<1>16. ASSUME NEW r \in Requests, CloseCon(r) PROVE DeliveredInv'
  BY <1>16, <1>a, <1>b DEF CloseCon
<1>17. ASSUME NEW r \in Requests, Leave(r) PROVE DeliveredInv'
  BY <1>17, <1>a, <1>b DEF Leave
<1>18. ASSUME NEW r \in Requests, Observe(r) PROVE DeliveredInv'
  BY <1>18, <1>a, <1>b DEF Observe, TargetCheck, TargetPanics, TargetReturns
<1>19. ASSUME NEW r \in Requests, Label(r) PROVE DeliveredInv'
  BY <1>19, <1>a, <1>b DEF Label, TargetCheck, TargetPanics, TargetReturns
<1>20. ASSUME NEW r \in Requests, Respond(r) PROVE DeliveredInv'
  BY <1>20, <1>a, <1>b DEF Respond
<1>21. ASSUME NEW r \in Requests, Dial(r) PROVE DeliveredInv'
  BY <1>21, <1>a, <1>b DEF Dial, StartCopy
<1>22. ASSUME NEW r \in Requests, DialFails(r) PROVE DeliveredInv'
  BY <1>22, <1>a, <1>b DEF DialFails, ErrorInv
<1>23. ASSUME NEW r \in Requests, Send(r) PROVE DeliveredInv'
  <2>1. /\ Faultless
        /\ UNCHANGED <<cfg, lock, size, buf, left, prod, sent, err>>
        /\ pc[r] = "send" /\ pc' = [pc EXCEPT ![r] = "copy"]
    BY <1>23, SendLogs
  <2>2. (Got(r, buf[r], InHand(r)))'
    <3>1. /\ carbonCon \in Conn
          /\ DOMAIN log'[carbonCon] = 1..(Len(log[carbonCon]) + 1)
          /\ log'[carbonCon][Len(log[carbonCon]) + 1] = <<r, buf[r], InHand(r)>>
      BY <1>23, <2>1, SendLogs
    <3>2. Len(log[carbonCon]) \in Nat
      BY <3>1 DEF TypeOK
    <3>3. Len(log[carbonCon]) + 1 \in DOMAIN log'[carbonCon]
      BY <3>1, <3>2
    <3>4. (InHand(r))' = InHand(r) /\ buf' = buf
      BY <2>1
    <3>5. \E i \in DOMAIN log'[carbonCon] : log'[carbonCon][i] = <<r, buf'[r], (InHand(r))'>>
      BY <3>1, <3>3, <3>4
    <3>6. QED
      BY <3>1, <3>5, Zenon DEF Got
  <2>3. ASSUME NEW k \in 1..InHand(r) PROVE k \in 1..(InHand(r) - 1) \/ k = InHand(r)
    <3>1. InHand(r) = size[r][buf[r]] - left[r] /\ left[r] < size[r][buf[r]]
      BY <2>1
    <3>2. size[r][buf[r]] \in Nat /\ left[r] \in Nat
      OBVIOUS
    <3>3. QED
      BY <3>1, <3>2, SMTT(20)
  <2>4. \A k \in 1..InHand(r) : (Got(r, buf[r], k))'
    BY <1>a, <2>1, <2>2, <2>3
  <2>5. QED
    BY <1>a, <1>b, <2>1, <2>4
<1>24. ASSUME NEW r \in Requests, SendFails(r) PROVE DeliveredInv'
  BY <1>24, <1>a, <1>b DEF SendFails
<1>25. ASSUME NEW r \in Requests, CompressorFails(r) PROVE DeliveredInv'
  BY <1>25, <1>a, <1>b DEF CompressorFails
<1>26. ASSUME NEW r \in Requests, ProducerReturns(r) PROVE DeliveredInv'
  BY <1>26, <1>a, <1>b DEF ProducerReturns, Assign, Locked, Copying
<1>27. ASSUME NEW r \in Requests, ProducerInterrupted(r) PROVE DeliveredInv'
  BY <1>27, <1>a, <1>b DEF ProducerInterrupted, Assign, Locked, Copying, ErrorInv
<1>28. ASSUME NEW r \in Requests, ProducerCloses(r) PROVE DeliveredInv'
  BY <1>28, <1>a, <1>b DEF ProducerCloses
<1>29. CASE UNCHANGED <<cfg, pc, size, buf, left, prod, err, sent>> /\ gone \subseteq gone'
  BY <1>29, <1>a, <1>b
<1>30. CASE ApplyConfig \/ IntervalPasses \/ (\E c \in Conn : PeerLost(c)) \/ Finished
  BY <1>29, <1>30 DEF ApplyConfig, ApplyCalled, ApplyLocked, Shutdown, IntervalPasses, PeerLost, Finished, vars
<1>32. CASE UNCHANGED vars
  BY <1>29, <1>32 DEF vars
<1>33. QED
  BY <1>1, <1>2, <1>3, <1>4, <1>5, <1>7, <1>8, <1>9, <1>10, <1>11, <1>12, <1>13, <1>14, <1>15, <1>16, <1>17, <1>18, <1>19, <1>20, <1>21, <1>22, <1>23, <1>24, <1>25, <1>26, <1>27, <1>28, <1>30, <1>32 DEF Next, Compute, Network, Producer, Finished

(* Over a plain TCP connection that nobody loses, err is nil at the end of  *)
(* Client.Write only when every chunk of the request was sent: a sample     *)
(* counted in sent_samples_total has reached carbon.                        *)
THEOREM SentArrives == Spec => []SentIsDelivered
<1>1. TypeInv /\ DeliveredInv => SentIsDelivered
  <2> SUFFICES ASSUME TypeInv, DeliveredInv, Faultless, NEW r \in sent
               PROVE  Chunks(r) \subseteq Delivered(r)
    BY DEF SentIsDelivered, Faultless, Delivered
  <2>1. AllGot(r)
    BY DEF TypeInv, TypeOK, DeliveredInv
  <2>2. ASSUME NEW x \in Chunks(r) PROVE x \in Delivered(r)
    <3>1. PICK b \in DOMAIN size[r] : x \in {b} \X (1..size[r][b])
      BY DEF Chunks
    <3>2. x[1] = b /\ x[2] \in 1..size[r][b]
      BY <3>1
    <3>3. Got(r, x[1], x[2])
      BY <2>1, <3>2 DEF AllGot
    <3>4. QED
      BY <3>3 DEF Got, Delivered
  <2>3. QED
    BY <2>2
<1>2. Init => DeliveredInv
  BY DeliveredInit
<1>3. QED
  BY ErrorCorrect, DeliveredStep, <1>1, <1>2, PTL DEF Spec

-----------------------------------------------------------------------------
(* CarbonWrite implements ClientLifecycle: a request enters with RLock and  *)
(* exits with RUnlock, Client.Shutdown retires the client, and every other  *)
(* step is invisible.                                                       *)
LEMMA ReadersStep ==
    ASSUME TypeOK, LockInv, [Next]_vars
    PROVE  Lifecycle!Next \/ UNCHANGED Lifecycle!vars
<1> USE DEF TypeOK, At, Goto, handler, client, net, locals
<1>1. UNCHANGED <<apply, Readers>> => UNCHANGED Lifecycle!vars
  BY DEF Lifecycle!vars, Servant
<1>2. ASSUME NEW r \in Requests, Start(r) PROVE Lifecycle!Next
  <2>1. Readers' = Readers \cup {r} /\ r \notin Readers /\ apply = "none" /\ apply' = apply
    BY <1>2 DEF Start, Readers
  <2>2. /\ Servant[r] = "none"
        /\ Servant' = [u \in Requests |-> IF u \in {r} THEN "this" ELSE Servant[u]]
    BY <2>1 DEF Servant
  <2>3. Lifecycle!Enter("this", {r})
    BY <2>1, <2>2 DEF Lifecycle!Enter
  <2>4. QED
    BY <2>3 DEF Lifecycle!Next
<1>3. ASSUME NEW r \in Requests, BadRequest(r) \/ Respond(r) PROVE Lifecycle!Next
  <2>1. Readers' = Readers \ {r} /\ r \in Readers /\ apply' = apply
    BY <1>3 DEF BadRequest, Respond, Readers
  <2>2. Servant[r] = "this" /\ Servant' = [Servant EXCEPT ![r] = "none"]
    BY <2>1 DEF Servant
  <2>3. Lifecycle!Exit(r)
    BY <2>1, <2>2 DEF Lifecycle!Exit
  <2>4. QED
    BY <2>3 DEF Lifecycle!Next
<1>4. ASSUME NEW r \in Requests,
             \/ Decode(r) \/ Skip(r) \/ DryRun(r) \/ Prepare(r) \/ Acquire(r)
             \/ CheckContext(r) \/ Reuse(r) \/ Disconnect(r) \/ ReadPipe(r)
             \/ EndOfPipe(r) \/ CopyDone(r) \/ CopyFailed(r) \/ CloseCon(r) \/ Leave(r)
             \/ Observe(r) \/ Label(r) \/ Network(r)
      PROVE  UNCHANGED <<apply, Readers>>
  <2>1. /\ apply' = apply
        /\ pc[r] \notin {"idle", "done"}
        /\ \E label \in Labels \ {"idle", "done"} :
              pc' \in {pc, [pc EXCEPT ![r] = label]}
    BY <1>4 DEF Decode, Skip, DryRun, Prepare, Acquire, CheckContext, Reuse, Disconnect,
       ReadPipe, EndOfPipe, CopyDone, CopyFailed, CloseCon, Leave, Observe, Label,
       Network, Dial, DialFails, Send, SendFails, StartCopy,
       TargetCheck, TargetPanics, TargetReturns, Labels, Before, Locked, Copying, After
  <2>2. QED
    BY <2>1 DEF Readers
<1>5. ASSUME NEW r \in Requests, Cancel(r) \/ Producer(r) PROVE UNCHANGED <<apply, Readers>>
  BY <1>5 DEF Cancel, Producer, ProducerReturns, ProducerInterrupted,
     CompressorFails, ProducerCloses, Readers
<1>6. CASE ApplyCalled \/ ApplyLocked
  BY <1>6 DEF ApplyCalled, ApplyLocked, Readers, Lifecycle!vars, Servant
<1>7. CASE Shutdown
  <2>1. apply = "locked" /\ apply' = "done" /\ Readers = {} /\ Readers' = {}
    BY <1>7 DEF Shutdown, LockInv, Readers
  <2>2. Servant' = Servant /\ \A u \in Requests : Servant[u] = "none"
    BY <2>1 DEF Servant
  <2>3. Lifecycle!Retire("this")
    BY <2>1, <2>2 DEF Lifecycle!Retire
  <2>4. QED
    BY <2>3 DEF Lifecycle!Next
<1>8. CASE IntervalPasses \/ (\E c \in Conn : PeerLost(c)) \/ Finished \/ UNCHANGED vars
  BY <1>1, <1>8 DEF IntervalPasses, PeerLost, Finished, vars, Readers
<1>9. QED
  BY <1>1, <1>2, <1>3, <1>4, <1>5, <1>6, <1>7, <1>8 DEF Next, Compute, ApplyConfig

(* CarbonWrite implements ClientLifecycle: requests, failures and           *)
(* cancellations never let the client be shut down under a request, nor     *)
(* used afterwards.                                                         *)
THEOREM Implements == Spec => ServesThenRetires
<1>1. Init => Lifecycle!Init
  BY DEF Init, Lifecycle!Init, Readers, Servant
<1>2. TypeOK /\ LockInv /\ [Next]_vars => [Lifecycle!Next]_(Lifecycle!vars)
  BY ReadersStep
<1>3. QED
  BY LockCorrect, <1>1, <1>2, PTL DEF Spec, ServesThenRetires, Lifecycle!Spec

-----------------------------------------------------------------------------
(* The two ends of the pipe: while a request copies, its producer is there, *)
(* and one that has returned has nothing left to give.                      *)
PipeInv ==
    \A r \in Requests : pc[r] \in {"copy", "send"} =>
        /\ prod[r] # "none"
        /\ prod[r] # "writing" => left[r] = 0

LEMMA PipeStep == TypeOK /\ PipeInv /\ [Next]_vars => PipeInv'
<1> SUFFICES ASSUME TypeOK, PipeInv, [Next]_vars PROVE PipeInv'
  OBVIOUS
<1> USE DEF TypeOK, PipeInv, Before, Copying, At, Goto, handler, client, net, locals
<1>1. ASSUME NEW r \in Requests, Start(r) PROVE PipeInv'
  BY <1>1 DEF Start
<1>2. ASSUME NEW r \in Requests, Cancel(r) PROVE PipeInv'
  BY <1>2 DEF Cancel
<1>3. ASSUME NEW r \in Requests, BadRequest(r) PROVE PipeInv'
  BY <1>3 DEF BadRequest
<1>4. ASSUME NEW r \in Requests, Decode(r) PROVE PipeInv'
  BY <1>4 DEF Decode
<1>5. ASSUME NEW r \in Requests, Skip(r) PROVE PipeInv'
  BY <1>5 DEF Skip
<1>6. ASSUME NEW r \in Requests, DryRun(r) PROVE PipeInv'
  BY <1>6 DEF DryRun
<1>7. ASSUME NEW r \in Requests, Prepare(r) PROVE PipeInv'
  BY <1>7 DEF Prepare
<1>8. ASSUME NEW r \in Requests, Acquire(r) PROVE PipeInv'
  BY <1>8 DEF Acquire
<1>9. ASSUME NEW r \in Requests, CheckContext(r) PROVE PipeInv'
  BY <1>9 DEF CheckContext
<1>10. ASSUME NEW r \in Requests, Reuse(r) PROVE PipeInv'
  BY <1>10 DEF Reuse, StartCopy
<1>11. ASSUME NEW r \in Requests, Disconnect(r) PROVE PipeInv'
  BY <1>11 DEF Disconnect
<1>12. ASSUME NEW r \in Requests, ReadPipe(r) PROVE PipeInv'
  BY <1>12 DEF ReadPipe
<1>13. ASSUME NEW r \in Requests, EndOfPipe(r) PROVE PipeInv'
  BY <1>13 DEF EndOfPipe
<1>14. ASSUME NEW r \in Requests, CopyDone(r) PROVE PipeInv'
  BY <1>14 DEF CopyDone
<1>15. ASSUME NEW r \in Requests, CopyFailed(r) PROVE PipeInv'
  BY <1>15 DEF CopyFailed
<1>16. ASSUME NEW r \in Requests, CloseCon(r) PROVE PipeInv'
  BY <1>16 DEF CloseCon
<1>17. ASSUME NEW r \in Requests, Leave(r) PROVE PipeInv'
  BY <1>17 DEF Leave
<1>18. ASSUME NEW r \in Requests, Observe(r) PROVE PipeInv'
  BY <1>18 DEF Observe, TargetCheck, TargetPanics, TargetReturns
<1>19. ASSUME NEW r \in Requests, Label(r) PROVE PipeInv'
  BY <1>19 DEF Label, TargetCheck, TargetPanics, TargetReturns
<1>20. ASSUME NEW r \in Requests, Respond(r) PROVE PipeInv'
  BY <1>20 DEF Respond
<1>21. ASSUME NEW r \in Requests, Dial(r) PROVE PipeInv'
  BY <1>21 DEF Dial, StartCopy
<1>22. ASSUME NEW r \in Requests, DialFails(r) PROVE PipeInv'
  BY <1>22 DEF DialFails
<1>23. ASSUME NEW r \in Requests, Send(r) PROVE PipeInv'
  BY <1>23 DEF Send
<1>24. ASSUME NEW r \in Requests, SendFails(r) PROVE PipeInv'
  BY <1>24 DEF SendFails
<1>25. ASSUME NEW r \in Requests, ProducerReturns(r) PROVE PipeInv'
  BY <1>25 DEF ProducerReturns
<1>26. ASSUME NEW r \in Requests, ProducerInterrupted(r) PROVE PipeInv'
  BY <1>26 DEF ProducerInterrupted
<1>27. ASSUME NEW r \in Requests, CompressorFails(r) PROVE PipeInv'
  BY <1>27 DEF CompressorFails
<1>28. ASSUME NEW r \in Requests, ProducerCloses(r) PROVE PipeInv'
  BY <1>28 DEF ProducerCloses
<1>29. CASE ApplyConfig \/ IntervalPasses \/ (\E c \in Conn : PeerLost(c))
  BY <1>29 DEF ApplyConfig, ApplyCalled, ApplyLocked, Shutdown, IntervalPasses, PeerLost
<1>30. CASE UNCHANGED vars
  BY <1>30 DEF vars
<1>31. QED
  BY <1>1, <1>2, <1>3, <1>4, <1>5, <1>6, <1>7, <1>8, <1>9, <1>10, <1>11,
     <1>12, <1>13, <1>14, <1>15, <1>16, <1>17, <1>18, <1>19, <1>20, <1>21,
     <1>22, <1>23, <1>24, <1>25, <1>26, <1>27, <1>28, <1>29, <1>30 DEF Next,
     Compute, Network, Producer, Finished

(* No request and no reload ever waits in a circle, for any number of       *)
(* requests, buffers and chunks: who owns carbonConLock is inside           *)
(* Client.Write with a connection in hand, and a producer that a request    *)
(* waits for waits for nobody.                                              *)
THEOREM NobodyWaitsInACircle == Spec => []NoCircularWait
<1>1. TypeInv /\ LockInv /\ PipeInv => NoCircularWait
  <2> SUFFICES ASSUME TypeInv, LockInv, PipeInv PROVE NoCircularWait
    OBVIOUS
  <2>1. ASSUME NEW r \in Requests, pc[r] = "copy", Waits(r)
        PROVE  ProducerMoves(r)
    <3>1. prod[r] \in {"writing", "returned", "closed"} /\ left[r] \in 0..MaxChunks
      BY <2>1 DEF TypeInv, TypeOK, PipeInv
    <3>2. prod[r] # "writing" => left[r] = 0
      BY <2>1 DEF PipeInv
    <3>3. QED
      BY <2>1, <3>1, <3>2, BoundsAssumption DEF Waits, ProducerMoves
  <2>2. ASSUME NEW r \in Requests, Waits(r)
        PROVE  pc[r] \in {"copy", "acquire"} /\ (pc[r] = "acquire" => lock # NoOne)
    BY <2>2 DEF Waits, LockInv, Copying
  <2>3. ASSUME NEW r \in Requests, pc[r] = "acquire", lock # NoOne
        PROVE  /\ lock \in Readers \ {r}
               /\ Waits(lock) => pc[lock] = "copy" /\ ProducerMoves(lock)
    <3>1. lock \in Requests /\ pc[lock] \in Locked
      BY <2>3 DEF TypeInv, TypeOK, LockInv
    <3>2. pc[lock] \notin {"idle", "done", "acquire"}
      BY <3>1 DEF Locked, Copying
    <3>3. QED
      BY <2>1, <2>2, <2>3, <3>1, <3>2 DEF Readers
  <2>4. apply = "locked" => lock = NoOne
    <3>1. SUFFICES ASSUME apply = "locked", lock # NoOne PROVE FALSE
      OBVIOUS
    <3>2. lock \in Requests /\ pc[lock] \in Locked /\ Readers = {}
      BY <3>1 DEF TypeInv, TypeOK, LockInv
    <3>3. QED
      BY <3>2 DEF Readers, Locked, Copying
  <2>5. QED
    BY <2>1, <2>2, <2>3, <2>4 DEF NoCircularWait, Readers
<1>2. Init => PipeInv
  BY DEF Init, PipeInv
<1>3. TypeOK /\ LockInv /\ PipeInv /\ [Next]_vars => PipeInv'
  BY PipeStep
<1>4. Spec => []TypeInv
  BY TypeInit, TypeStep, PTL DEF Spec
<1>5. QED
  BY LockCorrect, <1>1, <1>2, <1>3, <1>4, PTL DEF Spec

=============================================================================
