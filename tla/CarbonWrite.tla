---------------------------- MODULE CarbonWrite ----------------------------
(***************************************************************************)
(* POST /write from the HTTP handler (web/write.go) down to the carbon     *)
(* socket (client/graphite/write.go), for one graphite client from the     *)
(* moment the handler has built it to the ApplyConfig that shuts it down.  *)
(*                                                                         *)
(* Every request runs in a goroutine of its own, holds the handler's read  *)
(* lock while it runs, and takes carbonConLock around the use of the       *)
(* connection.  A buffer goes through an io.Pipe: a producer goroutine     *)
(* writes (or LZ4-compresses) it into the pipe while the request copies    *)
(* the pipe to the socket in chunks; both assign the same variable err.    *)
(* Target() reads carbonCon outside the lock.                              *)
(*                                                                         *)
(* Samples are not told apart: a request is the unit of accounting (the    *)
(* counters add len(samples) for a whole request at once) and a chunk of a *)
(* buffer is the unit of what reaches a connection.                        *)
(***************************************************************************)
EXTENDS Naturals, Sequences

CONSTANTS
    Requests,    \* the /write requests served by this client
    Conn,        \* the connections it may dial
    NoCon,       \* carbonCon == nil
    NoOne,       \* carbonConLock is free
    MaxBuffers,  \* bound on the datagrams prepareWrite builds for a request
    MaxChunks,   \* bound on the pipe reads that one buffer takes
    Configs      \* the configurations the client may be started with

ASSUME NoConAssumption == NoCon \notin Conn
ASSUME NoOneAssumption == NoOne \notin Requests
ASSUME BoundsAssumption == MaxBuffers \in Nat \ {0} /\ MaxChunks \in Nat \ {0}
ASSUME ConfigsAssumption ==
    Configs \subseteq [address : BOOLEAN, transport : {"tcp", "udp"},
                       compress : {"plain", "lz4"}]

VARIABLES
    cfg,        \* the client's configuration
    pc,         \* where each request's goroutine stands
    cancelled,  \* the requests whose context is done
    apply,      \* ApplyConfig: none, waiting for the lock, holding it, done
    received, sent, failed,       \* requests added to each counter
    crashed,    \* the process has died of a panic
    lock, carbonCon,              \* Client.carbonConLock, Client.carbonCon
    due,        \* CarbonReconnectInterval has passed since the last dial
    open, dialed, gone,           \* sockets: open here, ever dialed, peer lost
    log,        \* the chunks the peer of each connection got, in order
    accepted,   \* the chunks a socket took from each request
    size, buf, left, prod, err    \* the locals of each call of Client.Write

handler == <<cancelled, apply, received, sent, failed, crashed>>
client  == <<lock, carbonCon, due>>
net     == <<open, dialed, gone, log, accepted>>
locals  == <<size, buf, left, prod, err>>
vars    == <<cfg, pc, handler, client, net, locals>>

-----------------------------------------------------------------------------
(* Where a request can be. *)

Copying == {"copy", "send", "copied"}                       \* the pipe is open
Locked  == {"ctx", "connect", "dial", "closeCon", "leave"} \cup Copying
Before  == {"parse", "prepare", "acquire"}
After   == {"observe", "observeDeref", "count", "countDeref", "respond"}
Labels  == {"idle", "done"} \cup Before \cup Locked \cup After

(* The requests between h.lock.RLock and the deferred RUnlock. *)
Readers == {r \in Requests : pc[r] \notin {"idle", "done"}}

Errors  == {"nil", "context", "dial", "copy", "lz4", "closedPipe"}

(* The writes of one LZ4 frame: the header, the blocks and the end mark; an *)
(* empty buffer gives no frame.                                             *)
FrameWrites == {0} \cup 2..MaxChunks

(* How many pipe reads one buffer takes: none when every sample of the      *)
(* request was ignored, and one for a datagram of at most udpMaxBytes.      *)
ChunkCounts ==
    IF cfg.compress = "lz4" THEN FrameWrites
    ELSE IF cfg.transport = "udp" THEN 0..1 ELSE 0..MaxChunks

(* prepareWrite: one buffer for a stream, several for datagrams; another    *)
(* datagram is begun by a datapoint that goes into it.                      *)
Batches ==
    {batch \in UNION {[1..n -> ChunkCounts] :
                         n \in IF cfg.transport = "udp" THEN 1..MaxBuffers ELSE {1}} :
        \A b \in DOMAIN batch : b > 1 => batch[b] > 0}

(* The number of chunks of each buffer of a request. *)
Sizes == UNION {[1..n -> 0..MaxChunks] : n \in 1..MaxBuffers}

(* The chunks of a request: which buffer, and which chunk of it. *)
Chunks(r) == UNION {{b} \X (1..size[r][b]) : b \in DOMAIN size[r]}

TypeOK ==
    /\ cfg \in Configs
    /\ pc \in [Requests -> Labels]
    /\ cancelled \subseteq Requests
    /\ apply \in {"none", "waiting", "locked", "done"}
    /\ received \subseteq Requests
    /\ sent \subseteq Requests
    /\ failed \subseteq Requests
    /\ crashed \in BOOLEAN
    /\ lock \in Requests \cup {NoOne}
    /\ carbonCon \in Conn \cup {NoCon}
    /\ due \in BOOLEAN
    /\ open \subseteq Conn
    /\ dialed \subseteq Conn
    /\ gone \subseteq Conn
    /\ log \in [Conn -> Seq(Requests \X (1..MaxBuffers) \X Nat)]
    /\ accepted \in [Requests -> SUBSET ((1..MaxBuffers) \X Nat)]
    /\ size \in [Requests -> Sizes]
    /\ buf \in [Requests -> 1..MaxBuffers]
    /\ left \in [Requests -> 0..MaxChunks]
    /\ prod \in [Requests -> {"none", "writing", "returned", "closed"}]
    /\ err \in [Requests -> Errors]

Init ==
    /\ cfg \in Configs
    /\ pc = [r \in Requests |-> "idle"]
    /\ cancelled = {}
    /\ apply = "none"
    /\ received = {} /\ sent = {} /\ failed = {}
    /\ crashed = FALSE
    /\ lock = NoOne
    /\ carbonCon = NoCon
    /\ due = FALSE
    /\ open = {} /\ dialed = {} /\ gone = {}
    /\ log = [c \in Conn |-> <<>>]
    /\ accepted = [r \in Requests |-> {}]
    /\ size = [r \in Requests |-> [b \in 1..1 |-> 0]]
    /\ buf = [r \in Requests |-> 1]
    /\ left = [r \in Requests |-> 0]
    /\ prod = [r \in Requests |-> "none"]
    /\ err = [r \in Requests |-> "nil"]

(* The producer shares err with the request it works for; once Client.Write *)
(* has returned, what the producer assigns is read by nobody.               *)
Assign(r, e) == err' = IF pc[r] \in Locked THEN [err EXCEPT ![r] = e] ELSE err

Goto(r, label) == pc' = [pc EXCEPT ![r] = label]

At(r, label) == ~crashed /\ pc[r] = label

-----------------------------------------------------------------------------
(* Handler.write, up to the call of Client.Write *)

(* h.lock.RLock(): a waiting writer keeps new readers out, and once         *)
(* ApplyConfig is done the handler serves requests with another client.     *)
Start(r) ==
    /\ At(r, "idle")
    /\ apply = "none"
    /\ Goto(r, "parse")
    /\ UNCHANGED <<cfg, handler, client, net, locals>>

(* The body does not decode: 400, and nothing is counted. *)
BadRequest(r) ==
    /\ At(r, "parse")
    /\ Goto(r, "done")
    /\ UNCHANGED <<cfg, handler, client, net, locals>>

(* The samples are counted as received and the writer goroutine starts. *)
Decode(r) ==
    /\ At(r, "parse")
    /\ received' = received \cup {r}
    /\ Goto(r, "prepare")
    /\ UNCHANGED <<cfg, cancelled, apply, sent, failed, crashed,
                   client, net, locals>>

(* The sender of the request goes away, or its deadline passes; once         *)
(* Client.Write has looked at the context, nothing looks at it again.       *)
Cancel(r) ==
    /\ ~crashed
    /\ pc[r] \in Before \cup {"ctx"}
    /\ r \notin cancelled
    /\ cancelled' = cancelled \cup {r}
    /\ UNCHANGED <<cfg, pc, apply, received, sent, failed, crashed,
                   client, net, locals>>

-----------------------------------------------------------------------------
(* Client.Write *)

(* "Skipped: Not set carbon address." *)
Skip(r) ==
    /\ At(r, "prepare")
    /\ ~cfg.address
    /\ Goto(r, "observe")
    /\ UNCHANGED <<cfg, handler, client, net, locals>>

(* Content-Type application/json: the payload goes back in the response. *)
DryRun(r) ==
    /\ At(r, "prepare")
    /\ cfg.address
    /\ Goto(r, "observe")
    /\ UNCHANGED <<cfg, handler, client, net, locals>>

Prepare(r) ==
    /\ At(r, "prepare")
    /\ cfg.address
    /\ \E batch \in Batches : size' = [size EXCEPT ![r] = batch]
    /\ Goto(r, "acquire")
    /\ UNCHANGED <<cfg, handler, client, net, buf, left, prod, err>>

(* Mutant: the lock is taken without waiting for its owner. *)
Acquire_NoWait(r) ==
    /\ At(r, "acquire")
    /\ lock' = r
    /\ Goto(r, "ctx")
    /\ UNCHANGED <<cfg, handler, carbonCon, due, net, locals>>

Acquire(r) ==
    /\ At(r, "acquire")
    /\ lock = NoOne
    /\ lock' = r
    /\ Goto(r, "ctx")
    /\ UNCHANGED <<cfg, handler, carbonCon, due, net, locals>>

(* The select on r.Context().Done(). *)
CheckContext(r) ==
    /\ At(r, "ctx")
    /\ IF r \in cancelled
       THEN /\ err' = [err EXCEPT ![r] = "context"]
            /\ Goto(r, "leave")
       ELSE /\ Goto(r, "connect")
            /\ UNCHANGED err
    /\ UNCHANGED <<cfg, handler, client, net, size, buf, left, prod>>

(* Mutant: one chunk more than the buffer holds. *)
StartCopy_OneMore(r) ==
    /\ left' = [left EXCEPT ![r] = size[r][buf[r]] + 1]
    /\ prod' = [prod EXCEPT ![r] = "writing"]
    /\ err' = [err EXCEPT ![r] = "nil"]
    /\ Goto(r, "copy")

(* Mutant: the first chunk is left out. *)
StartCopy_OneLess(r) ==
    /\ left' = [left EXCEPT ![r] = IF size[r][buf[r]] = 0 THEN 0 ELSE size[r][buf[r]] - 1]
    /\ prod' = [prod EXCEPT ![r] = "writing"]
    /\ err' = [err EXCEPT ![r] = "nil"]
    /\ Goto(r, "copy")

(* The pipe of the current buffer and its producer goroutine. *)
StartCopy(r) ==
    /\ left' = [left EXCEPT ![r] = size[r][buf[r]]]
    /\ prod' = [prod EXCEPT ![r] = "writing"]
    /\ err' = [err EXCEPT ![r] = "nil"]
    /\ Goto(r, "copy")

(* connectToCarbon: the connection is recent enough. *)
Reuse(r) ==
    /\ At(r, "connect")
    /\ carbonCon # NoCon
    /\ ~due
    /\ StartCopy(r)
    /\ UNCHANGED <<cfg, handler, client, net, size, buf>>

(* connectToCarbon: no connection, or one to be reinitialised. *)
Disconnect(r) ==
    /\ At(r, "connect")
    /\ carbonCon = NoCon \/ due
    /\ open' = open \ {carbonCon}
    /\ carbonCon' = NoCon
    /\ Goto(r, "dial")
    /\ UNCHANGED <<cfg, handler, lock, due, dialed, gone, log, accepted, locals>>

Dial(r) ==
    /\ At(r, "dial")
    /\ \E c \in Conn \ dialed :
          /\ carbonCon' = c
          /\ open' = open \cup {c}
          /\ dialed' = dialed \cup {c}
    /\ due' = FALSE
    /\ StartCopy(r)
    /\ UNCHANGED <<cfg, handler, lock, gone, log, accepted, size, buf>>

(* Mutant: a dial that failed is tried again, for ever. *)
DialFails_Retries(r) ==
    /\ At(r, "dial")
    /\ carbonCon' = NoCon
    /\ Goto(r, "connect")
    /\ UNCHANGED <<cfg, handler, lock, due, net, locals>>

(* net.DialTimeout fails: refused, unreachable, or after write.timeout. *)
DialFails(r) ==
    /\ At(r, "dial")
    /\ carbonCon' = NoCon
    /\ err' = [err EXCEPT ![r] = "dial"]
    /\ Goto(r, "leave")
    /\ UNCHANGED <<cfg, handler, lock, due, net, size, buf, left, prod>>

-----------------------------------------------------------------------------
(* The producer goroutine of the current buffer *)

(* The whole buffer went through the pipe. *)
ProducerReturns(r) ==
    /\ ~crashed
    /\ prod[r] = "writing"
    /\ left[r] = 0
    /\ Assign(r, "nil")
    /\ prod' = [prod EXCEPT ![r] = "returned"]
    /\ UNCHANGED <<cfg, pc, handler, client, net, size, buf, left>>

(* The reading end was closed under it: io.ErrClosedPipe. *)
ProducerInterrupted(r) ==
    /\ ~crashed
    /\ prod[r] = "writing"
    /\ left[r] > 0
    /\ pc[r] \notin Copying
    /\ Assign(r, "closedPipe")
    /\ prod' = [prod EXCEPT ![r] = "returned"]
    /\ UNCHANGED <<cfg, pc, handler, client, net, size, buf, left>>

(* The compressor fails or panics: the rest of the buffer never comes. *)
CompressorFails(r) ==
    /\ At(r, "copy")
    /\ cfg.compress = "lz4"
    /\ prod[r] = "writing"
    /\ left[r] > 0
    /\ left' = [left EXCEPT ![r] = 0]
    /\ Assign(r, "lz4")
    /\ prod' = [prod EXCEPT ![r] = "returned"]
    /\ UNCHANGED <<cfg, pc, handler, client, net, size, buf>>

(* Mutant: the producer does not close its end of the pipe. *)
ProducerCloses_Never(r) ==
    /\ ~crashed
    /\ prod[r] = "returned"
    /\ UNCHANGED vars

(* The deferred closePipeWrite. *)
ProducerCloses(r) ==
    /\ ~crashed
    /\ prod[r] = "returned"
    /\ prod' = [prod EXCEPT ![r] = "closed"]
    /\ UNCHANGED <<cfg, pc, handler, client, net, size, buf, left, err>>

-----------------------------------------------------------------------------
(* io.Copy(conn, pipeReader) and what follows it *)

ReadPipe(r) ==
    /\ At(r, "copy")
    /\ prod[r] = "writing"
    /\ left[r] > 0
    /\ left' = [left EXCEPT ![r] = @ - 1]
    /\ Goto(r, "send")
    /\ UNCHANGED <<cfg, handler, client, net, size, buf, prod, err>>

(* The chunk in hand, among the chunks of the current buffer. *)
InHand(r) == size[r][buf[r]] - left[r]

(* conn.Write succeeds.  When the peer is lost the kernel may still take    *)
(* the data that nobody will get, and a datagram may always be lost.        *)
Send(r) ==
    /\ At(r, "send")
    /\ carbonCon # NoCon
    /\ accepted' = [accepted EXCEPT ![r] = @ \cup {<<buf[r], InHand(r)>>}]
    /\ \/ /\ carbonCon \in gone \/ cfg.transport = "udp"
          /\ UNCHANGED log
       \/ /\ carbonCon \notin gone
          /\ log' = [log EXCEPT ![carbonCon] = Append(@, <<r, buf[r], InHand(r)>>)]
    /\ Goto(r, "copy")
    /\ UNCHANGED <<cfg, handler, client, open, dialed, gone, locals>>

(* conn.Write fails: a lost peer, or a datagram refused. *)
SendFails(r) ==
    /\ At(r, "send")
    /\ carbonCon \in gone \/ cfg.transport = "udp"
    /\ err' = [err EXCEPT ![r] = "copy"]
    /\ Goto(r, "copied")
    /\ UNCHANGED <<cfg, handler, client, net, size, buf, left, prod>>

(* The pipe is at its end: io.Copy returns nil. *)
EndOfPipe(r) ==
    /\ At(r, "copy")
    /\ prod[r] = "closed"
    /\ left[r] = 0
    /\ err' = [err EXCEPT ![r] = "nil"]
    /\ Goto(r, "copied")
    /\ UNCHANGED <<cfg, handler, client, net, size, buf, left, prod>>

(* Mutant: closing the reader counts as an error. *)
CopyDone_CloseError(r) ==
    /\ At(r, "copied")
    /\ err[r] = "nil"
    /\ IF buf[r] + 1 \in DOMAIN size[r]
       THEN buf' = [buf EXCEPT ![r] = @ + 1] /\ Goto(r, "connect") /\ UNCHANGED err
       ELSE err' = [err EXCEPT ![r] = "closedPipe"] /\ Goto(r, "leave") /\ UNCHANGED buf
    /\ UNCHANGED <<cfg, handler, client, net, size, left, prod>>

(* No error (or one the producer has just overwritten): the reader is       *)
(* closed, which sets err to nil, and the next buffer follows.              *)
CopyDone(r) ==
    /\ At(r, "copied")
    /\ err[r] = "nil"
    /\ IF buf[r] + 1 \in DOMAIN size[r]
       THEN buf' = [buf EXCEPT ![r] = @ + 1] /\ Goto(r, "connect")
       ELSE UNCHANGED buf /\ Goto(r, "leave")
    /\ UNCHANGED <<cfg, handler, client, net, size, left, prod, err>>

(* An error: err = pipeReader.Close(), which is always nil. *)
CopyFailed(r) ==
    /\ At(r, "copied")
    /\ err[r] # "nil"
    /\ err' = [err EXCEPT ![r] = "nil"]
    /\ Goto(r, "closeCon")
    /\ UNCHANGED <<cfg, handler, client, net, size, buf, left, prod>>

(* Mutant: the failed connection is forgotten but not closed. *)
CloseCon_NoClose(r) ==
    /\ At(r, "closeCon")
    /\ carbonCon' = NoCon
    /\ Goto(r, "leave")
    /\ UNCHANGED <<cfg, handler, lock, due, net, locals>>

(* disconnectFromCarbon *)
CloseCon(r) ==
    /\ At(r, "closeCon")
    /\ open' = open \ {carbonCon}
    /\ carbonCon' = NoCon
    /\ Goto(r, "leave")
    /\ UNCHANGED <<cfg, handler, lock, due, dialed, gone, log, accepted, locals>>

(* Mutant: the lock is released only on the way out of a success.           *)
Leave_Keeps(r) ==
    /\ At(r, "leave")
    /\ lock' = IF err[r] = "nil" THEN NoOne ELSE lock
    /\ IF err[r] = "nil" THEN Goto(r, "observe") ELSE Goto(r, "count")
    /\ UNCHANGED <<cfg, handler, carbonCon, due, net, locals>>

(* return ..., err and the deferred Unlock: what err holds now decides      *)
(* between the two branches of instrumentedWriteSamples.                    *)
Leave(r) ==
    /\ At(r, "leave")
    /\ lock' = NoOne
    /\ IF err[r] = "nil" THEN Goto(r, "observe") ELSE Goto(r, "count")
    /\ UNCHANGED <<cfg, handler, carbonCon, due, net, locals>>

-----------------------------------------------------------------------------
(* Handler.write, after Client.Write.  Target() reads carbonCon without the *)
(* lock, once for its nil check and once to call RemoteAddr; between the    *)
(* two reads (of the interface's type word and data word) another request   *)
(* may have set it to nil, and the call panics.                             *)

TargetCheck(r, from, deref, next) ==
    /\ At(r, from)
    /\ IF carbonCon = NoCon THEN Goto(r, next) ELSE Goto(r, deref)
    /\ UNCHANGED <<cfg, handler, client, net, locals>>

TargetPanics(r, deref) ==
    /\ At(r, deref)
    /\ carbonCon = NoCon
    /\ crashed' = TRUE
    /\ UNCHANGED <<cfg, pc, cancelled, apply, received, sent, failed,
                   client, net, locals>>

TargetReturns(r, deref, next) ==
    /\ At(r, deref)
    /\ carbonCon # NoCon
    /\ Goto(r, next)
    /\ UNCHANGED <<cfg, handler, client, net, locals>>

(* sentBatchDuration.WithLabelValues(w.Target()), on success only. *)
Observe(r) ==
    \/ TargetCheck(r, "observe", "observeDeref", "count")
    \/ TargetPanics(r, "observeDeref")
    \/ TargetReturns(r, "observeDeref", "count")

(* The Target() label of failedSamples or sentSamples. *)
Label(r) ==
    \/ TargetCheck(r, "count", "countDeref", "respond")
    \/ TargetPanics(r, "countDeref")
    \/ TargetReturns(r, "countDeref", "respond")

(* Mutant: a failed request goes on to be counted as sent. *)
Respond_Both(r) ==
    /\ At(r, "respond")
    /\ failed' = IF err[r] = "nil" THEN failed ELSE failed \cup {r}
    /\ sent' = sent \cup {r}
    /\ Goto(r, "done")
    /\ UNCHANGED <<cfg, cancelled, apply, received, crashed, client, net, locals>>

(* The counter is raised, the response (always 200) is written, and the     *)
(* read lock is released.                                                   *)
Respond(r) ==
    /\ At(r, "respond")
    /\ IF err[r] = "nil"
       THEN sent' = sent \cup {r} /\ UNCHANGED failed
       ELSE failed' = failed \cup {r} /\ UNCHANGED sent
    /\ Goto(r, "done")
    /\ UNCHANGED <<cfg, cancelled, apply, received, crashed, client, net, locals>>

-----------------------------------------------------------------------------
(* Handler.ApplyConfig *)

(* h.lock.Lock() is called. *)
ApplyCalled ==
    /\ ~crashed
    /\ apply = "none"
    /\ apply' = "waiting"
    /\ UNCHANGED <<cfg, pc, cancelled, received, sent, failed, crashed,
                   client, net, locals>>

(* Mutant: the handler's lock is taken while requests hold it. *)
ApplyLocked_NoWait ==
    /\ ~crashed
    /\ apply = "waiting"
    /\ apply' = "locked"
    /\ UNCHANGED <<cfg, pc, cancelled, received, sent, failed, crashed,
                   client, net, locals>>

ApplyLocked ==
    /\ ~crashed
    /\ apply = "waiting"
    /\ Readers = {}
    /\ apply' = "locked"
    /\ UNCHANGED <<cfg, pc, cancelled, received, sent, failed, crashed,
                   client, net, locals>>

(* Client.Shutdown, after which the handler builds another client. *)
Shutdown ==
    /\ ~crashed
    /\ apply = "locked"
    /\ lock = NoOne
    /\ open' = open \ {carbonCon}
    /\ carbonCon' = NoCon
    /\ apply' = "done"
    /\ UNCHANGED <<cfg, pc, cancelled, received, sent, failed, crashed,
                   lock, due, dialed, gone, log, accepted, locals>>

-----------------------------------------------------------------------------
(* The environment *)

IntervalPasses ==
    /\ ~crashed
    /\ carbonCon # NoCon /\ ~due
    /\ due' = TRUE
    /\ UNCHANGED <<cfg, pc, handler, lock, carbonCon, net, locals>>

(* The carbon server closes or loses a connection; a UDP socket has none.   *)
PeerLost(c) ==
    /\ ~crashed
    /\ cfg.transport = "tcp"
    /\ c \in open \ gone
    /\ gone' = gone \cup {c}
    /\ UNCHANGED <<cfg, pc, handler, client, open, dialed, log, accepted, locals>>

(* Every request is answered and the client is shut down, or the process    *)
(* has died.                                                                *)
Finished ==
    /\ crashed \/ (apply = "done" /\ Readers = {})
    /\ UNCHANGED vars

-----------------------------------------------------------------------------
(* The steps that wait for the carbon server. *)
Network(r) == Dial(r) \/ DialFails(r) \/ Send(r) \/ SendFails(r)

(* The steps that the adapter takes by itself. *)
Compute(r) ==
    \/ BadRequest(r) \/ Decode(r)
    \/ Skip(r) \/ DryRun(r) \/ Prepare(r)
    \/ Acquire(r) \/ CheckContext(r) \/ Reuse(r) \/ Disconnect(r)
    \/ ReadPipe(r) \/ EndOfPipe(r) \/ CopyDone(r) \/ CopyFailed(r)
    \/ CloseCon(r) \/ Leave(r) \/ Observe(r) \/ Label(r) \/ Respond(r)

Producer(r) ==
    \/ ProducerReturns(r) \/ ProducerInterrupted(r)
    \/ CompressorFails(r) \/ ProducerCloses(r)

ApplyConfig == ApplyCalled \/ ApplyLocked \/ Shutdown

Next ==
    \/ \E r \in Requests : Start(r) \/ Cancel(r) \/ Compute(r) \/ Network(r)
                              \/ Producer(r)
    \/ ApplyConfig
    \/ IntervalPasses
    \/ \E c \in Conn : PeerLost(c)
    \/ Finished

Spec == Init /\ [][Next]_vars

(* The Go scheduler runs every goroutine that can run, and a mutex is       *)
(* handed over in the end.  Nothing makes a request or a reload arrive.     *)
Scheduling ==
    /\ \A r \in Requests : WF_vars(Compute(r)) /\ WF_vars(Producer(r))
    /\ WF_vars(ApplyLocked \/ Shutdown)

(* DialTimeout always returns; no deadline bounds a write to the socket.    *)
(* FairSpec takes it that the carbon server keeps reading or fails.         *)
FairSpec ==
    /\ Spec /\ Scheduling
    /\ \A r \in Requests : WF_vars(Dial(r) \/ DialFails(r)) /\ WF_vars(Network(r))

-----------------------------------------------------------------------------
(* What the write path must guarantee. *)

(* The only socket that is open is the one in carbonCon: reconnecting       *)
(* after CarbonReconnectInterval, giving up a failed connection and         *)
(* shutting down never leave a connection behind, and carbonCon never       *)
(* holds a closed one (connectToCarbon, disconnectFromCarbon, Shutdown).    *)
NoLeak == open = {carbonCon} \ {NoCon}

(* While a request copies a buffer, nobody closes or replaces the           *)
(* connection under it: neither another request nor a reload.               *)
ConnectionHeld == \A r \in Requests : pc[r] \in Copying => carbonCon \in open

NextChunk(x) == <<x[1], x[2], x[3] + 1>>

(* On every connection the bytes of two buffers never mix: a chunk that is  *)
(* not the first of its buffer comes right after its predecessor, no chunk  *)
(* comes twice, and without compression a buffer is only ever cut short at  *)
(* the end of a connection, so that carbon never reads a torn line glued to *)
(* the next one (Client.Write under carbonConLock).  A frame that is split  *)
(* over datagrams may miss some of them: LZ4 over UDP has no such order.    *)
WireIntegrity ==
    \A c \in Conn : LET l == log[c] IN
        /\ cfg.transport = "tcp" \/ cfg.compress = "plain" =>
              \A i \in DOMAIN l : l[i][3] > 1 => i > 1 /\ l[i] = NextChunk(l[i-1])
        /\ \A i, j \in DOMAIN l : l[i] = l[j] => i = j
        /\ cfg.compress = "plain" =>
              \A i \in 1..(Len(l) - 1) :
                  l[i][3] < size[l[i][1]][l[i][2]] => l[i+1] = NextChunk(l[i])

(* The chunks that the peers got, from whatever connection. *)
Delivered(r) ==
    {x \in Chunks(r) :
        \E c \in Conn : \E i \in DOMAIN log[c] : log[c][i] = <<r, x[1], x[2]>>}

(* As long as no peer is lost, a request counted in sent_samples_total over *)
(* a plain TCP connection has reached the peer in full.                     *)
SentIsDelivered ==
    cfg.transport = "tcp" /\ cfg.compress = "plain" /\ gone = {} =>
        \A r \in sent : Delivered(r) = Chunks(r)

(* A request counted in failed_samples_total did not go out in full: the    *)
(* sender that retries what was reported as failed repairs a real loss.     *)
FailedIsNotTaken ==
    \A r \in failed : Chunks(r) = {} \/ accepted[r] # Chunks(r)

(* The accounting of Handler.write: when no request is in progress, every   *)
(* request received is counted as sent or as failed and none as both, and   *)
(* nothing else is counted.                                                 *)
Accounted ==
    /\ sent \cap failed = {}
    /\ sent \cup failed \subseteq received
    /\ Readers = {} => received = sent \cup failed

(* Once ApplyConfig has shut the client down, no request dials, sends or    *)
(* holds its lock any more: the requests of the new configuration go to the *)
(* new client.                                                              *)
NothingAfterShutdown ==
    [][apply = "done" => UNCHANGED <<client, net>>]_vars

(* What a request waits for before its next step, the network aside: the    *)
(* mutex, or a chunk or the end of the pipe.                                *)
Waits(r) ==
    \/ pc[r] = "acquire" /\ lock # NoOne
    \/ /\ pc[r] = "copy"
       /\ ~(prod[r] = "writing" /\ left[r] > 0)
       /\ ~(prod[r] = "closed" /\ left[r] = 0)
    \/ pc[r] = "send" /\ carbonCon = NoCon

(* The producer of a request has its return or the close of its end ahead.  *)
ProducerMoves(r) ==
    prod[r] = "returned" \/ (prod[r] = "writing" /\ left[r] = 0)

(* Nobody waits in a circle: a request that waits for its pipe has a        *)
(* producer that goes on, one that waits for carbonConLock has an owner in  *)
(* the handler who does not wait or whose producer goes on, and ApplyConfig *)
(* finds the lock free when it has the handler's.                           *)
NoCircularWait ==
    /\ \A r \in Readers : Waits(r) =>
          \/ pc[r] = "copy" /\ ProducerMoves(r)
          \/ /\ pc[r] = "acquire" /\ lock \in Readers \ {r}
             /\ Waits(lock) => pc[lock] = "copy" /\ ProducerMoves(lock)
    /\ apply = "locked" => lock = NoOne

(* Every write request that entered the handler is answered, if the peers   *)
(* of the connections react.                                                *)
Answered == \A r \in Requests : r \in Readers ~> (r \notin Readers \/ crashed)

(* A reload that waits for the handler's lock gets it and shuts the client  *)
(* down, however many requests are in progress.                             *)
ReloadCompletes == apply = "waiting" ~> (apply = "done" \/ crashed)

(* This client as ClientLifecycle sees it: live until Shutdown, serving the *)
(* requests that hold the handler's read lock.                              *)
Servant == [r \in Requests |-> IF r \in Readers THEN "this" ELSE "none"]

Lifecycle == INSTANCE ClientLifecycle WITH
    Clients <- {"this"}, Users <- Requests, Nobody <- "none",
    live <- IF apply = "done" THEN {} ELSE {"this"},
    retired <- IF apply = "done" THEN {"this"} ELSE {},
    servant <- Servant

(* The write path keeps the promise of ClientLifecycle: whatever requests,  *)
(* failures and cancellations occur, the client is shut down only when it   *)
(* serves nobody, and serves nobody afterwards.                             *)
ServesThenRetires == Lifecycle!Spec

-----------------------------------------------------------------------------
(* What the comments and help texts say, and the code does not do. *)

(* sent_samples_total counts "processed samples sent to remote storage"     *)
(* (web/write.go): whatever is counted was taken by the socket.             *)
SentWasTaken == \A r \in sent : Chunks(r) \subseteq accepted[r]

(* Target() returns "unknown" when there is no connection                   *)
(* (client/graphite/client.go and TestClient_Target): it does not panic.    *)
TargetNeverPanics == ~crashed

=============================================================================
