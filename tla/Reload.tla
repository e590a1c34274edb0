------------------------------- MODULE Reload -------------------------------
(***************************************************************************)
(* Reloading the configuration: the goroutine of main that reacts to       *)
(* SIGHUP and to POST /-/reload, Handler.ApplyConfig, and the requests     *)
(* (/write, /read, /-/healthy) that hold the handler's read lock.          *)
(*                                                                         *)
(* The signal waits in a channel of capacity 1; a POST hands its reply     *)
(* channel over on an unbuffered one and waits for the answer.  Somebody   *)
(* else edits the configuration file: an edition is told from another only *)
(* as far as reload() and NewClient do: "carbon" names a carbon address or *)
(* a read URL, "idle" has neither and gives no client, "broken" does not   *)
(* load.  The behaviour starts when main has applied the first edition.    *)
(***************************************************************************)
EXTENDS Naturals, Sequences, FiniteSets

CONSTANTS
    Requests,     \* the requests that take the read lock
    Posts,        \* the POST /-/reload requests
    NoPost,       \* the loop works for a signal, or for nobody
    MaxEdition,   \* bound on the editions of the file
    MaxSignals    \* bound on the SIGHUPs sent

ASSUME NoPostAssumption == NoPost \notin Posts
ASSUME PostsAssumption == IsFiniteSet(Posts)
ASSUME MaxAssumption == MaxEdition \in Nat \ {0} /\ MaxSignals \in Nat

VARIABLES
    kind,      \* what each edition of the file holds (decided beforehand)
    edition,   \* the edition on disk
    hup,       \* a signal waits in the channel
    signals,   \* SIGHUPs sent so far
    post,      \* where each POST stands
    asked,     \* the edition on disk when each POST, or the last signal, came
    at,        \* where the reload loop stands
    caller,    \* the POST it works for, or NoPost
    loaded,    \* the edition that reload() returned, 0 for an error
    tried,     \* the last edition that reload() looked at
    running,   \* the edition in Handler.cfg
    client,    \* the client in Handler.writers and readers, 0 for none
    built,     \* the edition that each client was built from
    shut,      \* the clients that were shut down
    req,       \* where each request stands
    user       \* the client that each request uses

disk    == <<kind, edition>>
asking  == <<hup, signals, post, asked>>
loop    == <<at, caller, loaded, tried>>
handler == <<running, client, built, shut>>
serving == <<req, user>>
vars    == <<disk, asking, loop, handler, serving>>

Editions == 1..MaxEdition

TypeOK ==
    /\ kind \in [Editions -> {"carbon", "idle", "broken"}]
    /\ edition \in Editions
    /\ hup \in BOOLEAN
    /\ signals \in 0..MaxSignals
    /\ post \in [Posts -> {"idle", "sending", "waiting", "ok", "failed"}]
    /\ asked \in [Posts \cup {NoPost} -> Editions]
    /\ at \in {"select", "load", "lock", "shutdown", "build", "unlock", "reply"}
    /\ caller \in Posts \cup {NoPost}
    /\ loaded \in 0..MaxEdition
    /\ tried \in Editions
    /\ running \in Editions
    /\ client \in 0..Len(built)
    /\ built \in Seq(Editions)
    /\ shut \subseteq 1..Len(built)
    /\ req \in [Requests -> {"idle", "waiting", "serving"}]
    /\ user \in [Requests -> 0..Len(built)]

Init ==
    /\ kind \in [Editions -> {"carbon", "idle", "broken"}]
    /\ kind[1] # "broken"
    /\ edition = 1
    /\ hup = FALSE
    /\ signals = 0
    /\ post = [p \in Posts |-> "idle"]
    /\ asked = [p \in Posts \cup {NoPost} |-> 1]
    /\ at = "select"
    /\ caller = NoPost
    /\ loaded = 1
    /\ tried = 1
    /\ running = 1
    /\ built = IF kind[1] = "carbon" THEN <<1>> ELSE <<>>
    /\ client = Len(built)
    /\ shut = {}
    /\ req = [q \in Requests |-> "idle"]
    /\ user = [q \in Requests |-> 0]

-----------------------------------------------------------------------------
(* The outside world *)

Edit ==
    /\ edition < MaxEdition
    /\ edition' = edition + 1
    /\ UNCHANGED <<kind, asking, loop, handler, serving>>

(* SIGHUP: signal.Notify drops it when one is already waiting. *)
Signal ==
    /\ signals < MaxSignals
    /\ signals' = signals + 1
    /\ hup' = TRUE
    /\ asked' = [asked EXCEPT ![NoPost] = edition]
    /\ UNCHANGED <<disk, post, loop, handler, serving>>

(* POST /-/reload arrives and offers its channel: h.reloadCh <- rc. *)
Post(p) ==
    /\ post[p] = "idle"
    /\ post' = [post EXCEPT ![p] = "sending"]
    /\ asked' = [asked EXCEPT ![p] = edition]
    /\ UNCHANGED <<disk, hup, signals, loop, handler, serving>>

-----------------------------------------------------------------------------
(* The requests: h.lock.RLock(), and the deferred RUnlock() *)

(* ApplyConfig waits for the write lock, or holds it. *)
Applying == at \in {"lock", "shutdown", "build", "unlock"}

(* A reader that comes while a writer waits or works has to wait. *)
Arrive(q) ==
    /\ req[q] = "idle"
    /\ IF Applying
       THEN req' = [req EXCEPT ![q] = "waiting"] /\ UNCHANGED user
       ELSE req' = [req EXCEPT ![q] = "serving"] /\ user' = [user EXCEPT ![q] = client]
    /\ UNCHANGED <<disk, asking, loop, handler>>

Depart(q) ==
    /\ req[q] = "serving"
    /\ req' = [req EXCEPT ![q] = "idle"]
    /\ user' = [user EXCEPT ![q] = 0]
    /\ UNCHANGED <<disk, asking, loop, handler>>

-----------------------------------------------------------------------------
(* The reload loop of main *)

TakeSignal ==
    /\ at = "select"
    /\ hup
    /\ hup' = FALSE
    /\ caller' = NoPost
    /\ at' = "load"
    /\ UNCHANGED <<disk, signals, post, asked, loaded, tried, handler, serving>>

TakePost(p) ==
    /\ at = "select"
    /\ post[p] = "sending"
    /\ post' = [post EXCEPT ![p] = "waiting"]
    /\ caller' = p
    /\ at' = "load"
    /\ UNCHANGED <<disk, hup, signals, asked, loaded, tried, handler, serving>>

(* Mutant: an error brings the configuration of the start back. *)
Load_FallsBack ==
    /\ at = "load"
    /\ tried' = edition
    /\ loaded' = IF kind[edition] = "broken" THEN 1 ELSE edition
    /\ at' = "lock"
    /\ UNCHANGED <<disk, asking, caller, handler, serving>>

(* Mutant: an error ends the work on a POST the way it ends that on a       *)
(* signal, without an answer.                                               *)
Load_NoReply ==
    /\ at = "load"
    /\ tried' = edition
    /\ loaded' = IF kind[edition] = "broken" THEN 0 ELSE edition
    /\ at' = IF kind[edition] = "broken" THEN "select" ELSE "lock"
    /\ UNCHANGED <<disk, asking, caller, handler, serving>>

(* reload(): on an error the signal is forgotten, the POST is answered.     *)
Load ==
    /\ at = "load"
    /\ tried' = edition
    /\ IF kind[edition] = "broken"
       THEN /\ loaded' = 0
            /\ at' = IF caller = NoPost THEN "select" ELSE "reply"
       ELSE /\ loaded' = edition
            /\ at' = "lock"
    /\ UNCHANGED <<disk, asking, caller, handler, serving>>

(* Mutant: the write lock does not wait for the readers. *)
Lock_NoWait ==
    /\ at = "lock"
    /\ at' = "shutdown"
    /\ UNCHANGED <<disk, asking, caller, loaded, tried, handler, serving>>

(* h.lock.Lock() *)
Lock ==
    /\ at = "lock"
    /\ \A q \in Requests : req[q] # "serving"
    /\ at' = "shutdown"
    /\ UNCHANGED <<disk, asking, caller, loaded, tried, handler, serving>>

(* Mutant: the old client keeps its connection. *)
ShutdownClients_Not ==
    /\ at = "shutdown"
    /\ at' = "build"
    /\ UNCHANGED <<disk, asking, caller, loaded, tried, handler, serving>>

ShutdownClients ==
    /\ at = "shutdown"
    /\ shut' = shut \cup ({client} \ {0})
    /\ at' = "build"
    /\ UNCHANGED <<disk, asking, caller, loaded, tried,
                   running, client, built, serving>>

(* Mutant: the nil that NewClient returns counts as a client. *)
BuildClients_Nil ==
    /\ at = "build"
    /\ running' = loaded
    /\ built' = IF kind[loaded] = "carbon" THEN Append(built, loaded) ELSE built
    /\ client' = Len(built) + 1
    /\ at' = "unlock"
    /\ UNCHANGED <<disk, asking, caller, loaded, tried, shut, serving>>

(* h.cfg = cfg, and buildClients: one client, or none. *)
BuildClients ==
    /\ at = "build"
    /\ running' = loaded
    /\ IF kind[loaded] = "carbon"
       THEN built' = Append(built, loaded) /\ client' = Len(built')
       ELSE UNCHANGED built /\ client' = 0
    /\ at' = "unlock"
    /\ UNCHANGED <<disk, asking, caller, loaded, tried, shut, serving>>

(* Mutant: the waiting signal is drained once the configuration is applied. *)
Unlock_Drains ==
    /\ at = "unlock"
    /\ hup' = FALSE
    /\ req' = [q \in Requests |-> IF req[q] = "waiting" THEN "serving" ELSE req[q]]
    /\ user' = [q \in Requests |-> IF req[q] = "waiting" THEN client ELSE user[q]]
    /\ at' = IF caller = NoPost THEN "select" ELSE "reply"
    /\ UNCHANGED <<disk, signals, post, asked, caller, loaded, tried, handler>>

(* Mutant: the requests that wait for the lock are not woken. *)
Unlock_NoWake ==
    /\ at = "unlock"
    /\ at' = IF caller = NoPost THEN "select" ELSE "reply"
    /\ UNCHANGED <<disk, asking, caller, loaded, tried, handler, serving>>

(* The deferred h.lock.Unlock(): the readers that wait go first. *)
Unlock ==
    /\ at = "unlock"
    /\ req' = [q \in Requests |-> IF req[q] = "waiting" THEN "serving" ELSE req[q]]
    /\ user' = [q \in Requests |-> IF req[q] = "waiting" THEN client ELSE user[q]]
    /\ at' = IF caller = NoPost THEN "select" ELSE "reply"
    /\ UNCHANGED <<disk, asking, caller, loaded, tried, handler>>

(* Mutant: the error of reload() does not reach the POST. *)
Reply_AlwaysOk ==
    /\ at = "reply"
    /\ post' = [post EXCEPT ![caller] = "ok"]
    /\ at' = "select"
    /\ caller' = NoPost
    /\ UNCHANGED <<disk, hup, signals, asked, loaded, tried, handler, serving>>

(* rc <- err: 200 or 500. *)
Reply ==
    /\ at = "reply"
    /\ post' = [post EXCEPT ![caller] = IF loaded = 0 THEN "failed" ELSE "ok"]
    /\ at' = "select"
    /\ caller' = NoPost
    /\ UNCHANGED <<disk, hup, signals, asked, loaded, tried, handler, serving>>

-----------------------------------------------------------------------------
ApplyConfig == Lock \/ ShutdownClients \/ BuildClients \/ Unlock

LoopStep == TakeSignal \/ Load \/ ApplyConfig \/ Reply

Next ==
    \/ Edit
    \/ Signal
    \/ LoopStep
    \/ \E p \in Posts : Post(p) \/ TakePost(p)
    \/ \E q \in Requests : Arrive(q) \/ Depart(q)

Spec == Init /\ [][Next]_vars

(* The loop runs, and every request that is served ends (what that takes is *)
(* CarbonWrite's subject).  No request has to come.                         *)
Fairness ==
    /\ WF_vars(LoopStep)
    /\ \A p \in Posts : WF_vars(TakePost(p))
    /\ \A q \in Requests : WF_vars(Depart(q))

FairSpec == Spec /\ Fairness

-----------------------------------------------------------------------------
(* A request is served from beginning to end by one configuration: the      *)
(* client it uses is the current one, built from the edition in Handler.cfg *)
(* and not shut down, or there is none because that edition names none.     *)
ServedByCurrent ==
    \A q \in Requests : req[q] = "serving" =>
        /\ user[q] = client
        /\ client \notin shut
        /\ IF client = 0 THEN kind[running] = "idle"
           ELSE built[client] = running /\ kind[running] = "carbon"

(* Every client but the current one has been shut down: reloads do not pile *)
(* up connections to carbon (ApplyConfig).                                  *)
OnlyCurrentIsLive == (1..Len(built)) \ shut \subseteq {client}

(* What a POST is told is true: after a 200 the running edition is no older *)
(* than the one on disk when the POST came, and a 500 means that an edition *)
(* on disk since then does not load.                                        *)
AnswerIsHonest ==
    \A p \in Posts :
        /\ post[p] = "ok" => running >= asked[p]
        /\ post[p] = "failed" => \E e \in asked[p]..edition : kind[e] = "broken"

(* Signals that are dropped because one is waiting are not lost: when none  *)
(* waits, the file has been read since the last of them was sent.           *)
SignalNotLost == ~hup /\ at # "load" => tried >= asked[NoPost]

(* Who waits is owed what he waits for: a request that waits for the lock    *)
(* will be woken by an ApplyConfig in progress, which waits for requests in *)
(* service alone, and a POST that waits for its answer is the one that the  *)
(* loop works for, whichever way reload() ends.                             *)
WaitersAreOwed ==
    /\ \A q \in Requests : req[q] = "waiting" => Applying
    /\ \A p \in Posts : post[p] = "waiting" <=> caller = p
    /\ at = "select" => caller = NoPost
    /\ at = "reply" => caller # NoPost

(* The running configuration only moves forward, and never to an edition    *)
(* that does not load.                                                      *)
AppliedInOrder ==
    [][running' >= running /\ kind[running'] # "broken"]_vars

(* Every POST /-/reload is answered. *)
PostAnswered == \A p \in Posts : post[p] = "sending" ~> post[p] \in {"ok", "failed"}

(* A request that waits while a reload goes on is served, however many      *)
(* reloads follow.                                                          *)
RequestServed == \A q \in Requests : req[q] = "waiting" ~> req[q] = "serving"

(* After a signal, the loop reads what was on disk when it was sent, or     *)
(* something newer, however many requests keep coming.                      *)
SignalRead == \A e \in Editions : hup /\ asked[NoPost] = e ~> tried >= e

(* The clients that reloads may build: one for each signal and each POST.    *)
Clients == 1..(1 + MaxSignals + Cardinality(Posts))

Live == {c \in Clients : c <= Len(built) /\ c \notin shut}

Retired == Clients \cap shut

Servant == [q \in Requests |->
    IF req[q] = "serving" /\ user[q] \in Clients THEN user[q] ELSE 0]

Lifecycle == INSTANCE ClientLifecycle WITH
    Users <- Requests, Nobody <- 0,
    live <- Live, retired <- Retired, servant <- Servant

(* The clients that reloads build live and die as ClientLifecycle says.     *)
ClientsLiveAndDie == Lifecycle!Spec

=============================================================================
