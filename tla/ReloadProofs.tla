---------------------------- MODULE ReloadProofs ----------------------------
(***************************************************************************)
(* Theorems about Reload, for every set of requests and of POSTs and every *)
(* bound on the editions of the file and on the signals, and about         *)
(* Settings, for every set of settings, of files and of command lines:     *)
(* these come last and rest on what is shown of reloading.                 *)
(***************************************************************************)
EXTENDS Settings, FiniteSetTheorems, TLAPS

(* What holds while ApplyConfig goes on: nobody is being served from the    *)
(* moment it has the lock, the edition to apply has loaded and is the last  *)
(* one looked at, and client is stale only between shutting the old client  *)
(* down and building the new one.                                           *)
ApplyInv ==
    /\ at \in {"shutdown", "build", "unlock"} =>
          \A q \in Requests : req[q] # "serving"
    /\ Applying => loaded = tried /\ kind[loaded] # "broken"
    /\ running <= tried /\ tried <= edition
    /\ kind[running] # "broken"
    /\ at = "build" => client \in shut \cup {0}
    /\ at # "build" =>
          /\ client \notin shut
          /\ client = 0 => kind[running] = "idle"
          /\ client # 0 => built[client] = running /\ kind[running] = "carbon"
    /\ OnlyCurrentIsLive
    /\ \A q \in Requests : req[q] = "serving" => user[q] = client

ReloadInv == TypeOK /\ ApplyInv

LEMMA ReloadInit == Init => ReloadInv
<1> SUFFICES ASSUME Init PROVE ReloadInv
  OBVIOUS
<1> USE MaxAssumption DEF Init, Editions
<1>1. 1 \in Editions
  OBVIOUS
<1>2. /\ kind \in [Editions -> {"carbon", "idle", "broken"}]
      /\ edition \in Editions /\ tried \in Editions /\ running \in Editions
      /\ loaded \in 0..MaxEdition /\ hup \in BOOLEAN /\ signals \in 0..MaxSignals
      /\ post \in [Posts -> {"idle", "sending", "waiting", "ok", "failed"}]
      /\ asked \in [Posts \cup {NoPost} -> Editions]
      /\ at \in {"select", "load", "lock", "shutdown", "build", "unlock", "reply"}
      /\ caller \in Posts \cup {NoPost}
      /\ req \in [Requests -> {"idle", "waiting", "serving"}]
  <2>1. hup \in BOOLEAN
    OBVIOUS
  <2>2. kind \in [Editions -> {"carbon", "idle", "broken"}]
    OBVIOUS
  <2>3. /\ post \in [Posts -> {"idle", "sending", "waiting", "ok", "failed"}]
        /\ asked \in [Posts \cup {NoPost} -> Editions]
        /\ req \in [Requests -> {"idle", "waiting", "serving"}]
    BY <1>1
  <2>4. QED
    BY <1>1, <2>1, <2>2, <2>3
<1>3. /\ at = "select" /\ shut = {}
      /\ edition = 1 /\ tried = 1 /\ running = 1 /\ loaded = 1
      /\ user \in [Requests -> {0}]
      /\ \A q \in Requests : req[q] = "idle"
  BY <1>1
<1>4. CASE kind[1] = "carbon"
  <2>1. /\ built = <<1>> /\ client = 1 /\ Len(built) = 1 /\ built \in Seq(Editions)
        /\ built[1] = 1
    BY <1>1, <1>4
  <2>2. user \in [Requests -> 0..Len(built)]
    BY <1>3, <2>1
  <2> HIDE DEF Init
  <2>3. TypeOK
    BY <1>2, <1>3, <2>1, <2>2 DEF TypeOK
  <2>4. ApplyInv
    BY <1>1, <1>3, <1>4, <2>1 DEF ApplyInv, OnlyCurrentIsLive, Applying
  <2>5. QED
    BY <2>3, <2>4 DEF ReloadInv
<1>5. CASE kind[1] = "idle"
  <2>1. /\ built = <<>> /\ client = 0 /\ Len(built) = 0 /\ built \in Seq(Editions)
    BY <1>1, <1>5
  <2>2. user \in [Requests -> 0..Len(built)]
    BY <1>3, <2>1
  <2> HIDE DEF Init
  <2>3. TypeOK
    BY <1>2, <1>3, <2>1, <2>2 DEF TypeOK
  <2>4. ApplyInv
    BY <1>1, <1>3, <1>5, <2>1 DEF ApplyInv, OnlyCurrentIsLive, Applying
  <2>5. QED
    BY <2>3, <2>4 DEF ReloadInv
<1>6. kind[1] = "carbon" \/ kind[1] = "idle"
  BY <1>1, <1>2
<1>7. QED
  BY <1>4, <1>5, <1>6

LEMMA ReloadStep == ReloadInv /\ [Next]_vars => ReloadInv'
<1> SUFFICES ASSUME ReloadInv, [Next]_vars PROVE ReloadInv'
  OBVIOUS
<1> USE MaxAssumption, NoPostAssumption
    DEF ReloadInv, TypeOK, ApplyInv, OnlyCurrentIsLive, Applying, Editions,
        disk, asking, loop, handler, serving
<1>1. CASE Edit
  BY <1>1 DEF Edit
<1>2. CASE Signal
  BY <1>2 DEF Signal
<1>3. ASSUME NEW p \in Posts, Post(p) PROVE ReloadInv'
  BY <1>3 DEF Post
<1>4. ASSUME NEW q \in Requests, Arrive(q) PROVE ReloadInv'
  <2>1. CASE Applying
    BY <1>4, <2>1 DEF Arrive
  <2>2. CASE ~Applying
    <3>1. /\ req' = [req EXCEPT ![q] = "serving"]
          /\ user' = [user EXCEPT ![q] = client]
          /\ UNCHANGED <<disk, asking, loop, handler>>
      BY <1>4, <2>2 DEF Arrive
    <3>2. TypeOK'
      BY <3>1
    <3>3. ApplyInv'
      BY <2>2, <3>1
    <3>4. QED
      BY <3>2, <3>3
  <2>3. QED
    BY <2>1, <2>2
<1>5. ASSUME NEW q \in Requests, Depart(q) PROVE ReloadInv'
  BY <1>5 DEF Depart
<1>6. CASE TakeSignal
  BY <1>6 DEF TakeSignal
<1>7. ASSUME NEW p \in Posts, TakePost(p) PROVE ReloadInv'
  BY <1>7 DEF TakePost
<1>8. CASE Load
  BY <1>8, SMTT(30) DEF Load
<1>9. CASE Lock
  BY <1>9 DEF Lock
<1>10. CASE ShutdownClients
  BY <1>10 DEF ShutdownClients
<1>11. CASE BuildClients
  <2>1. CASE kind[loaded] = "carbon"
    <3>1. /\ built' \in Seq(Editions)
          /\ Len(built') = Len(built) + 1 /\ client' = Len(built')
          /\ built'[client'] = loaded
          /\ loaded \in Editions /\ at = "build"
          /\ Len(built) \in Nat
      <4>1. loaded \in Editions /\ built' = Append(built, loaded) /\ at = "build"
            /\ client' = Len(built')
        BY <1>11, <2>1 DEF BuildClients
      <4>2. QED
        BY <4>1
    <3>2. /\ user' \in [Requests -> 0..Len(built')] /\ client' \in 0..Len(built')
          /\ shut' \subseteq 1..Len(built') /\ client' \notin shut'
      BY <1>11, <3>1 DEF BuildClients
    <3>3. (1..Len(built')) \ shut' \subseteq {client'}
      <4>1. 1..Len(built) \subseteq shut
        BY <3>1
      <4>2. shut' = shut
        BY <1>11 DEF BuildClients
      <4>3. QED
        BY <3>1, <4>1, <4>2
    <3>4. TypeOK'
      BY <1>11, <3>1, <3>2 DEF BuildClients
    <3>5. ApplyInv'
      BY <1>11, <2>1, <3>1, <3>2, <3>3 DEF BuildClients
    <3>6. QED
      BY <3>4, <3>5
  <2>2. CASE kind[loaded] # "carbon"
    <3>1. loaded \in Editions /\ kind[loaded] = "idle"
      BY <1>11, <2>2 DEF BuildClients
    <3>2. TypeOK'
      BY <1>11, <2>2, <3>1 DEF BuildClients
    <3>3. ApplyInv'
      BY <1>11, <2>2, <3>1 DEF BuildClients
    <3>4. QED
      BY <3>2, <3>3
  <2>3. QED
    BY <2>1, <2>2
<1>12. CASE Unlock
  BY <1>12 DEF Unlock
<1>13. CASE Reply
  BY <1>13 DEF Reply
<1>14. CASE UNCHANGED vars
  BY <1>14 DEF vars
<1>15. QED
  BY <1>1, <1>2, <1>3, <1>4, <1>5, <1>6, <1>7, <1>8, <1>9, <1>10, <1>11, <1>12,
     <1>13, <1>14 DEF Next, LoopStep, ApplyConfig

LEMMA ReloadInvariant == Spec => []ReloadInv
  BY ReloadInit, ReloadStep, PTL DEF Spec

(* Every reachable state is one of the states the variables are declared    *)
(* for: in particular the client in use is one of those that were built.    *)
THEOREM ReloadTypeCorrect == Spec => []TypeOK
<1>1. ReloadInv => TypeOK
  BY DEF ReloadInv
<1>2. QED
  BY ReloadInvariant, <1>1, PTL

(* Whatever the order of edits, signals, POSTs and requests, a request is   *)
(* served by the client of the configuration in force, which is not shut    *)
(* down under it.                                                           *)
THEOREM AlwaysServedByCurrent == Spec => []ServedByCurrent
<1>1. ReloadInv => ServedByCurrent
  BY DEF ReloadInv, TypeOK, ApplyInv, ServedByCurrent
<1>2. QED
  BY ReloadInvariant, <1>1, PTL

(* No reload leaves a client, with its connection to carbon, behind.        *)
THEOREM NoClientLeftBehind == Spec => []OnlyCurrentIsLive
<1>1. ReloadInv => OnlyCurrentIsLive
  BY DEF ReloadInv, ApplyInv
<1>2. QED
  BY ReloadInvariant, <1>1, PTL

(* The configuration in force never goes back to an older edition, and an   *)
(* edition that does not load never comes into force.                       *)
THEOREM ForwardOnly == Spec => AppliedInOrder
<1>1. ReloadInv /\ [Next]_vars => [running' >= running /\ kind[running'] # "broken"]_vars
  <2> SUFFICES ASSUME ReloadInv, Next
               PROVE  running' >= running /\ kind[running'] # "broken"
    OBVIOUS
  <2> USE DEF ReloadInv, TypeOK, ApplyInv, Applying, Editions, disk, asking, loop,
             handler, serving
  <2>1. CASE BuildClients
    BY <2>1, MaxAssumption DEF BuildClients
  <2>2. CASE running' = running
    BY <2>2, MaxAssumption
  <2>3. ASSUME NEW p \in Posts, Post(p) \/ TakePost(p) PROVE running' = running
    BY <2>3 DEF Post, TakePost
  <2>4. ASSUME NEW q \in Requests, Arrive(q) \/ Depart(q) PROVE running' = running
    BY <2>4 DEF Arrive, Depart
  <2>5. CASE \/ Edit \/ Signal \/ TakeSignal \/ Load
             \/ Lock \/ ShutdownClients \/ Unlock \/ Reply
    BY <2>2, <2>5 DEF Edit, Signal, TakeSignal, Load, Lock, ShutdownClients, Unlock, Reply
  <2>6. QED
    BY <2>1, <2>2, <2>3, <2>4, <2>5 DEF Next, LoopStep, ApplyConfig
<1>2. QED
  BY ReloadInvariant, <1>1, PTL DEF Spec, AppliedInOrder

-----------------------------------------------------------------------------
(* What has been asked for and what has been looked at. *)
AskInv ==
    /\ \A p \in Posts \cup {NoPost} : asked[p] <= edition
    /\ SignalNotLost
    /\ caller \in Posts => post[caller] = "waiting"
    /\ Applying /\ caller \in Posts => tried >= asked[caller]
    /\ at \in {"select", "load"} \/ Applying \/ at = "reply"
    /\ at = "reply" =>
          /\ caller \in Posts
          /\ loaded # 0 => running >= asked[caller]
          /\ loaded = 0 => tried >= asked[caller] /\ kind[tried] = "broken"
    /\ at = "unlock" => running = loaded
    /\ AnswerIsHonest

LEMMA AskStep == ReloadInv /\ ReloadInv' /\ AskInv /\ [Next]_vars => AskInv'
<1> SUFFICES ASSUME ReloadInv, ReloadInv', AskInv, [Next]_vars PROVE AskInv'
  OBVIOUS
<1> USE MaxAssumption, NoPostAssumption
    DEF ReloadInv, TypeOK, ApplyInv, AskInv, SignalNotLost, AnswerIsHonest, Applying,
        Editions, disk, asking, loop, handler, serving
<1>1. CASE Edit
  BY <1>1 DEF Edit
<1>2. CASE Signal
  BY <1>2 DEF Signal
<1>3. ASSUME NEW p \in Posts, Post(p) PROVE AskInv'
  BY <1>3 DEF Post
<1>4. ASSUME NEW q \in Requests, Arrive(q) \/ Depart(q) PROVE AskInv'
  <2>1. UNCHANGED <<disk, asking, loop, handler>>
    BY <1>4 DEF Arrive, Depart
  <2>2. QED
    BY <2>1
<1>5. CASE TakeSignal
  BY <1>5 DEF TakeSignal
<1>6. ASSUME NEW p \in Posts, TakePost(p) PROVE AskInv'
  BY <1>6 DEF TakePost
<1>7. CASE Load
  <2>1. CASE kind[edition] = "broken"
    BY <1>7, <2>1 DEF Load
  <2>2. CASE kind[edition] # "broken"
    BY <1>7, <2>2 DEF Load
  <2>3. QED
    BY <2>1, <2>2
<1>8. CASE Lock \/ ShutdownClients
  BY <1>8, SMTT(30) DEF Lock, ShutdownClients
<1>9. CASE BuildClients
  BY <1>9 DEF BuildClients
<1>10. CASE Unlock
  BY <1>10 DEF Unlock
<1>11. CASE Reply
  BY <1>11 DEF Reply
<1>12. CASE UNCHANGED vars
  BY <1>12 DEF vars
<1>13. QED
  BY <1>1, <1>2, <1>3, <1>4, <1>5, <1>6, <1>7, <1>8, <1>9, <1>10, <1>11, <1>12
     DEF Next, LoopStep, ApplyConfig

LEMMA AskInvariant == Spec => []AskInv
<1>1. Init => AskInv
  BY NoPostAssumption DEF Init, AskInv, SignalNotLost, AnswerIsHonest, Applying
<1>2. QED
  BY ReloadInvariant, AskStep, <1>1, PTL DEF Spec

(* A signal that found another one waiting is honoured with it: the file is *)
(* read after the last signal that was sent.                                *)
THEOREM NoSignalLost == Spec => []SignalNotLost
<1>1. AskInv => SignalNotLost
  BY DEF AskInv
<1>2. QED
  BY AskInvariant, <1>1, PTL

(* The answer to POST /-/reload says what happened.                         *)
THEOREM AnswersAreHonest == Spec => []AnswerIsHonest
<1>1. AskInv => AnswerIsHonest
  BY DEF AskInv
<1>2. QED
  BY AskInvariant, <1>1, PTL

(* Nobody waits for what nobody will give, for any number of requests and   *)
(* POSTs: every way out of reload() and ApplyConfig leads to the answer and *)
(* the unlock.                                                              *)
THEOREM NobodyWaitsInVain == Spec => []WaitersAreOwed
<1>1. Init => WaitersAreOwed
  BY NoPostAssumption DEF Init, WaitersAreOwed
<1>2. ReloadInv /\ WaitersAreOwed /\ [Next]_vars => WaitersAreOwed'
  <2> SUFFICES ASSUME ReloadInv, WaitersAreOwed, [Next]_vars PROVE WaitersAreOwed'
    OBVIOUS
  <2> USE NoPostAssumption
      DEF ReloadInv, TypeOK, WaitersAreOwed, Applying, disk, asking, loop, handler, serving
  <2>1. CASE Edit \/ Signal \/ UNCHANGED vars
    BY <2>1 DEF Edit, Signal, vars
  <2>2. ASSUME NEW p \in Posts, Post(p) PROVE WaitersAreOwed'
    BY <2>2 DEF Post
  <2>3. ASSUME NEW q \in Requests, Arrive(q) \/ Depart(q) PROVE WaitersAreOwed'
    BY <2>3 DEF Arrive, Depart
  <2>4. CASE TakeSignal
    BY <2>4 DEF TakeSignal
  <2>5. ASSUME NEW p \in Posts, TakePost(p) PROVE WaitersAreOwed'
    BY <2>5 DEF TakePost
  <2>6. CASE Load
    BY <2>6 DEF Load
  <2>7. CASE Lock
    BY <2>7 DEF Lock
  <2>8. CASE ShutdownClients
    BY <2>8 DEF ShutdownClients
  <2>9. CASE BuildClients
    BY <2>9 DEF BuildClients
  <2>10. CASE Unlock
    BY <2>10 DEF Unlock
  <2>11. CASE Reply
    BY <2>11 DEF Reply
  <2>12. QED
    BY <2>1, <2>2, <2>3, <2>4, <2>5, <2>6, <2>7, <2>8, <2>9, <2>10, <2>11
       DEF Next, LoopStep, ApplyConfig
<1>3. QED
  BY ReloadInvariant, <1>1, <1>2, PTL DEF Spec

-----------------------------------------------------------------------------
(* One more number below the bound. *)
LEMMA OneMore ==
    ASSUME NEW C \in SUBSET (Nat \ {0}), NEW n \in Nat, NEW S \in SUBSET (1..n)
    PROVE  /\ n + 1 \notin S
           /\ {c \in C : c <= n + 1 /\ c \notin S}
              = {c \in C : c <= n /\ c \notin S} \cup (C \cap {n + 1})
<1>1. n + 1 \notin S
  OBVIOUS
<1>2. \A c \in C : c <= n + 1 <=> c <= n \/ c = n + 1
  <2> TAKE c \in C
  <2>1. c \in Nat
    OBVIOUS
  <2>2. QED
    BY <2>1
<1>3. QED
  BY <1>1, <1>2

(* Reload implements ClientLifecycle: building, serving and shutting down   *)
(* are its steps, and everything else is invisible.                         *)
LEMMA LifecycleStep ==
    ASSUME ReloadInv, ReloadInv', [Next]_vars
    PROVE  Lifecycle!Next \/ UNCHANGED Lifecycle!vars
<1> USE DEF ReloadInv, TypeOK, Editions, disk, asking, loop, handler, serving
<1>0. Clients \subseteq Nat \ {0} /\ Len(built) \in Nat
  BY PostsAssumption, MaxAssumption, FS_CardinalityType, SMTT(30) DEF Clients
<1>1. UNCHANGED <<built, shut, req, user>> => UNCHANGED Lifecycle!vars
  BY DEF Lifecycle!vars, Live, Retired, Servant
<1>2. ASSUME NEW q \in Requests, Arrive(q) PROVE Lifecycle!Next \/ UNCHANGED Lifecycle!vars
  <2>1. Live' = Live /\ Retired' = Retired /\ Servant[q] = 0
    BY <1>2 DEF Arrive, Live, Retired, Servant
  <2>2. CASE ~Applying /\ client \in Clients
    <3>1. client \in Live
      BY <1>0, <2>2 DEF Live, ApplyInv, Applying
    <3>2. Servant' = [u \in Requests |-> IF u \in {q} THEN client ELSE Servant[u]]
      BY <1>2, <2>2 DEF Arrive, Servant
    <3>3. Lifecycle!Enter(client, {q})
      BY <2>1, <3>1, <3>2 DEF Lifecycle!Enter
    <3>4. QED
      BY <2>2, <3>3 DEF Lifecycle!Next
  <2>3. CASE Applying \/ client \notin Clients
    <3>1. Servant' = Servant
      BY <1>2, <2>3 DEF Arrive, Servant
    <3>2. QED
      BY <2>1, <3>1 DEF Lifecycle!vars
  <2>4. QED
    BY <2>2, <2>3
<1>3. ASSUME NEW q \in Requests, Depart(q) PROVE Lifecycle!Next \/ UNCHANGED Lifecycle!vars
  <2>1. Live' = Live /\ Retired' = Retired
    BY <1>3 DEF Depart, Live, Retired
  <2>2. Servant' = [Servant EXCEPT ![q] = 0]
    BY <1>3 DEF Depart, Servant
  <2>3. CASE Servant[q] # 0
    <3>1. Lifecycle!Exit(q)
      BY <2>1, <2>2, <2>3 DEF Lifecycle!Exit
    <3>2. QED
      BY <3>1 DEF Lifecycle!Next
  <2>4. CASE Servant[q] = 0
    <3>1. Servant' = Servant
      BY <2>2, <2>4 DEF Servant
    <3>2. QED
      BY <2>1, <3>1 DEF Lifecycle!vars
  <2>5. QED
    BY <2>3, <2>4
<1>4. CASE ShutdownClients
  <2>1. \A q \in Requests : Servant[q] = 0
    BY <1>4 DEF ShutdownClients, ApplyInv, Servant
  <2>2. Servant' = Servant
    BY <1>4 DEF ShutdownClients, Servant
  <2>3. CASE client \in Clients
    <3>1. client \in Live /\ Live' = Live \ {client} /\ Retired' = Retired \cup {client}
      BY <1>0, <1>4, <2>3 DEF ShutdownClients, Live, Retired, ApplyInv
    <3>2. Lifecycle!Retire(client)
      BY <1>0, <2>1, <2>2, <2>3, <3>1 DEF Lifecycle!Retire
    <3>3. QED
      BY <2>3, <3>2 DEF Lifecycle!Next
  <2>4. CASE client \notin Clients
    <3>1. Live' = Live /\ Retired' = Retired
      BY <1>0, <1>4, <2>4 DEF ShutdownClients, Live, Retired
    <3>2. QED
      BY <2>2, <3>1 DEF Lifecycle!vars
  <2>5. QED
    BY <2>3, <2>4
<1>5. CASE BuildClients
  <2>1. Servant' = Servant /\ Retired' = Retired
    BY <1>5 DEF BuildClients, Servant, Retired
  <2>2. CASE kind[loaded] = "carbon"
    <3> DEFINE new == Len(built) + 1
    <3>1. loaded \in 1..MaxEdition /\ built' = Append(built, loaded) /\ shut' = shut
      BY <1>5, <2>2 DEF BuildClients, ApplyInv, Applying
    <3>2. shut \in SUBSET (1..Len(built)) /\ built \in Seq(1..MaxEdition)
      OBVIOUS
    <3>3. Len(built') = new
      BY <3>1, <3>2
    <3>4. new \notin shut /\ Live' = Live \cup (Clients \cap {new})
      <4>1. Clients \in SUBSET (Nat \ {0}) /\ Len(built) \in Nat
        BY <1>0
      <4> HIDE DEF ReloadInv, TypeOK
      <4>2. /\ new \notin shut
            /\ {c \in Clients : c <= new /\ c \notin shut}
               = {c \in Clients : c <= Len(built) /\ c \notin shut} \cup (Clients \cap {new})
        BY <3>2, <4>1, OneMore
      <4>3. Live' = {c \in Clients : c <= new /\ c \notin shut}
        BY <3>1, <3>3 DEF Live, Clients
      <4>4. QED
        BY <4>2, <4>3 DEF Live
    <3>5. new \notin Live \cup Retired
      BY <1>0, <3>4 DEF Live, Retired
    <3> HIDE DEF new
    <3>8. CASE new \in Clients
      <4>1. Live' = Live \cup {new}
        BY <3>4, <3>8
      <4>2. Lifecycle!Build(new)
        BY <2>1, <3>5, <4>1 DEF Lifecycle!Build
      <4>3. QED
        BY <3>8, <4>2 DEF Lifecycle!Next
    <3>9. CASE new \notin Clients
      <4>1. Live' = Live
        BY <3>4, <3>9
      <4>2. QED
        BY <2>1, <4>1 DEF Lifecycle!vars
    <3>10. QED
      BY <3>8, <3>9
  <2>3. CASE kind[loaded] # "carbon"
    BY <1>1, <1>5, <2>3 DEF BuildClients
  <2>4. QED
    BY <2>2, <2>3
<1>6. CASE Unlock
  <2> DEFINE group == {q \in Requests : req[q] = "waiting"}
  <2>1. Live' = Live /\ Retired' = Retired /\ \A q \in Requests : Servant[q] = 0
    BY <1>6 DEF Unlock, Live, Retired, ApplyInv, Servant
  <2>2. CASE client \in Clients
    <3>1. client \in Live
      BY <1>0, <1>6, <2>2 DEF Unlock, Live, ApplyInv
    <3>2. Servant' = [u \in Requests |-> IF u \in group THEN client ELSE Servant[u]]
      BY <1>6, <2>2 DEF Unlock, ApplyInv, Servant
    <3>3. Lifecycle!Enter(client, group)
      BY <2>1, <3>1, <3>2 DEF Lifecycle!Enter
    <3>4. QED
      BY <2>2, <3>3 DEF Lifecycle!Next
  <2>3. CASE client \notin Clients
    <3>1. Servant' = Servant
      BY <1>6, <2>3 DEF Unlock, ApplyInv, Servant
    <3>2. QED
      BY <2>1, <3>1 DEF Lifecycle!vars
  <2>4. QED
    BY <2>2, <2>3
<1>7. CASE \/ Edit \/ Signal \/ TakeSignal \/ Load \/ Lock \/ Reply \/ UNCHANGED vars
           \/ \E p \in Posts : Post(p) \/ TakePost(p)
  BY <1>1, <1>7 DEF Edit, Signal, TakeSignal, Load, Lock, Reply, Post, TakePost, vars
<1>8. QED
  BY <1>2, <1>3, <1>4, <1>5, <1>6, <1>7 DEF Next, LoopStep, ApplyConfig

LEMMA LifecycleInit == Init => Lifecycle!Init
<1> SUFFICES ASSUME Init PROVE Lifecycle!Init
  OBVIOUS
<1>1. shut = {} /\ \A q \in Requests : req[q] = "idle"
  BY DEF Init
<1>2. Live \subseteq Clients /\ Retired = {} /\ Servant = [u \in Requests |-> 0]
  BY <1>1 DEF Live, Retired, Servant
<1>3. QED
  BY <1>2 DEF Lifecycle!Init

(* The clients of the whole process, one reload after the other, each keep  *)
(* the promise of ClientLifecycle.                                          *)
THEOREM ReloadImplements == Spec => ClientsLiveAndDie
<1>1. ReloadInv /\ ReloadInv' /\ [Next]_vars => [Lifecycle!Next]_(Lifecycle!vars)
  BY LifecycleStep
<1>2. QED
  BY ReloadInvariant, LifecycleInit, <1>1, PTL DEF Spec, ClientsLiveAndDie, Lifecycle!Spec

-----------------------------------------------------------------------------
(* Every step of Settings is a step of Reload, so that what holds of        *)
(* Reload holds whatever is in the files.                                   *)
THEOREM SettingsImplementReload == SettingsSpec => Spec
<1>1. SettingsInit => Init
  BY DEF SettingsInit
<1>2. [SettingsNext]_settingsVars => [Next]_vars
  <2> SUFFICES ASSUME SettingsNext \/ UNCHANGED settingsVars PROVE Next \/ UNCHANGED vars
    BY DEF settingsVars
  <2>1. CASE Configure
    BY <2>1 DEF Configure, Next, LoopStep, ApplyConfig
  <2>2. CASE Others
    BY <2>2 DEF Others, Next, LoopStep, ApplyConfig
  <2>3. QED
    BY <2>1, <2>2 DEF SettingsNext, settingsVars
<1>3. QED
  BY <1>1, <1>2, PTL DEF SettingsSpec, Spec

-----------------------------------------------------------------------------
(* What comes out of the merge, from a file that names the settings that it *)
(* likes: the flag, the file or the default.                                *)
LEMMA MergedAsPromised ==
    ASSUME files[running] \in Partial, flags \in Partial,
           NEW n \in Names
    PROVE  LET merged == Reloaded(files[running])
           IN  /\ n \in DOMAIN flags /\ (flags[n] # Empty \/ n \in PutBack) => merged[n] = flags[n]
               /\ n \notin DOMAIN flags /\ Default[n] = Empty => merged[n] = OfFile(n)
<1> USE SettingsAssumption DEF Partial
<1> DEFINE file == files[running]
<1>1. /\ DOMAIN Default = Names /\ DOMAIN file \subseteq Names
      /\ DOMAIN flags \subseteq Names
  OBVIOUS
<1>2. DOMAIN file \cup DOMAIN Default = Names /\ DOMAIN flags \cup DOMAIN Default = Names
  BY <1>1
<1>3. LoadFile(file)[n] = OfFile(n)
  BY <1>2 DEF LoadFile, Over, OfFile
<1>4. ParseCommandLine[n] = IF n \in DOMAIN flags THEN flags[n] ELSE Default[n]
  BY <1>2 DEF ParseCommandLine, Over
<1>5. Reloaded(file)[n] =
        IF n \in PutBack /\ ParseCommandLine[n] = Empty THEN Empty
        ELSE IF ParseCommandLine[n] # Empty THEN ParseCommandLine[n]
        ELSE LoadFile(file)[n]
  BY DEF Reloaded, Merge
<1>6. n \in PutBack => Default[n] # Empty
  OBVIOUS
<1>7. QED
  BY <1>3, <1>4, <1>5, <1>6

(* The configuration in force comes from the edition that was loaded, and   *)
(* only from it.                                                            *)
FromEdition ==
    /\ files \in [Editions -> Files \cup {Broken}]
    /\ flags \in CommandLines
    /\ \A e \in Editions : kind[e] # "broken" => files[e] # Broken
    /\ cfg = Reloaded(files[running])

LEMMA FromEditionInit == SettingsInit => FromEdition
<1> SUFFICES ASSUME SettingsInit PROVE FromEdition
  OBVIOUS
<1>1. \A e \in Editions : files[e] = Broken => kind[e] = "broken"
  BY DEF SettingsInit, Kind
<1>2. running = 1
  BY DEF SettingsInit, Init
<1>3. QED
  BY <1>1, <1>2 DEF SettingsInit, FromEdition

LEMMA FromEditionStep ==
    FromEdition /\ ReloadInv /\ [SettingsNext]_settingsVars => FromEdition'
<1> SUFFICES ASSUME FromEdition, ReloadInv, [SettingsNext]_settingsVars
             PROVE  FromEdition'
  OBVIOUS
<1> USE DEF FromEdition
<1>1. CASE Configure
  <2>1. /\ running' = loaded /\ kind' = kind /\ files' = files /\ flags' = flags
        /\ cfg' = Reloaded(files[loaded])
    BY <1>1 DEF Configure, BuildClients, disk
  <2>2. cfg' = (Reloaded(files[running]))'
    BY <2>1 DEF Reloaded, ParseCommandLine, Over, LoadFile, Merge
  <2>5. QED
    BY <2>1, <2>2
<1>2. CASE Others /\ UNCHANGED settings
  <2>1. files' = files /\ flags' = flags /\ cfg' = cfg
    BY <1>2 DEF settings
  <2>2. running' = running /\ kind' = kind
    <3> USE DEF disk, asking, loop, handler, serving
    <3>1. ASSUME NEW p \in Posts, Post(p) \/ TakePost(p)
          PROVE  running' = running /\ kind' = kind
      BY <3>1 DEF Post, TakePost
    <3>2. ASSUME NEW q \in Requests, Arrive(q) \/ Depart(q)
          PROVE  running' = running /\ kind' = kind
      BY <3>2 DEF Arrive, Depart
    <3>3. CASE Edit \/ Signal \/ TakeSignal \/ Load
      BY <3>3 DEF Edit, Signal, TakeSignal, Load
    <3>4. CASE Lock \/ ShutdownClients \/ Unlock \/ Reply
      BY <3>4 DEF Lock, ShutdownClients, Unlock, Reply
    <3>5. QED
      BY <1>2, <3>1, <3>2, <3>3, <3>4 DEF Others
  <2>3. QED
    BY <2>1, <2>2 DEF Reloaded, ParseCommandLine, Over, LoadFile, Merge
<1>3. CASE UNCHANGED settingsVars
  BY <1>3 DEF settingsVars, settings, vars, disk, handler,
              Reloaded, ParseCommandLine, Over, LoadFile, Merge
<1>4. QED
  BY <1>1, <1>2, <1>3 DEF SettingsNext

(* At every time and after every reload a flag that was given a value is in *)
(* force, and the running edition of the file decides about the settings    *)
(* that have neither a flag nor a default.                                  *)
THEOREM SettingsAreInForce == SettingsSpec => []SettingsInForce
<1>1. FromEdition /\ ReloadInv => SettingsInForce
  <2> SUFFICES ASSUME FromEdition, ReloadInv PROVE SettingsInForce
    OBVIOUS
  <2>1. running \in Editions /\ kind[running] # "broken"
    BY DEF ReloadInv, TypeOK, ApplyInv
  <2>2. files[running] \in Files /\ flags \in CommandLines
    BY <2>1 DEF FromEdition
  <2>3. files[running] \in Partial /\ flags \in Partial
    BY <2>2, SettingsAssumption
  <2>4. cfg = Reloaded(files[running])
    BY DEF FromEdition
  <2>5. QED
    BY <2>3, <2>4, MergedAsPromised DEF SettingsInForce
<1>2. SettingsSpec => []ReloadInv
  BY SettingsImplementReload, ReloadInvariant, PTL
<1>3. QED
  BY <1>1, <1>2, FromEditionInit, FromEditionStep, PTL DEF SettingsSpec

=============================================================================
