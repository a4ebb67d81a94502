---------------------------- MODULE ServerProofs ----------------------------
(***************************************************************************)
(* Safety of what the server process keeps: the shared master key, for any *)
(* number of versions and models, and, after it, the forward main serves   *)
(* over, in each of its connection modes.  The two are separate systems    *)
(* that share no variable: a theorem is about the one or the other.        *)
(***************************************************************************)
EXTENDS GatewayAdmin, ServerLifecycle, TLAPS

(* While the mutex is held there is no key yet, so no call carries one; and  *)
(* who reads the Secret holds the mutex.                                     *)
IInv == /\ AdminTypeOK
        /\ OneMasterKey
        /\ holder # Nobody => env = 0 /\ cache = 0
        /\ \A o \in Ops : call[o].stage = "reading" => holder = o

(* A call without a key that does not read the Secret.                       *)
Released(o) == call'[o].key = 0 /\ o # holder /\ call'[o].stage # "reading"

LEMMA NobodyIsNoOp == Nobody \notin Ops
BY DEF Nobody, Ops

LEMMA IdleIsACall == Idle \in Call /\ Begun \in Call /\ Answered \in Call
<1>1. /\ Idle \in Call
      /\ \A c \in Call : \A stage \in Stages : [c EXCEPT !.stage = stage] \in Call
  BY AdminBounds DEF Idle, Call, Stages
<1>. QED
  BY <1>1 DEF Begun, Answered, Stages

LEMMA InitInv == Init => IInv
<1>. SUFFICES ASSUME Init PROVE IInv
  OBVIOUS
<1>1. call \in [Ops -> Call]
  BY IdleIsACall DEF Init
<1>2. \A o \in Ops : call[o].key = 0
  BY DEF Init, Idle, Begun
<1>3. 0 \in 0..MaxModels /\ 0 \in 0..Versions
  BY AdminBounds
<1>. QED
  BY <1>1, <1>2, <1>3 DEF Init, IInv, AdminTypeOK, OneMasterKey, Idle, Begun

(* The mutex and the keys survive a step that moves calls which neither hold *)
(* the mutex nor, afterwards, a key.                                         *)
LEMMA CallsMove ==
  ASSUME IInv, UNCHANGED client, call' \in [Ops -> Call],
         \A o \in Ops : call'[o] = call[o] \/ Released(o)
  PROVE  /\ OneMasterKey'
         /\ holder' # Nobody => env' = 0 /\ cache' = 0
         /\ holder' # Nobody => holder' \in Ops /\ call'[holder'].stage = "reading"
         /\ \A o \in Ops : call'[o].stage = "reading" => holder' = o
<1>1. \A o \in Ops : call'[o].key # 0 => call'[o] = call[o]
  BY DEF Released
<1>2. holder \in Ops => call'[holder] = call[holder]
  BY DEF Released
<1>3. OneMasterKey'
  BY <1>1 DEF IInv, OneMasterKey, client
<1>4. \A o \in Ops : call'[o].stage = "reading" => holder' = o
  BY DEF IInv, Released, client
<1>. QED
  BY <1>2, <1>3, <1>4 DEF IInv, AdminTypeOK, client

(* A call that fails.                                                        *)
LEMMA FailedMoves ==
  ASSUME AdminTypeOK, NEW o \in Ops, Failed(o)
  PROVE  /\ call' \in [Ops -> Call] /\ call'[o].key = 0 /\ call'[o].stage # "reading"
         /\ \A p \in Ops \ {o} : call'[p] = call[p]
         /\ rows' \in [ids : SUBSET Models, loaded : BOOLEAN, failed : BOOLEAN]
         /\ UNCHANGED <<here, info>>
<1>1. CASE o = "info" /\ call[o].probe
  BY <1>1, IdleIsACall DEF Failed, AdminTypeOK, queries, Answered, Idle
<1>2. CASE ~(o = "info" /\ call[o].probe)
  <2>1. /\ call' = [call EXCEPT ![o] = Idle] /\ UNCHANGED <<here, info>>
        /\ rows' = [rows EXCEPT !.failed = rows.failed \/ o = "models"]
    BY <1>2 DEF Failed
  <2>2. (rows.failed \/ o = "models") \in BOOLEAN
    OBVIOUS
  <2>3. rows' \in [ids : SUBSET Models, loaded : BOOLEAN, failed : BOOLEAN]
    BY <2>1, <2>2 DEF AdminTypeOK
  <2>4. /\ call' \in [Ops -> Call] /\ call'[o].key = 0 /\ call'[o].stage # "reading"
        /\ \A p \in Ops \ {o} : call'[p] = call[p]
    BY <2>1, IdleIsACall DEF AdminTypeOK, Idle
  <2>. QED
    BY <2>1, <2>3, <2>4
<1>. QED
  BY <1>1, <1>2

(* A call that gets its key.                                                 *)
LEMMA KeyedMoves ==
  ASSUME AdminTypeOK, NEW o \in Ops, NEW key \in 0..Versions, call' = Keyed(o, key)
  PROVE  /\ call' \in [Ops -> Call] /\ call'[o].key \in {0, key}
         /\ call'[o].stage # "reading"
         /\ \A p \in Ops \ {o} : call'[p] = call[p]
<1>. DEFINE c == IF o = "startup" THEN Idle ELSE [call[o] EXCEPT !.stage = "sent", !.key = key]
<1>1. call[o] \in Call
  BY DEF AdminTypeOK
<1>2. /\ [call[o] EXCEPT !.stage = "sent", !.key = key] \in Call
      /\ [call[o] EXCEPT !.stage = "sent", !.key = key].key = key
      /\ [call[o] EXCEPT !.stage = "sent", !.key = key].stage = "sent"
  BY <1>1 DEF Call, Stages
<1>3. c \in Call /\ c.key \in {0, key} /\ c.stage # "reading"
  BY <1>2, IdleIsACall DEF Idle
<1>4. call' = [call EXCEPT ![o] = c]
  BY DEF Keyed
<1>. HIDE DEF c
<1>. QED
  BY <1>3, <1>4 DEF AdminTypeOK

LEMMA MasterKeySteps ==
  ASSUME IInv, NEW o \in Ops, TakesKey(o) \/ Reads(o)
  PROVE  IInv'
<1>. USE DEF IInv
<1>1. ASSUME FromEnv(o) \/ FromCache(o) PROVE IInv'
  <2>1. PICK key \in 0..Versions : /\ key = IF env # 0 THEN env ELSE cache
                                   /\ call' = Keyed(o, key)
    BY <1>1, AdminBounds DEF FromEnv, FromCache, AdminTypeOK, EnvKeys
  <2>2. holder = Nobody \/ env # 0
    BY <1>1 DEF FromEnv, FromCache
  <2>3. UNCHANGED <<litellm, client, here, queries, deleted>>
    BY <1>1 DEF FromEnv, FromCache
  <2>. QED
    BY <2>1, <2>2, <2>3, KeyedMoves
    DEF AdminTypeOK, OneMasterKey, litellm, client, queries
<1>2. ASSUME StartRead(o) PROVE IInv'
  <2>1. call' = [call EXCEPT ![o].stage = "reading"] /\ holder' = o /\ cache = 0 /\ env = 0
    BY <1>2 DEF StartRead
  <2>2. call' \in [Ops -> Call] /\ call'[o].stage = "reading"
    BY <2>1 DEF AdminTypeOK, Call, Stages
  <2>3. \A p \in Ops : call'[p].key = call[p].key
    BY <2>1 DEF AdminTypeOK, Call
  <2>4. UNCHANGED <<litellm, env, cache, here, queries, deleted>>
    BY <1>2 DEF StartRead
  <2>5. \A p \in Ops : call'[p].stage = "reading" => p = o
    BY <1>2, <2>1, NobodyIsNoOp DEF StartRead, AdminTypeOK
  <2>. QED
    BY <2>1, <2>2, <2>3, <2>4, <2>5, NobodyIsNoOp
    DEF AdminTypeOK, OneMasterKey, litellm, queries
<1>3. ASSUME SecretRead(o) PROVE IInv'
  <2>1. /\ cache' \in 0..Versions /\ holder' = Nobody /\ call' = Keyed(o, cache')
        /\ UNCHANGED <<litellm, env, here, queries, deleted>>
    BY <1>3 DEF SecretRead
  <2>2. env = 0 /\ cache = 0
    BY <1>3, NobodyIsNoOp DEF SecretRead, Holding
  <2>3. \A p \in Ops \ {o} : call'[p].key = 0
    BY <2>1, <2>2, KeyedMoves DEF OneMasterKey
  <2>4. \A p \in Ops : call'[p].stage # "reading"
    BY <1>3, <2>1, KeyedMoves DEF SecretRead, Holding
  <2>5. call' \in [Ops -> Call] /\ call'[o].key \in {0, cache'}
    BY <2>1, KeyedMoves
  <2>. QED
    BY <2>1, <2>2, <2>3, <2>4, <2>5 DEF AdminTypeOK, OneMasterKey, litellm, queries
<1>4. ASSUME ReadFails(o) PROVE IInv'
  <2>1. Failed(o) /\ holder' = Nobody /\ UNCHANGED <<litellm, env, cache, deleted>>
    BY <1>4 DEF ReadFails
  <2>2. \A p \in Ops : call'[p].stage # "reading"
    BY <1>4, <2>1, FailedMoves DEF ReadFails, Holding
  <2>3. \A p \in Ops : call'[p].key = 0 \/ call'[p] = call[p]
    BY <2>1, FailedMoves
  <2>. QED
    BY <2>1, <2>2, <2>3, FailedMoves DEF AdminTypeOK, OneMasterKey, litellm
<1>. QED
  BY <1>1, <1>2, <1>3, <1>4 DEF TakesKey, Reads

LEMMA DropsStep == ASSUME IInv, NEW o \in Ops, Drops(o) PROVE IInv'
<1>1. Failed(o) /\ UNCHANGED <<litellm, client, deleted>> /\ call[o].stage # "reading"
  BY DEF Drops
<1>2. /\ call' \in [Ops -> Call] /\ UNCHANGED <<here, info>>
      /\ rows' \in [ids : SUBSET Models, loaded : BOOLEAN, failed : BOOLEAN]
  BY <1>1, FailedMoves DEF IInv
<1>3. \A p \in Ops : call'[p] = call[p] \/ Released(p)
  BY <1>1, FailedMoves, NobodyIsNoOp DEF IInv, AdminTypeOK, Released
<1>. QED
  BY <1>1, <1>2, <1>3, CallsMove DEF IInv, AdminTypeOK, litellm, client

LEMMA ServedSteps == ASSUME IInv, Served PROVE IInv'
<1>. USE DEF IInv, Sent
<1>1. /\ UNCHANGED <<client, here, queries, deleted>>
      /\ models' \subseteq Models /\ minted' \in 0..MaxModels
      /\ call' \in [Ops -> Call]
  <2>. USE IdleIsACall DEF AdminTypeOK, Call, Models, Stages, Answered, Begun, Idle, Ops
  <2>1. CASE InfoServed
    BY <2>1 DEF InfoServed, litellm
  <2>2. CASE ModelsServed
    BY <2>2 DEF ModelsServed, litellm
  <2>3. CASE RegisterServed
    <3>1. minted' \in Models /\ minted' \in 0..MaxModels
      BY <2>3, AdminBounds DEF RegisterServed
    <3>. QED
      BY <2>3, <3>1 DEF RegisterServed
  <2>4. CASE DeleteServed
    BY <2>4 DEF DeleteServed
  <2>5. CASE OtherServed
    BY <2>5 DEF OtherServed, litellm
  <2>. QED
    BY <2>1, <2>2, <2>3, <2>4, <2>5 DEF Served
<1>2. PICK o \in Ops : call[o].stage = "sent" /\ call'[o].key = 0
                       /\ call'[o].stage # "reading"
                       /\ \A p \in Ops \ {o} : call'[p] = call[p]
  <2>. DEFINE Answers(o) == /\ call[o].stage = "sent" /\ call'[o].key = 0
                            /\ call'[o].stage # "reading"
                            /\ \A p \in Ops \ {o} : call'[p] = call[p]
  <2>. USE DEF AdminTypeOK, Answered, Begun, Idle
  <2>1. "info" \in Ops /\ "models" \in Ops /\ "register" \in Ops
        /\ "delete" \in Ops /\ "other" \in Ops
    BY DEF Ops
  <2>2. ASSUME InfoServed PROVE Answers("info")
    BY <2>1, <2>2 DEF InfoServed
  <2>3. ASSUME ModelsServed PROVE Answers("models")
    BY <2>1, <2>3 DEF ModelsServed
  <2>4. ASSUME RegisterServed PROVE Answers("register")
    BY <2>1, <2>4 DEF RegisterServed
  <2>5. ASSUME DeleteServed PROVE Answers("delete")
    <3>1. call["delete"] \in Call
      BY <2>1
    <3>2. call' = [call EXCEPT !["delete"].stage = "answered", !["delete"].key = 0]
          /\ call["delete"].stage = "sent"
      BY <2>5 DEF DeleteServed
    <3>. QED
      BY <2>1, <3>1, <3>2 DEF Call
  <2>6. ASSUME OtherServed PROVE Answers("other")
    BY <2>1, <2>6 DEF OtherServed
  <2>. QED
    BY <2>1, <2>2, <2>3, <2>4, <2>5, <2>6 DEF Served
<1>3. \A p \in Ops : call'[p] = call[p] \/ Released(p)
  BY <1>2, NobodyIsNoOp DEF AdminTypeOK, Released
<1>. QED
  BY <1>1, <1>3, CallsMove DEF AdminTypeOK, client, queries

(* The restarted list: the request that reads the Secret becomes another     *)
(* page's, and the mutex goes with it.                                       *)
LEMMA Restarted ==
  ASSUME IInv, NEW o \in {"register", "delete"}, call[o].stage = "answered",
         Invalidating(o), UNCHANGED <<litellm, env, cache, here, queries>>,
         deleted' \subseteq 0..MaxModels
  PROVE  IInv'
<1>. DEFINE again == Reachable /\ (rows.loaded \/ call["models"].stage = "idle")
            left == again /\ call["models"].stage = "reading"
<1>1. /\ call' = [call EXCEPT ![o] = Idle,
                    !["models"] = IF again THEN Begun ELSE @,
                    !["other"] = IF left THEN call["models"] ELSE @]
      /\ holder' = IF left THEN "other" ELSE holder
  BY DEF Invalidating
<1>2. call' \in [Ops -> Call]
  BY <1>1, IdleIsACall DEF IInv, AdminTypeOK, Ops
<1>3. /\ call'[o] = Idle
      /\ call'["models"] = IF again THEN Begun ELSE call["models"]
      /\ call'["other"] = IF left THEN call["models"] ELSE call["other"]
      /\ \A p \in Ops \ {o, "models", "other"} : call'[p] = call[p]
  BY <1>1 DEF IInv, AdminTypeOK, Ops
<1>4. OneMasterKey'
  <2>1. \A p \in Ops : call'[p].key = 0 \/ \E q \in Ops : call'[p] = call[q]
    BY <1>3 DEF Idle, Begun, Ops
  <2>. QED
    BY <2>1 DEF IInv, OneMasterKey
<1>. HIDE DEF again, left
<1>5. left => call["models"].stage = "reading" /\ again
  BY DEF left
<1>6. CASE left
  <2>1. holder = "models" /\ "other" \in Ops /\ "models" \in Ops
    BY <1>5, <1>6 DEF IInv, Ops
  <2>2. \A p \in Ops : call'[p].stage = "reading" => p = "other"
    BY <1>3, <1>5, <1>6, <2>1 DEF IInv, Idle, Begun
  <2>. QED
    BY <1>1, <1>2, <1>3, <1>4, <1>5, <1>6, <2>1, <2>2, NobodyIsNoOp
    DEF IInv, AdminTypeOK, litellm, queries
<1>7. CASE ~left
  <2>1. holder' = holder
    BY <1>1, <1>7
  <2>2. \A p \in Ops : call'[p] # call[p] =>
           call[p].stage # "reading" /\ call'[p].stage # "reading"
    BY <1>3, <1>7 DEF Idle, Begun, left
  <2>. QED
    BY <1>2, <1>4, <2>1, <2>2 DEF IInv, AdminTypeOK, litellm, queries
<1>. QED
  BY <1>6, <1>7

LEMMA PageSteps == ASSUME IInv, Arrives \/ Poll \/ User PROVE IInv'
<1>1. CASE RegisterArrives
  BY <1>1, Restarted DEF RegisterArrives, IInv, AdminTypeOK
<1>2. CASE DeleteArrives
  <2>1. call["delete"].model \in 0..MaxModels
    BY DEF IInv, AdminTypeOK, Ops, Call
  <2>. QED
    BY <1>2, <2>1, Restarted DEF DeleteArrives, IInv, AdminTypeOK
<1>3. CASE InfoArrives \/ ModelsArrive \/ OtherArrives \/ Poll \/ User
  <2>1. /\ UNCHANGED <<litellm, client, deleted>>
        /\ here' \in BOOLEAN /\ info' \in BOOLEAN
    BY <1>3 DEF InfoArrives, ModelsArrive, OtherArrives, Poll, User, Visit, Leave,
                Register, Delete, IInv, AdminTypeOK, queries
  <2>2. rows' \in [ids : SUBSET Models, loaded : BOOLEAN, failed : BOOLEAN]
    <3>1. call["models"].ids \in SUBSET Models
      BY DEF IInv, AdminTypeOK, Ops, Call
    <3>2. CASE ModelsArrive
      BY <3>1, <3>2 DEF ModelsArrive
    <3>3. CASE ~ModelsArrive
      BY <1>3, <3>3 DEF InfoArrives, OtherArrives, Poll, User, Visit, Leave,
                        Register, Delete, IInv, AdminTypeOK, queries
    <3>. QED
      BY <3>2, <3>3
  <2>3. /\ call' \in [Ops -> Call]
        /\ \A o \in Ops : call'[o] = call[o] \/ Released(o)
    <3>. USE IdleIsACall, NobodyIsNoOp
         DEF IInv, AdminTypeOK, Released, Ops, Idle, Begun, BegunIf, NoMutation
    <3>1. CASE InfoArrives
      BY <3>1 DEF InfoArrives
    <3>2. CASE ModelsArrive
      BY <3>2 DEF ModelsArrive
    <3>3. CASE OtherArrives
      BY <3>3 DEF OtherArrives
    <3>4. CASE Poll
      BY <3>4 DEF Poll
    <3>5. CASE Visit
      BY <3>5 DEF Visit
    <3>6. CASE Leave
      BY <3>6 DEF Leave
    <3>7. CASE Register
      BY <3>7 DEF Register
    <3>8. ASSUME NEW m \in Models, Delete(m)
          PROVE  /\ call' \in [Ops -> Call]
                 /\ \A o \in Ops : call'[o] = call[o] \/ Released(o)
      <4>1. /\ [Begun EXCEPT !.model = m] \in Call
            /\ [Begun EXCEPT !.model = m].key = 0
            /\ [Begun EXCEPT !.model = m].stage = "entering"
        <5>1. m \in 0..MaxModels /\ 0 \in 0..Versions
          BY AdminBounds DEF Models
        <5>. QED
          BY <5>1 DEF Call, Stages
      <4>2. call' = [call EXCEPT !["delete"] = [Begun EXCEPT !.model = m]]
            /\ call["delete"].stage = "idle"
        BY <3>8 DEF Delete
      <4>. QED
        BY <4>1, <4>2
    <3>. QED
      BY <1>3, <3>1, <3>2, <3>3, <3>4, <3>5, <3>6, <3>7, <3>8 DEF User
  <2>. QED
    BY <2>1, <2>2, <2>3, CallsMove DEF IInv, AdminTypeOK, litellm, client
<1>. QED
  BY <1>1, <1>2, <1>3 DEF Arrives

LEMMA SurroundingSteps == ASSUME IInv, Surroundings PROVE IInv'
<1>1. CASE OtherBegins
  <2>1. /\ call' \in [Ops -> Call]
        /\ \A o \in Ops : call'[o] = call[o] \/ Released(o)
    BY <1>1, IdleIsACall, NobodyIsNoOp
    DEF OtherBegins, IInv, AdminTypeOK, Released, Ops, Idle, Begun
  <2>. QED
    BY <1>1, <2>1, CallsMove DEF OtherBegins, IInv, AdminTypeOK, litellm, client, queries
<1>2. CASE Restart
  <2>1. /\ call' \in [Ops -> Call]
        /\ \A o \in Ops : call'[o].key = 0 /\ call'[o].stage # "reading"
    BY <1>2, IdleIsACall DEF Restart, Idle, Begun
  <2>2. rows' \in [ids : SUBSET Models, loaded : BOOLEAN, failed : BOOLEAN]
    <3>1. (rows.failed \/ call["models"].stage # "idle") \in BOOLEAN
      OBVIOUS
    <3>. QED
      BY <1>2, <3>1 DEF Restart, IInv, AdminTypeOK
  <2>3. cache' \in 0..Versions
    BY <1>2, AdminBounds DEF Restart
  <2>. QED
    BY <1>2, <2>1, <2>2, <2>3 DEF Restart, IInv, AdminTypeOK, OneMasterKey, litellm
<1>3. ASSUME NEW m \in Models, ModelDeletedElsewhere(m) PROVE IInv'
  BY <1>3 DEF ModelDeletedElsewhere, IInv, AdminTypeOK, OneMasterKey, client, queries
<1>. QED
  BY <1>1, <1>2, <1>3 DEF Surroundings

LEMMA StutterInv == ASSUME IInv, UNCHANGED vars PROVE IInv'
BY DEF IInv, AdminTypeOK, OneMasterKey, vars, litellm, client, queries

LEMMA StepInv == IInv /\ [Next]_vars => IInv'
BY MasterKeySteps, DropsStep, ServedSteps, PageSteps, SurroundingSteps, StutterInv DEF Next

THEOREM SpecIInv == Spec => []IInv
BY InitInv, StepInv, PTL DEF Spec

(* Types, and the mutex is held by nobody but the call that reads the        *)
(* Secret (client.go:85-86).                                                 *)
THEOREM AdminTypes == Spec => []AdminTypeOK
<1>1. IInv => AdminTypeOK
  BY DEF IInv
<1>. QED
  BY <1>1, SpecIInv, PTL

(* All requests between two restarts carry one master key, although the      *)
(* Secret changes while some of them resolve it (client.go:81-107).          *)
THEOREM MasterKeyIsOne == Spec => []OneMasterKey
<1>1. IInv => OneMasterKey
  BY DEF IInv
<1>. QED
  BY <1>1, SpecIInv, PTL

-----------------------------------------------------------------------------
(***************************************************************************)
(* The server process in each of its connection modes.                     *)
(***************************************************************************)
Places == {"connect", "waiting", "dial", "resolve", "listen", "bind",
           "serving", "stop", "close", "exited"}

(* Only a launched forward reports, and only portforward mode launches one;*)
(* nothing but a signal or the end of main cancels it.                     *)
ProcessInv ==
  /\ LifecycleTypeOK
  /\ mode # "portforward" => ~reported
  /\ ForwardSupervisedWhileServing

LEMMA ProcessInit == LifecycleInit => ProcessInv
BY DEF LifecycleInit, ProcessInv, LifecycleTypeOK, ForwardSupervisedWhileServing,
       Modes, Alive, Forward!Init

(* A step of main that leaves the forward and the shutdown goroutine alone *)
(* before the process ends.                                                *)
LEMMA MainMoves ==
  ASSUME ProcessInv, NEW place \in Places \ {"close", "exited"},
         NEW next \in Places \ {"exited"},
         At(place, next), UNCHANGED <<shutdown, forward>>
  PROVE  ProcessInv'
BY DEF ProcessInv, LifecycleTypeOK, ForwardSupervisedWhileServing, Modes, Alive, At,
       forward, Places

(* main ends, by os.Exit or by returning.                                  *)
LEMMA MainEnds ==
  ASSUME ProcessInv, pc' = "exited", exit' \in {"clean", "fatal"},
         UNCHANGED <<mode, ctxDone, shutdown, forward>>
  PROVE  ProcessInv'
BY DEF ProcessInv, LifecycleTypeOK, ForwardSupervisedWhileServing, Modes, Alive, forward

(* The manager or its kubectl moves while main stays where it is.          *)
LEMMA ForwardMoves ==
  ASSUME ProcessInv, UNCHANGED <<mode, pc, exit, ctxDone, shutdown>>,
         \/ Forward!Begin \/ Forward!Up \/ Forward!Report \/ Forward!Latch \/ Forward!Down \/ Forward!Finish
  PROVE  ProcessInv'
<1>. USE DEF ProcessInv, LifecycleTypeOK, ForwardSupervisedWhileServing, Modes, Alive
<1>1. CASE Forward!Begin \/ Forward!Up \/ Forward!Down \/ Forward!Finish
  <2>1. /\ phase \in {"down", "starting", "up"}
        /\ phase' \in {"down", "starting", "up", "stopped"}
        /\ UNCHANGED <<stopping, reported, latched>>
    BY <1>1 DEF Forward!Begin, Forward!Up, Forward!Down, Forward!Finish, Forward!Move
  <2>. QED
    BY <2>1
<1>2. CASE Forward!Report
  BY <1>2 DEF Forward!Report
<1>3. CASE Forward!Latch
  BY <1>3 DEF Forward!Latch
<1>. QED
  BY <1>1, <1>2, <1>3

LEMMA ProcessStep == ProcessInv /\ [LifecycleNext]_lifecycleVars => ProcessInv'
<1>. SUFFICES ASSUME ProcessInv, [LifecycleNext]_lifecycleVars PROVE ProcessInv'
  OBVIOUS
<1>1. CASE Main
  <2>1. CASE ConnectDirect \/ WaitReadyOk \/ WaitReadyExpired \/ Dialed
    BY <2>1, MainMoves
    DEF ConnectDirect, WaitReadyOk, WaitReadyExpired, Dialed, Places
  <2>2. CASE Listen \/ Bound \/ ServeClosed
    BY <2>2, MainMoves DEF Listen, Bound, ServeClosed, Places
  <2>3. CASE DialFails \/ ListenFails \/ ServeFails \/ Close
    BY <2>3, MainEnds DEF DialFails, ListenFails, ServeFails, Close, Fatal
  <2>4. CASE StartForward
    BY <2>4 DEF StartForward, At, ProcessInv, LifecycleTypeOK, ForwardSupervisedWhileServing,
                Modes, Alive, Forward!Launch, Forward!Move
  <2>5. CASE ResolveMasterKey
    BY <2>5 DEF ResolveMasterKey, At, ProcessInv, LifecycleTypeOK, ForwardSupervisedWhileServing,
                Modes, Alive, forward
  <2>6. CASE Stop
    BY <2>6 DEF Stop, At, ProcessInv, LifecycleTypeOK, ForwardSupervisedWhileServing,
                Modes, Alive, forward, Forward!Cancel
  <2>. QED
    BY <1>1, <2>1, <2>2, <2>3, <2>4, <2>5, <2>6 DEF Main
<1>2. CASE ShutdownOnSignal
  BY <1>2 DEF ShutdownOnSignal, ProcessInv, LifecycleTypeOK, ForwardSupervisedWhileServing,
              Modes, Alive, forward
<1>3. CASE Signal
  BY <1>3 DEF Signal, ProcessInv, LifecycleTypeOK, ForwardSupervisedWhileServing,
              Modes, Alive, Forward!Cancel
<1>4. CASE \/ ForwardBegin \/ ForwardUp \/ ForwardReport \/ ForwardLatch
           \/ ForwardDown \/ ForwardFinish \/ OrphanEnds
  BY <1>4, ForwardMoves
  DEF ForwardBegin, ForwardUp, ForwardReport, ForwardLatch, ForwardDown, ForwardFinish,
      OrphanEnds, Manage
<1>5. CASE UNCHANGED lifecycleVars
  BY <1>5 DEF lifecycleVars, forward, ProcessInv, LifecycleTypeOK,
              ForwardSupervisedWhileServing, Modes, Alive
<1>. QED
  BY <1>1, <1>2, <1>3, <1>4, <1>5 DEF LifecycleNext

LEMMA ProcessInvariant == LifecycleSpec => []ProcessInv
BY ProcessInit, ProcessStep, PTL DEF LifecycleSpec

(* The state of the process is well typed, and a server that dials its API *)
(* directly never starts a kubectl (main.go:108-169).                      *)
THEOREM ProcessTypes == LifecycleSpec => []LifecycleTypeOK
<1>1. ProcessInv => LifecycleTypeOK
  BY DEF ProcessInv
<1>. QED
  BY <1>1, ProcessInvariant, PTL

(* Until it is signalled or main returns, the process never stops the      *)
(* forward it serves over: neither the timeout of the wait for readiness   *)
(* nor the end of connectSubstrate does (main.go:146-150, 186-194).        *)
THEOREM SupervisedWhileServing == LifecycleSpec => []ForwardSupervisedWhileServing
<1>1. ProcessInv => ForwardSupervisedWhileServing
  BY DEF ProcessInv
<1>. QED
  BY <1>1, ProcessInvariant, PTL
=============================================================================
