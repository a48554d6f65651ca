----------------------------- MODULE LockProofs -----------------------------
(***************************************************************************)
(* Proofs about Lock, for any set of clients and any bounds: the inductive *)
(* invariant LockInv, mutual exclusion, that Release is effective, and     *)
(* that nobody disturbs the critical section of the test.                  *)
(***************************************************************************)
EXTENDS Lock, TLAPS

-----------------------------------------------------------------------------
(* Types. *)

\* The entry of the lock is an entry of the store.
LEMMA LockEntry ==
    ASSUME KVTypeOK
    PROVE  /\ "l" \in Key /\ store["l"] \in Entry
           /\ store["l"].version \in Nat /\ store["l"].value \in Value
<1>1. "l" \in Key
  BY LockAssumption
<1>2. store["l"] \in Entry
  BY <1>1 DEF KVTypeOK
<1> QED
  BY <1>1, <1>2, KVAssumption DEF Entry, Version

LEMMA AnswerType ==
    ASSUME NEW err \in {"OK", "ErrNoKey", "ErrVersion", "ErrMaybe"}
    PROVE  Answer(err) \in Reply /\ Answer(err) # Nothing /\ Answer(err).err = err
BY KVAssumption DEF Answer, Reply, Version, Nothing

\* What a Get reads is a reply.
LEMMA ReadType ==
    ASSUME NEW entry \in Entry
    PROVE  ReadOf(entry) \in Reply /\ ReadOf(entry) # Nothing
<1>1. ReadOf(entry) \in Reply
  BY DEF ReadOf, Entry, Reply
<1>2. ReadOf(entry).err # "None"
  BY DEF ReadOf
<1> QED
  BY <1>1, <1>2 DEF Nothing

LEMMA PutAnswerType ==
    ASSUME NEW entry, NEW version
    PROVE  /\ PutAnswer(entry, version) \in Reply /\ PutAnswer(entry, version) # Nothing
           /\ PutAnswer(entry, version).err = "OK" <=> version = entry.version
<1>1. \E err \in {"OK", "ErrNoKey", "ErrVersion"} :
         /\ PutAnswer(entry, version) = Answer(err)
         /\ err = "OK" <=> version = entry.version
  BY DEF PutAnswer
<1> QED
  BY <1>1, AnswerType

\* The fields of what a client has pending.
LEMMA PendingType ==
    ASSUME KVTypeOK, NEW c \in Client
    PROVE  /\ pending[c].req \in Request \cup {Idle}
           /\ pending[c].outcome \in Reply \cup {Nothing}
           /\ pending[c] = [req |-> pending[c].req, outcome |-> pending[c].outcome]
BY DEF KVTypeOK

\* A call that returns (VersionedKV, Return): what it leaves behind.
LEMMA ReturnEffect ==
    ASSUME TypeOK, NEW c \in Client, NEW reply, Returns(c, reply)
    PROVE  /\ reply \in Reply
           /\ pending[c].req \in Request /\ pending[c].outcome # Nothing
           /\ pending[c].req.type = "Get" => reply = pending[c].outcome
           /\ reply.err = "OK" => reply = pending[c].outcome
           /\ pending'[c].req = Idle /\ pending'[c].outcome = Nothing
           /\ \A d \in Client : d # c => pending'[d] = pending[d] /\ ver'[d] = ver[d]
           /\ pending[c].req.type = "Get" => ver'[c] = reply.version
           /\ pending[c].req.type # "Get" => ver'[c] = ver[c]
           /\ store' = store
           /\ KVTypeOK' /\ ver' \in [Client -> Version] /\ maybes' \in 0..MaxMaybe
<1>1. /\ pending[c].req # Idle /\ pending[c].outcome # Nothing /\ reply \in Answers(pending[c])
      /\ pending' = [pending EXCEPT ![c] = [req |-> Idle, outcome |-> Nothing]]
      /\ returned' = [returned EXCEPT ![c] = [req |-> pending[c].req, reply |-> reply]]
      /\ store' = store
  BY DEF Returns, Return
<1>2. pending[c].req \in Request /\ pending[c].outcome \in Reply
  BY <1>1, PendingType, Zenon DEF TypeOK
<1>3. reply = pending[c].outcome \/ (pending[c].req.type = "Put" /\ reply = Answer("ErrMaybe"))
  BY <1>1 DEF Answers
<1>4. reply \in Reply /\ (reply.err = "OK" => reply = pending[c].outcome)
  BY <1>2, <1>3, AnswerType
<1>5. pending[c].req.type = "Get" => reply = pending[c].outcome
  BY <1>3
<1>6. KVTypeOK'
  <2>1. pending' \in [Client -> [req : Request \cup {Idle}, outcome : Reply \cup {Nothing}]]
    BY <1>1 DEF TypeOK, KVTypeOK
  <2>2. [req |-> pending[c].req, reply |-> reply] \in [req : Request \cup {Idle}, reply : Reply \cup {Nothing}]
    BY <1>2, <1>4
  <2>3. returned' \in [Client -> [req : Request \cup {Idle}, reply : Reply \cup {Nothing}]]
    BY <1>1, <2>2 DEF TypeOK, KVTypeOK
  <2> QED
    BY <1>1, <2>1, <2>3 DEF TypeOK, KVTypeOK
<1>7. reply.version \in Version
  BY <1>4 DEF Reply
<1>8. /\ ver' \in [Client -> Version]
      /\ pending[c].req.type = "Get" => ver'[c] = reply.version
      /\ pending[c].req.type # "Get" => ver'[c] = ver[c]
      /\ \A d \in Client : d # c => ver'[d] = ver[d]
  BY <1>7 DEF Returns, TypeOK
<1>9. maybes' \in 0..MaxMaybe
  BY LockAssumption DEF Returns, TypeOK
<1>10. /\ pending'[c].req = Idle /\ pending'[c].outcome = Nothing
       /\ \A d \in Client : d # c => pending'[d] = pending[d]
  BY <1>1 DEF TypeOK, KVTypeOK
<1> QED
  BY <1>1, <1>2, <1>4, <1>5, <1>6, <1>8, <1>9, <1>10

-----------------------------------------------------------------------------
(* What a step of one client leaves to the others. *)

\* The lock did not change.
LEMMA OtherKept ==
    ASSUME NEW d \in Client, ClientInv(d), store'["l"] = store["l"],
           pc'[d] = pc[d], ver'[d] = ver[d], pending'[d] = pending[d], rounds'[d] = rounds[d]
    PROVE  ClientInv(d)'
<1>1. Op(d)' = Op(d) /\ Owns(d)' = Owns(d)
  BY DEF Op, Owns, Holds
<1> QED
  BY <1>1 DEF ClientInv

\* Someone else took or released the lock: d did not own it, and whatever
\* version d read is out of date.
LEMMA OtherOvertaken ==
    ASSUME TypeOK, NEW d \in Client, ClientInv(d),
           store["l"].value # d, store'["l"].value # d,
           store'["l"].version = store["l"].version + 1,
           pc'[d] = pc[d], ver'[d] = ver[d], pending'[d] = pending[d], rounds'[d] = rounds[d]
    PROVE  ClientInv(d)'
<1>1. Op(d)' = Op(d) /\ Owns(d)' = Owns(d) /\ ~Owns(d)
  BY DEF Op, Owns, Holds, ClientInv
<1>2. store["l"].version \in Nat /\ ver[d] \in Nat
  BY LockEntry, KVAssumption DEF TypeOK, Version
<1>3. pc[d] # "releaseGet" /\ ~(pc[d] = "releasePut" /\ pending[d].outcome = Nothing)
  BY <1>1 DEF Owns, Holds
<1>4. pc[d] = "acquirePut" => ver[d] <= store'["l"].version /\ ver[d] # store'["l"].version
  BY <1>2 DEF ClientInv
<1>5. pc[d] = "acquireGet" /\ pending[d].outcome # Nothing =>
        /\ pending[d].outcome.version <= store'["l"].version
        /\ pending[d].outcome.version # store'["l"].version
  <2>1. pending[d].outcome # Nothing => pending[d].outcome.version \in Nat
    <3>1. pending[d].outcome # Nothing => pending[d].outcome \in Reply
      BY PendingType, Zenon DEF TypeOK
    <3> QED
      BY <3>1, KVAssumption DEF Reply, Version
  <2> QED
    BY <1>2, <2>1 DEF ClientInv
<1> QED
  BY <1>1, <1>3, <1>4, <1>5 DEF ClientInv

-----------------------------------------------------------------------------
(* Steps preserve the invariant. *)

LEMMA InitLockInv == Init => LockInv
<1> SUFFICES ASSUME Init PROVE LockInv
  OBVIOUS
<1>1. Missing \in Entry /\ 0 \in Version
  BY KVAssumption DEF Missing, Entry, Version
<1>2. KVTypeOK
  BY <1>1 DEF Init, KVInit, KVTypeOK
<1>3. TypeOK
  BY <1>1, <1>2, LockAssumption DEF Init, TypeOK, Label
<1>4. ASSUME NEW c \in Client PROVE ClientInv(c)
  BY LockAssumption DEF Init, KVInit, ClientInv, Owns, Holds
<1> QED
  BY <1>3, <1>4 DEF LockInv

LEMMA CallStep ==
    ASSUME LockInv, NEW c \in Client, Call(c)
    PROVE  LockInv'
<1> USE DEF LockInv
<1>1. /\ pc[c] # "done" /\ Op(c) \in Request
      /\ pending[c].req = Idle
      /\ pending' = [pending EXCEPT ![c] = [req |-> Op(c), outcome |-> Nothing]]
      /\ store' = store /\ returned' = returned /\ pc' = pc /\ ver' = ver /\ rounds' = rounds /\ maybes' = maybes
  BY DEF Call, Invoke
<1>2. pending \in [Client -> [req : Request \cup {Idle}, outcome : Reply \cup {Nothing}]]
  BY DEF TypeOK, KVTypeOK
<1>3. pending' \in [Client -> [req : Request \cup {Idle}, outcome : Reply \cup {Nothing}]]
  BY <1>1, <1>2
<1>4. TypeOK'
  BY <1>1, <1>3 DEF TypeOK, KVTypeOK
<1>5. ClientInv(c)'
  <2>1. Idle \notin Request /\ Op(c)' = Op(c)
    BY <1>1 DEF Request, Idle, Op
  <2>2. pending[c].outcome = Nothing
    BY <1>1, <2>1 DEF ClientInv
  <2>3. pending'[c].req = Op(c) /\ pending'[c].outcome = Nothing
    BY <1>1, <1>2
  <2>4. Owns(c)' = Owns(c)
    BY <1>1, <2>2, <2>3 DEF Owns, Holds
  <2> QED
    BY <1>1, <2>1, <2>2, <2>3, <2>4, Zenon DEF ClientInv
<1>6. ASSUME NEW d \in Client, d # c PROVE ClientInv(d)'
  BY <1>1, <1>2, <1>6, OtherKept
<1> QED
  BY <1>4, <1>5, <1>6

\* The request a client has pending is the one of its program counter.
LEMMA PendingOp ==
    ASSUME LockInv, NEW c \in Client, pending[c].req # Idle
    PROVE  pc[c] # "done" /\ pending[c].req = Op(c)
BY DEF LockInv, ClientInv

\* The service performs a Get: the client sees the current entry.
LEMMA ServeGetStep ==
    ASSUME LockInv, NEW c \in Client, Serve(c), pending[c].req.type = "Get"
    PROVE  LockInv'
<1> USE DEF LockInv
<1> DEFINE key == pending[c].req.key
<1>1. /\ pending' = [pending EXCEPT ![c].outcome = ReadOf(store[key])]
      /\ store' = store /\ returned' = returned /\ pc' = pc /\ ver' = ver /\ rounds' = rounds /\ maybes' = maybes
  BY DEF Serve, Apply
<1>2. pending \in [Client -> [req : Request \cup {Idle}, outcome : Reply \cup {Nothing}]]
  BY DEF TypeOK, KVTypeOK
<1>3. pending[c].req # Idle
  BY DEF Idle
<1>4. key \in Key /\ store[key] \in Entry
  <2>1. pending[c].req \in Request
    BY <1>2, <1>3
  <2> QED
    BY <2>1 DEF Request, TypeOK, KVTypeOK
<1>5. ReadOf(store[key]) \in Reply /\ ReadOf(store[key]) # Nothing
  BY <1>4, ReadType
<1> HIDE DEF key
<1>6. /\ pending'[c].req = pending[c].req /\ pending'[c].outcome = ReadOf(store[key])
      /\ \A d \in Client : d # c => pending'[d] = pending[d]
  BY <1>1, <1>2
<1>7. TypeOK'
  <2>1. pending' \in [Client -> [req : Request \cup {Idle}, outcome : Reply \cup {Nothing}]]
    BY <1>1, <1>2, <1>5
  <2> QED
    BY <1>1, <2>1 DEF TypeOK, KVTypeOK
<1>8. ClientInv(c)'
  <2>1. pc[c] # "done" /\ pending[c].req = Op(c)
    BY <1>3, PendingOp
  <2>2. pc[c] \in {"acquireGet", "csGet", "releaseGet"}
    BY <2>1 DEF Op, PutOf, TypeOK, Label
  <2>3. pc[c] \in {"acquireGet", "releaseGet"} => key = "l"
    BY <2>1 DEF Op, GetOf, key
  <2>4. key = "l" => /\ pending'[c].outcome.version = store["l"].version
                     /\ pending'[c].outcome.value = store["l"].value
    BY <1>6 DEF ReadOf
  <2>5. Owns(c)' <=> Owns(c)
    BY <1>1, <2>2 DEF Owns, Holds
  <2>6. Op(c)' = Op(c)
    BY <1>1 DEF Op
  <2>7. store["l"].version \in Nat /\ (Holds(c) => store["l"].value = c)
    BY LockEntry DEF TypeOK, ClientInv, Owns
  <2> QED
    BY <1>1, <1>6, <2>1, <2>2, <2>3, <2>4, <2>5, <2>6, <2>7 DEF ClientInv, Holds
<1>9. ASSUME NEW d \in Client, d # c PROVE ClientInv(d)'
  BY <1>1, <1>6, <1>9, OtherKept
<1> QED
  BY <1>7, <1>8, <1>9

\* The service performs a Put: on the lock it succeeds only for a client that
\* found the lock free or its own, and nobody has touched it since.
LEMMA ServePutStep ==
    ASSUME LockInv, NEW c \in Client, Serve(c), pending[c].req.type = "Put"
    PROVE  LockInv'
<1> USE DEF LockInv
<1> DEFINE key == pending[c].req.key
           version == pending[c].req.version
           value == pending[c].req.value
           answer == PutAnswer(store[key], version)
<1>1. /\ pending[c].outcome.err # "OK"
      /\ answer.err = "OK" => store[key].version < MaxVersion
      /\ pending' = [pending EXCEPT ![c].outcome = answer]
      /\ store' = IF version = store[key].version
                  THEN [store EXCEPT ![key] = [value |-> value, version |-> @.version + 1]]
                  ELSE store
      /\ returned' = returned /\ pc' = pc /\ ver' = ver /\ rounds' = rounds /\ maybes' = maybes
  BY Zenon DEF Serve, Apply
<1>2. /\ pending \in [Client -> [req : Request \cup {Idle}, outcome : Reply \cup {Nothing}]]
      /\ store \in [Key -> Entry]
  BY DEF TypeOK, KVTypeOK
<1>3. pending[c].req # Idle
  BY DEF Idle
<1>4. key \in Key /\ value \in Value /\ store[key] \in Entry
  <2>1. pending[c].req \in Request
    BY <1>2, <1>3
  <2> QED
    BY <1>2, <2>1 DEF Request
<1>5. answer \in Reply /\ answer # Nothing /\ (answer.err = "OK" <=> version = store[key].version)
  BY PutAnswerType, Zenon
<1>6. pc[c] # "done" /\ pending[c].req = Op(c)
  BY <1>3, PendingOp
<1>7. /\ pc[c] \in {"setup", "acquirePut", "csPut", "csClear", "releasePut"}
      /\ key = "l" <=> pc[c] \in {"acquirePut", "releasePut"}
      /\ pc[c] = "acquirePut" => value = c /\ version = ver[c]
      /\ pc[c] = "releasePut" => value = NoValue /\ version = ver[c]
  <2>1. pc[c] \in {"setup", "acquirePut", "csPut", "csClear", "releasePut"}
    BY <1>6 DEF Op, GetOf, TypeOK, Label
  <2> QED
    BY <1>6, <2>1 DEF Op, PutOf
<1> HIDE DEF key, version, value, answer
<1>8. /\ pending'[c].req = pending[c].req /\ pending'[c].outcome = answer
      /\ \A d \in Client : d # c => pending'[d] = pending[d]
  BY <1>1, <1>2
<1>9. TypeOK'
  <2>1. pending' \in [Client -> [req : Request \cup {Idle}, outcome : Reply \cup {Nothing}]]
    BY <1>1, <1>2, <1>5
  <2>2. store' \in [Key -> Entry]
    <3>1. CASE version = store[key].version
      <4>1. store[key].version + 1 \in Version
        BY <1>1, <1>4, <1>5, <3>1, KVAssumption DEF Entry, Version
      <4>2. [value |-> value, version |-> store[key].version + 1] \in Entry
        BY <1>4, <4>1 DEF Entry
      <4>3. store' = [store EXCEPT ![key] = [value |-> value, version |-> store[key].version + 1]]
        BY <1>1, <3>1
      <4> QED
        BY <1>2, <4>2, <4>3, Zenon
    <3> QED
      BY <1>1, <1>2, <3>1
  <2> QED
    BY <1>1, <2>1, <2>2 DEF TypeOK, KVTypeOK
<1>10. Op(c)' = Op(c)
  BY <1>1 DEF Op
<1>11. "l" \in Key /\ store["l"].version \in Nat /\ ver[c] \in Nat
  BY LockEntry, KVAssumption DEF TypeOK, Version
<1>12. CASE store'["l"] = store["l"] /\ pc[c] # "releasePut" /\ ~(pc[c] = "acquirePut" /\ answer.err = "OK")
  <2>1. Owns(c)' => Owns(c)
    BY <1>1, <1>8, <1>12 DEF Owns, Holds
  <2>2. ClientInv(c)'
    BY <1>1, <1>6, <1>7, <1>8, <1>10, <1>12, <2>1 DEF ClientInv
  <2>3. ASSUME NEW d \in Client, d # c PROVE ClientInv(d)'
    BY <1>1, <1>8, <1>12, <2>3, OtherKept
  <2> QED
    BY <1>9, <2>2, <2>3
<1>13. CASE pc[c] \in {"acquirePut", "releasePut"} /\ version = store[key].version
  <2>1. /\ key = "l" /\ version = ver[c] /\ ver[c] = store["l"].version /\ answer.err = "OK"
    BY <1>5, <1>7, <1>13
  <2>2. store' = [store EXCEPT !["l"] = [value |-> value, version |-> @.version + 1]]
    BY <1>1, <1>13, <2>1
  <2>3. store'["l"].value = value /\ store'["l"].version = store["l"].version + 1
    BY <1>2, <1>11, <2>2
  <2>4. store["l"].value \in {NoValue, c} /\ value \in {NoValue, c}
    <3>1. CASE pc[c] = "acquirePut"
      BY <1>7, <2>1, <3>1 DEF ClientInv
    <3>2. CASE pc[c] = "releasePut"
      BY <1>1, <1>7, <3>2 DEF ClientInv, Owns
    <3> QED
      BY <1>13, <3>1, <3>2
  <2>5. ASSUME NEW d \in Client, d # c PROVE ClientInv(d)'
    <3>1. store["l"].value # d /\ store'["l"].value # d
      BY <2>3, <2>4, <2>5, LockAssumption
    <3> QED
      BY <1>1, <1>8, <2>3, <2>5, <3>1, OtherOvertaken
  <2>6. ClientInv(c)'
    <3>1. CASE pc[c] = "acquirePut"
      <4>1. store'["l"].value = c /\ ver[c] <= store'["l"].version /\ ver[c] # store'["l"].version
        BY <1>7, <1>11, <2>1, <2>3, <3>1
      <4> QED
        BY <1>1, <1>6, <1>8, <1>10, <3>1, <4>1, Zenon DEF ClientInv
    <3>2. CASE pc[c] = "releasePut"
      <4>1. store'["l"].value # c
        BY <1>7, <2>3, <3>2, LockAssumption
      <4>2. ~Owns(c)'
        BY <1>1, <1>5, <1>8, <3>2 DEF Owns, Holds
      <4> QED
        BY <1>1, <1>5, <1>6, <1>8, <1>10, <2>1, <3>2, <4>1, <4>2, Zenon DEF ClientInv
    <3> QED
      BY <1>13, <3>1, <3>2
  <2> QED
    BY <1>9, <2>5, <2>6
<1>14. CASE pc[c] \in {"acquirePut", "releasePut"} /\ version # store[key].version
  <2>1. key = "l" /\ store' = store /\ answer.err # "OK"
    BY <1>1, <1>5, <1>7, <1>14
  <2>2. pc[c] # "releasePut"
    BY <1>1, <1>7, <1>14, <2>1, Zenon DEF ClientInv
  <2> QED
    BY <1>12, <2>1, <2>2
<1>15. CASE pc[c] \notin {"acquirePut", "releasePut"}
  <2>1. store'["l"] = store["l"]
    BY <1>1, <1>2, <1>4, <1>7, <1>11, <1>15
  <2> QED
    BY <1>12, <1>15, <2>1
<1> QED
  BY <1>13, <1>14, <1>15

\* A client whose call has returned is consistent with the lock if its next
\* program counter, label, is.
LEMMA Arrive ==
    ASSUME LockInv, NEW c \in Client, NEW reply, Returns(c, reply), NEW label \in Label, GoTo(c, label),
           rounds' \in [Client -> 0..MaxRounds], \A d \in Client : d # c => rounds'[d] = rounds[d],
           label # "done" => rounds'[c] < MaxRounds,
           label \in {"csGet", "csPut", "csClear", "releaseGet", "releasePut"} => store["l"].value = c,
           label = "acquirePut" => /\ ver'[c] <= store["l"].version
                                   /\ ver'[c] = store["l"].version => store["l"].value \in {NoValue, c},
           label = "releasePut" => ver'[c] = store["l"].version,
           label = "done" => store["l"].value # c
    PROVE  LockInv'
<1> USE DEF LockInv
<1>1. /\ pending'[c].req = Idle /\ pending'[c].outcome = Nothing /\ store' = store
      /\ \A d \in Client : d # c => pending'[d] = pending[d] /\ ver'[d] = ver[d]
      /\ KVTypeOK' /\ ver' \in [Client -> Version] /\ maybes' \in 0..MaxMaybe
  BY ReturnEffect
<1>2. /\ pc'[c] = label /\ pc' \in [Client -> Label]
      /\ \A d \in Client : d # c => pc'[d] = pc[d]
  BY DEF GoTo, TypeOK
<1>3. TypeOK'
  BY <1>1, <1>2 DEF TypeOK
<1>4. ClientInv(c)'
  <2>1. Nothing.err # "OK"
    BY DEF Nothing
  <2>2. Owns(c)' => store["l"].value = c
    BY <1>1, <1>2, <2>1 DEF Owns, Holds
  <2> QED
    BY <1>1, <1>2, <2>2, Zenon DEF ClientInv
<1>5. ASSUME NEW d \in Client, d # c PROVE ClientInv(d)'
  BY <1>1, <1>2, <1>5, OtherKept
<1> QED
  BY <1>3, <1>4, <1>5

LEMMA ContinueStep ==
    ASSUME LockInv, NEW c \in Client, Continue(c)
    PROVE  LockInv'
<1> USE DEF LockInv
<1>1. PICK reply \in Answers(pending[c]) :
        \/ Setup(c, reply)
        \/ AcquireGet(c, reply)
        \/ AcquirePut(c, reply)
        \/ InSection(c, reply)
        \/ ReleaseGet(c, reply)
        \/ ReleasePut(c, reply)
  BY DEF Continue
<1>2. Returns(c, reply)
  BY <1>1 DEF Setup, AcquireGet, AcquirePut, InSection, ReleaseGet, ReleasePut
<1>3. pc[c] # "done" /\ pending[c].req = Op(c) /\ pending[c].outcome # Nothing /\ ClientInv(c)
  <2>1. pending[c].req # Idle
    BY <1>2 DEF Returns
  <2> QED
    BY <1>2, <2>1, PendingOp, ReturnEffect
<1>4. rounds \in [Client -> 0..MaxRounds] /\ rounds[c] < MaxRounds
  BY <1>3, Zenon DEF TypeOK, ClientInv
<1>5. CASE Setup(c, reply)
  BY <1>2, <1>4, <1>5, Arrive DEF Setup, Label
<1>6. CASE AcquireGet(c, reply)
  <2>1. pc[c] = "acquireGet" /\ UNCHANGED rounds
    BY <1>6 DEF AcquireGet
  <2>2. reply = pending[c].outcome /\ ver'[c] = reply.version
    BY <1>2, <1>3, <2>1, ReturnEffect DEF Op, GetOf
  <2>3. /\ ver'[c] <= store["l"].version
        /\ ver'[c] = store["l"].version => reply.value = store["l"].value
    BY <1>3, <2>1, <2>2 DEF ClientInv
  <2>4. CASE reply.value \in {NoValue, c}
    <3>1. GoTo(c, "acquirePut")
      BY <1>6, <2>4 DEF AcquireGet
    <3> QED
      BY <1>2, <1>4, <2>1, <2>3, <2>4, <3>1, Arrive DEF Label
  <2>5. CASE reply.value \notin {NoValue, c}
    <3>1. GoTo(c, "acquireGet")
      BY <1>6, <2>5 DEF AcquireGet
    <3> QED
      BY <1>2, <1>4, <2>1, <3>1, Arrive DEF Label
  <2> QED
    BY <2>4, <2>5
<1>7. CASE AcquirePut(c, reply)
  <2>1. pc[c] = "acquirePut" /\ UNCHANGED rounds
    BY <1>7 DEF AcquirePut
  <2>2. CASE reply.err = "OK"
    <3>1. pending[c].outcome.err = "OK"
      BY <1>2, <2>2, ReturnEffect
    <3>2. store["l"].value = c
      BY <1>3, <2>1, <3>1 DEF ClientInv, Owns
    <3>3. GoTo(c, "csGet")
      BY <1>7, <2>2 DEF AcquirePut
    <3> QED
      BY <1>2, <1>4, <2>1, <3>2, <3>3, Arrive DEF Label
  <2>3. CASE reply.err # "OK"
    <3>1. GoTo(c, "acquireGet")
      BY <1>7, <2>3 DEF AcquirePut
    <3> QED
      BY <1>2, <1>4, <2>1, <3>1, Arrive DEF Label
  <2> QED
    BY <2>2, <2>3
<1>8. CASE InSection(c, reply)
  <2>1. store["l"].value = c
    BY <1>3, <1>8, Zenon DEF InSection, ClientInv, Owns, Holds
  <2>2. \E label \in {"csPut", "csClear", "releaseGet"} : GoTo(c, label)
    BY <1>8 DEF InSection
  <2> QED
    BY <1>2, <1>4, <1>8, <2>1, <2>2, Arrive DEF InSection, Label
<1>9. CASE ReleaseGet(c, reply)
  <2>1. pc[c] = "releaseGet"
    BY <1>9 DEF ReleaseGet
  <2>2. reply = pending[c].outcome /\ ver'[c] = reply.version
    BY <1>2, <1>3, <2>1, ReturnEffect DEF Op, GetOf
  <2>3. reply.value = c /\ ver'[c] = store["l"].version /\ store["l"].value = c
    BY <1>3, <2>1, <2>2 DEF ClientInv, Owns, Holds
  <2>4. GoTo(c, "releasePut") /\ UNCHANGED rounds
    BY <1>9, <2>3 DEF ReleaseGet
  <2> QED
    BY <1>2, <1>4, <2>3, <2>4, Arrive DEF Label
<1>10. CASE ReleasePut(c, reply)
  <2>1. store["l"].value # c
    BY <1>3, <1>10 DEF ReleasePut, ClientInv
  <2>2. /\ rounds' = [rounds EXCEPT ![c] = @ + 1]
        /\ GoTo(c, IF rounds[c] + 1 < MaxRounds THEN "acquireGet" ELSE "done")
    BY <1>10 DEF ReleasePut, NextRound
  <2>3. /\ rounds' \in [Client -> 0..MaxRounds] /\ rounds'[c] = rounds[c] + 1
        /\ \A d \in Client : d # c => rounds'[d] = rounds[d]
    BY <1>4, <2>2, LockAssumption
  <2>4. CASE rounds[c] + 1 < MaxRounds
    BY <1>2, <2>1, <2>2, <2>3, <2>4, Arrive DEF Label
  <2>5. CASE ~(rounds[c] + 1 < MaxRounds)
    BY <1>2, <2>1, <2>2, <2>3, <2>5, Arrive DEF Label
  <2> QED
    BY <2>4, <2>5
<1> QED
  BY <1>1, <1>5, <1>6, <1>7, <1>8, <1>9, <1>10

LEMMA NextLockInv == LockInv /\ [Next]_vars => LockInv'
<1> SUFFICES ASSUME LockInv, [Next]_vars PROVE LockInv'
  OBVIOUS
<1>1. ASSUME NEW c \in Client, Serve(c) PROVE LockInv'
  <2>1. pending[c].req.type \in {"Get", "Put"}
    BY <1>1, Zenon DEF Serve, Apply
  <2> QED
    BY <1>1, <2>1, ServeGetStep, ServePutStep
<1>2. CASE UNCHANGED vars
  <2>1. TypeOK'
    BY <1>2 DEF vars, kvVars, LockInv, TypeOK, KVTypeOK
  <2>2. ASSUME NEW d \in Client PROVE ClientInv(d)'
    BY <1>2, OtherKept DEF vars, kvVars, LockInv
  <2> QED
    BY <2>1, <2>2 DEF LockInv
<1> QED
  BY <1>1, <1>2, CallStep, ContinueStep DEF Next, Finished

-----------------------------------------------------------------------------
(* The theorems. *)

\* The lock and its clients keep the invariant LockInv.
THEOREM LockInvariant == Spec => []LockInv
BY InitLockInv, NextLockInv, PTL DEF Spec

\* No two clients are between Acquire and Release (lock.go).
THEOREM LockSafe == Spec => []MutualExclusion
<1>1. LockInv => MutualExclusion
  BY DEF LockInv, ClientInv, Owns, MutualExclusion
<1> QED
  BY <1>1, LockInvariant, PTL

\* A client that returns from Release no longer owns the lock, although
\* Release ignores the answer of its Put (lock.go).
THEOREM ReleaseWorks == Spec => []ReleaseEffective
<1>1. LockInv => ReleaseEffective
  BY Zenon DEF LockInv, ClientInv, ReleaseEffective
<1> QED
  BY <1>1, LockInvariant, PTL

\* Only the Put of a Release takes a name out of the lock, the owner's own: an
\* Acquire that goes by a stale read names a version that has passed.
LEMMA StoreStep ==
    ASSUME LockInv, NEW d \in Client, Serve(d), store'["l"] # store["l"]
    PROVE  \/ store["l"].value \in {NoValue, d} /\ store'["l"].value = d
           \/ /\ store["l"].value = d /\ store'["l"].value = NoValue
              /\ pc[d] = "releasePut" /\ pending[d].req # Idle
<1> DEFINE req == pending[d].req
           entry == store[req.key]
<1>1. /\ req.type = "Put" /\ pending[d].outcome.err # "OK" /\ req.version = entry.version
      /\ store' = [store EXCEPT ![req.key] = [value |-> req.value, version |-> @.version + 1]]
  BY Zenon DEF Serve, Apply
<1>2. req # Idle
  BY <1>1 DEF Idle
<1>3. pc[d] # "done" /\ req = Op(d)
  BY <1>2, PendingOp, Zenon
<1>4. TypeOK /\ ClientInv(d)
  BY Zenon DEF LockInv
<1>5. /\ store \in [Key -> Entry]
      /\ pc[d] \in Label
  BY <1>4 DEF TypeOK, KVTypeOK
<1>6. req.key = "l" /\ store'["l"].value = req.value /\ req.version = store["l"].version
  BY <1>1, <1>5, LockAssumption
<1>7. \/ pc[d] = "acquirePut" /\ req.value = d /\ req.version = ver[d]
      \/ pc[d] = "releasePut" /\ req.value = NoValue /\ req.version = ver[d]
  <2>1. pc[d] \in {"setup", "acquirePut", "csPut", "csClear", "releasePut"}
    <3>1. Op(d).type = "Put" /\ pc[d] \in Label /\ pc[d] # "done"
      BY <1>1, <1>3, <1>5, Zenon
    <3> QED
      BY <3>1 DEF Op, GetOf, Label
  <2> QED
    BY <1>3, <1>6, <2>1 DEF Op, PutOf
<1> HIDE DEF req, entry
<1>8. CASE pc[d] = "acquirePut" /\ req.value = d /\ req.version = ver[d]
  BY <1>4, <1>6, <1>8, Zenon DEF ClientInv
<1>9. CASE pc[d] = "releasePut" /\ req.value = NoValue /\ req.version = ver[d]
  <2>1. pending[d].outcome = Nothing
    BY <1>1, <1>4, <1>9, Zenon DEF ClientInv
  <2>2. store["l"].value = d
    BY <1>4, <1>9, <2>1, Zenon DEF ClientInv, Owns
  <2> QED
    BY <1>2, <1>6, <1>9, <2>2, Zenon DEF req
<1> QED
  BY <1>7, <1>8, <1>9, Zenon

\* No client takes the lock from another, and only its owner gives it up (lock.go).
THEOREM LockNotStolen == Spec => NeverStolen
<1>1. ASSUME LockInv, [Next]_vars, NEW c \in Client, store["l"].value = c, store'["l"].value # c
      PROVE  pc[c] = "releasePut" /\ pending[c].req # Idle /\ store'["l"].value = NoValue
  <2>1. store' # store /\ store'["l"] # store["l"]
    BY <1>1
  <2>2. PICK d \in Client : Serve(d)
    <3>1. \/ UNCHANGED vars
          \/ \E e \in Client : Call(e) \/ Serve(e) \/ Continue(e)
      BY <1>1, Zenon DEF Next, Finished
    <3>2. ASSUME NEW e \in Client, Continue(e) PROVE store' = store
      BY <3>2, Zenon DEF Continue, Setup, AcquireGet, AcquirePut, InSection, ReleaseGet, ReleasePut, Returns, Return
    <3>3. ASSUME NEW e \in Client, Call(e) PROVE store' = store
      BY <3>3, Zenon DEF Call, Invoke
    <3> QED
      BY <2>1, <3>1, <3>2, <3>3, Zenon DEF vars, kvVars
  <2>3. c # NoValue
    BY LockAssumption
  <2> QED
    BY <1>1, <2>1, <2>2, <2>3, StoreStep, Zenon
<1>2. LockInv /\ [Next]_vars =>
        [\A c \in Client :
            store["l"].value = c /\ store'["l"].value # c =>
                pc[c] = "releasePut" /\ pending[c].req # Idle /\ store'["l"].value = NoValue]_vars
  BY <1>1, Zenon
<1> QED
  BY <1>2, LockInvariant, PTL DEF Spec, NeverStolen

-----------------------------------------------------------------------------
(* The critical section. *)

\* The entry of l0 is an entry of the store.
LEMMA SectionEntry ==
    ASSUME KVTypeOK
    PROVE  /\ "l0" \in Key /\ store["l0"] \in Entry
           /\ store["l0"].version \in Nat /\ store["l0"].value \in Value
<1>1. "l0" \in Key
  BY LockAssumption
<1>2. store["l0"] \in Entry
  BY <1>1 DEF KVTypeOK
<1> QED
  BY <1>1, <1>2, KVAssumption DEF Entry, Version

\* Only a client that holds the lock is in the section.
LEMMA SectionAlone ==
    ASSUME LockInv, NEW c \in Client, NEW d \in Client, Holds(c), d # c
    PROVE  ~Holds(d) /\ ~Written(d)
<1>1. ~Holds(d)
  BY DEF LockInv, ClientInv, Owns
<1> QED
  BY <1>1 DEF Holds, Written

\* A step that leaves l0 alone keeps what is said of a client that does not move.
LEMMA SectionKept ==
    ASSUME NEW d \in Client, SectionClient(d), store'["l0"] = store["l0"],
           pc'[d] = pc[d], ver'[d] = ver[d], pending'[d].outcome = pending[d].outcome
    PROVE  SectionClient(d)' /\ (Written(d)' <=> Written(d))
<1>1. Written(d)' <=> Written(d)
  BY DEF Written
<1>2. SectionClient(d)'
  BY <1>1 DEF SectionClient
<1> QED
  BY <1>1, <1>2

\* A client makes its next call.
LEMMA CallSection ==
    ASSUME LockInv, SectionInv, NEW c \in Client, Call(c)
    PROVE  SectionInv'
<1>1. /\ pending[c].req = Idle /\ pending' = [pending EXCEPT ![c] = [req |-> Op(c), outcome |-> Nothing]]
      /\ store' = store /\ pc' = pc /\ ver' = ver
  BY DEF Call, Invoke
<1>2. pending[c].outcome = Nothing
  <2>1. pc[c] # "done" => Op(c) # Idle
    BY DEF Op, PutOf, GetOf, Idle, LockInv, TypeOK, Label
  <2> QED
    BY <1>1, <2>1 DEF LockInv, ClientInv
<1>3. \A d \in Client : pending'[d].outcome = pending[d].outcome
  BY <1>1, <1>2 DEF LockInv, TypeOK, KVTypeOK
<1>4. \A d \in Client : SectionClient(d)' /\ (Written(d)' <=> Written(d))
  BY <1>1, <1>3, SectionKept DEF SectionInv
<1> QED
  BY <1>1, <1>4 DEF SectionInv

\* The service performs a Get: in the section, of l0 as it is.
LEMMA ServeGetSection ==
    ASSUME LockInv, SectionInv, NEW c \in Client, Serve(c), pending[c].req.type = "Get"
    PROVE  SectionInv'
<1> DEFINE key == pending[c].req.key
<1>1. /\ pending' = [pending EXCEPT ![c].outcome = ReadOf(store[key])]
      /\ store' = store /\ pc' = pc /\ ver' = ver
  BY DEF Serve, Apply
<1>2. pc[c] # "done" /\ pending[c].req = Op(c)
  BY PendingOp DEF Idle
<1>3. pc[c] \in {"acquireGet", "csGet", "releaseGet"} /\ (pc[c] = "csGet" => key = "l0")
  <2>1. pc[c] \in {"acquireGet", "csGet", "releaseGet"}
    BY <1>2 DEF Op, PutOf, LockInv, TypeOK, Label
  <2> QED
    BY <1>2, <2>1 DEF Op, GetOf
<1> HIDE DEF key
<1>4. /\ pending'[c].outcome = ReadOf(store[key])
      /\ \A d \in Client : d # c => pending'[d] = pending[d]
  BY <1>1 DEF LockInv, TypeOK, KVTypeOK
<1>5. ~Written(c) /\ ~Written(c)'
  BY <1>1, <1>3 DEF Written
<1>6. SectionClient(c)'
  BY <1>1, <1>3, <1>4, <1>5 DEF SectionInv, SectionClient
<1>7. \A d \in Client : d # c => SectionClient(d)' /\ (Written(d)' <=> Written(d))
  BY <1>1, <1>4, SectionKept DEF SectionInv
<1> QED
  BY <1>1, <1>5, <1>6, <1>7 DEF SectionInv

\* The service performs a Put: one on the lock leaves l0 alone, the one that sets
\* l0 up has no effect after the first, and those of the section succeed.
LEMMA ServePutSection ==
    ASSUME LockInv, SectionInv, NEW c \in Client, Serve(c), pending[c].req.type = "Put"
    PROVE  SectionInv'
<1> DEFINE key == pending[c].req.key
           version == pending[c].req.version
           value == pending[c].req.value
           answer == PutAnswer(store[key], version)
<1>1. /\ pending[c].outcome.err # "OK"
      /\ pending' = [pending EXCEPT ![c].outcome = answer]
      /\ store' = IF version = store[key].version
                  THEN [store EXCEPT ![key] = [value |-> value, version |-> @.version + 1]]
                  ELSE store
      /\ pc' = pc /\ ver' = ver
  BY Zenon DEF Serve, Apply
<1>2. pc[c] # "done" /\ pending[c].req = Op(c)
  BY PendingOp DEF Idle
<1>3. /\ pc[c] \in {"setup", "acquirePut", "csPut", "csClear", "releasePut"}
      /\ pc[c] \in {"acquirePut", "releasePut"} => key = "l"
      /\ pc[c] = "setup" => key = "l0" /\ value = NoValue /\ version = 0
      /\ pc[c] = "csPut" => key = "l0" /\ value = c /\ version = ver[c]
      /\ pc[c] = "csClear" => key = "l0" /\ value = NoValue /\ version = ver[c] + 1
  <2>1. pc[c] \in {"setup", "acquirePut", "csPut", "csClear", "releasePut"}
    BY <1>2 DEF Op, GetOf, LockInv, TypeOK, Label
  <2> QED
    BY <1>2, <2>1 DEF Op, PutOf
<1>4. answer # Nothing /\ (answer.err = "OK" <=> version = store[key].version)
  BY PutAnswerType, Zenon
<1> HIDE DEF key, version, value, answer
<1>5. /\ pending'[c].outcome = answer
      /\ \A d \in Client : d # c => pending'[d] = pending[d]
  BY <1>1 DEF LockInv, TypeOK, KVTypeOK
<1>6. store["l0"].version \in Nat /\ "l0" \in Key /\ store \in [Key -> Entry] /\ ver[c] \in Nat
  BY SectionEntry, KVAssumption DEF LockInv, TypeOK, KVTypeOK, Version
<1>7. CASE pc[c] \in {"acquirePut", "releasePut"}
  <2>1. store'["l0"] = store["l0"]
    BY <1>1, <1>3, <1>6, <1>7
  <2>2. \A d \in Client : d # c => SectionClient(d)' /\ (Written(d)' <=> Written(d))
    BY <1>1, <1>5, <2>1, SectionKept DEF SectionInv
  <2>3. ~Written(c) /\ ~Written(c)'
    BY <1>1, <1>7 DEF Written
  <2>4. SectionClient(c)'
    BY <1>1, <1>7, <2>1, <2>3 DEF SectionInv, SectionClient
  <2> QED
    BY <2>1, <2>2, <2>3, <2>4 DEF SectionInv
<1>8. CASE pc[c] = "setup" /\ store["l0"].version # 0
  <2>1. store' = store
    BY <1>1, <1>3, <1>8
  <2>2. \A d \in Client : d # c => SectionClient(d)' /\ (Written(d)' <=> Written(d))
    BY <1>1, <1>5, <2>1, SectionKept DEF SectionInv
  <2>3. ~Written(c) /\ ~Written(c)' /\ store["l0"].version > 0
    BY <1>1, <1>6, <1>8 DEF Written
  <2>4. SectionClient(c)'
    BY <1>1, <1>8, <2>1, <2>3 DEF SectionClient
  <2> QED
    BY <2>1, <2>2, <2>3, <2>4 DEF SectionInv
<1>9. CASE pc[c] = "setup" /\ store["l0"].version = 0
  <2>1. store'["l0"].value = NoValue /\ store'["l0"].version = 1
    BY <1>1, <1>3, <1>6, <1>9
  <2>2. \A d \in Client : pc[d] = "setup"
    BY <1>9 DEF SectionInv, SectionClient
  <2>3. \A d \in Client : SectionClient(d)'
    BY <1>1, <2>1, <2>2 DEF SectionClient, Written
  <2> QED
    BY <2>1, <2>3 DEF SectionInv
<1>10. CASE pc[c] \in {"csPut", "csClear"}
  <2>1. Holds(c) /\ SectionClient(c)
    BY <1>10 DEF Holds, SectionInv
  <2>2. \A d \in Client : d # c => ~Holds(d) /\ ~Written(d) /\ SectionClient(d)
    BY <2>1, SectionAlone DEF SectionInv
  <2>3. pending[c].outcome = Nothing
    BY <1>1, <1>10, <2>1 DEF SectionClient
  <2>4. version = store["l0"].version
    BY <1>3, <1>10, <2>1, <2>3 DEF SectionClient, Written
  <2>5. /\ store'["l0"].version = store["l0"].version + 1 /\ store'["l0"].value = value
        /\ pending'[c].outcome.err = "OK" /\ pending'[c].outcome # Nothing
    BY <1>1, <1>3, <1>4, <1>5, <1>6, <1>10, <2>4
  <2>6. \A d \in Client : d # c => SectionClient(d)'
    <3> SUFFICES ASSUME NEW d \in Client, d # c PROVE SectionClient(d)'
      OBVIOUS
    <3>1. pc'[d] = pc[d] /\ pending'[d] = pending[d] /\ pc[d] \notin {"csGet", "csPut", "csClear"}
      BY <1>1, <1>5, <2>2 DEF Holds
    <3>2. store'["l0"].version > 0
      BY <1>6, <2>5
    <3> QED
      BY <3>1, <3>2 DEF SectionClient, Written
  <2>7. SectionClient(c)'
    <3>1. store'["l0"].version > 0
      BY <1>6, <2>5
    <3>2. Written(c)' => pc[c] = "csPut"
      BY <1>1, <2>5 DEF Written
    <3>3. pc[c] = "csPut" => store'["l0"].version = ver[c] + 1
      BY <1>3, <2>4, <2>5
    <3> QED
      BY <1>1, <1>10, <2>5, <3>1, <3>2, <3>3 DEF SectionClient
  <2>8. store'["l0"].value # NoValue => Written(c)'
    BY <1>1, <1>3, <1>10, <2>5 DEF Written
  <2> QED
    BY <2>6, <2>7, <2>8 DEF SectionInv
<1> QED
  BY <1>3, <1>7, <1>8, <1>9, <1>10

\* A call returns, and the client goes on with the version that it saw.
LEMMA ContinueSection ==
    ASSUME LockInv, SectionInv, NEW c \in Client, Continue(c)
    PROVE  SectionInv'
<1>1. PICK reply \in Answers(pending[c]) :
        \/ Setup(c, reply)
        \/ AcquireGet(c, reply)
        \/ AcquirePut(c, reply)
        \/ InSection(c, reply)
        \/ ReleaseGet(c, reply)
        \/ ReleasePut(c, reply)
  BY DEF Continue
<1>2. Returns(c, reply)
  BY <1>1 DEF Setup, AcquireGet, AcquirePut, InSection, ReleaseGet, ReleasePut
<1>3. /\ pending[c].outcome # Nothing /\ pending[c].req # Idle
      /\ pending[c].req.type = "Get" => reply = pending[c].outcome /\ ver'[c] = reply.version
      /\ pending[c].req.type # "Get" => ver'[c] = ver[c]
      /\ pending'[c].outcome = Nothing /\ store' = store
      /\ \A d \in Client : d # c => pending'[d] = pending[d] /\ ver'[d] = ver[d]
  BY <1>2, ReturnEffect DEF LockInv, Returns
<1>4. pending[c].req = Op(c)
  BY <1>3, PendingOp
<1>5. PICK label : /\ GoTo(c, label)
                   /\ label = "csPut" => pc[c] = "csGet"
                   /\ label = "csClear" <=> pc[c] = "csPut"
  BY <1>1 DEF Setup, AcquireGet, AcquirePut, InSection, ReleaseGet, ReleasePut, NextRound
<1>6. pc'[c] = label /\ \A d \in Client : d # c => pc'[d] = pc[d]
  BY <1>5 DEF GoTo, LockInv, TypeOK
<1>7. \A d \in Client : d # c => SectionClient(d)' /\ (Written(d)' <=> Written(d))
  BY <1>3, <1>6, SectionKept DEF SectionInv
<1>8. Written(c)' <=> Written(c)
  BY <1>3, <1>5, <1>6 DEF Written
<1>9. SectionClient(c)'
  <2>1. SectionClient(c) /\ store["l0"].version > 0
    BY <1>3 DEF SectionInv, SectionClient
  <2>2. label = "csPut" => ver'[c] = store["l0"].version
    BY <1>3, <1>4, <1>5, <2>1 DEF SectionClient, Op, GetOf, ReadOf
  <2>3. Written(c)' => store["l0"].version = ver'[c] + 1
    <3>1. Written(c) => pc[c] = "csPut"
      BY <1>3 DEF Written
    <3>2. pc[c] = "csPut" => ver'[c] = ver[c]
      BY <1>3, <1>4 DEF Op, PutOf
    <3> QED
      BY <1>8, <2>1, <3>1, <3>2 DEF SectionClient
  <2> QED
    BY <1>3, <1>6, <2>1, <2>2, <2>3 DEF SectionClient
<1> QED
  BY <1>3, <1>7, <1>8, <1>9 DEF SectionInv

\* Every step keeps the invariant of the section.
LEMMA NextSection ==
    ASSUME LockInv, SectionInv, [Next]_vars
    PROVE  SectionInv'
<1>1. ASSUME NEW c \in Client, Serve(c) PROVE SectionInv'
  <2>1. pending[c].req.type \in {"Get", "Put"}
    BY <1>1, Zenon DEF Serve, Apply
  <2> QED
    BY <1>1, <2>1, ServeGetSection, ServePutSection
<1>2. CASE UNCHANGED vars
  <2>1. \A d \in Client : SectionClient(d)' /\ (Written(d)' <=> Written(d))
    BY <1>2, SectionKept DEF vars, kvVars, SectionInv
  <2> QED
    BY <1>2, <2>1 DEF vars, kvVars, SectionInv
<1> QED
  BY <1>1, <1>2, CallSection, ContinueSection DEF Next, Finished

\* The client of lock_test.go finds l0 empty in its critical section, and its
\* Puts are performed, for any number of clients.
THEOREM SectionsUndisturbed == Spec => []SectionUndisturbed
<1>1. Init => SectionInv
  <2>1. Init => store["l0"] = Missing
    BY LockAssumption DEF Init, KVInit
  <2> QED
    BY <2>1 DEF Init, KVInit, SectionInv, SectionClient, Written, Missing
<1>2. LockInv /\ SectionInv => SectionUndisturbed
  <2> SUFFICES ASSUME LockInv, SectionInv, NEW c \in Client, pending[c].outcome # Nothing, pc[c] = "csGet"
               PROVE  pending[c].outcome.err = "OK" /\ pending[c].outcome.value = NoValue
    BY DEF SectionUndisturbed, SectionInv, SectionClient
  <2>1. pending[c].outcome = ReadOf(store["l0"]) /\ store["l0"].version > 0
    BY DEF SectionInv, SectionClient
  <2>2. \A d \in Client : ~Written(d)
    BY SectionAlone DEF Holds, Written
  <2>3. store["l0"].value = NoValue
    BY <2>2 DEF SectionInv
  <2>4. store["l0"] # Missing
    BY <2>1, SectionEntry DEF Missing, LockInv, TypeOK
  <2> QED
    BY <2>1, <2>3, <2>4 DEF ReadOf
<1>3. LockInv /\ SectionInv /\ [Next]_vars => SectionInv'
  BY NextSection
<1> QED
  BY <1>1, <1>2, <1>3, LockInvariant, PTL DEF Spec

=============================================================================
