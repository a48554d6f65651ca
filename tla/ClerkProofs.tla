---------------------------- MODULE ClerkProofs ----------------------------
(***************************************************************************)
(* Proofs about Clerk for any sets of clients, roaming ones among them, of *)
(* keys and of values, and any bounds: type correctness, the inductive     *)
(* invariant ClerkInv with the safety properties it contains, and that     *)
(* clerks and server implement the atomic store of VersionedKV.            *)
(***************************************************************************)
EXTENDS Clerk, TLAPS

-----------------------------------------------------------------------------
(* Types. *)

\* The length of a history is a natural number.
LEMMA LenNat == \A S : \A s \in Seq(S) : Len(s) \in Nat
  OBVIOUS

\* Versions are natural numbers, and so is the version of an entry of kv.data.
LEMMA VersionNat ==
    /\ \A v \in Version : v \in Nat
    /\ TypeOK => \A k \in Key : data[k].version \in Nat
BY ClerkAssumption DEF Version, TypeOK, Entry

\* A Get of the server answers what a read of the atomic store does.
LEMMA ReadRefines ==
    ASSUME TypeOK, MissingKeys, NEW k \in Key
    PROVE  Register!ReadOf(data[k]) = Get(k)
<1>1. data[k].version \in Nat /\ (data[k].version = 0 <=> data[k] = Missing)
  BY VersionNat DEF MissingKeys, Missing
<1>2. CASE data[k].version = 0
  BY <1>1, <1>2 DEF Register!ReadOf, Register!Missing, Get, Exists, Missing, ErrReply
<1>3. CASE data[k].version # 0
  BY <1>1, <1>3 DEF Register!ReadOf, Register!Missing, Get, Exists, Missing
<1> QED
  BY <1>2, <1>3

\* The calls of the clerks are calls of the atomic store.
LEMMA ArgsRefine ==
    ASSUME NEW c \in Client, NEW args \in Args(c)
    PROVE  args \in Register!Request
BY ClerkAssumption DEF Args, Request, Register!Request, NamedVersion, Version, Register!Version

\* The arguments of a call in progress (client.go, GetArgs and PutArgs).
LEMMA RequestFacts ==
    ASSUME TypeOK, NEW c \in Client, req[c] # Idle
    PROVE  /\ req[c] \in Request
           /\ req[c].type \in {"Get", "Put"}
           /\ req[c].key \in Key /\ req[c].value \in Value /\ req[c].version \in Version
           /\ req[c].type = "Put" => ThisPut(c) \in PutId
<1>1. req[c] \in Request
  BY DEF TypeOK
<1>2. /\ req[c].type \in {"Get", "Put"}
      /\ req[c].key \in Key /\ req[c].value \in Value /\ req[c].version \in Version
  BY <1>1, ClerkAssumption DEF Request, Version, NamedVersion
<1>3. OpNumber(c) \in Nat
  BY DEF TypeOK, OpNumber
<1>4. req[c].type = "Put" => req[c].version \in NamedVersion
  BY <1>1 DEF Request
<1>5. req[c].type = "Put" => ThisPut(c) \in PutId
  BY <1>2, <1>3, <1>4 DEF ThisPut, PutId
<1> QED
  BY <1>1, <1>2, <1>5

\* A client in a Get or a Put is not idle.
LEMMA TypedNotIdle ==
    ASSUME NEW c \in Client, req[c].type \in {"Get", "Put"}
    PROVE  req[c] # Idle
BY DEF Idle

\* What CallsConsistent says of the call of one clerk.
LEMMA InProgress ==
    ASSUME ClerkInv, NEW c \in Client
    PROVE  /\ req[c].type = "Get" => GetInProgress(c)
           /\ req[c].type = "Put" => PutInProgress(c)
BY TypedNotIdle DEF ClerkInv, CallsConsistent, CallConsistent

\* An answer without a value is a Reply.
LEMMA ErrReplyType ==
    ASSUME NEW err \in Err
    PROVE  ErrReply(err) \in Reply
BY ClerkAssumption DEF ErrReply, Reply, Version

\* What KVServer.Put does (server.go): it performs the Put exactly when the
\* version matches, and then the version grows by one.
LEMMA PutEffect ==
    ASSUME TypeOK, NEW id \in PutId, NEW err \in Err, Put(id, err)
    PROVE  /\ err = "OK" => /\ id.version = data[id.key].version
                            /\ id.version + 1 \in Version
                            /\ data' = [data EXCEPT ![id.key] = [value |-> id.value, version |-> id.version + 1]]
                            /\ performed' = performed \cup {id}
           /\ err # "OK" => /\ id.version # data[id.key].version
                            /\ data' = data
                            /\ performed' = performed
           /\ err = "ErrNoKey" => data[id.key].version = 0
           /\ err = "ErrVersion" => data[id.key].version # 0
           /\ err \in {"OK", "ErrVersion", "ErrNoKey"}
<1>1. /\ id.key \in Key /\ id.value \in Value /\ id.version \in Version /\ id.version < MaxVersion
      /\ data[id.key] \in Entry
  BY DEF PutId, NamedVersion, TypeOK
<1>2. data[id.key].version \in 0..MaxVersion /\ MaxVersion \in Nat
  BY <1>1, ClerkAssumption DEF Entry, Version
<1>3. CASE err = "OK"
  <2>1. id.version = data[id.key].version
    BY <1>2, <1>3 DEF Put, PutErr, Exists
  <2>2. PutEntry(id.key, id.value) = [value |-> id.value, version |-> id.version + 1]
    BY <2>1, <1>2 DEF PutEntry, Exists
  <2>3. id.version + 1 \in Version
    BY <1>1, <1>2 DEF Version
  <2> QED
    BY <1>3, <2>1, <2>2, <2>3 DEF Put
<1>4. CASE err # "OK"
  <2>1. id.version # data[id.key].version /\ err \in {"ErrVersion", "ErrNoKey"}
    BY <1>1, <1>2, <1>4 DEF Put, PutErr, Exists, Version
  <2>2. /\ err = "ErrNoKey" => data[id.key].version = 0
        /\ err = "ErrVersion" => data[id.key].version # 0
    BY <1>2 DEF Put, PutErr, Exists
  <2> QED
    BY <1>4, <2>1, <2>2 DEF Put
<1> QED
  BY <1>3, <1>4

\* The handler of Put keeps the data and the performed Puts well-typed, and
\* never lowers a version.
LEMMA PutType ==
    ASSUME TypeOK, NEW id \in PutId, NEW err \in Err, Put(id, err)
    PROVE  /\ data' \in [Key -> Entry]
           /\ performed' \in SUBSET PutId
           /\ \A k \in Key : data[k].version <= data'[k].version
<1>1. id.key \in Key /\ id.value \in Value
  BY DEF PutId
<1>2. \A k \in Key : data[k] \in Entry /\ data[k].version \in Nat
  BY ClerkAssumption DEF TypeOK, Entry, Version
<1>3. CASE err = "OK"
  <2>1. [value |-> id.value, version |-> id.version + 1] \in Entry
    BY <1>1, <1>3, PutEffect, Zenon DEF Entry
  <2>2. data' = [data EXCEPT ![id.key] = [value |-> id.value, version |-> id.version + 1]]
    BY <1>3, PutEffect
  <2>3. data' \in [Key -> Entry]
    BY <2>1, <2>2, Zenon DEF TypeOK
  <2>4. \A k \in Key : data[k].version <= data'[k].version
    <3> TAKE k \in Key
    <3>1. CASE k = id.key
      <4>1. data'[k].version = data[k].version + 1
        BY <3>1, <2>2, <1>3, PutEffect, Zenon DEF TypeOK
      <4> QED
        BY <4>1, <1>2
    <3>2. CASE k # id.key
      BY <3>2, <2>2, <1>2 DEF TypeOK
    <3> QED
      BY <3>1, <3>2
  <2> QED
    BY <1>3, <2>3, <2>4, PutEffect, Zenon DEF TypeOK
<1>4. CASE err # "OK"
  <2>1. data' = data /\ performed' = performed
    BY <1>4, PutEffect, Zenon
  <2> QED
    BY <1>2, <2>1 DEF TypeOK
<1> QED
  BY <1>3, <1>4

\* What KVServer.Get answers (server.go).
LEMMA GetType ==
    ASSUME TypeOK, NEW k \in Key
    PROVE  Get(k) \in Reply
<1>1. data[k] \in Entry
  BY DEF TypeOK
<1>2. ErrReply("ErrNoKey") \in Reply
  BY ErrReplyType DEF Err
<1>3. [value |-> data[k].value, version |-> data[k].version, err |-> "OK"] \in Reply
  BY <1>1 DEF Entry, Reply, Err
<1> QED
  BY <1>2, <1>3 DEF Get

\* The values that are no answers.
LEMMA NotReplies == Nothing \notin Reply /\ Waiting \notin Reply
BY DEF Nothing, Waiting, ErrReply, Reply, Err

\* A clerk that holds an answer is in a call.
LEMMA ReturnsFromCall ==
    ASSUME CallsConsistent, NEW c \in Client, call[c] \in Reply
    PROVE  req[c] # Idle
BY NotReplies, TypedNotIdle DEF CallsConsistent, CallConsistent

LEMMA InitTypeOK == Init => TypeOK
<1> SUFFICES ASSUME Init PROVE TypeOK
  OBVIOUS
<1>1. Missing \in Entry
  BY ClerkAssumption DEF Missing, Entry, Version
<1>2. history \in [Client -> Seq([req : Request, reply : Reply])]
  BY DEF Init
<1> QED
  BY <1>1, <1>2 DEF Init, TypeOK

\* Every step of a clerk, of the server and of the network keeps the types.
LEMMA NextTypeOK == TypeOK /\ CallsConsistent /\ [Next]_vars => TypeOK'
<1> SUFFICES ASSUME TypeOK, CallsConsistent, [Next]_vars PROVE TypeOK'
  OBVIOUS
<1>2. ASSUME NEW c \in Client, NEW args \in Args(c), Invoke(c, args)
      PROVE  TypeOK'
  BY <1>2, Zenon DEF Invoke, TypeOK, Args
<1>3. ASSUME NEW c \in Client, HandleGet(c)
      PROVE  TypeOK'
  <2>1. req[c].key \in Key
    BY <1>3, RequestFacts, TypedNotIdle DEF HandleGet
  <2> QED
    BY <1>3, <2>1, GetType, Zenon DEF HandleGet, TypeOK
<1>4. ASSUME NEW c \in Client, HandlePut(c)
      PROVE  TypeOK'
  <2>1. ThisPut(c) \in PutId
    BY <1>4, RequestFacts, TypedNotIdle DEF HandlePut
  <2>2. PICK err \in Err : /\ Put(ThisPut(c), err)
                          /\ call' = [call EXCEPT ![c] = ErrReply(err)]
                          /\ outcome' = [outcome EXCEPT ![c] = PutOutcome(c, err)]
    BY <1>4, Zenon DEF HandlePut
  <2>3. data' \in [Key -> Entry] /\ performed' \in SUBSET PutId
    BY <2>1, <2>2, PutType
  <2>4. PutOutcome(c, err) \in Reply \cup {Nothing}
    BY ErrReplyType DEF PutOutcome, TypeOK
  <2>5. call' \in [Client -> Reply \cup {Waiting, Nothing}]
    BY <2>2, ErrReplyType DEF TypeOK
  <2>6. outcome' \in [Client -> Reply \cup {Nothing}]
    BY <2>2, <2>4 DEF TypeOK
  <2> QED
    BY <1>4, <2>3, <2>5, <2>6, Zenon DEF HandlePut, TypeOK
<1>5. ASSUME NEW c \in Client, Return(c)
      PROVE  TypeOK'
  <2>1. ResultOf(c) \in Reply
    BY <1>5, ErrReplyType DEF ResultOf, Return, Err
  <2>2. [req |-> req[c], reply |-> ResultOf(c)] \in [req : Request, reply : Reply]
    BY <1>5, <2>1, RequestFacts, ReturnsFromCall DEF Return
  <2>3. history' \in [Client -> Seq([req : Request, reply : Reply])]
    <3> DEFINE S == [req : Request, reply : Reply]
               e == [req |-> req[c], reply |-> ResultOf(c)]
    <3>1. history \in [Client -> Seq(S)] /\ e \in S
      BY <2>2, Zenon DEF TypeOK
    <3>2. history' = [history EXCEPT ![c] = Append(@, e)]
      BY <1>5 DEF Return
    <3> HIDE DEF S, e
    <3>3. Append(history[c], e) \in Seq(S)
      BY <3>1
    <3>4. history' \in [Client -> Seq(S)]
      BY <3>1, <3>2, <3>3
    <3> QED
      BY <3>4, Zenon DEF S
  <2> QED
    BY <1>5, <2>3, Zenon DEF Return, TypeOK
<1>6. ASSUME NEW c \in Client, Drop(c)
      PROVE  TypeOK'
  BY <1>6, Zenon DEF Drop, Resend, TypeOK
<1>7. ASSUME NEW c \in Client, GiveUp(c)
      PROVE  TypeOK'
  <2>1. ThisPut(c) \in PutId
    BY <1>7, RequestFacts, TypedNotIdle DEF GiveUp
  <2> QED
    BY <1>7, <2>1, Zenon DEF GiveUp, Resend, TypeOK
<1>8. ASSUME NEW id \in late, HandleLate(id)
      PROVE  TypeOK'
  <2>1. id \in PutId
    BY DEF TypeOK
  <2>2. PICK err \in Err :
          /\ Put(id, err)
          /\ outcome' = [c \in Client |->
                           IF req[c] # Idle /\ id = ThisPut(c) THEN PutOutcome(c, err) ELSE outcome[c]]
    BY <1>8 DEF HandleLate
  <2>3. data' \in [Key -> Entry] /\ performed' \in SUBSET PutId
    BY <2>1, <2>2, PutType
  <2>4. \A c \in Client : PutOutcome(c, err) \in Reply \cup {Nothing}
    BY ErrReplyType DEF PutOutcome, TypeOK
  <2>5. outcome' \in [Client -> Reply \cup {Nothing}]
    BY <2>2, <2>4 DEF TypeOK
  <2> QED
    BY <1>8, <2>3, <2>5, Zenon DEF HandleLate, clerkVars, TypeOK
<1>9. CASE UNCHANGED vars
  BY <1>9, Zenon DEF vars, clerkVars, TypeOK
<1> QED
  BY <1>2, <1>3, <1>4, <1>5, <1>6, <1>7, <1>8, <1>9, ClerkAssumption DEF Next, Attempt

-----------------------------------------------------------------------------
(* Steps preserve the inductive invariant. *)

\* The version of a Put that was performed has passed.
LEMMA PerformedPassed ==
    ASSUME TypeOK, OneWinnerPerVersion, NEW id \in performed
    PROVE  id.version < data[id.key].version
<1>1. id.key \in Key /\ id.version \in Version
  BY DEF TypeOK, PutId, NamedVersion
<1> QED
  BY <1>1 DEF OneWinnerPerVersion

\* A Put that has not been issued is neither performed nor on its way.
LEMMA FreshPut ==
    ASSUME TypeOK, PutsAccounted, NEW id \in PutId,
           id.client \in Client,
           id.op = OpNumber(id.client),
           req[id.client].type = "Put" => id # ThisPut(id.client)
    PROVE  id \notin late \cup performed
<1>1. Len(history[id.client]) \in Nat
  BY DEF TypeOK
<1> QED
  BY <1>1 DEF PutsAccounted, OpNumber

\* A clerk whose own state a step leaves alone stays consistent.
LEMMA OtherClerk ==
    ASSUME TypeOK, TypeOK', NEW d \in Client, CallConsistent(d),
           req'[d] = req[d], call'[d] = call[d], first'[d] = first[d],
           outcome'[d] = outcome[d], history'[d] = history[d],
           ThisPut(d) \in performed' <=> ThisPut(d) \in performed,
           ThisPut(d) \in late' => ThisPut(d) \in late,
           \A k \in Key : data[k].version <= data'[k].version
    PROVE  CallConsistent(d)'
<1>1. ThisPut(d)' = ThisPut(d)
  BY DEF ThisPut, OpNumber
<1>2. CASE req[d].type = "Put" /\ PutInProgress(d)
  <2>1. req[d].key \in Key /\ req[d].version \in Nat
    BY <1>2, RequestFacts, TypedNotIdle DEF Version
  <2>2. data[req[d].key].version \in Nat /\ data'[req[d].key].version \in Nat
    BY <2>1, ClerkAssumption DEF TypeOK, Entry, Version
  <2>3. /\ outcome[d].err = "OK" => req[d].version < data'[req[d].key].version
        /\ d \in Roaming => /\ req[d].version <= data'[req[d].key].version
                            /\ outcome[d] # Nothing => req[d].version < data'[req[d].key].version
    BY <1>2, <2>1, <2>2 DEF PutInProgress
  <2>4. PutInProgress(d)'
    BY <1>1, <1>2, <2>3, Zenon DEF PutInProgress
  <2> QED
    BY <1>2, <2>4 DEF CallConsistent
<1>3. CASE ~(req[d].type = "Put" /\ PutInProgress(d))
  BY <1>3 DEF CallConsistent, GetInProgress
<1> QED
  BY <1>2, <1>3

\* A call starts with a first attempt and nothing done (client.go).
LEMMA InvokeConsistent ==
    ASSUME ClerkInv, TypeOK', NEW c \in Client, NEW args \in Args(c), Invoke(c, args)
    PROVE  CallsConsistent'
<1> USE DEF ClerkInv
<1>1. args.key \in Key /\ args.type \in {"Get", "Put"} /\ args \in Request
  BY DEF Args, Request
<1>2. \A k \in Key : data[k].version <= data'[k].version
  BY ClerkAssumption DEF Invoke, TypeOK, Entry, Version
<1>3. /\ req'[c] = args /\ first'[c] = TRUE /\ call'[c] = Waiting /\ outcome'[c] = Nothing
      /\ data' = data /\ late' = late /\ performed' = performed /\ history' = history
      /\ req[c] = Idle
  BY DEF Invoke, TypeOK
<1>4. CallConsistent(c)'
  <2>1. CASE args.type = "Get"
    BY <1>3, <2>1 DEF CallConsistent, GetInProgress, Waiting, Nothing, ErrReply
  <2>2. CASE args.type = "Put"
    <3>1. c \in Roaming => args.version <= data'[args.key].version
      BY <1>3 DEF Args
    <3>2. ThisPut(c)' \in PutId
      <4>1. /\ args.value \in Value /\ args.version \in NamedVersion
        BY <1>1, <2>2 DEF Request
      <4>2. OpNumber(c)' \in Nat
        BY DEF OpNumber, TypeOK
      <4> QED
        BY <1>1, <1>3, <4>1, <4>2 DEF ThisPut, PutId
    <3>3. ThisPut(c)' \notin late \cup performed
      <4>1. ThisPut(c)'.client = c /\ ThisPut(c)'.op = OpNumber(c)
        BY <1>3 DEF ThisPut, OpNumber
      <4>2. req[c].type # "Put"
        BY <1>3 DEF Idle
      <4> QED
        BY <3>2, <4>1, <4>2, FreshPut
    <3>4. PutInProgress(c)'
      BY <1>3, <3>1, <3>3 DEF PutInProgress, Waiting, Nothing, ErrReply
    <3> QED
      BY <1>3, <2>2, <3>4 DEF CallConsistent
  <2> QED
    BY <1>1, <2>1, <2>2
<1>5. ASSUME NEW d \in Client, d # c PROVE CallConsistent(d)'
  <2>1. req'[d] = req[d] /\ call'[d] = call[d] /\ first'[d] = first[d] /\ outcome'[d] = outcome[d]
    BY <1>5 DEF Invoke, TypeOK
  <2> QED
    BY <1>2, <1>3, <2>1, OtherClerk DEF CallsConsistent
<1> QED
  BY <1>4, <1>5 DEF CallsConsistent

\* The versions of the keys are numbers, and a step that leaves the data alone
\* does not lower them.
LEMMA VersionsKept ==
    ASSUME TypeOK, data' = data
    PROVE  \A k \in Key : data[k].version <= data'[k].version
BY ClerkAssumption DEF TypeOK, Entry, Version

\* An attempt of the Put a clerk is in, whenever its handler runs (server.go):
\* it performs the Put only if no attempt did before.
LEMMA PutAttempt ==
    ASSUME ClerkInv, NEW c \in Client, req[c].type = "Put", NEW err \in Err, Put(ThisPut(c), err)
    PROVE  /\ err \in {"OK", "ErrVersion", "ErrNoKey"}
           /\ PutOutcome(c, err).err = "OK" <=> ThisPut(c) \in performed'
           /\ outcome[c].err = "OK" => err = "ErrVersion" /\ PutOutcome(c, err) = ErrReply("OK")
           /\ outcome[c].err # "OK" => PutOutcome(c, err) = ErrReply(err)
           /\ PutOutcome(c, err).err = "OK" => req[c].version < data'[req[c].key].version
           /\ c \in Roaming => err # "ErrNoKey" /\ req[c].version < data'[req[c].key].version
           /\ \A d \in Client : d # c => (ThisPut(d) \in performed' <=> ThisPut(d) \in performed)
<1> USE DEF ClerkInv
<1> DEFINE id == ThisPut(c)
<1>1. /\ id \in PutId /\ id.key = req[c].key /\ id.version = req[c].version
      /\ id.key \in Key /\ id.version \in Nat
  BY RequestFacts, TypedNotIdle DEF ThisPut, Version
<1>2. data[id.key].version \in Nat
  BY <1>1, VersionNat, Zenon
<1>3. PutInProgress(c)
  BY InProgress, Zenon
<1>4. /\ outcome[c].err = "OK" => id.version < data[id.key].version
      /\ c \in Roaming => id.version <= data[id.key].version
      /\ outcome[c].err = "OK" => outcome[c] = ErrReply("OK")
      /\ outcome[c].err = "OK" <=> id \in performed
  BY <1>1, <1>3 DEF PutInProgress, Nothing, ErrReply
<1>5. /\ outcome[c].err = "OK" => PutOutcome(c, err) = ErrReply("OK")
      /\ outcome[c].err # "OK" => PutOutcome(c, err) = ErrReply(err)
  BY <1>4 DEF PutOutcome
<1> HIDE DEF id
<1>6. CASE err = "OK"
  <2>1. id.version = data[id.key].version
    BY <1>1, <1>6, PutEffect, Zenon DEF id
  <2>2. outcome[c].err # "OK" /\ id \notin performed
    BY <1>1, <1>2, <1>4, <2>1
  <2>3. PutOutcome(c, err) = ErrReply("OK") /\ ErrReply("OK").err = "OK"
    BY <1>5, <1>6, <2>2 DEF ErrReply
  <2>4. performed' = performed \cup {id} /\ data'[id.key].version = id.version + 1
    <3>1. data' = [data EXCEPT ![id.key] = [value |-> id.value, version |-> id.version + 1]]
      BY <1>1, <1>6, PutEffect DEF id
    <3>2. data'[id.key] = [value |-> id.value, version |-> id.version + 1]
      BY <1>1, <3>1 DEF TypeOK
    <3> QED
      BY <1>1, <1>6, <3>2, PutEffect DEF id
  <2>5. \A d \in Client : d # c => ThisPut(d) # id
    BY DEF id, ThisPut
  <2> QED
    BY <1>1, <1>5, <1>6, <2>2, <2>3, <2>4, <2>5 DEF id
<1>7. CASE err # "OK"
  <2>1. /\ id.version # data[id.key].version /\ data' = data /\ performed' = performed
        /\ err = "ErrNoKey" => data[id.key].version = 0
        /\ err \in {"ErrVersion", "ErrNoKey"}
    BY <1>1, <1>7, PutEffect, Zenon DEF id
  <2>2. outcome[c].err = "OK" => err = "ErrVersion"
    BY <1>1, <1>2, <1>4, <2>1
  <2>3. c \in Roaming => err # "ErrNoKey" /\ id.version < data[id.key].version
    BY <1>1, <1>2, <1>4, <2>1
  <2>4. PutOutcome(c, err).err = "OK" <=> outcome[c].err = "OK"
    BY <1>5, <1>7 DEF ErrReply
  <2> QED
    BY <1>1, <1>4, <1>5, <2>1, <2>2, <2>3, <2>4, Zenon DEF id
<1> QED
  BY <1>6, <1>7, Zenon

LEMMA HandlePutConsistent ==
    ASSUME ClerkInv, TypeOK', NEW c \in Client, HandlePut(c)
    PROVE  CallsConsistent'
<1> USE DEF ClerkInv
<1>1. PICK err \in Err : /\ Put(ThisPut(c), err)
                        /\ call' = [call EXCEPT ![c] = ErrReply(err)]
                        /\ outcome' = [outcome EXCEPT ![c] = PutOutcome(c, err)]
  BY Zenon DEF HandlePut
<1>2. /\ call'[c] = ErrReply(err) /\ outcome'[c] = PutOutcome(c, err)
      /\ req' = req /\ first' = first /\ late' = late /\ history' = history
      /\ req[c].type = "Put" /\ call[c] = Waiting
  BY <1>1 DEF HandlePut, TypeOK
<1>3. PutInProgress(c)
  BY <1>2, InProgress, Zenon
<1>4. ThisPut(c)' = ThisPut(c)
  BY <1>2 DEF ThisPut, OpNumber
<1>5. /\ err \in {"OK", "ErrVersion", "ErrNoKey"}
      /\ outcome[c].err = "OK" => err = "ErrVersion" /\ PutOutcome(c, err) = ErrReply("OK")
      /\ outcome[c].err # "OK" => PutOutcome(c, err) = ErrReply(err)
      /\ PutOutcome(c, err).err = "OK" <=> ThisPut(c) \in performed'
      /\ PutOutcome(c, err).err = "OK" => req[c].version < data'[req[c].key].version
      /\ c \in Roaming => err # "ErrNoKey" /\ req[c].version < data'[req[c].key].version
  BY <1>1, <1>2, PutAttempt, Zenon
<1>6. first[c] => ThisPut(c) \notin late /\ outcome[c] = Nothing
  BY <1>2, <1>3 DEF PutInProgress
<1>7. ThisPut(c) \in PutId /\ \A k \in Key : data[k].version <= data'[k].version
  BY <1>1, <1>2, RequestFacts, TypedNotIdle, PutType
<1>8. c \in Roaming => req[c].version <= data'[req[c].key].version
  <2>1. req[c].version \in Nat /\ req[c].key \in Key
    BY <1>2, RequestFacts, TypedNotIdle DEF Version
  <2>2. data'[req[c].key].version \in Nat
    BY <2>1, ClerkAssumption DEF TypeOK, Entry, Version
  <2> QED
    BY <1>5, <2>1, <2>2
<1>9. PutInProgress(c)'
  <2>1. /\ \A e \in {"OK", "ErrVersion", "ErrNoKey"} :
             ErrReply(e).err = e /\ ErrReply(e) # Waiting /\ ErrReply(e) # Nothing
        /\ Nothing.err # "OK"
    BY DEF ErrReply, Waiting, Nothing
  <2>2. /\ PutOutcome(c, err) \in {ErrReply("OK"), ErrReply("ErrVersion"), ErrReply("ErrNoKey")}
        /\ c \in Roaming => PutOutcome(c, err) # ErrReply("ErrNoKey")
    BY <1>5, <2>1
  <2>3. /\ ErrReply(err).err = "OK" => PutOutcome(c, err).err = "OK"
        /\ ErrReply(err).err = "ErrVersion" => PutOutcome(c, err).err \in {"OK", "ErrVersion"}
        /\ ErrReply(err).err = "ErrNoKey" => PutOutcome(c, err).err = "ErrNoKey"
    BY <1>5, <2>1
  <2>4. first[c] /\ ErrReply(err).err = "ErrVersion" => PutOutcome(c, err).err = "ErrVersion"
    BY <1>5, <1>6, <2>1
  <2>5. ErrReply(err) \in {ErrReply("OK"), ErrReply("ErrVersion"), ErrReply("ErrNoKey")} /\ ErrReply(err) # Waiting
    BY <1>5, <2>1
  <2> QED
    BY <1>2, <1>4, <1>5, <1>6, <1>8, <2>2, <2>3, <2>4, <2>5, Zenon DEF PutInProgress
<1>10. ASSUME NEW d \in Client, d # c PROVE CallConsistent(d)'
  <2>1. call'[d] = call[d] /\ outcome'[d] = outcome[d]
    BY <1>1, <1>10 DEF TypeOK
  <2>2. ThisPut(d) \in performed' <=> ThisPut(d) \in performed
    BY <1>1, <1>2, <1>10, PutAttempt, Zenon
  <2> QED
    BY <1>2, <1>7, <2>1, <2>2, OtherClerk DEF CallsConsistent
<1> QED
  BY <1>2, <1>9, <1>10 DEF CallsConsistent, CallConsistent

LEMMA HandleGetConsistent ==
    ASSUME ClerkInv, TypeOK', NEW c \in Client, HandleGet(c)
    PROVE  CallsConsistent'
<1> USE DEF ClerkInv
<1>1. /\ req' = req /\ first' = first /\ late' = late /\ history' = history
      /\ data' = data /\ performed' = performed
      /\ req[c].type = "Get" /\ call'[c] = Get(req[c].key) /\ outcome'[c] = Get(req[c].key)
      /\ \A d \in Client : d # c => call'[d] = call[d] /\ outcome'[d] = outcome[d]
  BY DEF HandleGet, TypeOK
<1>2. Get(req[c].key) # Nothing /\ Get(req[c].key).err # "ErrVersion"
  <2>1. Get(req[c].key) # Nothing
    BY <1>1, RequestFacts, TypedNotIdle, GetType, NotReplies
  <2> QED
    BY <2>1, Zenon DEF Get, ErrReply
<1>3. CallConsistent(c)'
  BY <1>1, <1>2, Zenon DEF CallConsistent, GetInProgress
<1>4. ASSUME NEW d \in Client, d # c PROVE CallConsistent(d)'
  BY <1>1, <1>4, VersionsKept, OtherClerk DEF CallsConsistent
<1> QED
  BY <1>3, <1>4 DEF CallsConsistent

\* The length of a clerk's history.
LEMMA HistoryLen ==
    ASSUME TypeOK, NEW c \in Client
    PROVE  history[c] \in Seq([req : Request, reply : Reply]) /\ Len(history[c]) \in Nat
<1>1. history[c] \in Seq([req : Request, reply : Reply])
  BY Zenon DEF TypeOK
<1> QED
  BY <1>1, LenNat

\* What a return changes (client.go, the ends of Get and Put).
LEMMA ReturnEffect ==
    ASSUME TypeOK, NEW c \in Client, Return(c)
    PROVE  /\ data' = data /\ performed' = performed /\ late' = late /\ call[c] \in Reply
           /\ Len(history[c]) \in Nat
           /\ Len(history'[c]) = Len(history[c]) + 1
           /\ history'[c][Len(history[c]) + 1] = [req |-> req[c], reply |-> ResultOf(c)]
           /\ \A n \in 1..Len(history[c]) : history'[c][n] = history[c][n]
           /\ \A d \in Client : d # c => history'[d] = history[d] /\ req'[d] = req[d]
<1> DEFINE e == [req |-> req[c], reply |-> ResultOf(c)]
<1>1. /\ data' = data /\ performed' = performed /\ late' = late /\ call[c] \in Reply
      /\ history' = [history EXCEPT ![c] = Append(@, e)] /\ req' = [req EXCEPT ![c] = Idle]
  BY Zenon DEF Return
<1> HIDE DEF e
<1>2. \A d \in Client : d # c => history'[d] = history[d] /\ req'[d] = req[d]
  BY <1>1, Zenon DEF TypeOK
<1>3. history'[c] = Append(history[c], e)
  BY <1>1, Zenon DEF TypeOK
<1>4. /\ Len(history[c]) \in Nat /\ Len(history'[c]) = Len(history[c]) + 1
      /\ history'[c][Len(history[c]) + 1] = e
      /\ \A n \in 1..Len(history[c]) : history'[c][n] = history[c][n]
  BY <1>3, HistoryLen
<1> QED
  BY <1>1, <1>2, <1>4, Zenon DEF e

LEMMA ReturnConsistent ==
    ASSUME ClerkInv, TypeOK', NEW c \in Client, Return(c)
    PROVE  CallsConsistent'
<1> USE DEF ClerkInv
<1>1. /\ data' = data /\ performed' = performed /\ late' = late
      /\ req'[c] = Idle /\ call'[c] = Nothing /\ outcome'[c] = Nothing
      /\ \A d \in Client : d # c => /\ req'[d] = req[d] /\ call'[d] = call[d] /\ first'[d] = first[d]
                                   /\ outcome'[d] = outcome[d] /\ history'[d] = history[d]
  <2>1. data' = data /\ performed' = performed /\ late' = late
    BY Zenon DEF Return
  <2>2. req'[c] = Idle /\ \A d \in Client : d # c => req'[d] = req[d]
    BY Zenon DEF Return, TypeOK
  <2>3. call'[c] = Nothing /\ \A d \in Client : d # c => call'[d] = call[d]
    BY Zenon DEF Return, TypeOK
  <2>4. outcome'[c] = Nothing /\ \A d \in Client : d # c => outcome'[d] = outcome[d]
    <3>1. outcome' = [outcome EXCEPT ![c] = Nothing]
      BY Zenon DEF Return
    <3>2. outcome \in [Client -> Reply \cup {Nothing}]
      BY Zenon DEF TypeOK
    <3> QED
      BY <3>1, <3>2, Zenon
  <2>5. \A d \in Client : d # c => first'[d] = first[d]
    BY Zenon DEF Return, TypeOK
  <2>6. \A d \in Client : d # c => history'[d] = history[d]
    BY ReturnEffect, Zenon
  <2> QED
    BY <2>1, <2>2, <2>3, <2>4, <2>5, <2>6, Zenon
<1>2. ASSUME NEW d \in Client, d # c PROVE CallConsistent(d)'
  BY <1>1, <1>2, VersionsKept, OtherClerk DEF CallsConsistent
<1> QED
  BY <1>1, <1>2 DEF CallsConsistent, CallConsistent

\* A resend is never a first attempt (client.go, isFirstAttempt = false).
LEMMA ResendConsistent ==
    ASSUME ClerkInv, TypeOK', NEW c \in Client, call[c] # Nothing, Resend(c),
           \A d \in Client : d # c /\ ThisPut(d) \in late' => ThisPut(d) \in late
    PROVE  CallsConsistent'
<1> USE DEF ClerkInv
<1>1. /\ data' = data /\ performed' = performed /\ req' = req /\ history' = history /\ outcome' = outcome
      /\ first'[c] = FALSE /\ call'[c] = Waiting
      /\ \A d \in Client : d # c => call'[d] = call[d] /\ first'[d] = first[d]
  BY DEF Resend, TypeOK
<1>2. CallConsistent(c)'
  <2>1. CASE req[c].type = "Get"
    BY <1>1, <2>1 DEF CallConsistent, GetInProgress, Waiting, Nothing, ErrReply
  <2>2. CASE req[c].type = "Put"
    <3>1. PutInProgress(c)
      BY <2>2, InProgress, Zenon
    <3>2. ThisPut(c)' = ThisPut(c)
      BY <1>1 DEF ThisPut, OpNumber
    <3>3. Waiting.err \notin {"OK", "ErrVersion", "ErrNoKey"}
      BY DEF Waiting, ErrReply
    <3>4. PutInProgress(c)'
      BY <1>1, <3>1, <3>2, <3>3, Zenon DEF PutInProgress
    <3> QED
      BY <1>1, <2>2, <3>4, Zenon DEF CallConsistent
  <2> QED
    BY <2>1, <2>2 DEF CallsConsistent, CallConsistent
<1>3. ASSUME NEW d \in Client, d # c PROVE CallConsistent(d)'
  BY <1>1, <1>3, VersionsKept, OtherClerk DEF CallsConsistent
<1> QED
  BY <1>2, <1>3 DEF CallsConsistent

\* A handler that runs late (labrpc.go, processReq) either makes an attempt of
\* the call its clerk is still in, or does nothing at all.
LEMMA LateEffect ==
    ASSUME ClerkInv, NEW id \in late, HandleLate(id)
    PROVE  \/ /\ id.client \in Client /\ req[id.client].type = "Put" /\ id = ThisPut(id.client)
              /\ ~first[id.client]
              /\ \E err \in Err : /\ Put(id, err)
                                  /\ outcome' = [outcome EXCEPT ![id.client] = PutOutcome(id.client, err)]
           \/ /\ id.op \in 1..Len(history[id.client])
              /\ UNCHANGED <<data, performed, outcome>>
<1> USE DEF ClerkInv
<1>1. /\ id \in PutId /\ id.client \in Client /\ id.key \in Key /\ id.version \in Nat
  BY DEF TypeOK, PutId, NamedVersion, Version
<1>2. /\ data[id.key].version \in Nat
      /\ Len(history[id.client]) \in Nat
  BY <1>1, ClerkAssumption DEF TypeOK, Entry, Version
<1>3. PICK err \in Err :
        /\ Put(id, err)
        /\ outcome' = [c \in Client |->
                         IF req[c] # Idle /\ id = ThisPut(c) THEN PutOutcome(c, err) ELSE outcome[c]]
  BY DEF HandleLate
<1>4. \A c \in Client : id = ThisPut(c) => c = id.client /\ id.op = Len(history[id.client]) + 1
  BY DEF ThisPut, OpNumber
<1>5. CASE id.op \in 1..Len(history[id.client])
  <2>1. \A c \in Client : id # ThisPut(c)
    BY <1>2, <1>4, <1>5
  <2>2. outcome' = outcome
    BY <1>3, <2>1, Zenon DEF TypeOK
  <2>3. id.version < data[id.key].version
    BY <1>2, <1>5 DEF LateAttemptsHarmless
  <2>4. id.version # data[id.key].version
    BY <1>1, <1>2, <2>3
  <2>5. data' = data /\ performed' = performed
    BY <1>1, <1>3, <2>4, PutEffect, Zenon
  <2> QED
    BY <1>5, <2>2, <2>5
<1>6. CASE req[id.client].type = "Put" /\ id = ThisPut(id.client)
  <2>1. PutInProgress(id.client)
    BY <1>1, <1>6, TypedNotIdle DEF CallsConsistent, CallConsistent
  <2>2. ~first[id.client]
    BY <1>6, <2>1, Zenon DEF PutInProgress
  <2>3. outcome' = [outcome EXCEPT ![id.client] = PutOutcome(id.client, err)]
    <3>1. req[id.client] # Idle
      BY <1>1, <1>6, TypedNotIdle
    <3>2. \A c \in Client : (req[c] # Idle /\ id = ThisPut(c)) <=> c = id.client
      BY <1>4, <1>6, <3>1
    <3>3. outcome' = [c \in Client |-> IF c = id.client THEN PutOutcome(c, err) ELSE outcome[c]]
      BY <1>3, <3>2
    <3> QED
      BY <1>1, <3>3, Zenon DEF TypeOK
  <2> QED
    BY <1>1, <1>3, <1>6, <2>2, <2>3
<1> QED
  BY <1>5, <1>6, Zenon DEF PutsAccounted

LEMMA HandleLateConsistent ==
    ASSUME ClerkInv, TypeOK', NEW id \in late, HandleLate(id)
    PROVE  CallsConsistent'
<1> USE DEF ClerkInv
<1> DEFINE c == id.client
<1>1. /\ req' = req /\ first' = first /\ call' = call /\ history' = history /\ late' \subseteq late
  BY DEF HandleLate, clerkVars
<1>2. CASE UNCHANGED <<data, performed, outcome>>
  BY <1>1, <1>2, VersionsKept, OtherClerk, Zenon DEF CallsConsistent
<1>3. ASSUME c \in Client, req[c].type = "Put", id = ThisPut(c), ~first[c],
             NEW err \in Err, Put(id, err), outcome' = [outcome EXCEPT ![c] = PutOutcome(c, err)]
      PROVE  CallsConsistent'
  <2> HIDE DEF c
  <2>1. PutInProgress(c)
    BY <1>3, InProgress, Zenon
  <2>2. ThisPut(c)' = ThisPut(c) /\ outcome'[c] = PutOutcome(c, err)
    BY <1>1, <1>3, Zenon DEF ThisPut, OpNumber, TypeOK
  <2>3. /\ c \in Roaming
        /\ PutOutcome(c, err) \in {ErrReply("OK"), ErrReply("ErrVersion")}
        /\ PutOutcome(c, err).err = "OK" <=> ThisPut(c) \in performed'
        /\ outcome[c].err = "OK" => PutOutcome(c, err).err = "OK"
        /\ req[c].version < data'[req[c].key].version
    <3>1. c \in Roaming
      BY DEF c, LateRoaming
    <3> QED
      BY <1>3, <3>1, PutAttempt DEF ErrReply
  <2>4. /\ PutOutcome(c, err) # Nothing /\ PutOutcome(c, err) # ErrReply("ErrNoKey")
        /\ PutOutcome(c, err).err \in {"OK", "ErrVersion"}
    BY <2>3 DEF ErrReply, Nothing
  <2>5. ThisPut(c) \in PutId /\ \A k \in Key : data[k].version <= data'[k].version
    BY <1>3, RequestFacts, TypedNotIdle, PutType
  <2>6. req[c].version <= data'[req[c].key].version
    <3>1. req[c].version \in Nat /\ req[c].key \in Key
      BY <1>3, RequestFacts, TypedNotIdle DEF Version
    <3>2. data'[req[c].key].version \in Nat
      BY <3>1, ClerkAssumption DEF TypeOK, Entry, Version
    <3> QED
      BY <3>1, <3>2, <2>3
  <2>7. PutInProgress(c)'
    <3>1. call[c].err # "ErrNoKey"
      <4>1. outcome[c] \in {Nothing, ErrReply("OK"), ErrReply("ErrVersion")}
        BY <2>1, <2>3, Zenon DEF PutInProgress
      <4>a. /\ Nothing.err # "ErrNoKey" /\ ErrReply("OK").err # "ErrNoKey"
            /\ ErrReply("ErrVersion").err # "ErrNoKey"
        BY DEF Nothing, ErrReply
      <4>2. outcome[c].err # "ErrNoKey"
        BY <4>1, <4>a
      <4> QED
        BY <2>1, <4>2 DEF PutInProgress
    <3> QED
      BY <1>1, <1>3, <2>1, <2>2, <2>3, <2>4, <2>6, <3>1, Zenon DEF PutInProgress
  <2>8. ASSUME NEW d \in Client, d # c PROVE CallConsistent(d)'
    <3>1. outcome'[d] = outcome[d]
      BY <1>3, <2>8, Zenon DEF TypeOK
    <3>2. ThisPut(d) \in performed' <=> ThisPut(d) \in performed
      BY <1>3, <2>8, PutAttempt
    <3> QED
      BY <1>1, <2>5, <3>1, <3>2, OtherClerk DEF CallsConsistent
  <2> QED
    BY <1>1, <1>3, <2>7, <2>8, Zenon DEF CallsConsistent, CallConsistent
<1> QED
  BY <1>2, <1>3, LateEffect

\* One step keeps every clerk consistent with the server.
LEMMA NextConsistent ==
    ASSUME ClerkInv, TypeOK', [Next]_vars
    PROVE  CallsConsistent'
<1>1. ASSUME NEW c \in Client, Drop(c) PROVE CallsConsistent'
  BY <1>1, ResendConsistent DEF Drop
<1>2. ASSUME NEW c \in Client, GiveUp(c) PROVE CallsConsistent'
  <2>1. \A d \in Client : d # c => ThisPut(d) # ThisPut(c)
    BY DEF ThisPut
  <2>2. call[c] # Nothing
    BY <1>2 DEF GiveUp, Waiting, Nothing, ErrReply
  <2> QED
    BY <1>2, <2>1, <2>2, ResendConsistent DEF GiveUp
<1>3. CASE UNCHANGED vars
  BY <1>3, VersionsKept, OtherClerk DEF vars, clerkVars, ClerkInv, CallsConsistent
<1> QED
  BY <1>1, <1>2, <1>3, InvokeConsistent, HandleGetConsistent, HandlePutConsistent,
     ReturnConsistent, HandleLateConsistent, ClerkAssumption DEF Next, Attempt

\* The handler of Put performs at most one Put for a version of a key.
LEMMA PutOneWinner ==
    ASSUME TypeOK, OneWinnerPerVersion, NEW id \in PutId, NEW err \in Err, Put(id, err)
    PROVE  OneWinnerPerVersion'
<1>1. CASE err # "OK"
  <2>1. data' = data /\ performed' = performed
    BY <1>1, PutEffect, Zenon
  <2> QED
    BY <2>1 DEF OneWinnerPerVersion
<1>2. CASE err = "OK"
  <2>1. /\ id.key \in Key /\ id.version \in Nat /\ id.version = data[id.key].version
        /\ data' = [data EXCEPT ![id.key] = [value |-> id.value, version |-> id.version + 1]]
        /\ performed' = performed \cup {id}
    <3>1. id.key \in Key /\ id.version \in Nat
      BY DEF PutId, NamedVersion, Version
    <3> QED
      BY <1>2, <3>1, PutEffect
  <2>2. /\ data'[id.key].version = id.version + 1 /\ data'[id.key].value = id.value
        /\ \A k \in Key : k # id.key => data'[k] = data[k]
    BY <2>1 DEF TypeOK
  <2>3. \A p \in performed : /\ p.key \in Key /\ p.version \in Nat
                             /\ p.version < data[p.key].version
    <3> TAKE p \in performed
    <3>1. p \in PutId
      BY DEF TypeOK
    <3>2. p.key \in Key /\ p.version \in Nat
      BY <3>1 DEF PutId, NamedVersion, Version
    <3> QED
      BY <3>2, PerformedPassed
  <2>4. \A p, q \in performed' : p.key = q.key /\ p.version = q.version => p = q
    <3>1. \A p \in performed : p.key = id.key => p.version < id.version
      BY <2>1, <2>3
    <3>2. \A p \in performed : ~(p.key = id.key /\ p.version = id.version)
      BY <2>1, <2>3, <3>1
    <3> QED
      BY <2>1, <3>2 DEF OneWinnerPerVersion
  <2>5. ASSUME NEW k \in Key, NEW v \in Version
        PROVE  v < data'[k].version <=> \E p \in performed' : p.key = k /\ p.version = v
    <3>1. v < data[k].version <=> \E p \in performed : p.key = k /\ p.version = v
      BY <2>5 DEF OneWinnerPerVersion
    <3>2. CASE k # id.key
      BY <2>1, <2>2, <3>1, <3>2
    <3>3. CASE k = id.key
      <4>1. v < data'[k].version <=> v < data[k].version \/ v = id.version
        BY <2>1, <2>2, <3>3 DEF Version
      <4> QED
        BY <2>1, <3>1, <3>3, <4>1
    <3> QED
      BY <3>2, <3>3
  <2>6. ASSUME NEW p \in performed', p.version + 1 = data'[p.key].version
        PROVE  data'[p.key].value = p.value
    <3>1. CASE p = id
      BY <2>2, <3>1, Zenon
    <3>2. CASE p \in performed
      <4>1. p.key # id.key
        BY <2>1, <2>2, <2>3, <2>6, <3>2
      <4> QED
        BY <2>2, <2>3, <2>6, <3>2, <4>1 DEF OneWinnerPerVersion
    <3> QED
      BY <2>1, <2>6, <3>1, <3>2
  <2> QED
    BY <2>4, <2>5, <2>6 DEF OneWinnerPerVersion
<1> QED
  BY <1>1, <1>2

\* A Put that is performed gives its key a version.
LEMMA PutMissing ==
    ASSUME TypeOK, MissingKeys, NEW id \in PutId, NEW err \in Err, Put(id, err)
    PROVE  MissingKeys'
<1>1. CASE err # "OK"
  <2>1. data' = data
    BY <1>1, PutEffect, Zenon
  <2> QED
    BY <2>1 DEF MissingKeys
<1>2. CASE err = "OK"
  <2>1. id.key \in Key /\ id.version \in Nat
    BY DEF PutId, NamedVersion, Version
  <2>2. data' = [data EXCEPT ![id.key] = [value |-> id.value, version |-> id.version + 1]]
    BY <1>2, PutEffect
  <2> QED
    BY <2>1, <2>2 DEF MissingKeys, TypeOK
<1> QED
  BY <1>1, <1>2

\* Puts in progress, of all clerks.
ActivePuts == {ThisPut(c) : c \in {d \in Client : req[d].type = "Put"}}

\* What a step that is not a return can do to the store and to the Puts that
\* are performed or on their way.
LEMMA StepShape ==
    ASSUME ClerkInv, [Next]_vars
    PROVE  /\ OneWinnerPerVersion' /\ MissingKeys'
           /\ \A k \in Key : data[k].version <= data'[k].version
           /\ performed \subseteq performed' /\ performed' \subseteq performed \cup ActivePuts
           /\ late' \subseteq late \cup ActivePuts
           /\ \/ history' = history /\ \A c \in Client : req[c].type = "Put" => req'[c] = req[c]
              \/ \E c \in Client : Return(c)
<1> USE DEF ClerkInv
<1> DEFINE Goal == /\ OneWinnerPerVersion' /\ MissingKeys'
                   /\ \A k \in Key : data[k].version <= data'[k].version
                   /\ performed \subseteq performed' /\ performed' \subseteq performed \cup ActivePuts
<1>1. ASSUME UNCHANGED <<data, performed>> PROVE Goal
  BY <1>1, VersionsKept DEF OneWinnerPerVersion, MissingKeys
<1>2. ASSUME NEW c \in Client, req[c].type = "Put", NEW err \in Err, Put(ThisPut(c), err) PROVE Goal
  <2>1. ThisPut(c) \in PutId /\ ThisPut(c) \in ActivePuts
    BY <1>2, RequestFacts, TypedNotIdle DEF ActivePuts
  <2> QED
    BY <1>2, <2>1, PutOneWinner, PutMissing, PutType, PutEffect, Zenon
<1> HIDE DEF Goal
<1>3. ASSUME NEW c \in Client, NEW args \in Args(c), Invoke(c, args)
      PROVE  Goal /\ late' = late /\ history' = history /\ \A d \in Client : req[d].type = "Put" => req'[d] = req[d]
  <2>1. \A d \in Client : req[d].type = "Put" => req'[d] = req[d]
    BY <1>3 DEF Invoke, Idle, TypeOK
  <2> QED
    BY <1>1, <1>3, <2>1, Zenon DEF Invoke
<1>4. ASSUME NEW c \in Client, HandleGet(c)
      PROVE  Goal /\ late' = late /\ history' = history /\ req' = req
  BY <1>1, <1>4, Zenon DEF HandleGet
<1>5. ASSUME NEW c \in Client, HandlePut(c)
      PROVE  Goal /\ late' = late /\ history' = history /\ req' = req
  BY <1>2, <1>5 DEF HandlePut
<1>6. ASSUME NEW c \in Client, Return(c)
      PROVE  Goal /\ late' = late
  BY <1>1, <1>6 DEF Return
<1>7. ASSUME NEW c \in Client, Drop(c)
      PROVE  Goal /\ late' = late /\ history' = history /\ req' = req
  BY <1>1, <1>7 DEF Drop, Resend
<1>8. ASSUME NEW c \in Client, GiveUp(c)
      PROVE  Goal /\ late' \subseteq late \cup ActivePuts /\ history' = history /\ req' = req
  BY <1>1, <1>8 DEF GiveUp, Resend, ActivePuts
<1>9. ASSUME NEW id \in late, HandleLate(id)
      PROVE  Goal /\ late' \subseteq late /\ history' = history /\ req' = req
  <2>1. late' \subseteq late /\ history' = history /\ req' = req
    BY <1>9, Zenon DEF HandleLate, clerkVars
  <2>2. Goal
    BY <1>1, <1>2, <1>9, LateEffect
  <2> QED
    BY <2>1, <2>2, Zenon
<1>10. CASE UNCHANGED vars
  BY <1>1, <1>10 DEF vars, clerkVars, Goal
<1> QED
  BY <1>3, <1>4, <1>5, <1>6, <1>7, <1>8, <1>9, <1>10, ClerkAssumption, Zenon DEF Next, Attempt, Goal, vars, clerkVars

\* labrpc gives up only on calls of roaming clients.
LEMMA NextLateRoaming ==
    ASSUME LateRoaming, [Next]_vars
    PROVE  LateRoaming'
<1>1. ASSUME NEW c \in Client, Attempt(c) PROVE late' = late
  BY <1>1 DEF Attempt, HandleGet, HandlePut, Return, Drop
<1>2. ASSUME NEW c \in Client, NEW args \in Args(c), Invoke(c, args) PROVE late' = late
  BY <1>2, Zenon DEF Invoke
<1>3. ASSUME NEW c \in Roaming, GiveUp(c) PROVE \A id \in late' : id \in late \/ id.client \in Roaming
  BY <1>3 DEF GiveUp, ThisPut
<1>4. ASSUME NEW id \in late, HandleLate(id) PROVE late' \subseteq late
  BY <1>4 DEF HandleLate
<1> QED
  BY <1>1, <1>2, <1>3, <1>4, Zenon DEF LateRoaming, Next, vars

\* Facts about the Put of a clerk and the length of its history.
LEMMA ActiveFacts ==
    ASSUME TypeOK, NEW id \in ActivePuts
    PROVE  /\ id.client \in Client /\ req[id.client].type = "Put" /\ id = ThisPut(id.client)
           /\ id.op = Len(history[id.client]) + 1 /\ Len(history[id.client]) \in Nat
<1>1. PICK c \in Client : req[c].type = "Put" /\ id = ThisPut(c)
  BY Zenon DEF ActivePuts
<1>2. id.client = c /\ id.op = Len(history[c]) + 1
  BY <1>1 DEF ThisPut, OpNumber
<1> QED
  BY <1>1, <1>2 DEF TypeOK

\* The fields of a Put that the history variables remember.
LEMMA PutIdFacts ==
    ASSUME TypeOK, NEW id \in late \cup performed
    PROVE  id.client \in Client /\ id.key \in Key /\ id.version \in Nat /\ id.op \in Nat
<1>1. id \in PutId
  BY Zenon DEF TypeOK
<1>2. id.version \in 0..MaxVersion
  BY <1>1 DEF PutId, NamedVersion, Version
<1> QED
  BY <1>1, <1>2, ClerkAssumption DEF PutId

\* A Put that has returned has another number than the one in progress.
LEMMA ReturnedNotActive ==
    ASSUME TypeOK, NEW c \in Client, NEW n \in 1..Len(history[c])
    PROVE  Returned(c, n) \notin ActivePuts
<1>1. Returned(c, n).client = c /\ Returned(c, n).op = n
  BY Zenon DEF Returned
<1>2. n # Len(history[c]) + 1
  BY HistoryLen
<1> QED
  BY <1>1, <1>2, ActiveFacts

\* Steps other than a return keep the account of the Puts,
LEMMA QuietPuts ==
    ASSUME TypeOK, PutsAccounted, history' = history,
           \A c \in Client : req[c].type = "Put" => req'[c] = req[c],
           late' \cup performed' \subseteq late \cup performed \cup ActivePuts
    PROVE  PutsAccounted'
<1>1. ASSUME NEW c \in Client, req[c].type = "Put"
      PROVE  ThisPut(c)' = ThisPut(c) /\ OpNumber(c)' = OpNumber(c) /\ req'[c].type = "Put"
  BY <1>1, Zenon DEF ThisPut, OpNumber
<1> SUFFICES ASSUME NEW id \in late' \cup performed'
             PROVE  \/ id.op = OpNumber(id.client)' /\ req'[id.client].type = "Put" /\ id = ThisPut(id.client)'
                    \/ id.op \in 1..Len(history[id.client])
  BY DEF PutsAccounted
<1>2. CASE id \in late \cup performed
  <2>1. id.client \in Client
    BY <1>2, PutIdFacts
  <2>2. \/ id.op = OpNumber(id.client) /\ req[id.client].type = "Put" /\ id = ThisPut(id.client)
        \/ id.op \in 1..Len(history[id.client])
    BY <1>2, Zenon DEF PutsAccounted
  <2> QED
    BY <1>1, <2>1, <2>2, Zenon
<1>3. CASE id \in ActivePuts
  <2>1. id.client \in Client /\ req[id.client].type = "Put" /\ id = ThisPut(id.client)
    BY <1>3, ActiveFacts
  <2>2. id.op = OpNumber(id.client)
    BY <1>3, ActiveFacts DEF OpNumber
  <2> QED
    BY <1>1, <2>1, <2>2, Zenon
<1> QED
  BY <1>2, <1>3, Zenon

\* the truth of what was answered,
LEMMA QuietAnswers ==
    ASSUME TypeOK, AnswersTruthful, history' = history,
           performed \subseteq performed',
           late' \cup performed' \subseteq late \cup performed \cup ActivePuts
    PROVE  AnswersTruthful'
<1> SUFFICES ASSUME NEW c \in Client, NEW n \in 1..Len(history[c]), history[c][n].req.type = "Put"
             PROVE  /\ history[c][n].reply.err = "OK" => Returned(c, n) \in performed'
                    /\ history[c][n].reply.err \in {"ErrVersion", "ErrNoKey"} => Returned(c, n) \notin performed' \cup late'
  BY DEF AnswersTruthful, Returned
<1>1. Returned(c, n) \notin ActivePuts
  BY ReturnedNotActive
<1>2. /\ history[c][n].reply.err = "OK" => Returned(c, n) \in performed
      /\ history[c][n].reply.err \in {"ErrVersion", "ErrNoKey"} => Returned(c, n) \notin performed \cup late
  BY Zenon DEF AnswersTruthful
<1> QED
  BY <1>1, <1>2, Zenon

\* and the harmlessness of late attempts, since no version is taken back.
LEMMA QuietLate ==
    ASSUME TypeOK, TypeOK', LateAttemptsHarmless, history' = history,
           late' \subseteq late \cup ActivePuts,
           \A k \in Key : data[k].version <= data'[k].version
    PROVE  LateAttemptsHarmless'
<1> SUFFICES ASSUME NEW id \in late', id.op <= Len(history[id.client])
             PROVE  id.version < data'[id.key].version
  BY Zenon DEF LateAttemptsHarmless
<1>1. id \notin ActivePuts
  BY ActiveFacts
<1>2. id \in late
  BY <1>1
<1>3. id.version < data[id.key].version
  BY <1>2, Zenon DEF LateAttemptsHarmless
<1>4. id.key \in Key /\ id.version \in Nat
  BY <1>2, PutIdFacts
<1>5. data[id.key].version \in Nat /\ data'[id.key].version \in Nat
  <2>1. data[id.key] \in Entry /\ data'[id.key] \in Entry
    BY <1>4, Zenon DEF TypeOK
  <2> QED
    BY <2>1, ClerkAssumption DEF Entry, Version
<1>6. data[id.key].version <= data'[id.key].version
  BY <1>4
<1> QED
  BY <1>3, <1>4, <1>5, <1>6

\* What the result of a Put says of the Put (client.go, the results of Put).
LEMMA PutResult ==
    ASSUME first \in [Client -> BOOLEAN], LateRoaming,
           NEW c \in Client, PutInProgress(c), call[c] \in Reply
    PROVE  /\ c \in Roaming => req[c].version < data[req[c].key].version
           /\ ResultOf(c).err = "OK" => ThisPut(c) \in performed
           /\ ResultOf(c).err \in {"ErrVersion", "ErrNoKey"} => ThisPut(c) \notin performed \cup late
<1>1. call[c] \in {ErrReply("OK"), ErrReply("ErrVersion"), ErrReply("ErrNoKey")}
  BY NotReplies, Zenon DEF PutInProgress
<1>2. call[c].err \in {"OK", "ErrVersion", "ErrNoKey"}
  BY <1>1 DEF ErrReply
<1>3. outcome[c] # Nothing
  <2>1. outcome[c].err \in {"OK", "ErrVersion", "ErrNoKey"}
    BY <1>2, Zenon DEF PutInProgress
  <2> QED
    BY <2>1 DEF Nothing, ErrReply
<1>4. /\ ResultOf(c).err = "OK" => call[c].err = "OK"
      /\ ResultOf(c).err = "ErrVersion" => call[c].err = "ErrVersion" /\ first[c]
      /\ ResultOf(c).err = "ErrNoKey" => call[c].err = "ErrNoKey"
  <2>1. first[c] \in BOOLEAN
    OBVIOUS
  <2> QED
    BY <1>2, <2>1 DEF ResultOf, ErrReply
<1>5. ResultOf(c).err = "ErrNoKey" => c \notin Roaming /\ outcome[c].err # "OK"
  <2>1. outcome[c] \in {Nothing, ErrReply("OK"), ErrReply("ErrVersion"), ErrReply("ErrNoKey")}
    BY Zenon DEF PutInProgress
  <2>2. outcome[c].err = "ErrNoKey" => outcome[c] = ErrReply("ErrNoKey")
    BY <2>1 DEF ErrReply, Nothing
  <2>3. /\ call[c].err = "ErrNoKey" => outcome[c].err = "ErrNoKey"
        /\ c \in Roaming => outcome[c] # ErrReply("ErrNoKey")
    BY Zenon DEF PutInProgress
  <2> QED
    BY <1>4, <2>2, <2>3
<1>6. c \notin Roaming => ThisPut(c) \notin late
  <2>1. ThisPut(c).client = c
    BY Zenon DEF ThisPut
  <2> QED
    BY <2>1, Zenon DEF LateRoaming
<1>7. ResultOf(c).err = "OK" => ThisPut(c) \in performed
  BY <1>4, Zenon DEF PutInProgress
<1>8. ResultOf(c).err = "ErrVersion" => ThisPut(c) \notin performed \cup late
  BY <1>4, Zenon DEF PutInProgress
<1>9. ResultOf(c).err = "ErrNoKey" => ThisPut(c) \notin performed \cup late
  BY <1>5, <1>6, Zenon DEF PutInProgress
<1>10. c \in Roaming => req[c].version < data[req[c].key].version
  BY <1>3, Zenon DEF PutInProgress
<1> QED
  BY <1>7, <1>8, <1>9, <1>10, Zenon

\* A return keeps the account of the Puts: its own Put is now one of those that
\* have returned.
LEMMA ReturnPuts ==
    ASSUME TypeOK, PutsAccounted, NEW c \in Client, Return(c)
    PROVE  PutsAccounted'
<1>1. performed' = performed /\ late' = late
  BY ReturnEffect, Zenon
<1> SUFFICES ASSUME NEW id \in late \cup performed
             PROVE  \/ id.op = OpNumber(id.client)' /\ req'[id.client].type = "Put" /\ id = ThisPut(id.client)'
                    \/ id.op \in 1..Len(history'[id.client])
  BY <1>1, Zenon DEF PutsAccounted
<1>2. \/ id.op = OpNumber(id.client) /\ req[id.client].type = "Put" /\ id = ThisPut(id.client)
      \/ id.op \in 1..Len(history[id.client])
  BY Zenon DEF PutsAccounted
<1>3. CASE id.client = c
  <2>1. Len(history[c]) \in Nat /\ Len(history'[c]) = Len(history[c]) + 1
    BY ReturnEffect, Zenon
  <2>2. id.op = Len(history[c]) + 1 \/ id.op \in 1..Len(history[c])
    BY <1>2, <1>3, Zenon DEF OpNumber
  <2> QED
    BY <1>3, <2>1, <2>2
<1>4. CASE id.client # c
  <2>1. id.client \in Client
    BY PutIdFacts
  <2>2. history'[id.client] = history[id.client] /\ req'[id.client] = req[id.client]
    BY <1>4, <2>1, ReturnEffect, Zenon
  <2> QED
    BY <1>2, <2>2, Zenon DEF OpNumber, ThisPut
<1> QED
  BY <1>3, <1>4, Zenon

\* A return tells the truth about the Put.
LEMMA ReturnAnswers ==
    ASSUME TypeOK, LateRoaming, AnswersTruthful, NEW c \in Client, Return(c),
           req[c].type = "Put" => PutInProgress(c)
    PROVE  AnswersTruthful'
<1>1. performed' = performed /\ late' = late /\ call[c] \in Reply
  BY ReturnEffect, Zenon
<1> SUFFICES ASSUME NEW d \in Client, NEW n \in 1..Len(history'[d]), history'[d][n].req.type = "Put"
             PROVE  /\ history'[d][n].reply.err = "OK" => Returned(d, n)' \in performed
                    /\ history'[d][n].reply.err \in {"ErrVersion", "ErrNoKey"} => Returned(d, n)' \notin performed \cup late
  BY <1>1, Zenon DEF AnswersTruthful
<1>2. CASE n \in 1..Len(history[d]) /\ history'[d][n] = history[d][n]
  <2>1. Returned(d, n)' = Returned(d, n)
    BY <1>2, Zenon DEF Returned
  <2> QED
    BY <1>2, <2>1, Zenon DEF AnswersTruthful
<1>3. CASE d = c /\ n = OpNumber(c)
  <2>1. history'[c][OpNumber(c)] = [req |-> req[c], reply |-> ResultOf(c)]
    BY ReturnEffect, Zenon DEF OpNumber
  <2>2. history'[d][n].req = req[c] /\ history'[d][n].reply = ResultOf(c)
    BY <1>3, <2>1
  <2>3. Returned(d, n)' = ThisPut(c)
    BY <1>3, <2>2, Zenon DEF Returned, ThisPut
  <2>4. first \in [Client -> BOOLEAN] /\ PutInProgress(c)
    BY <2>2, Zenon DEF TypeOK
  <2>5. /\ ResultOf(c).err = "OK" => ThisPut(c) \in performed
        /\ ResultOf(c).err \in {"ErrVersion", "ErrNoKey"} => ThisPut(c) \notin performed \cup late
    BY <1>1, <2>4, PutResult
  <2> QED
    BY <2>2, <2>3, <2>5, Zenon
<1>4. CASE d # c
  BY <1>2, <1>4, ReturnEffect, Zenon
<1>5. CASE d = c
  <2>1. /\ Len(history[c]) \in Nat /\ Len(history'[c]) = Len(history[c]) + 1
        /\ \A m \in 1..Len(history[c]) : history'[c][m] = history[c][m]
    BY ReturnEffect, Zenon
  <2>2. n \in 1..Len(history[c]) \/ n = Len(history[c]) + 1
    BY <1>5, <2>1
  <2> QED
    BY <1>2, <1>3, <1>5, <2>1, <2>2, Zenon DEF OpNumber
<1> QED
  BY <1>4, <1>5, Zenon

\* A return leaves only harmless attempts behind.
LEMMA ReturnLate ==
    ASSUME TypeOK, LateRoaming, PutsAccounted, LateAttemptsHarmless, NEW c \in Client, Return(c),
           req[c].type = "Put" => PutInProgress(c)
    PROVE  LateAttemptsHarmless'
<1>1. data' = data /\ late' = late /\ call[c] \in Reply
  BY ReturnEffect, Zenon
<1> SUFFICES ASSUME NEW id \in late, id.op <= Len(history'[id.client])
             PROVE  id.version < data[id.key].version
  BY <1>1, Zenon DEF LateAttemptsHarmless
<1>2. CASE id.op <= Len(history[id.client])
  BY <1>2, Zenon DEF LateAttemptsHarmless
<1>3. CASE ~(id.op <= Len(history[id.client]))
  <2>1. id.client \in Client
    BY PutIdFacts
  <2>2. id.client = c
    BY <1>3, <2>1, ReturnEffect, Zenon
  <2>3. Len(history[c]) \in Nat
    BY HistoryLen
  <2>4. id.op \notin 1..Len(history[c])
    BY <1>3, <2>2, <2>3
  <2>5. req[c].type = "Put" /\ id = ThisPut(c)
    BY <2>2, <2>4, Zenon DEF PutsAccounted
  <2>6. first \in [Client -> BOOLEAN] /\ PutInProgress(c)
    BY <2>5, Zenon DEF TypeOK
  <2>7. c \in Roaming
    BY <2>2, Zenon DEF LateRoaming
  <2>8. req[c].version < data[req[c].key].version
    BY <1>1, <2>6, <2>7, PutResult
  <2>9. id.version = req[c].version /\ id.key = req[c].key
    BY <2>5, Zenon DEF ThisPut
  <2> QED
    BY <2>8, <2>9, Zenon
<1> QED
  BY <1>2, <1>3, Zenon

-----------------------------------------------------------------------------
(* The invariant, and the properties it contains. *)

LEMMA InitClerkInv == Init => ClerkInv
<1> SUFFICES ASSUME Init PROVE ClerkInv
  OBVIOUS
<1>1. TypeOK
  BY InitTypeOK
<1>2. MissingKeys
  BY DEF Init, MissingKeys
<1>3. CallsConsistent
  BY DEF Init, CallsConsistent, CallConsistent
<1>4. PutsAccounted /\ LateRoaming /\ LateAttemptsHarmless
  BY DEF Init, PutsAccounted, LateRoaming, LateAttemptsHarmless
<1>5. OneWinnerPerVersion
  BY ClerkAssumption DEF Init, OneWinnerPerVersion, Missing, Version
<1>6. AnswersTruthful
  BY DEF Init, AnswersTruthful
<1> QED
  BY <1>1, <1>2, <1>3, <1>4, <1>5, <1>6 DEF ClerkInv

LEMMA NextClerkInv == ClerkInv /\ [Next]_vars => ClerkInv'
<1> SUFFICES ASSUME ClerkInv, [Next]_vars PROVE ClerkInv'
  OBVIOUS
<1>1. TypeOK'
  BY NextTypeOK DEF ClerkInv
<1>2. CallsConsistent'
  BY <1>1, NextConsistent, Zenon
<1>3. /\ OneWinnerPerVersion' /\ MissingKeys'
      /\ \A k \in Key : data[k].version <= data'[k].version
      /\ performed \subseteq performed' /\ performed' \subseteq performed \cup ActivePuts
      /\ late' \subseteq late \cup ActivePuts
      /\ \/ history' = history /\ \A c \in Client : req[c].type = "Put" => req'[c] = req[c]
         \/ \E c \in Client : Return(c)
  BY StepShape
<1>4. ASSUME history' = history, \A c \in Client : req[c].type = "Put" => req'[c] = req[c]
      PROVE  PutsAccounted' /\ AnswersTruthful' /\ LateAttemptsHarmless'
  <2>1. late' \cup performed' \subseteq late \cup performed \cup ActivePuts
    BY <1>3, Zenon
  <2>2. TypeOK /\ PutsAccounted /\ AnswersTruthful /\ LateAttemptsHarmless
    BY Zenon DEF ClerkInv
  <2>3. PutsAccounted'
    BY <1>4, <2>1, <2>2, QuietPuts, Zenon
  <2>4. AnswersTruthful'
    BY <1>3, <1>4, <2>1, <2>2, QuietAnswers, Zenon
  <2>5. LateAttemptsHarmless'
    BY <1>1, <1>3, <1>4, <2>2, QuietLate, Zenon
  <2> QED
    BY <2>3, <2>4, <2>5
<1>5. ASSUME NEW c \in Client, Return(c)
      PROVE  PutsAccounted' /\ AnswersTruthful' /\ LateAttemptsHarmless'
  <2>1. req[c].type = "Put" => PutInProgress(c)
    BY InProgress, Zenon
  <2> QED
    BY <1>5, <2>1, ReturnPuts, ReturnAnswers, ReturnLate DEF ClerkInv
<1> QED
  BY <1>1, <1>2, <1>3, <1>4, <1>5, NextLateRoaming DEF ClerkInv

\* Clerks, server and network keep the invariant ClerkInv.
THEOREM ClerkInvariant == Spec => []ClerkInv
BY InitClerkInv, NextClerkInv, PTL DEF Spec

\* The types of the state of clerks, server and network.
THEOREM ClerkTypes == Spec => []TypeOK
<1>1. ClerkInv => TypeOK
  BY DEF ClerkInv
<1> QED
  BY <1>1, ClerkInvariant, PTL

\* KVServer.Put performs one Put for each version of a key, and loses none.
THEOREM OneWinner == Spec => []OneWinnerPerVersion
<1>1. ClerkInv => OneWinnerPerVersion
  BY DEF ClerkInv
<1> QED
  BY <1>1, ClerkInvariant, PTL

\* Clerk.Put returns OK only when the Put was performed, and ErrVersion and
\* ErrNoKey only when it was not and will not be.
THEOREM Truthful == Spec => []AnswersTruthful
<1>1. ClerkInv => AnswersTruthful
  BY DEF ClerkInv
<1> QED
  BY <1>1, ClerkInvariant, PTL

\* No attempt of a Put takes effect after the Put has returned.
THEOREM LateHarmless == Spec => []LateAttemptsHarmless
<1>1. ClerkInv => LateAttemptsHarmless
  BY DEF ClerkInv
<1> QED
  BY <1>1, ClerkInvariant, PTL

-----------------------------------------------------------------------------
(* Clerks and server implement the atomic store. *)

\* The refinement mapping.
pendingBar == [c \in Client |-> [req |-> req[c], outcome |-> outcome[c]]]

returnedBar == [c \in Client |-> LastReturned(c)]

LEMMA SameNothing == Register!Nothing = Nothing /\ Register!Idle = Idle
BY Zenon DEF Register!Nothing, Register!Idle, Nothing, Idle, ErrReply

LEMMA InitRefines == Init => Register!KVInit
<1> SUFFICES ASSUME Init PROVE Register!KVInit
  OBVIOUS
<1>1. data = [k \in Key |-> Register!Missing]
  BY DEF Init, Register!Missing, Missing
<1>2. pendingBar = [c \in Client |-> [req |-> Register!Idle, outcome |-> Register!Nothing]]
  BY SameNothing DEF Init, pendingBar
<1>3. returnedBar = [c \in Client |-> [req |-> Register!Idle, reply |-> Register!Nothing]]
  BY SameNothing, Zenon DEF Init, returnedBar, LastReturned
<1> QED
  BY <1>1, <1>2, <1>3 DEF Register!KVInit, pendingBar, returnedBar

\* A step that leaves the store, the calls and the histories alone is invisible.
LEMMA Stutter ==
    ASSUME data' = data, req' = req, outcome' = outcome, history' = history
    PROVE  UNCHANGED Register!kvVars
<1>1. returnedBar' = returnedBar
  BY DEF returnedBar, LastReturned
<1>2. pendingBar' = pendingBar
  BY Zenon DEF pendingBar
<1> QED
  BY <1>1, <1>2, Zenon DEF Register!kvVars, returnedBar, pendingBar

LEMMA InvokeRefines ==
    ASSUME ClerkInv, NEW c \in Client, NEW args \in Args(c), Invoke(c, args)
    PROVE  Register!KVNext
<1>1. args \in Register!Request
  BY ArgsRefine, Zenon
<1>2. /\ req' = [req EXCEPT ![c] = args] /\ outcome' = [outcome EXCEPT ![c] = Nothing]
      /\ data' = data /\ history' = history /\ req[c] = Idle
      /\ req \in [Client -> Request \cup {Idle}] /\ outcome \in [Client -> Reply \cup {Nothing}]
  BY DEF Invoke, ClerkInv, TypeOK
<1>3. pendingBar' = [pendingBar EXCEPT ![c] = [req |-> args, outcome |-> Register!Nothing]]
  BY <1>2, SameNothing, Zenon DEF pendingBar
<1>4. returnedBar' = returnedBar
  BY <1>2 DEF returnedBar, LastReturned
<1>5. pendingBar[c].req = Register!Idle
  BY <1>2, SameNothing, Zenon DEF pendingBar
<1>6. Register!Invoke(c, args)
  BY <1>2, <1>3, <1>4, <1>5, Zenon DEF Register!Invoke, pendingBar, returnedBar
<1> QED
  BY <1>1, <1>6, Zenon DEF Register!KVNext

LEMMA HandleGetRefines ==
    ASSUME ClerkInv, NEW c \in Client, HandleGet(c)
    PROVE  Register!KVNext
<1>1. /\ req' = req /\ outcome' = [outcome EXCEPT ![c] = Get(req[c].key)]
      /\ data' = data /\ history' = history /\ req[c].type = "Get"
      /\ outcome \in [Client -> Reply \cup {Nothing}]
  BY Zenon DEF HandleGet, ClerkInv, TypeOK
<1>2. req[c].key \in Key
  BY <1>1, RequestFacts, TypedNotIdle, Zenon DEF ClerkInv
<1>3. Register!ReadOf(data[req[c].key]) = Get(req[c].key)
  BY <1>2, ReadRefines, Zenon DEF ClerkInv
<1>4. pendingBar' = [pendingBar EXCEPT ![c].outcome = Register!ReadOf(data[req[c].key])]
  BY <1>1, <1>3, Zenon DEF pendingBar
<1>5. returnedBar' = returnedBar
  BY <1>1 DEF returnedBar, LastReturned
<1>6. pendingBar[c].req = req[c]
  BY DEF pendingBar
<1>7. Register!Apply(c)
  BY <1>1, <1>4, <1>5, <1>6, Zenon DEF Register!Apply, pendingBar, returnedBar
<1> QED
  BY <1>7 DEF Register!KVNext

\* An attempt of a Put in progress is the moment the Put takes effect, or
\* changes nothing if it has taken effect before.
LEMMA PutRefines ==
    ASSUME ClerkInv, NEW c \in Client, req[c].type = "Put", NEW err \in Err, Put(ThisPut(c), err),
           outcome' = [outcome EXCEPT ![c] = PutOutcome(c, err)], req' = req, history' = history
    PROVE  Register!KVNext \/ UNCHANGED Register!kvVars
<1> DEFINE k == req[c].key
           v == req[c].version
           id == ThisPut(c)
<1>1. /\ k \in Key /\ v \in Nat /\ id \in PutId
      /\ id.key = k /\ id.version = v /\ id.value = req[c].value
  <2>1. TypeOK /\ req[c] # Idle
    BY TypedNotIdle, Zenon DEF ClerkInv
  <2>2. k \in Key /\ v \in Version /\ id \in PutId
    BY <2>1, RequestFacts
  <2>3. v \in Nat
    BY <2>2, VersionNat, Zenon
  <2>4. id.key = k /\ id.version = v /\ id.value = req[c].value
    BY DEF ThisPut
  <2> QED
    BY <2>2, <2>3, <2>4
<1>2. outcome \in [Client -> Reply \cup {Nothing}] /\ data \in [Key -> Entry]
  BY Zenon DEF ClerkInv, TypeOK
<1>3. returnedBar' = returnedBar
  BY DEF returnedBar, LastReturned
<1>4. CASE outcome[c].err = "OK"
  <2>1. err # "OK" /\ outcome' = outcome
    BY <1>2, <1>4, PutAttempt, Zenon DEF PutOutcome
  <2>2. data' = data
    BY <1>1, <2>1, PutEffect, Zenon DEF ClerkInv
  <2> QED
    BY <2>1, <2>2, Stutter
<1>5. CASE outcome[c].err # "OK"
  <2>1. outcome' = [outcome EXCEPT ![c] = ErrReply(err)]
    BY <1>5 DEF PutOutcome
  <2>2. pendingBar' = [pendingBar EXCEPT ![c].outcome = ErrReply(err)]
    BY <1>2, <2>1, Zenon DEF pendingBar
  <2>3. Register!PutAnswer(data[k], v) = ErrReply(err)
    <3>1. /\ err \in {"OK", "ErrVersion", "ErrNoKey"} /\ (err = "OK" <=> v = data[k].version)
          /\ err = "ErrNoKey" => data[k].version = 0
          /\ err = "ErrVersion" => data[k].version # 0
      <4>1. id \in PutId /\ TypeOK /\ Put(id, err)
        BY <1>1 DEF ClerkInv
      <4> HIDE DEF id, k, v
      <4>2. /\ err \in {"OK", "ErrVersion", "ErrNoKey"} /\ (err = "OK" <=> id.version = data[id.key].version)
            /\ err = "ErrNoKey" => data[id.key].version = 0
            /\ err = "ErrVersion" => data[id.key].version # 0
        BY <4>1, PutEffect, Zenon
      <4> QED
        BY <1>1, <4>2, Zenon
    <3>2. data[k].version = 0 <=> data[k] = Register!Missing
      <4>1. k \in Key /\ MissingKeys
        BY <1>1 DEF ClerkInv
      <4>2. data[k].version = 0 => data[k] = Missing
        BY <4>1 DEF MissingKeys
      <4>3. Missing = Register!Missing /\ Missing.version = 0
        BY DEF Missing, Register!Missing
      <4> QED
        BY <4>2, <4>3, Zenon
    <3> QED
      BY <3>1, <3>2, Zenon DEF Register!PutAnswer, Register!Answer, ErrReply
  <2>4. data' = IF v = data[k].version
                THEN [data EXCEPT ![k] = [value |-> req[c].value, version |-> @.version + 1]]
                ELSE data
    <3>1. CASE err = "OK"
      <4>1. v = data[k].version /\ data' = [data EXCEPT ![k] = [value |-> req[c].value, version |-> v + 1]]
        BY <1>1, <3>1, PutEffect, Zenon DEF ClerkInv
      <4> QED
        BY <4>1, Zenon
    <3>2. CASE err # "OK"
      <4>1. v # data[k].version /\ data' = data
        BY <1>1, <3>2, PutEffect, Zenon DEF ClerkInv
      <4> QED
        BY <4>1
    <3> QED
      BY <3>1, <3>2, Zenon
  <2>5. ErrReply(err).err = "OK" => data[k].version < MaxVersion
    BY <1>1, PutEffect, Zenon DEF ClerkInv, PutId, NamedVersion, ErrReply
  <2>6. pendingBar[c].req = req[c] /\ pendingBar[c].outcome = outcome[c]
    BY DEF pendingBar
  <2>7. Register!Apply(c)
    BY <1>3, <1>5, <2>2, <2>3, <2>4, <2>5, <2>6, Zenon DEF Register!Apply, pendingBar, returnedBar
  <2> QED
    BY <2>7 DEF Register!KVNext
<1> QED
  BY <1>4, <1>5, Zenon

LEMMA ReturnRefines ==
    ASSUME ClerkInv, NEW c \in Client, Return(c)
    PROVE  Register!KVNext
<1> DEFINE e == [req |-> req[c], reply |-> ResultOf(c)]
<1>1. /\ req' = [req EXCEPT ![c] = Idle] /\ outcome' = [outcome EXCEPT ![c] = Nothing]
      /\ data' = data /\ call[c] \in Reply
      /\ req \in [Client -> Request \cup {Idle}] /\ outcome \in [Client -> Reply \cup {Nothing}]
  BY DEF Return, ClerkInv, TypeOK
<1>2. /\ history \in [Client -> Seq([req : Request, reply : Reply])]
      /\ history' = [history EXCEPT ![c] = Append(@, e)]
  BY Zenon DEF Return, ClerkInv, TypeOK
<1>3. outcome[c] # Nothing /\ ResultOf(c) \in Register!Answers([req |-> req[c], outcome |-> outcome[c]])
  <2>1. CASE req[c].type = "Get"
    <3>1. GetInProgress(c)
      BY <2>1, InProgress, Zenon
    <3>2. call[c] = outcome[c] /\ call[c].err # "ErrVersion"
      BY <1>1, <3>1, NotReplies, Zenon DEF GetInProgress
    <3> QED
      BY <1>1, <3>2, NotReplies DEF ResultOf, Register!Answers
  <2>2. CASE req[c].type = "Put"
    <3>1. PutInProgress(c)
      BY <2>2, InProgress, Zenon
    <3>2. /\ call[c] \in {ErrReply("OK"), ErrReply("ErrVersion"), ErrReply("ErrNoKey")}
          /\ outcome[c] \in {Nothing, ErrReply("OK"), ErrReply("ErrVersion"), ErrReply("ErrNoKey")}
          /\ call[c].err = "OK" => outcome[c].err = "OK"
          /\ call[c].err = "ErrVersion" => outcome[c].err \in {"OK", "ErrVersion"}
          /\ call[c].err = "ErrNoKey" => outcome[c].err = "ErrNoKey"
          /\ first[c] /\ call[c].err = "ErrVersion" => outcome[c].err = "ErrVersion"
      BY <1>1, <3>1, NotReplies DEF PutInProgress
    <3>3. /\ \A err \in {"OK", "ErrVersion", "ErrNoKey"} : ErrReply(err).err = err
          /\ Nothing.err \notin {"OK", "ErrVersion", "ErrNoKey"}
      BY DEF ErrReply, Nothing
    <3>4. \/ ResultOf(c) = outcome[c]
          \/ ResultOf(c) = Register!Answer("ErrMaybe") /\ outcome[c].err \in {"OK", "ErrVersion"}
      <4>1. first[c] \in BOOLEAN
        BY DEF ClerkInv, TypeOK
      <4>2. ResultOf(c) = IF call[c].err = "ErrVersion" /\ ~first[c] THEN Register!Answer("ErrMaybe") ELSE call[c]
        BY DEF ResultOf, ErrReply, Register!Answer
      <4> QED
        BY <3>2, <3>3, <4>1, <4>2
    <3>5. outcome[c] # Nothing
      BY <3>2, <3>3
    <3> QED
      BY <2>2, <3>4, <3>5 DEF Register!Answers
  <2> QED
    BY <1>1, <2>1, <2>2, ReturnsFromCall, RequestFacts, Zenon DEF ClerkInv
<1>4. pendingBar' = [pendingBar EXCEPT ![c] = [req |-> Register!Idle, outcome |-> Register!Nothing]]
  BY <1>1, SameNothing, Zenon DEF pendingBar
<1>5. returnedBar' = [returnedBar EXCEPT ![c] = e]
  <2>1. \A d \in Client : d # c => LastReturned(d)' = LastReturned(d)
    BY <1>2 DEF LastReturned
  <2>2. LastReturned(c)' = e
    <3>1. history'[c] = Append(history[c], e) /\ history[c] \in Seq([req : Request, reply : Reply])
      BY <1>2, Zenon
    <3> HIDE DEF e
    <3>2. history'[c] # <<>> /\ history'[c][Len(history'[c])] = e
      BY <3>1
    <3> QED
      BY <3>2 DEF LastReturned
  <2> QED
    BY <2>1, <2>2, Zenon DEF returnedBar
<1>6. pendingBar[c] = [req |-> req[c], outcome |-> outcome[c]]
  BY Zenon DEF pendingBar
<1>7. /\ ResultOf(c) \in Register!Answers(pendingBar[c])
      /\ pendingBar[c].outcome # Register!Nothing /\ pendingBar[c].req = req[c]
  <2>1. pendingBar[c].outcome = outcome[c] /\ pendingBar[c].req = req[c]
    BY <1>6
  <2> QED
    BY <1>3, <1>6, <2>1, SameNothing, Zenon
<1>8. Register!Return(c, ResultOf(c))
  BY <1>1, <1>4, <1>5, <1>7, Zenon DEF Register!Return, pendingBar, returnedBar
<1>9. \E reply \in Register!Answers(pendingBar[c]) : Register!Return(c, reply)
  BY <1>7, <1>8, Zenon DEF Register!Return
<1> QED
  BY <1>9, Zenon DEF Register!KVNext, pendingBar

LEMMA NextRefines ==
    ASSUME ClerkInv, [Next]_vars
    PROVE  [Register!KVNext]_(Register!kvVars)
<1>1. ASSUME NEW c \in Client, HandlePut(c)
      PROVE  Register!KVNext \/ UNCHANGED Register!kvVars
  BY <1>1, PutRefines, Zenon DEF HandlePut
<1>2. ASSUME NEW c \in Client, Drop(c) \/ GiveUp(c)
      PROVE  UNCHANGED Register!kvVars
  BY <1>2, Stutter, Zenon DEF Drop, GiveUp, Resend
<1>3. ASSUME NEW id \in late, HandleLate(id)
      PROVE  Register!KVNext \/ UNCHANGED Register!kvVars
  <2>1. req' = req /\ history' = history
    BY <1>3 DEF HandleLate, clerkVars
  <2>2. CASE UNCHANGED <<data, performed, outcome>>
    BY <2>1, <2>2, Stutter
  <2> QED
    BY <1>3, <2>1, <2>2, LateEffect, PutRefines
<1>4. CASE UNCHANGED vars
  BY <1>4, Stutter DEF vars, clerkVars
<1> QED
  BY <1>1, <1>2, <1>3, <1>4, InvokeRefines, HandleGetRefines, ReturnRefines, ClerkAssumption DEF Next, Attempt

\* The clerks of client.go and the server of server.go, over a network that
\* loses messages and runs handlers late, implement the atomic versioned store
\* of VersionedKV.
THEOREM ClerkLinearizable == Spec => Linearizable
<1>1. ClerkInv /\ [Next]_vars => [Register!KVNext]_(Register!kvVars)
  BY NextRefines
<1> QED
  BY <1>1, InitRefines, ClerkInvariant, PTL DEF Spec, Linearizable, Register!KVSpec

=============================================================================
