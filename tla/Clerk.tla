------------------------------- MODULE Clerk -------------------------------
(***************************************************************************)
(* The key/value server of kvsrv1/server.go and the clerks of              *)
(* kvsrv1/client.go that call it over labrpc.  A handler of the server     *)
(* holds kv.mu from its first line to its last, so it is one step.  A      *)
(* clerk makes one call at a time and sends its RPC again until one        *)
(* attempt is answered.                                                    *)
(*                                                                         *)
(* labrpc can drop a request or a reply.  It can also give up on a call    *)
(* whose end was disabled while the handler's goroutine had not run yet:   *)
(* Call returns false, and the handler still runs later.                   *)
(*                                                                         *)
(* A key that is not in kv.data is the entry with version 0, which no      *)
(* stored key has.                                                         *)
(*                                                                         *)
(* An operator Op_fault is Op with a plausible mistake in it.  No          *)
(* specification uses it; put in the place of Op, it violates a property.  *)
(***************************************************************************)
EXTENDS Naturals, Sequences, FiniteSets

CONSTANTS Client, Key, Value,
          NoValue,      \* the empty string
          Roaming,      \* the clients whose ends the tester disables in the middle of calls
          MaxVersion,   \* bound on the versions the server hands out
          MaxOps        \* bound on the calls of each client

ASSUME ClerkAssumption ==
    /\ MaxVersion \in Nat /\ MaxOps \in [Client -> Nat]
    /\ NoValue \in Value
    /\ Roaming \subseteq Client

VARIABLES data,      \* kv.data of the server
          req,       \* the arguments of the call a clerk is in, or Idle
          first,     \* isFirstAttempt of the clerk
          call,      \* the RPC of the clerk: not answered (Waiting), or its reply
          late,      \* requests labrpc gave up on, whose handler has yet to run
          history,   \* the calls each clerk has completed, with their results
          outcome,   \* history: what the clerk's current call has done at the server
          performed  \* history: the Puts the server has performed

clerkVars == <<req, first, call>>
vars == <<data, clerkVars, late, history, outcome, performed>>

Version == 0..MaxVersion

\* The versions a Put may name, bounded so that the next one is a Version.
NamedVersion == {v \in Version : v < MaxVersion}

Entry == [value : Value, version : Version]

Missing == [value |-> NoValue, version |-> 0]

\* GetArgs and PutArgs; the unused fields of a Get are fixed.
Request ==
    [type : {"Get"}, key : Key, value : {NoValue}, version : {0}]
    \cup [type : {"Put"}, key : Key, value : Value, version : NamedVersion]

Idle == [type |-> "Idle", key |-> NoValue, value |-> NoValue, version |-> 0]

Err == {"OK", "ErrNoKey", "ErrVersion", "ErrMaybe"}

\* GetReply; a PutReply has only the error.
Reply == [value : Value, version : Version, err : Err]

ErrReply(err) == [value |-> NoValue, version |-> 0, err |-> err]

Nothing == ErrReply("None")

Waiting == ErrReply("Waiting")

OpNumber(c) == Len(history[c]) + 1

\* A Put as the history variables remember it.
PutId == [client : Client, op : Nat, key : Key, value : Value, version : NamedVersion]

ThisPut(c) == [client |-> c, op |-> OpNumber(c), key |-> req[c].key,
               value |-> req[c].value, version |-> req[c].version]

TypeOK ==
    /\ data \in [Key -> Entry]
    /\ req \in [Client -> Request \cup {Idle}]
    /\ first \in [Client -> BOOLEAN]
    /\ call \in [Client -> Reply \cup {Waiting, Nothing}]
    /\ late \in SUBSET PutId
    /\ history \in [Client -> Seq([req : Request, reply : Reply])]
    /\ outcome \in [Client -> Reply \cup {Nothing}]
    /\ performed \in SUBSET PutId

Init ==
    /\ data = [k \in Key |-> Missing]
    /\ req = [c \in Client |-> Idle]
    /\ first = [c \in Client |-> TRUE]
    /\ call = [c \in Client |-> Nothing]
    /\ late = {}
    /\ history = [c \in Client |-> <<>>]
    /\ outcome = [c \in Client |-> Nothing]
    /\ performed = {}

-----------------------------------------------------------------------------
(* The server. *)

Exists(key) == data[key].version > 0

Get(key) ==
    IF Exists(key)
    THEN [value |-> data[key].value, version |-> data[key].version, err |-> "OK"]
    ELSE ErrReply("ErrNoKey")

PutErr_AtLeast(key, version) ==
    IF Exists(key)
    THEN IF version >= data[key].version THEN "OK" ELSE "ErrVersion"
    ELSE IF version = 0 THEN "OK" ELSE "ErrNoKey"

PutErr(key, version) ==
    IF Exists(key)
    THEN IF version = data[key].version THEN "OK" ELSE "ErrVersion"
    ELSE IF version = 0 THEN "OK" ELSE "ErrNoKey"

PutEntry_SameVersion(key, value) ==
    [value |-> value, version |-> IF Exists(key) THEN data[key].version ELSE 1]

\* The new entry of the key; a new key gets version 1.
PutEntry(key, value) ==
    [value |-> value, version |-> IF Exists(key) THEN data[key].version + 1 ELSE 1]

\* The handler of Put for the Put id, which answers err.
Put(id, err) ==
    /\ err = PutErr(id.key, id.version)
    /\ data' = IF err = "OK" THEN [data EXCEPT ![id.key] = PutEntry(id.key, id.value)] ELSE data
    /\ performed' = IF err = "OK" THEN performed \cup {id} ELSE performed

\* What the call has done, once the server ran another attempt of its Put.
PutOutcome(c, err) == IF outcome[c].err = "OK" THEN outcome[c] ELSE ErrReply(err)

\* The server runs the handler for the RPC of clerk c.
HandleGet(c) ==
    /\ req[c].type = "Get"
    /\ call[c] = Waiting
    /\ call' = [call EXCEPT ![c] = Get(req[c].key)]
    /\ outcome' = [outcome EXCEPT ![c] = Get(req[c].key)]
    /\ UNCHANGED <<data, req, first, late, history, performed>>

HandlePut(c) ==
    /\ req[c].type = "Put"
    /\ call[c] = Waiting
    /\ \E err \in Err :
        /\ Put(ThisPut(c), err)
        /\ call' = [call EXCEPT ![c] = ErrReply(err)]
        /\ outcome' = [outcome EXCEPT ![c] = PutOutcome(c, err)]
    /\ UNCHANGED <<req, first, late, history>>

-----------------------------------------------------------------------------
(* The clerk. *)

\* Clerk.Get and Clerk.Put: the call starts with a first attempt.
Invoke(c, args) ==
    /\ req[c] = Idle
    /\ Len(history[c]) < MaxOps[c]
    /\ req' = [req EXCEPT ![c] = args]
    /\ first' = [first EXCEPT ![c] = TRUE]
    /\ call' = [call EXCEPT ![c] = Waiting]
    /\ outcome' = [outcome EXCEPT ![c] = Nothing]
    /\ UNCHANGED <<data, late, history, performed>>

ResultOf_NoMaybe(c) == call[c]

ResultOf_Unset(c) == IF call[c].err = "ErrVersion" /\ ~first[c] THEN Nothing ELSE call[c]

\* What Clerk.Get and Clerk.Put return for the reply of the server.
ResultOf(c) ==
    IF call[c].err = "ErrVersion" /\ ~first[c] THEN ErrReply("ErrMaybe") ELSE call[c]

Return_OnlyOK(c) ==
    /\ call[c] \in Reply /\ call[c].err = "OK"
    /\ history' = [history EXCEPT ![c] = Append(@, [req |-> req[c], reply |-> ResultOf(c)])]
    /\ req' = [req EXCEPT ![c] = Idle]
    /\ call' = [call EXCEPT ![c] = Nothing]
    /\ first' = [first EXCEPT ![c] = TRUE]
    /\ outcome' = [outcome EXCEPT ![c] = Nothing]
    /\ UNCHANGED <<data, late, performed>>

\* An attempt was answered (ok is true): the call returns.
Return(c) ==
    /\ call[c] \in Reply
    /\ history' = [history EXCEPT ![c] = Append(@, [req |-> req[c], reply |-> ResultOf(c)])]
    /\ req' = [req EXCEPT ![c] = Idle]
    /\ call' = [call EXCEPT ![c] = Nothing]
    /\ first' = [first EXCEPT ![c] = TRUE]
    /\ outcome' = [outcome EXCEPT ![c] = Nothing]
    /\ UNCHANGED <<data, late, performed>>

Resend_StillFirst(c) ==
    /\ call' = [call EXCEPT ![c] = Waiting]
    /\ UNCHANGED <<data, req, first, history, outcome, performed>>

\* Call returned false: the clerk sleeps and sends the RPC again.
Resend(c) ==
    /\ first' = [first EXCEPT ![c] = FALSE]
    /\ call' = [call EXCEPT ![c] = Waiting]
    /\ UNCHANGED <<data, req, history, outcome, performed>>

-----------------------------------------------------------------------------
(* The network. *)

\* The request, or the reply to it, is dropped.
Drop(c) ==
    /\ call[c] # Nothing
    /\ Resend(c)
    /\ UNCHANGED late

\* labrpc gives up on the RPC before its handler has run.  (The handler of a
\* Get that nobody waits for has no effect: that is Drop.)
GiveUp(c) ==
    /\ call[c] = Waiting
    /\ req[c].type = "Put"
    /\ Resend(c)
    /\ late' = late \cup {ThisPut(c)}

\* The handler of a Put that labrpc gave up on runs after all.
HandleLate(id) ==
    /\ \E err \in Err :
        /\ Put(id, err)
        /\ outcome' = [c \in Client |->
                         IF req[c] # Idle /\ id = ThisPut(c) THEN PutOutcome(c, err) ELSE outcome[c]]
    /\ late' = late \ {id}
    /\ UNCHANGED <<clerkVars, history>>

-----------------------------------------------------------------------------
Attempt(c) ==
    \/ HandleGet(c)
    \/ HandlePut(c)
    \/ Return(c)
    \/ Drop(c)

\* What a caller may ask for.  A client whose calls labrpc may give up on is a
\* program of the repository: it names versions it has read, or expects after a
\* Put of its own, and none of them lies in the future.  The others may name
\* any version.
Args(c) ==
    {args \in Request : c \in Roaming => args.version <= data[args.key].version}

Next ==
    \/ \E c \in Client : Attempt(c) \/ \E args \in Args(c) : Invoke(c, args)
    \/ \E c \in Roaming : GiveUp(c)
    \/ \E id \in late : HandleLate(id)

Spec == Init /\ [][Next]_vars

\* Handlers run; labrpc drops each message with probability 1/10, so that a
\* reply that is sent again and again is not lost every time.
FairSpec ==
    /\ Spec
    /\ \A c \in Client : WF_vars(HandleGet(c)) /\ WF_vars(HandlePut(c)) /\ SF_vars(Return(c))

-----------------------------------------------------------------------------
(* Properties. *)

\* The call each clerk completed last.
LastReturned(c) ==
    IF history[c] = <<>> THEN [req |-> Idle, reply |-> Nothing] ELSE history[c][Len(history[c])]

\* The clerks and the server together are the atomic versioned store of
\* VersionedKV: retries after lost requests and lost replies are invisible,
\* except for ErrMaybe.
Register == INSTANCE VersionedKV WITH
    store <- data,
    pending <- [c \in Client |-> [req |-> req[c], outcome |-> outcome[c]]],
    returned <- [c \in Client |-> LastReturned(c)]

Linearizable == Register!KVSpec

\* The server performs a Put at most once for every version of a key, no
\* matter how often and how late its attempts arrive (the version check of
\* KVServer.Put); the version of a key counts the Puts performed on it, so that
\* no update is lost.
OneWinnerPerVersion ==
    /\ \A p, q \in performed : p.key = q.key /\ p.version = q.version => p = q
    /\ \A k \in Key : \A v \in Version :
         v < data[k].version <=> \E p \in performed : p.key = k /\ p.version = v
    /\ \A p \in performed :
         p.version + 1 = data[p.key].version => data[p.key].value = p.value

Returned(c, n) == 
    [client |-> c, op |-> n, key |-> history[c][n].req.key,
     value |-> history[c][n].req.value, version |-> history[c][n].req.version]

\* What Clerk.Put tells its caller is true: OK only if the server performed the
\* Put, ErrVersion (returned on a first attempt only) and ErrNoKey only if it did
\* not and never will, whatever attempts are still on their way.
AnswersTruthful ==
    \A c \in Client : \A n \in 1..Len(history[c]) :
        history[c][n].req.type = "Put" =>
            /\ history[c][n].reply.err = "OK" => Returned(c, n) \in performed
            /\ history[c][n].reply.err \in {"ErrVersion", "ErrNoKey"} => Returned(c, n) \notin performed \cup late

\* An attempt that is still on its way when its Put returns can no longer
\* change the store: the version it names has passed.
LateAttemptsHarmless ==
    \A id \in late :
        id.op <= Len(history[id.client]) => id.version < data[id.key].version

\* Clerk.Get and Clerk.Put return in the end: a clerk keeps trying, and never
\* has to retry for any other reason than a lost message.
CallsReturn == \A c \in Client : req[c] # Idle ~> req[c] = Idle

-----------------------------------------------------------------------------
(* The inductive invariant behind these properties. *)

\* A Put in progress: it has been performed exactly when its outcome is OK, and
\* the reply it waits for or holds agrees with the outcome as far as the clerk
\* can tell.  The version it names has passed once it was performed, and for a
\* roaming client once the server answered at all.
PutInProgress(c) ==
    /\ outcome[c] \in {Nothing, ErrReply("OK"), ErrReply("ErrVersion"), ErrReply("ErrNoKey")}
    /\ outcome[c].err = "OK" => req[c].version < data[req[c].key].version
    /\ c \in Roaming =>
         /\ req[c].version <= data[req[c].key].version
         /\ outcome[c] # Nothing => req[c].version < data[req[c].key].version
         /\ outcome[c] # ErrReply("ErrNoKey")
    /\ outcome[c].err = "OK" <=> ThisPut(c) \in performed
    /\ call[c] \in {Waiting, ErrReply("OK"), ErrReply("ErrVersion"), ErrReply("ErrNoKey")}
    /\ call[c].err = "OK" => outcome[c].err = "OK"
    /\ call[c].err = "ErrVersion" => outcome[c].err \in {"OK", "ErrVersion"}
    /\ call[c].err = "ErrNoKey" => outcome[c].err = "ErrNoKey"
    /\ first[c] => ThisPut(c) \notin late
    /\ first[c] /\ call[c] = Waiting => outcome[c] = Nothing
    /\ first[c] /\ call[c].err = "ErrVersion" => outcome[c].err = "ErrVersion"

GetInProgress(c) ==
    /\ call[c] # Nothing /\ call[c].err # "ErrVersion"
    /\ call[c] # Waiting => call[c] = outcome[c]

CallConsistent(c) ==
    \/ req[c] = Idle /\ call[c] = Nothing /\ outcome[c] = Nothing
    \/ req[c].type = "Get" /\ GetInProgress(c)
    \/ req[c].type = "Put" /\ PutInProgress(c)

CallsConsistent == \A c \in Client : CallConsistent(c)

\* Every Put that was performed or is on its way belongs to the call its client
\* is in, or to one that has returned.
PutsAccounted ==
    \A id \in late \cup performed :
        \/ id.op = OpNumber(id.client) /\ req[id.client].type = "Put" /\ id = ThisPut(id.client)
        \/ id.op \in 1..Len(history[id.client])

\* Only the attempts of roaming clients outlive a call of labrpc.
LateRoaming == \A id \in late : id.client \in Roaming

\* A key without a version has no value.
MissingKeys == \A k \in Key : data[k].version = 0 => data[k] = Missing

ClerkInv ==
    /\ TypeOK
    /\ MissingKeys
    /\ CallsConsistent
    /\ PutsAccounted
    /\ LateRoaming
    /\ OneWinnerPerVersion
    /\ AnswersTruthful
    /\ LateAttemptsHarmless

=============================================================================
