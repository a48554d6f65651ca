---------------------------- MODULE VersionedKV ----------------------------
(***************************************************************************)
(* What a client of the key/value service is promised (the comments of     *)
(* kvsrv1/server.go and kvsrv1/client.go, checked by kvtest1): every call  *)
(* of Get or Put takes effect atomically at one moment between its         *)
(* invocation and its return.  Only the answer of a Put may be vague:      *)
(* ErrMaybe hides whether the Put was performed.                           *)
(*                                                                         *)
(* A missing key is the entry with version 0: an existing one has at least *)
(* version 1.                                                              *)
(***************************************************************************)
EXTENDS Naturals

CONSTANTS Client, Key, Value,
          NoValue,      \* the empty string
          MaxVersion    \* bound: no Put is performed beyond this version

ASSUME KVAssumption == MaxVersion \in Nat /\ NoValue \in Value

VARIABLES store,     \* the current entry of every key
          pending,   \* the call of each client and what it has done so far
          returned   \* the last call of each client with its answer

kvVars == <<store, pending, returned>>

Version == 0..MaxVersion

Entry == [value : Value, version : Version]

Missing == [value |-> NoValue, version |-> 0]

\* A Get has no value and no version; they are fixed to those of Missing.
Request == [type : {"Get", "Put"}, key : Key, value : Value, version : Version]

Reply == [value : Value, version : Version, err : {"OK", "ErrNoKey", "ErrVersion", "ErrMaybe"}]

\* The outcome of a call that has not taken effect, and of a client's first.
Nothing == [value |-> NoValue, version |-> 0, err |-> "None"]

Idle == [type |-> "Idle", key |-> NoValue, value |-> NoValue, version |-> 0]

KVTypeOK ==
    /\ store \in [Key -> Entry]
    /\ pending \in [Client -> [req : Request \cup {Idle}, outcome : Reply \cup {Nothing}]]
    /\ returned \in [Client -> [req : Request \cup {Idle}, reply : Reply \cup {Nothing}]]

KVInit ==
    /\ store = [k \in Key |-> Missing]
    /\ pending = [c \in Client |-> [req |-> Idle, outcome |-> Nothing]]
    /\ returned = [c \in Client |-> [req |-> Idle, reply |-> Nothing]]

Invoke(c, req) ==
    /\ pending[c].req = Idle
    /\ pending' = [pending EXCEPT ![c] = [req |-> req, outcome |-> Nothing]]
    /\ UNCHANGED <<store, returned>>

Answer(err) == [value |-> NoValue, version |-> 0, err |-> err]

\* The entry a Get reads, with ErrNoKey when the key is missing.
ReadOf(entry) ==
    [value |-> entry.value, version |-> entry.version,
     err |-> IF entry = Missing THEN "ErrNoKey" ELSE "OK"]

\* A Put is performed when it names the version of the key (0: missing).
PutAnswer(entry, version) ==
    Answer(CASE version = entry.version -> "OK"
             [] version # entry.version /\ entry = Missing -> "ErrNoKey"
             [] OTHER -> "ErrVersion")

\* A Get may look again, and a Put that failed may try again, until it returns;
\* a Put that was performed is never performed again.
Apply(c) ==
    LET req == pending[c].req
        entry == store[req.key]
    IN \/ /\ req.type = "Get"
          /\ pending' = [pending EXCEPT ![c].outcome = ReadOf(entry)]
          /\ UNCHANGED <<store, returned>>
       \/ /\ req.type = "Put"
          /\ pending[c].outcome.err # "OK"
          /\ PutAnswer(entry, req.version).err = "OK" => entry.version < MaxVersion
          /\ pending' = [pending EXCEPT ![c].outcome = PutAnswer(entry, req.version)]
          /\ store' = IF req.version = entry.version
                      THEN [store EXCEPT ![req.key] = [value |-> req.value, version |-> @.version + 1]]
                      ELSE store
          /\ UNCHANGED returned

\* A Put may report ErrMaybe instead of OK or ErrVersion.
Answers(call) ==
    {call.outcome} \cup
    (IF call.req.type = "Put" /\ call.outcome.err \in {"OK", "ErrVersion"} THEN {Answer("ErrMaybe")} ELSE {})

Return(c, reply) ==
    /\ pending[c].outcome # Nothing
    /\ reply \in Answers(pending[c])
    /\ pending' = [pending EXCEPT ![c] = [req |-> Idle, outcome |-> Nothing]]
    /\ returned' = [returned EXCEPT ![c] = [req |-> pending[c].req, reply |-> reply]]
    /\ UNCHANGED store

KVNext ==
    \E c \in Client :
        \/ \E req \in Request : Invoke(c, req)
        \/ Apply(c)
        \/ \E reply \in Answers(pending[c]) : Return(c, reply)

KVSpec == KVInit /\ [][KVNext]_kvVars

=============================================================================
