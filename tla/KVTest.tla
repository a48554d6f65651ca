------------------------------- MODULE KVTest -------------------------------
(***************************************************************************)
(* The clients of the key/value tests (kvtest1/kvtest.go) and how a test   *)
(* spawns, stops and collects them.  They call a service that keeps the    *)
(* promise of VersionedKV, and count what they were told of their Puts;    *)
(* the test compares the counts with the store.                            *)
(*                                                                         *)
(* A client runs one of three programs: "put" is OneClientPut with OnePut, *)
(* "append" is OneClientAppend, and "least" is the test itself calling     *)
(* PutAtLeastOnce and CheckGet.  A value is the sequence of the entries    *)
(* [id, n] written so far ("append"), or the last entry alone.             *)
(*                                                                         *)
(* An operator Op_fault is Op with a plausible mistake in it.  No          *)
(* specification uses it; put in the place of Op, it violates a property.  *)
(***************************************************************************)
EXTENDS VersionedKV, Sequences, FiniteSetsExt

CONSTANTS MaxPuts,    \* bound: iterations of a client's loop in one spawn, for each program
          MaxMaybe    \* bound: versions at which PutAtLeastOnce meets ErrMaybe

Programs == {"put", "append", "least"}

nclnt == Cardinality(Client)

\* Clients are numbered from 0, and an empty list is the empty value.
ASSUME KVTestAssumption ==
    /\ MaxPuts \in [Programs -> Nat \ {0}] /\ MaxMaybe \in Nat
    /\ nclnt \in Nat /\ Client = 0..nclnt - 1
    /\ Key # {} /\ NoValue = <<>> /\ MaxVersion >= 1

VARIABLES program,   \* what the clients run, and whether the network is reliable
          clnt,      \* the local variables of each client's goroutine
          spawner,   \* where SpawnClientsAndWait is
          res,       \* the counts of all spawns so far
          fatal      \* a check of the test has failed

testVars == <<program, clnt, spawner, res, fatal>>

k == CHOOSE key \in Key : TRUE

KVTestTypeOK ==
    /\ program \in [name : Programs, reliable : BOOLEAN]
    /\ clnt \in [Client -> [pc  : {"select", "put", "get", "report", "gone"}, ver : Version,
                            val : Seq([id : Client, n : Nat]),
                            err : {"None", "OK", "ErrVersion", "ErrMaybe"}, nok : Nat, nmaybe : Nat]]
    /\ spawner \in {"idle", "sleep", "signal", "collect", "check", "returned"}
    /\ res \in [nok : Nat, nmaybe : Nat]
    /\ fatal \in BOOLEAN

Started(pc) == [pc |-> pc, ver |-> 0, val |-> NoValue, err |-> "None", nok |-> 0, nmaybe |-> 0]

\* The list of the appending test exists, empty, when its clients start.
KVTestInit(name) ==
    /\ program \in [name : {name}, reliable : BOOLEAN]
    /\ store = [key \in Key |-> [Missing EXCEPT !.version = IF name = "append" THEN 1 ELSE 0]]
    /\ pending = [c \in Client |-> [req |-> Idle, outcome |-> Nothing]]
    /\ returned = [c \in Client |-> [req |-> Idle, reply |-> Nothing]]
    /\ clnt = [c \in Client |-> Started("gone")]
    /\ spawner = "idle"
    /\ res = [nok |-> 0, nmaybe |-> 0]
    /\ fatal = FALSE

Running(name) == program.name = name

\* The number of the client's iteration; each ends in OK or ErrMaybe.
Iteration(c) == clnt[c].nok + clnt[c].nmaybe

\* The value of a client's next Put: EntryV{me, ver} in OnePut, the list it read
\* with entry{me, i} appended in OneClientAppend.
NewValue(c) ==
    CASE Running("put")    -> <<[id |-> c, n |-> clnt[c].ver]>>
      [] Running("append") -> Append(clnt[c].val, [id |-> c, n |-> Iteration(c)])
      [] Running("least")  -> <<[id |-> c, n |-> Iteration(c)]>>

\* GetJson and PutJson.
Call(c) ==
    /\ \/ clnt[c].pc = "get"
          /\ Invoke(c, [type |-> "Get", key |-> k, value |-> NoValue, version |-> 0])
       \/ clnt[c].pc = "put"
          /\ Invoke(c, [type |-> "Put", key |-> k, value |-> NewValue(c), version |-> clnt[c].ver])
    /\ UNCHANGED testVars

\* The service performs a call that has not taken effect, or tries a Put again.
Serve(c) == pending[c].req # Idle /\ Apply(c) /\ UNCHANGED testVars

\* A call returns; without losses the clerk sends no request twice and never
\* answers ErrMaybe.
Returns(c, reply) ==
    /\ Return(c, reply)
    /\ program.reliable => reply.err # "ErrMaybe"
    /\ UNCHANGED <<program, res>>

Update(c, local) == clnt' = [clnt EXCEPT ![c] = local]

\* ts.Fatalf ends the goroutine that calls it.
Fatalf(c) == fatal' = TRUE /\ Update(c, [clnt[c] EXCEPT !.pc = "gone"])

\* The client's Put has returned err: one more iteration is over.
Counted(local, err) ==
    IF err = "OK" THEN [local EXCEPT !.nok = @ + 1] ELSE [local EXCEPT !.nmaybe = @ + 1]

OnePut_OkOnly(c, reply) ==
    /\ Running("put")
    /\ Returns(c, reply)
    /\ UNCHANGED <<spawner, fatal>>
    /\ \/ clnt[c].pc = "put" /\ Update(c, [clnt[c] EXCEPT !.pc = "get", !.err = reply.err])
       \/ /\ clnt[c].pc = "get"
          /\ LET seen == [clnt[c] EXCEPT !.ver = reply.version]
             IN Update(c, CASE clnt[c].err = "OK"       -> Counted([seen EXCEPT !.pc = "select"], "OK")
                            [] clnt[c].err = "ErrMaybe" -> [seen EXCEPT !.pc = "select"]
                            [] OTHER                    -> [seen EXCEPT !.pc = "put"])

\* OnePut: a Put, then a Get for the version of the next one, until the Put was
\* or may have been performed.  OneClientPut counts it.
OnePut(c, reply) ==
    LET ver == clnt[c].ver
        Wrong(e) == e.id # c /\ e.n # ver
    IN /\ Running("put")
       /\ Returns(c, reply)
       /\ UNCHANGED spawner
       /\ \/ /\ clnt[c].pc = "put"
             /\ IF reply.err \in {"OK", "ErrVersion", "ErrMaybe"}
                THEN Update(c, [clnt[c] EXCEPT !.pc = "get", !.err = reply.err]) /\ UNCHANGED fatal
                ELSE Fatalf(c)
          \/ /\ clnt[c].pc = "get"
             /\ IF \/ reply.err # "OK"
                   \/ clnt[c].err = "OK" /\ reply.version = ver + 1 /\ Wrong(Head(reply.value))
                THEN Fatalf(c)
                ELSE /\ LET seen == [clnt[c] EXCEPT !.ver = reply.version]
                        IN Update(c, IF clnt[c].err \in {"OK", "ErrMaybe"}
                                     THEN Counted([seen EXCEPT !.pc = "select"], clnt[c].err)
                                     ELSE [seen EXCEPT !.pc = "put"])
                     /\ UNCHANGED fatal

OneClientAppend_RetryMaybe(c, reply) ==
    /\ Running("append")
    /\ Returns(c, reply)
    /\ UNCHANGED <<spawner, fatal>>
    /\ \/ /\ clnt[c].pc = "get"
          /\ Update(c, [clnt[c] EXCEPT !.pc = "put", !.ver = reply.version, !.val = reply.value])
       \/ /\ clnt[c].pc = "put"
          /\ Update(c, IF reply.err = "OK"
                       THEN Counted([clnt[c] EXCEPT !.pc = "select"], reply.err)
                       ELSE [clnt[c] EXCEPT !.pc = "get"])

\* OneClientAppend: a Get, then a Put of the longer list at the version read.
OneClientAppend(c, reply) ==
    /\ Running("append")
    /\ Returns(c, reply)
    /\ UNCHANGED spawner
    /\ \/ /\ clnt[c].pc = "get"
          /\ IF reply.err = "OK"
             THEN /\ Update(c, [clnt[c] EXCEPT !.pc = "put", !.ver = reply.version, !.val = reply.value])
                  /\ UNCHANGED fatal
             ELSE Fatalf(c)
       \/ /\ clnt[c].pc = "put"
          /\ Update(c, IF reply.err \in {"OK", "ErrMaybe"}
                       THEN Counted([clnt[c] EXCEPT !.pc = "select"], reply.err)
                       ELSE [clnt[c] EXCEPT !.pc = "get"])
          /\ UNCHANGED fatal

\* PutAtLeastOnce: Puts at increasing versions until one returns OK.
PutAtLeastOnce(c, reply) ==
    /\ Running("least")
    /\ clnt[c].pc = "put"
    /\ Returns(c, reply)
    /\ reply.err = "ErrMaybe" => clnt[c].ver < MaxMaybe
    /\ UNCHANGED spawner
    /\ CASE reply.err = "OK" ->
              Update(c, [clnt[c] EXCEPT !.pc = "get", !.ver = @ + 1]) /\ UNCHANGED fatal
         [] reply.err \in {"ErrMaybe", "ErrVersion"} ->
              Update(c, [clnt[c] EXCEPT !.ver = @ + 1]) /\ UNCHANGED fatal
         [] OTHER ->
              IF clnt[c].ver # 0 THEN Fatalf(c) ELSE UNCHANGED <<clnt, fatal>>

\* CheckGet(key, value, ver) after it; the test makes several such pairs of calls.
CheckGet(c, reply) ==
    /\ Running("least")
    /\ clnt[c].pc = "get"
    /\ Returns(c, reply)
    /\ IF reply = [value |-> NewValue(c), version |-> clnt[c].ver, err |-> "OK"]
       THEN LET last == Iteration(c) + 1 = MaxPuts["least"]
            IN /\ Update(c, Counted([clnt[c] EXCEPT !.pc = IF last THEN "gone" ELSE "put"], "OK"))
               /\ spawner' = IF last THEN "returned" ELSE spawner
               /\ UNCHANGED fatal
       ELSE Fatalf(c) /\ UNCHANGED spawner

Continue(c) ==
    \E reply \in Answers(pending[c]) :
        OnePut(c, reply) \/ OneClientAppend(c, reply) \/ PutAtLeastOnce(c, reply) \/ CheckGet(c, reply)

-----------------------------------------------------------------------------
(* SpawnClientsAndWait and runClient. *)

\* One goroutine per client; the test itself calls PutAtLeastOnce.
Spawn ==
    LET Alone(c) == Running("least") /\ c # CHOOSE d \in Client : TRUE
    IN /\ spawner = "idle"
       /\ spawner' = IF Running("least") THEN "collect" ELSE "sleep"
       /\ clnt' = [c \in Client |-> Started(IF Alone(c) THEN "gone" ELSE IF Running("least") THEN "put" ELSE "select")]
       /\ UNCHANGED <<kvVars, program, res, fatal>>

\* The default case of a client's select, while nobody sends on done.
Select(c) ==
    /\ clnt[c].pc = "select"
    /\ spawner # "signal"
    /\ Iteration(c) < MaxPuts[program.name]
    /\ Update(c, [clnt[c] EXCEPT !.pc = IF Running("append") THEN "get" ELSE "put"])
    /\ UNCHANGED <<kvVars, program, spawner, res, fatal>>

\* The sleep, of seconds, is long enough for one of the new goroutines to run: when
\* it ends, the key exists or a client is in its first OnePut, which it finishes
\* before it can take done.
Wake ==
    /\ spawner = "sleep"
    /\ store[k].version > 0 \/ \E c \in Client : clnt[c].pc = "put"
    /\ spawner' = "signal"
    /\ UNCHANGED <<kvVars, program, clnt, res, fatal>>

\* done is unbuffered: each send meets a client at its select, which returns its
\* result to runClient.
TakeDone(c) ==
    /\ spawner = "signal"
    /\ clnt[c].pc = "select"
    /\ Update(c, [clnt[c] EXCEPT !.pc = "report"])
    /\ spawner' = IF \A d \in Client \ {c} : clnt[d].pc = "report" THEN "collect" ELSE "signal"
    /\ UNCHANGED <<kvVars, program, res, fatal>>

\* The results are received from the channels of the clients one after the other.
Collect(c) ==
    /\ spawner = "collect"
    /\ clnt[c].pc = "report"
    /\ \A d \in Client : d < c => clnt[d].pc = "gone"
    /\ Update(c, [clnt[c] EXCEPT !.pc = "gone"])
    /\ spawner' = IF \A d \in Client : d > c => clnt[d].pc = "gone" THEN "check" ELSE "collect"
    /\ UNCHANGED <<kvVars, program, res, fatal>>

\* A loop that adds up f[0], ..., f[n - 1].
SumOf(f, n) ==
    LET sum[i \in 0..n] == IF i = 0 THEN 0 ELSE sum[i - 1] + f[i - 1]
    IN sum[n]

\* The sum of the counts of the clients of this spawn.
Total(count) == SumOf([c \in Client |-> clnt[c][count]], nclnt)

\* Where the entries of client c are in the list.
EntriesOf(c, es) == {i \in DOMAIN es : es[i].id = c}

\* How many entries client c has in the list.
NEntries(c, es) == SumOf([i \in 0..Len(es) - 1 |-> IF es[i + 1].id = c THEN 1 ELSE 0], Len(es))

\* The entries of a client have increasing numbers.
Increasing(c, es) == \A i, j \in EntriesOf(c, es) : i < j => es[i].n < es[j].n

\* GetJson does not accept a missing key.
CheckPutConcurrent ==
    /\ store[k].version > 0
    /\ IF program.reliable THEN store[k].version = res'.nok ELSE store[k].version <= res'.nok + res'.nmaybe

\* expect is the number after the last entry of a client, skipped what is missing.
CheckAppends ==
    LET es == store[k].value
    IN /\ Len(es) + 1 = store[k].version
       /\ \A c \in Client :
             LET mine == EntriesOf(c, es)
                 expect == IF mine = {} THEN 0 ELSE es[Max(mine)].n + 1
             IN /\ Increasing(c, es)
                /\ expect - NEntries(c, es) <= clnt[c].nmaybe
                /\ expect <= clnt[c].nok + clnt[c].nmaybe

\* The spawning goroutine compares the results with what a Get of k returns.
Check ==
    /\ spawner = "check"
    /\ res' = [nok    |-> res.nok + Total("nok"),
               nmaybe |-> res.nmaybe + Total("nmaybe")]
    /\ IF (Running("put") => CheckPutConcurrent) /\ (Running("append") => CheckAppends)
       THEN spawner' = "returned" /\ UNCHANGED fatal
       ELSE fatal' = TRUE /\ UNCHANGED spawner
    /\ UNCHANGED <<kvVars, program, clnt>>

SpawnerStep == Wake \/ Check \/ \E c \in Client : TakeDone(c) \/ Collect(c)

ClientStep(c) == Select(c) \/ Call(c) \/ Serve(c) \/ Continue(c)

-----------------------------------------------------------------------------
(* Properties. *)

\* No check of the test fails against a service that keeps the promise of
\* VersionedKV: the version PutAtLeastOnce computes is that of the key, OnePut
\* reads its own entry back, and the counts of Puts match the store, whatever
\* answers were ErrMaybe (the calls of ts.Fatalf in kvtest.go).
ChecksPass == ~fatal

\* When all clients have reported, nothing that was acknowledged is missing and
\* nothing is there twice: the store holds at least the Puts that returned OK
\* and at most those and the ErrMaybe ones, and in the list the entries of each
\* client have increasing numbers (the comment of OneClientAppend).  The checks
\* of the tests leave the lower bound out.  All variables keep their types.
PutsAccounted ==
    /\ KVTestTypeOK
    /\ spawner = "check" =>
          /\ Running("put") =>
                LET nok == res.nok + Total("nok")
                    nmaybe == res.nmaybe + Total("nmaybe")
                IN nok <= store[k].version /\ store[k].version <= nok + nmaybe
          /\ Running("append") =>
                \A c \in Client :
                    LET puts == NEntries(c, store[k].value)
                    IN /\ Increasing(c, store[k].value)
                       /\ clnt[c].nok <= puts
                       /\ puts <= clnt[c].nok + clnt[c].nmaybe

=============================================================================
