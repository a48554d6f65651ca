-------------------------------- MODULE Lock --------------------------------
(***************************************************************************)
(* The lock of kvsrv1/lock/lock.go, kept under the key "l" of the          *)
(* key/value service, and the clients of lock/lock_test.go that use it:    *)
(* each one takes the lock, writes its name to "l0" and clears it, and     *)
(* releases the lock.  The clerks are those VersionedKV promises: every    *)
(* Get and Put takes effect at one moment between its call and its return, *)
(* and a Put may return ErrMaybe.                                          *)
(*                                                                         *)
(* A client stands for its clientId, which is never the empty string.      *)
(*                                                                         *)
(* An operator Op_fault is Op with a plausible mistake in it.  No          *)
(* specification uses it; put in the place of Op, it violates a property.  *)
(***************************************************************************)
EXTENDS VersionedKV

CONSTANTS MaxRounds,   \* bound: how often a client takes the lock
          MaxMaybe     \* bound: how often a Put returns ErrMaybe

ASSUME LockAssumption ==
    /\ Key = {"l", "l0"}
    /\ Client \subseteq Value /\ NoValue \notin Client
    /\ MaxRounds \in Nat \ {0} /\ MaxMaybe \in Nat

VARIABLES pc,      \* the Get or Put of the client's program that runs or comes next
          ver,     \* the version the client read last
          rounds,  \* how often the client has taken the lock
          maybes   \* how many Puts have returned ErrMaybe

vars == <<kvVars, pc, ver, rounds, maybes>>

Label == {"setup", "acquireGet", "acquirePut", "csGet", "csPut", "csClear",
          "releaseGet", "releasePut", "done"}

TypeOK ==
    /\ KVTypeOK
    /\ pc \in [Client -> Label]
    /\ ver \in [Client -> Version]
    /\ rounds \in [Client -> 0..MaxRounds]
    /\ maybes \in 0..MaxMaybe

Init ==
    /\ KVInit
    /\ pc = [c \in Client |-> "setup"]
    /\ ver = [c \in Client |-> 0]
    /\ rounds = [c \in Client |-> 0]
    /\ maybes = 0

GetOf(key) == [type |-> "Get", key |-> key, value |-> NoValue, version |-> 0]

PutOf(key, value, version) == [type |-> "Put", key |-> key, value |-> value, version |-> version]

\* The calls Lock.Acquire, Lock.Release and the test's client make.
Op(c) ==
    CASE pc[c] = "setup"      -> PutOf("l0", NoValue, 0)
      [] pc[c] = "acquireGet" -> GetOf("l")
      [] pc[c] = "acquirePut" -> PutOf("l", c, ver[c])
      [] pc[c] = "csGet"      -> GetOf("l0")
      [] pc[c] = "csPut"      -> PutOf("l0", c, ver[c])
      [] pc[c] = "csClear"    -> PutOf("l0", NoValue, ver[c] + 1)
      [] pc[c] = "releaseGet" -> GetOf("l")
      [] pc[c] = "releasePut" -> PutOf("l", NoValue, ver[c])

Call(c) ==
    /\ pc[c] # "done"
    /\ Op(c) \in Request    \* no version beyond MaxVersion
    /\ Invoke(c, Op(c))
    /\ UNCHANGED <<pc, ver, rounds, maybes>>

\* The service performs the call.
Serve(c) == Apply(c) /\ UNCHANGED <<pc, ver, rounds, maybes>>

\* The call returns reply to the client; a Get sets the version it saw.
Returns(c, reply) ==
    /\ pending[c].req # Idle
    /\ Return(c, reply)
    /\ maybes' = maybes + (IF reply.err = "ErrMaybe" THEN 1 ELSE 0)
    /\ maybes' <= MaxMaybe
    /\ ver' = IF pending[c].req.type = "Get" THEN [ver EXCEPT ![c] = reply.version] ELSE ver

GoTo(c, label) == pc' = [pc EXCEPT ![c] = label]

AcquireGet_AnyHolder(c, reply) ==
    /\ pc[c] = "acquireGet"
    /\ Returns(c, reply)
    /\ GoTo(c, "acquirePut")
    /\ UNCHANGED rounds

AcquireGet_FreeOnly(c, reply) ==
    /\ pc[c] = "acquireGet"
    /\ Returns(c, reply)
    /\ GoTo(c, IF reply.value = NoValue THEN "acquirePut" ELSE "acquireGet")
    /\ UNCHANGED rounds

\* Acquire reads the lock: it tries to take a free lock, or one it holds
\* already after a Put whose answer was lost, and sleeps otherwise.
AcquireGet(c, reply) ==
    /\ pc[c] = "acquireGet"
    /\ Returns(c, reply)
    /\ GoTo(c, IF reply.value \in {NoValue, c} THEN "acquirePut" ELSE "acquireGet")
    /\ UNCHANGED rounds

AcquirePut_MaybeIsOK(c, reply) ==
    /\ pc[c] = "acquirePut"
    /\ Returns(c, reply)
    /\ GoTo(c, IF reply.err \in {"OK", "ErrMaybe"} THEN "csGet" ELSE "acquireGet")
    /\ UNCHANGED rounds

\* Acquire returns after an OK, and starts over after any error.
AcquirePut(c, reply) ==
    /\ pc[c] = "acquirePut"
    /\ Returns(c, reply)
    /\ GoTo(c, IF reply.err = "OK" THEN "csGet" ELSE "acquireGet")
    /\ UNCHANGED rounds

\* The client sets l0 up, before its first Acquire.
Setup(c, reply) ==
    /\ pc[c] = "setup"
    /\ Returns(c, reply)
    /\ GoTo(c, "acquireGet")
    /\ UNCHANGED rounds

\* The client reads l0, writes its name and clears it.
InSection(c, reply) ==
    /\ pc[c] \in {"csGet", "csPut", "csClear"}
    /\ Returns(c, reply)
    /\ GoTo(c, CASE pc[c] = "csGet" -> "csPut"
                 [] pc[c] = "csPut" -> "csClear"
                 [] pc[c] = "csClear" -> "releaseGet")
    /\ UNCHANGED rounds

\* The client is done with this round of the loop.
NextRound(c) ==
    /\ rounds' = [rounds EXCEPT ![c] = @ + 1]
    /\ GoTo(c, IF rounds[c] + 1 < MaxRounds THEN "acquireGet" ELSE "done")

ReleaseGet_NotEmpty(c, reply) ==
    /\ pc[c] = "releaseGet"
    /\ Returns(c, reply)
    /\ IF reply.value = NoValue
       THEN GoTo(c, "releasePut") /\ UNCHANGED rounds
       ELSE NextRound(c)

\* Release reads the lock and does nothing if someone else holds it.
ReleaseGet(c, reply) ==
    /\ pc[c] = "releaseGet"
    /\ Returns(c, reply)
    /\ IF reply.value = c
       THEN GoTo(c, "releasePut") /\ UNCHANGED rounds
       ELSE NextRound(c)

\* Release ignores what its Put returns.
ReleasePut(c, reply) ==
    /\ pc[c] = "releasePut"
    /\ Returns(c, reply)
    /\ NextRound(c)

Continue(c) ==
    \E reply \in Answers(pending[c]) :
        \/ Setup(c, reply)
        \/ AcquireGet(c, reply)
        \/ AcquirePut(c, reply)
        \/ InSection(c, reply)
        \/ ReleaseGet(c, reply)
        \/ ReleasePut(c, reply)

\* All clients have finished their rounds.
Finished == (\A c \in Client : pc[c] = "done") /\ UNCHANGED vars

Next ==
    \/ \E c \in Client : Call(c) \/ Serve(c) \/ Continue(c)
    \/ Finished

Spec == Init /\ [][Next]_vars

\* Every client runs, and the clerks' calls return (Clerk!CallsReturn).
FairSpec ==
    Spec /\ \A c \in Client : WF_vars(Call(c)) /\ WF_vars(Serve(c)) /\ WF_vars(Continue(c))

-----------------------------------------------------------------------------
(* Properties. *)

\* From the return of Acquire to the call of Release's Put.
Holds(c) == pc[c] \in {"csGet", "csPut", "csClear", "releaseGet"}

\* At most one client is between Acquire and Release, even though an Acquire
\* may own the lock without knowing it and a Release may not know whether its
\* Put was performed (lock_test.go: "two clients acquired lock").
MutualExclusion == \A c, d \in Client : Holds(c) /\ Holds(d) => c = d

\* What the client of lock_test.go checks in its critical section: l0 exists
\* and is empty when it reads it, and its two Puts return OK or ErrMaybe.
SectionUndisturbed ==
    \A c \in Client :
        pending[c].outcome # Nothing =>
            /\ pc[c] = "csGet" => pending[c].outcome.err = "OK" /\ pending[c].outcome.value = NoValue
            /\ pc[c] \in {"csPut", "csClear"} => pending[c].outcome.err = "OK"

\* Release has released the lock when it returns, although it ignores the
\* answer of its Put: no client leaves its name behind.
ReleaseEffective ==
    \A c \in Client :
        /\ pc[c] = "releasePut" /\ pending[c].outcome # Nothing => store["l"].value # c
        /\ pc[c] = "done" => store["l"].value # c

\* The lock is never stolen: a client's name leaves it only by the Put of that
\* client's own Release, and is replaced by the empty string, never directly by
\* another name.  Acquire and Release write at the version of an earlier Get, and
\* a Put may have been performed without its client knowing (lock.go).
NeverStolen ==
    [][\A c \in Client :
          store["l"].value = c /\ store'["l"].value # c =>
              pc[c] = "releasePut" /\ pending[c].req # Idle /\ store'["l"].value = NoValue]_vars

\* Every Acquire returns in the end when the others release the lock in turn:
\* all clients finish their rounds.
AllFinish == <>(\A c \in Client : pc[c] = "done")

-----------------------------------------------------------------------------
(* The inductive invariant behind mutual exclusion. *)

\* The lock is taken for c, whether or not c knows it.
Owns(c) ==
    \/ Holds(c)
    \/ pc[c] = "releasePut" /\ pending[c].outcome = Nothing
    \/ pc[c] = "acquirePut" /\ pending[c].outcome.err = "OK"

\* How what a client has read, and is about to write, relates to the lock: only
\* a version that is still current may be acted upon.
ClientInv(c) ==
    /\ \/ pending[c].req = Idle /\ pending[c].outcome = Nothing
       \/ pc[c] # "done" /\ pending[c].req = Op(c)
    /\ Owns(c) => store["l"].value = c
    /\ pc[c] = "acquireGet" /\ pending[c].outcome # Nothing =>
         /\ pending[c].outcome.version <= store["l"].version
         /\ pending[c].outcome.version = store["l"].version => pending[c].outcome.value = store["l"].value
    /\ pc[c] = "acquirePut" =>
         /\ ver[c] <= store["l"].version
         /\ ver[c] = store["l"].version => store["l"].value \in {NoValue, c}
    /\ pc[c] = "releaseGet" /\ pending[c].outcome # Nothing =>
         /\ pending[c].outcome.version = store["l"].version
         /\ pending[c].outcome.value = c
    /\ pc[c] = "releasePut" /\ pending[c].outcome = Nothing => ver[c] = store["l"].version
    /\ pc[c] = "releasePut" /\ pending[c].outcome # Nothing =>
         pending[c].outcome.err = "OK" /\ store["l"].value # c
    /\ pc[c] = "done" => store["l"].value # c
    /\ pc[c] # "done" => rounds[c] < MaxRounds

LockInv == TypeOK /\ \A c \in Client : ClientInv(c)

-----------------------------------------------------------------------------
(* The inductive invariant behind the undisturbed critical section. *)

\* The name of c is in l0.
Written(c) ==
    \/ pc[c] = "csPut" /\ pending[c].outcome # Nothing
    \/ pc[c] = "csClear" /\ pending[c].outcome = Nothing

\* A client finds l0 set up, and in its section reads and writes it alone: the
\* version it goes by is the current one at each of its calls.
SectionClient(c) ==
    /\ pc[c] # "setup" \/ pending[c].outcome # Nothing => store["l0"].version > 0
    /\ pc[c] = "csGet" /\ pending[c].outcome # Nothing => pending[c].outcome = ReadOf(store["l0"])
    /\ pc[c] = "csPut" /\ pending[c].outcome = Nothing => ver[c] = store["l0"].version
    /\ Written(c) => store["l0"].version = ver[c] + 1
    /\ pc[c] \in {"csPut", "csClear"} /\ pending[c].outcome # Nothing => pending[c].outcome.err = "OK"

SectionInv ==
    /\ store["l0"].value # NoValue => \E c \in Client : Written(c)
    /\ \A c \in Client : SectionClient(c)

=============================================================================
