---------------------------- MODULE KVTestProofs ----------------------------
(***************************************************************************)
(* No check of the key/value tests fails, and every Put is accounted for,  *)
(* for any number of clients, iterations and versions: the counts of a     *)
(* client follow what the service did for it, up to one Put whose answer   *)
(* is still to be counted.                                                 *)
(***************************************************************************)
EXTENDS GenericTest, WellFoundedInduction, TLAPS

-----------------------------------------------------------------------------
(* The inductive invariant. *)

Tuple == [id : Client, n : Nat]

Held == [value : Seq(Tuple), version : Version]

Local == [pc : {"select", "put", "get", "report", "gone"}, ver : Version, val : Seq(Tuple),
          err : {"None", "OK", "ErrVersion", "ErrMaybe"}, nok : Nat, nmaybe : Nat]

Free == [req |-> Idle, outcome |-> Nothing]

Getting == [type |-> "Get", key |-> k, value |-> NoValue, version |-> 0]

Putting(value, version) == [type |-> "Put", key |-> k, value |-> value, version |-> version]

Outcome == [value : Seq(Tuple), version : Version, err : {"None", "OK", "ErrNoKey", "ErrVersion"}]

Calls == [req : {Idle, Getting} \cup {Putting(value, version) : value \in Seq(Tuple), version \in Version},
          outcome : Outcome]

\* NewValue, for a client c with local variables l.
ValueOf(c, name, l) ==
    CASE name = "put"    -> <<[id |-> c, n |-> l.ver]>>
      [] name = "append" -> Append(l.val, [id |-> c, n |-> l.nok + l.nmaybe])
      [] name = "least"  -> <<[id |-> c, n |-> l.nok + l.nmaybe]>>

\* A Put that was surely, or perhaps, performed and is not counted yet.
Sure(l, q) == IF (l.pc = "put" /\ q.outcome.err = "OK") \/ (l.pc = "get" /\ l.err = "OK") THEN 1 ELSE 0

Perhaps(l, q) ==
    IF (l.pc = "put" /\ q.outcome.err = "OK") \/ (l.pc = "get" /\ l.err \in {"OK", "ErrMaybe"}) THEN 1 ELSE 0

AtLeast(l, q) == l.nok + Sure(l, q)

AtMost(l, q) == l.nok + l.nmaybe + Perhaps(l, q)

\* What a Get reads was the entry e at its version.
Seen(name, e, o) ==
    /\ o.err = "OK" /\ o.version # 0 /\ o.version <= e.version
    /\ o.version = e.version => o.value = e.value
    /\ name = "put" => o.value # <<>> /\ o.value[1].n + 1 = o.version

\* The call of a client is the one its program makes.
CallOK(c, name, e, l, q) ==
    \/ q = Free
    \/ l.pc = "get" /\ q.req = Getting /\ (q.outcome = Nothing \/ Seen(name, e, q.outcome))
    \/ /\ l.pc = "put" /\ q.req = Putting(ValueOf(c, name, l), l.ver)
       /\ q.outcome \in {Nothing, Answer("OK"), Answer("ErrVersion")}

\* The entry of each version but the first was put with the number of the version
\* before; or the list has one entry more in each version.
EntryOK(name, e) ==
    /\ name = "put" /\ e.version # 0 => e.value # <<>> /\ e.value[1].n + 1 = e.version
    /\ name = "append" => Len(e.value) + 1 = e.version

\* The entries of a client in the list are its counted Puts and at most one more.
ListOK(c, es, l, q) ==
    LET mine == EntriesOf(c, es)
    IN /\ Increasing(c, es)
       /\ \A i \in mine : es[i].n < AtMost(l, q)
       /\ AtLeast(l, q) <= NEntries(c, es) /\ NEntries(c, es) <= AtMost(l, q)

\* Nobody but the test itself puts: its version is that of the key.
LeastOK(c, e, l, q) ==
    /\ l.pc \in {"put", "get", "gone"}
    /\ l.pc # "gone" => c = CHOOSE d \in Client : TRUE
    /\ l.pc = "put" =>
          IF q.outcome = Nothing THEN l.ver = e.version
          ELSE q.outcome = Answer("OK") /\ l.ver + 1 = e.version /\ e.value = ValueOf(c, "least", l)
    /\ l.pc = "get" =>
          l.ver = e.version /\ e.value = ValueOf(c, "least", l) /\ q.outcome \in {Nothing, ReadOf(e)}

ClientOK(c, p, e, l, q) ==
    /\ l.ver <= e.version
    /\ l.pc = "get" \/ q.outcome # Nothing => e.version # 0
    /\ CallOK(c, p.name, e, l, q)
    /\ p.name # "put" => l.err = "None"
    /\ p.reliable => l.nmaybe = 0 /\ l.err # "ErrMaybe"
    /\ p.name = "append" =>
          /\ l.pc = "put" /\ l.ver = e.version => l.val = e.value
          /\ ListOK(c, e.value, l, q)
    /\ p.name = "least" => LeastOK(c, e, l, q)

Lower == [c \in Client |-> AtLeast(clnt[c], pending[c])]

Upper == [c \in Client |-> AtMost(clnt[c], pending[c])]

Counting == spawner \in {"sleep", "signal", "collect", "check"}

\* The version of the key is the number of Puts that were performed.
PutsBalance ==
    Running("put") =>
        IF Counting
        THEN /\ res.nok + SumOf(Lower, nclnt) <= store[k].version
             /\ store[k].version <= res.nok + res.nmaybe + SumOf(Upper, nclnt)
        ELSE res.nok <= store[k].version /\ store[k].version <= res.nok + res.nmaybe

\* Where the goroutines are.
SpawnInv ==
    /\ ~Counting => \A c \in Client : clnt[c].pc = "gone"
    /\ spawner = "check" => \A c \in Client : clnt[c].pc = "gone"
    /\ main # "wait" => spawner = "idle"
    /\ main = "spawn" /\ ~Running("put") =>
          store[k] = [Missing EXCEPT !.version = IF Running("append") THEN 1 ELSE 0]
    /\ program.reliable => res.nmaybe = 0

\* The key exists when the results are compared: the sleep ended when it existed,
\* or when a client was in its first OnePut, which it had to finish.
KeyWritten ==
    Running("put") =>
        /\ spawner = "signal" => store[k].version # 0 \/ \E c \in Client : clnt[c].pc = "put"
        /\ spawner \in {"collect", "check"} => store[k].version # 0

KVTypes ==
    /\ KVTestTypeOK
    /\ store \in [Key -> Held]
    /\ pending \in [Client -> Calls]

KVInv ==
    /\ KVTypes
    /\ fatal = FALSE
    /\ EntryOK(program.name, store[k])
    /\ \A c \in Client : ClientOK(c, program, store[k], clnt[c], pending[c])
    /\ PutsBalance
    /\ SpawnInv

-----------------------------------------------------------------------------
(* Induction, and loops. *)

\* A set of numbers that holds 0, and with each number the next one, up to a
\* bound, holds all numbers up to the bound.
LEMMA BoundedInduction ==
    ASSUME NEW n \in Nat, NEW T, 0 \in T, \A m \in 0..n : m \in T /\ m < n => m + 1 \in T
    PROVE  n \in T
<1> DEFINE W == {m \in 0..n : m \notin T}
           Less == OpToRel(<, Nat)
<1>1. W \subseteq Nat
  OBVIOUS
<1>2. \A x, y \in Nat : x < y => <<x, y>> \in Less
  BY Zenon DEF OpToRel
<1>3. IsWellFoundedOn(Less, Nat)
  BY NatLessThanWellFounded, Zenon
<1> HIDE DEF Less
<1>4. CASE W # {}
  <2>1. PICK m \in W : \A y \in W : ~(<<y, m>> \in Less)
    BY <1>1, <1>3, <1>4, WFMin, Zenon
  <2>2. m \in 0..n /\ m \notin T /\ m # 0
    BY <2>1
  <2>3. m - 1 \in 0..n /\ m - 1 < n /\ m - 1 < m /\ (m - 1) + 1 = m /\ m - 1 \in Nat /\ m \in Nat
    BY <2>2
  <2>4. m - 1 \notin W
    BY <1>2, <2>1, <2>3, Zenon
  <2> QED
    BY <2>2, <2>3, <2>4
<1> QED
  BY <1>4

\* Two loops that agree before each round agree in the end.
LEMMA LoopInduction ==
    ASSUME NEW n \in Nat, NEW f, NEW g, f[0] = g[0],
           \A m \in 1..n : f[m - 1] = g[m - 1] => f[m] = g[m]
    PROVE  f[n] = g[n]
<1> DEFINE T == {m \in 0..n : f[m] = g[m]}
<1>1. 0 \in T
  OBVIOUS
<1>2. ASSUME NEW m \in 0..n, m \in T, m < n PROVE m + 1 \in T
  <2>1. m + 1 \in 1..n /\ m + 1 \in 0..n /\ (m + 1) - 1 = m
    BY <1>2
  <2>2. f[m] = g[m] => f[m + 1] = g[m + 1]
    BY <2>1
  <2> QED
    BY <1>2, <2>1, <2>2, Zenon
<1> HIDE DEF T
<1>3. n \in T
  BY <1>1, <1>2, BoundedInduction, Zenon
<1> QED
  BY <1>3 DEF T

\* The states in A that a loop over q goes through, if h is one round of it.
Loops(n, A, base, q, h) ==
    \E f \in [0..n -> A] : f[0] = base /\ \A m \in 1..n : f[m] = h[<<f[m - 1], q[m]>>]

\* A loop whose rounds stay in A goes through states in A.
LEMMA LoopStays ==
    ASSUME NEW n \in Nat, NEW A, NEW D, NEW base \in A, NEW q \in [1..n -> D], NEW h \in [A \X D -> A]
    PROVE  Loops(n, A, base, q, h)
<1> DEFINE Ok(l) == \E f \in [0..l -> A] : f[0] = base /\ \A m \in 1..l : f[m] = h[<<f[m - 1], q[m]>>]
           T == {l \in 0..n : Ok(l)}
<1>1. Ok(0)
  <2> DEFINE f == [m \in 0..0 |-> base]
  <2>1. f \in [0..0 -> A] /\ f[0] = base /\ 1..0 = {}
    OBVIOUS
  <2> QED
    BY <2>1, Zenon
<1>2. ASSUME NEW l \in 0..n, Ok(l), l < n PROVE Ok(l + 1)
  <2>1. PICK f \in [0..l -> A] : f[0] = base /\ \A m \in 1..l : f[m] = h[<<f[m - 1], q[m]>>]
    BY <1>2, Zenon
  <2> DEFINE up == [m \in 0..l + 1 |-> IF m = l + 1 THEN h[<<f[l], q[l + 1]>>] ELSE f[m]]
  <2>2. l \in Nat /\ q[l + 1] \in D /\ f[l] \in A /\ 0 # l + 1
    BY <1>2
  <2>3. up \in [0..l + 1 -> A]
    BY <2>2
  <2>4. up[0] = base
    BY <2>1, <2>2
  <2>5. ASSUME NEW m \in 1..l + 1 PROVE up[m] = h[<<up[m - 1], q[m]>>]
    <3>1. CASE m = l + 1
      <4>1. l \in 0..l + 1 /\ l + 1 \in 0..l + 1 /\ l # l + 1 /\ (l + 1) - 1 = l
        BY <2>2
      <4>2. up[l + 1] = h[<<f[l], q[l + 1]>>] /\ up[l] = f[l]
        BY <4>1, Zenon
      <4> QED
        BY <3>1, <4>1, <4>2, Zenon
    <3>2. CASE m # l + 1
      <4>1. m \in 1..l /\ m \in 0..l + 1 /\ m - 1 \in 0..l + 1 /\ m - 1 # l + 1
        BY <2>2, <3>2
      <4> QED
        BY <2>1, <3>2, <4>1
    <3> QED
      BY <3>1, <3>2
  <2> QED
    BY <2>3, <2>4, <2>5, Zenon
<1>3. n \in T
  <2>1. 0 \in T /\ \A m \in 0..n : m \in T /\ m < n => m + 1 \in T
    <3> HIDE DEF Ok
    <3> QED
      BY <1>1, <1>2
  <2> HIDE DEF T
  <2> QED
    BY <2>1, BoundedInduction, Zenon
<1> QED
  BY <1>3 DEF Loops

-----------------------------------------------------------------------------
(* Sums. *)

\* The running sums of the first n values of f.
Sums(f, s, n) ==
    /\ s \in [0..n -> Nat] /\ s[0] = 0
    /\ \A m \in 1..n : s[m] = s[m - 1] + f[m - 1]

\* The loop that sums up f goes through the running sums.
LEMMA SumOfSums ==
    ASSUME NEW n \in Nat, NEW f \in [0..n - 1 -> Nat]
    PROVE  \E s : Sums(f, s, n) /\ SumOf(f, n) = s[n]
<1> DEFINE Def(it) == [i \in 0..n |-> IF i = 0 THEN 0 ELSE it[i - 1] + f[i - 1]]
           loop == CHOOSE it : it = Def(it)
           q == [m \in 1..n |-> f[m - 1]]
           h == [p \in Nat \X Nat |-> p[1] + p[2]]
<1>1. SumOf(f, n) = loop[n]
  BY DEF SumOf
<1>2. /\ 0 \in 0..n /\ n \in 0..n /\ \A m \in 1..n : m - 1 \in 0..n - 1 /\ m \in 0..n /\ m - 1 \in 0..n /\ m # 0
      /\ \A m \in 0..n : m # 0 => m \in 1..n
  OBVIOUS
<1>3. q \in [1..n -> Nat] /\ h \in [Nat \X Nat -> Nat] /\ 0 \in Nat
  BY <1>2
<1>4. PICK s \in [0..n -> Nat] : s[0] = 0 /\ \A m \in 1..n : s[m] = h[<<s[m - 1], q[m]>>]
  <2> HIDE DEF q, h
  <2>1. Loops(n, Nat, 0, q, h)
    BY <1>3, LoopStays, Zenon
  <2> QED
    BY <2>1, Zenon DEF Loops
<1>5. ASSUME NEW m \in 1..n PROVE s[m] = s[m - 1] + f[m - 1]
  <2>1. s[m - 1] \in Nat /\ f[m - 1] \in Nat
    BY <1>2
  <2>2. h[<<s[m - 1], f[m - 1]>>] = s[m - 1] + f[m - 1]
    BY <2>1
  <2> HIDE DEF h
  <2> QED
    BY <1>4, <2>2, Zenon
<1>6. s = Def(s)
  <2>1. s = [m \in 0..n |-> s[m]]
    BY Zenon
  <2>2. \A m \in 0..n : s[m] = IF m = 0 THEN 0 ELSE s[m - 1] + f[m - 1]
    BY <1>2, <1>4, <1>5, Zenon
  <2> QED
    BY <2>1, <2>2, Zenon
<1>7. loop = Def(loop)
  <2> HIDE DEF Def
  <2> QED
    BY <1>6, Zenon
<1>8. loop[n] = s[n]
  <2> HIDE DEF loop
  <2>1. loop[0] = s[0]
    BY <1>2, <1>4, <1>7
  <2>2. ASSUME NEW m \in 1..n, loop[m - 1] = s[m - 1] PROVE loop[m] = s[m]
    BY <1>2, <1>5, <1>7, <2>2, Zenon
  <2> QED
    BY <2>1, <2>2, LoopInduction, Zenon
<1> HIDE DEF loop
<1> QED
  BY <1>1, <1>4, <1>5, <1>8, Zenon DEF Sums

\* Clients are the numbers below nclnt.
LEMMA ClientNumbers ==
    /\ nclnt \in Nat /\ Client = 0..nclnt - 1 /\ 0 \in 0..nclnt /\ nclnt \in 0..nclnt
    /\ \A m \in 1..nclnt : m - 1 \in Client /\ m \in 0..nclnt /\ m - 1 \in 0..nclnt /\ m # 0
<1>1. nclnt \in Nat /\ Client = 0..nclnt - 1
  BY KVTestAssumption, Zenon
<1> QED
  BY <1>1

\* The running sums of what the clients have.
LEMMA ClientSums ==
    ASSUME NEW f \in [Client -> Nat]
    PROVE  \E s : Sums(f, s, nclnt) /\ SumOf(f, nclnt) = s[nclnt]
  BY SumOfSums, ClientNumbers, Zenon

\* A sum of numbers is a number.
LEMMA SumNat ==
    ASSUME NEW f \in [Client -> Nat]
    PROVE  SumOf(f, nclnt) \in Nat
  BY ClientSums, ClientNumbers DEF Sums

\* The sum of zeros.
LEMMA SumZero ==
    ASSUME NEW f \in [Client -> Nat], \A c \in Client : f[c] = 0
    PROVE  SumOf(f, nclnt) = 0
<1>n. nclnt \in Nat
  BY ClientNumbers, Zenon
<1>1. PICK s : Sums(f, s, nclnt) /\ SumOf(f, nclnt) = s[nclnt]
  BY ClientSums, Zenon
<1> DEFINE z == [m \in 0..nclnt |-> 0]
<1>2. z[nclnt] = 0
  BY ClientNumbers
<1>z. s[0] = z[0]
  BY <1>1, ClientNumbers DEF Sums
<1>3. ASSUME NEW m \in 1..nclnt, s[m - 1] = z[m - 1] PROVE s[m] = z[m]
  BY <1>1, <1>3, ClientNumbers DEF Sums
<1> HIDE DEF z
<1>4. s[nclnt] = z[nclnt]
  BY <1>n, <1>z, <1>3, LoopInduction, Zenon
<1> QED
  BY <1>1, <1>2, <1>4, Zenon

\* The sum of sums.
LEMMA SumAdd ==
    ASSUME NEW f \in [Client -> Nat], NEW g \in [Client -> Nat], NEW h \in [Client -> Nat],
           \A c \in Client : h[c] = f[c] + g[c]
    PROVE  SumOf(h, nclnt) = SumOf(f, nclnt) + SumOf(g, nclnt)
<1>n. nclnt \in Nat
  BY ClientNumbers, Zenon
<1>1. PICK s : Sums(f, s, nclnt) /\ SumOf(f, nclnt) = s[nclnt]
  BY ClientSums, Zenon
<1>2. PICK t : Sums(g, t, nclnt) /\ SumOf(g, nclnt) = t[nclnt]
  BY ClientSums, Zenon
<1>3. PICK u : Sums(h, u, nclnt) /\ SumOf(h, nclnt) = u[nclnt]
  BY ClientSums, Zenon
<1> DEFINE z == [m \in 0..nclnt |-> s[m] + t[m]]
<1>4. u[0] = z[0] /\ z[nclnt] = s[nclnt] + t[nclnt]
  BY <1>1, <1>2, <1>3, ClientNumbers DEF Sums
<1>5. ASSUME NEW m \in 1..nclnt, u[m - 1] = z[m - 1] PROVE u[m] = z[m]
  <2>1. m - 1 \in Client /\ m \in 0..nclnt /\ m - 1 \in 0..nclnt
    BY ClientNumbers
  <2>2. /\ s[m - 1] \in Nat /\ t[m - 1] \in Nat /\ f[m - 1] \in Nat /\ g[m - 1] \in Nat
        /\ s[m] = s[m - 1] + f[m - 1] /\ t[m] = t[m - 1] + g[m - 1] /\ u[m] = u[m - 1] + h[m - 1]
    BY <1>1, <1>2, <1>3, <2>1, Zenon DEF Sums
  <2>3. u[m - 1] = s[m - 1] + t[m - 1] /\ h[m - 1] = f[m - 1] + g[m - 1]
    BY <1>5, <2>1
  <2>4. z[m] = s[m] + t[m]
    BY <2>1
  <2> HIDE DEF z
  <2> QED
    BY <2>2, <2>3, <2>4
<1> HIDE DEF z
<1>6. u[nclnt] = z[nclnt]
  BY <1>n, <1>4, <1>5, LoopInduction, Zenon
<1> QED
  BY <1>1, <1>2, <1>3, <1>4, <1>6, Zenon

\* What one client's number adds to the sum.
LEMMA SumChange ==
    ASSUME NEW f \in [Client -> Nat], NEW g \in [Client -> Nat], NEW c \in Client,
           \A d \in Client : d # c => g[d] = f[d]
    PROVE  SumOf(g, nclnt) + f[c] = SumOf(f, nclnt) + g[c]
<1>n. nclnt \in Nat
  BY ClientNumbers, Zenon
<1>1. PICK s : Sums(f, s, nclnt) /\ SumOf(f, nclnt) = s[nclnt]
  BY ClientSums, Zenon
<1>2. PICK t : Sums(g, t, nclnt) /\ SumOf(g, nclnt) = t[nclnt]
  BY ClientSums, Zenon
<1> DEFINE a == [m \in 0..nclnt |-> IF c < m THEN t[m] + f[c] ELSE t[m]]
           b == [m \in 0..nclnt |-> IF c < m THEN s[m] + g[c] ELSE s[m]]
<1>3. c \in Nat /\ c < nclnt /\ ~(c < 0)
  BY ClientNumbers
<1>4. a[0] = b[0] /\ a[nclnt] = t[nclnt] + f[c] /\ b[nclnt] = s[nclnt] + g[c]
  BY <1>1, <1>2, <1>3, ClientNumbers DEF Sums
<1>5. ASSUME NEW m \in 1..nclnt, a[m - 1] = b[m - 1] PROVE a[m] = b[m]
  <2>1. m - 1 \in Client /\ m \in 0..nclnt /\ m - 1 \in 0..nclnt /\ m \in Nat
    BY ClientNumbers
  <2>2. /\ s[m - 1] \in Nat /\ t[m - 1] \in Nat /\ f[m - 1] \in Nat /\ g[m - 1] \in Nat
        /\ s[m] = s[m - 1] + f[m - 1] /\ t[m] = t[m - 1] + g[m - 1]
    BY <1>1, <1>2, <2>1 DEF Sums
  <2>3. /\ a[m] = IF c < m THEN t[m] + f[c] ELSE t[m]
        /\ b[m] = IF c < m THEN s[m] + g[c] ELSE s[m]
        /\ a[m - 1] = IF c < m - 1 THEN t[m - 1] + f[c] ELSE t[m - 1]
        /\ b[m - 1] = IF c < m - 1 THEN s[m - 1] + g[c] ELSE s[m - 1]
    BY <2>1
  <2>4. f[c] \in Nat /\ g[c] \in Nat /\ (m - 1 # c => g[m - 1] = f[m - 1])
    BY <2>1
  <2> HIDE DEF a, b
  <2>5. CASE m - 1 = c
    <3>1. c < m /\ ~(c < m - 1)
      BY <1>3, <2>1, <2>5
    <3>2. t[m - 1] = s[m - 1] /\ a[m] = t[m] + f[c] /\ b[m] = s[m] + g[c]
      BY <1>5, <2>3, <3>1, Zenon
    <3>3. t[m] = s[m - 1] + g[c] /\ s[m] = s[m - 1] + f[c]
      BY <2>2, <2>5, <3>2, Zenon
    <3> QED
      BY <2>2, <2>4, <3>2, <3>3
  <2>6. CASE m - 1 # c /\ c < m
    <3>1. c < m - 1
      BY <1>3, <2>1, <2>6
    <3>2. /\ t[m - 1] + f[c] = s[m - 1] + g[c] /\ a[m] = t[m] + f[c] /\ b[m] = s[m] + g[c]
          /\ t[m] = t[m - 1] + f[m - 1] /\ s[m] = s[m - 1] + f[m - 1]
      BY <1>5, <2>2, <2>3, <2>4, <2>6, <3>1, Zenon
    <3> QED
      BY <2>2, <2>4, <3>2
  <2>7. CASE ~(c < m)
    <3>1. ~(c < m - 1) /\ m - 1 # c
      BY <1>3, <2>1, <2>7
    <3> QED
      BY <1>5, <2>2, <2>3, <2>4, <2>7, <3>1, Zenon
  <2> QED
    BY <2>5, <2>6, <2>7, Zenon
<1> HIDE DEF a, b
<1>6. a[nclnt] = b[nclnt]
  BY <1>n, <1>4, <1>5, LoopInduction, Zenon
<1> QED
  BY <1>1, <1>2, <1>4, <1>6, Zenon

-----------------------------------------------------------------------------
(* Entries, lists and calls. *)

ProgramType == [name : Programs, reliable : BOOLEAN]

\* The key of the tests, and the constants that calls are made of.
LEMMA Constants ==
    /\ k \in Key /\ NoValue = <<>> /\ NoValue \in Seq(Tuple)
    /\ Version = 0..MaxVersion /\ MaxVersion \in Nat /\ 0 \in Version /\ Version \subseteq Nat
    /\ Free \in Calls /\ Nothing \in Outcome /\ Nothing.err = "None"
    /\ \A err \in {"OK", "ErrVersion"} : Answer(err) \in Outcome /\ Answer(err).err = err
    /\ Getting.type = "Get" /\ Idle.type = "Idle" /\ Getting # Idle
<1>1. k \in Key /\ NoValue = <<>> /\ NoValue \in Seq(Tuple)
  BY KVTestAssumption DEF k
<1>2. Version = 0..MaxVersion /\ MaxVersion \in Nat /\ 0 \in Version /\ Version \subseteq Nat
  BY KVAssumption DEF Version
<1>3. Nothing \in Outcome /\ Nothing.err = "None"
  BY <1>1, <1>2 DEF Nothing, Outcome
<1>4. \A err \in {"OK", "ErrVersion"} : Answer(err) \in Outcome /\ Answer(err).err = err
  BY <1>1, <1>2 DEF Answer, Outcome
<1>5. Free \in Calls
  BY <1>3 DEF Free, Calls
<1>6. Getting.type = "Get" /\ Idle.type = "Idle"
  BY DEF Getting, Idle
<1>7. Getting # Idle
  BY <1>6
<1> QED
  BY <1>1, <1>2, <1>3, <1>4, <1>5, <1>6, <1>7, Zenon

\* The fields of a Put call.
LEMMA PuttingFields ==
    ASSUME NEW value, NEW version
    PROVE  /\ Putting(value, version).type = "Put" /\ Putting(value, version).key = k
           /\ Putting(value, version).value = value /\ Putting(value, version).version = version
           /\ Putting(value, version) # Idle /\ Putting(value, version) # Getting
<1>1. Putting(value, version).type = "Put"
  BY DEF Putting
<1>2. Getting.type = "Get" /\ Idle.type = "Idle"
  BY Constants, Zenon
<1> QED
  BY <1>1, <1>2 DEF Putting

\* The counts of a client.
LEMMA CountTypes ==
    ASSUME NEW l \in Local, NEW q \in Calls
    PROVE  /\ AtLeast(l, q) \in Nat /\ AtMost(l, q) \in Nat /\ l.nok \in Nat /\ l.nmaybe \in Nat
           /\ Sure(l, q) \in {0, 1} /\ Perhaps(l, q) \in {0, 1}
<1>1. l.nok \in Nat /\ l.nmaybe \in Nat
  BY DEF Local
<1>2. Sure(l, q) \in {0, 1} /\ Perhaps(l, q) \in {0, 1}
  BY DEF Sure, Perhaps
<1> QED
  BY <1>1, <1>2 DEF AtLeast, AtMost

\* The value that a client puts is a list of entries.
LEMMA ValueType ==
    ASSUME NEW c \in Client, NEW name \in Programs, NEW l \in Local
    PROVE  ValueOf(c, name, l) \in Seq(Tuple)
<1>1. l.ver \in Nat /\ l.nok \in Nat /\ l.nmaybe \in Nat /\ l.val \in Seq(Tuple) /\ l.nok + l.nmaybe \in Nat
  BY Constants DEF Local
<1>2. \A n \in Nat : [id |-> c, n |-> n] \in Tuple
  BY DEF Tuple
<1>3. \A t \in Tuple : <<t>> \in Seq(Tuple) /\ Append(l.val, t) \in Seq(Tuple)
  BY <1>1
<1> QED
  BY <1>1, <1>2, <1>3, Zenon DEF ValueOf, Programs

\* How many of the first entries are of client c.
Tally(c, es, s) ==
    /\ s \in [0..Len(es) -> Nat] /\ s[0] = 0 /\ s[Len(es)] = NEntries(c, es)
    /\ \A m \in 1..Len(es) : s[m] = s[m - 1] + (IF es[m].id = c THEN 1 ELSE 0)

\* The loop that counts the entries of a client.
LEMMA EntriesCounted ==
    ASSUME NEW es \in Seq(Tuple), NEW c
    PROVE  \E s : Tally(c, es, s)
<1> DEFINE n == Len(es)
           f == [i \in 0..n - 1 |-> IF es[i + 1].id = c THEN 1 ELSE 0]
<1>1. n \in Nat /\ f \in [0..n - 1 -> Nat]
  OBVIOUS
<1>2. NEntries(c, es) = SumOf(f, n)
  BY DEF NEntries
<1>3. \A m \in 1..n : f[m - 1] = IF es[m].id = c THEN 1 ELSE 0
  BY <1>1
<1> HIDE DEF n, f
<1>4. PICK s : Sums(f, s, n) /\ SumOf(f, n) = s[n]
  BY <1>1, SumOfSums, Zenon
<1> QED
  BY <1>2, <1>3, <1>4, Zenon DEF Sums, Tally, n

\* The entries of a client, and how many they are.
LEMMA EntriesTypes ==
    ASSUME NEW es \in Seq(Tuple), NEW c
    PROVE  /\ NEntries(c, es) \in Nat /\ (Len(es) = 0 => NEntries(c, es) = 0)
           /\ \A i \in EntriesOf(c, es) : i \in 1..Len(es) /\ i \in Nat /\ es[i] \in Tuple /\ es[i].n \in Nat
<1>1. DOMAIN es = 1..Len(es) /\ Len(es) \in Nat /\ \A i \in 1..Len(es) : es[i] \in Tuple
  OBVIOUS
<1>2. NEntries(c, es) \in Nat /\ (Len(es) = 0 => NEntries(c, es) = 0)
  BY <1>1, EntriesCounted DEF Tally
<1>3. ASSUME NEW i \in EntriesOf(c, es) PROVE i \in 1..Len(es) /\ i \in Nat /\ es[i] \in Tuple /\ es[i].n \in Nat
  <2>1. i \in 1..Len(es) /\ es[i] \in Tuple
    BY <1>1, Zenon DEF EntriesOf
  <2> QED
    BY <1>1, <2>1 DEF Tuple
<1> QED
  BY <1>2, <1>3, Zenon

\* The list is appended to.
LEMMA AppendCounted ==
    ASSUME NEW es \in Seq(Tuple), NEW t \in Tuple, NEW c
    PROVE  NEntries(c, Append(es, t)) = NEntries(c, es) + (IF t.id = c THEN 1 ELSE 0)
<1> DEFINE ap == Append(es, t)
           n == Len(es)
<1>1. /\ n \in Nat /\ ap \in Seq(Tuple) /\ Len(ap) = n + 1 /\ ap[n + 1] = t
      /\ \A i \in 1..n : ap[i] = es[i] /\ i \in 1..n + 1
      /\ n + 1 \in 1..n + 1 /\ (n + 1) - 1 = n
  OBVIOUS
<1> HIDE DEF ap
<1>2. PICK s : Tally(c, es, s)
  BY EntriesCounted, Zenon
<1>3. PICK u : Tally(c, ap, u)
  BY <1>1, EntriesCounted, Zenon
<1>4. /\ s[0] = 0 /\ s[n] = NEntries(c, es)
      /\ \A m \in 1..n : s[m] = s[m - 1] + (IF es[m].id = c THEN 1 ELSE 0)
  BY <1>2, Zenon DEF Tally
<1>5. /\ u[0] = 0 /\ u[n + 1] = NEntries(c, ap)
      /\ \A m \in 1..n + 1 : u[m] = u[m - 1] + (IF ap[m].id = c THEN 1 ELSE 0)
  BY <1>1, <1>3 DEF Tally
<1> HIDE DEF n
<1>6. ASSUME NEW m \in 1..n, u[m - 1] = s[m - 1] PROVE u[m] = s[m]
  <2>1. ap[m] = es[m] /\ m \in 1..n + 1
    BY <1>1, Zenon
  <2> QED
    BY <1>4, <1>5, <1>6, <2>1, Zenon
<1>7. u[n] = s[n]
  <2>1. n \in Nat /\ u[0] = s[0]
    BY <1>1, <1>4, <1>5, Zenon
  <2> QED
    BY <1>6, <2>1, LoopInduction, Zenon
<1>8. u[n + 1] = u[n] + (IF t.id = c THEN 1 ELSE 0)
  BY <1>1, <1>5
<1>9. NEntries(c, ap) = NEntries(c, es) + (IF t.id = c THEN 1 ELSE 0)
  <2> HIDE DEF n
  <2> QED
    BY <1>4, <1>5, <1>7, <1>8
<1> QED
  BY <1>9, Zenon DEF ap

\* The longer list has the same entries of client c.
SameEntries(c, es, longer) ==
    /\ EntriesOf(c, longer) = EntriesOf(c, es) /\ \A i \in EntriesOf(c, es) : longer[i] = es[i]
    /\ NEntries(c, longer) = NEntries(c, es)

\* The longer list has one more entry of client c, the last one.
OneMore(c, es, longer, t) ==
    /\ EntriesOf(c, longer) = EntriesOf(c, es) \cup {Len(es) + 1}
    /\ \A i \in EntriesOf(c, es) : longer[i] = es[i] /\ i < Len(es) + 1 /\ i \in Nat
    /\ longer[Len(es) + 1] = t
    /\ NEntries(c, longer) = NEntries(c, es) + 1

\* An entry of another client is appended.
LEMMA OthersEntry ==
    ASSUME NEW es \in Seq(Tuple), NEW t \in Tuple, NEW c \in Client, t.id # c
    PROVE  SameEntries(c, es, Append(es, t))
<1>1. /\ DOMAIN es = 1..Len(es) /\ Len(es) \in Nat /\ DOMAIN Append(es, t) = 1..(Len(es) + 1)
      /\ Append(es, t)[Len(es) + 1] = t /\ \A i \in 1..Len(es) : Append(es, t)[i] = es[i]
  OBVIOUS
<1>2. 1..(Len(es) + 1) = (1..Len(es)) \cup {Len(es) + 1}
  BY <1>1
<1>3. NEntries(c, es) \in Nat /\ NEntries(c, Append(es, t)) = NEntries(c, es) + 0
  BY AppendCounted, EntriesTypes, Zenon
<1>4. NEntries(c, Append(es, t)) = NEntries(c, es)
  BY <1>3
<1> QED
  BY <1>1, <1>2, <1>4, Zenon DEF EntriesOf, SameEntries

\* A client's own entry is appended.
LEMMA OwnEntry ==
    ASSUME NEW es \in Seq(Tuple), NEW t \in Tuple, NEW c \in Client, t.id = c
    PROVE  OneMore(c, es, Append(es, t), t)
<1>1. /\ DOMAIN es = 1..Len(es) /\ Len(es) \in Nat /\ DOMAIN Append(es, t) = 1..(Len(es) + 1)
      /\ Append(es, t)[Len(es) + 1] = t /\ \A i \in 1..Len(es) : Append(es, t)[i] = es[i]
  OBVIOUS
<1>2. 1..(Len(es) + 1) = (1..Len(es)) \cup {Len(es) + 1} /\ Len(es) + 1 \notin 1..Len(es)
  BY <1>1
<1>3. EntriesOf(c, Append(es, t)) = EntriesOf(c, es) \cup {Len(es) + 1}
  BY <1>1, <1>2, Zenon DEF EntriesOf
<1>4. \A i \in EntriesOf(c, es) : Append(es, t)[i] = es[i] /\ i < Len(es) + 1 /\ i \in Nat
  BY <1>1 DEF EntriesOf
<1>5. NEntries(c, Append(es, t)) = NEntries(c, es) + 1
  BY AppendCounted, Zenon
<1> QED
  BY <1>1, <1>3, <1>4, <1>5, Zenon DEF OneMore

\* A list that agrees with the counts agrees with looser counts.
LEMMA ListLoosened ==
    ASSUME NEW es \in Seq(Tuple), NEW c, NEW l \in Local, NEW q \in Calls, NEW l2 \in Local, NEW q2 \in Calls,
           ListOK(c, es, l, q), AtLeast(l2, q2) <= AtLeast(l, q), AtMost(l, q) <= AtMost(l2, q2)
    PROVE  ListOK(c, es, l2, q2)
<1>1. /\ AtLeast(l, q) \in Nat /\ AtMost(l, q) \in Nat /\ AtLeast(l2, q2) \in Nat /\ AtMost(l2, q2) \in Nat
      /\ NEntries(c, es) \in Nat /\ \A i \in EntriesOf(c, es) : es[i].n \in Nat
  BY CountTypes, EntriesTypes, Zenon
<1>2. \A i \in EntriesOf(c, es) : es[i].n < AtMost(l2, q2)
  BY <1>1 DEF ListOK
<1>3. AtLeast(l2, q2) <= NEntries(c, es) /\ NEntries(c, es) <= AtMost(l2, q2)
  BY <1>1 DEF ListOK
<1> QED
  BY <1>2, <1>3, Zenon DEF ListOK

-----------------------------------------------------------------------------
(* What one client does, and what the others see of it. *)

\* The invariant for one client.
Known(c, p, e, l, q) ==
    /\ c \in Client /\ p \in ProgramType /\ e \in Held /\ l \in Local /\ q \in Calls
    /\ EntryOK(p.name, e) /\ ClientOK(c, p, e, l, q)

\* A step keeps it, and changes the bounds on the client's Puts with the version.
Moved(c, p, e, l, q, e2, l2, q2) ==
    /\ Known(c, p, e2, l2, q2)
    /\ p.name = "put" => /\ AtLeast(l2, q2) + e.version <= AtLeast(l, q) + e2.version
                         /\ AtMost(l, q) + e2.version <= AtMost(l2, q2) + e.version

\* The types of what the invariant is about.
LEMMA KnownTypes ==
    ASSUME NEW c, NEW p, NEW e, NEW l, NEW q, Known(c, p, e, l, q)
    PROVE  /\ c \in Client /\ p \in ProgramType /\ p.name \in Programs
           /\ e \in Held /\ e.version \in Version /\ e.version \in Nat /\ e.value \in Seq(Tuple)
           /\ l \in Local /\ l.ver \in Version /\ l.ver \in Nat /\ l.val \in Seq(Tuple)
           /\ l.nok \in Nat /\ l.nmaybe \in Nat
           /\ q \in Calls /\ q.outcome \in Outcome /\ q = [req |-> q.req, outcome |-> q.outcome]
<1>1. c \in Client /\ p \in ProgramType /\ e \in Held /\ l \in Local /\ q \in Calls
  BY DEF Known
<1>2. p.name \in Programs
  BY <1>1 DEF ProgramType
<1>3. e.version \in Version /\ e.value \in Seq(Tuple)
  BY <1>1 DEF Held
<1>4. l.ver \in Version /\ l.val \in Seq(Tuple) /\ l.nok \in Nat /\ l.nmaybe \in Nat
  BY <1>1 DEF Local
<1>5. q.outcome \in Outcome /\ q = [req |-> q.req, outcome |-> q.outcome]
  BY <1>1 DEF Calls
<1> QED
  BY <1>1, <1>2, <1>3, <1>4, <1>5, Constants

\* Which calls a client can be in.
LEMMA KnownCall ==
    ASSUME NEW c, NEW p, NEW e, NEW l, NEW q, Known(c, p, e, l, q)
    PROVE  /\ q.req = Idle => q = Free
           /\ l.pc \notin {"get", "put"} => q = Free
           /\ q.req.type = "Get" => l.pc = "get" /\ q.req = Getting
           /\ q.req.type = "Put" => l.pc = "put" /\ q.req = Putting(ValueOf(c, p.name, l), l.ver)
           /\ l.pc = "get" /\ q.outcome # Nothing => q.req = Getting /\ Seen(p.name, e, q.outcome)
           /\ l.pc = "put" /\ q.outcome # Nothing =>
                 /\ q.req = Putting(ValueOf(c, p.name, l), l.ver)
                 /\ q.outcome \in {Answer("OK"), Answer("ErrVersion")}
<1>1. CallOK(c, p.name, e, l, q)
  BY Zenon DEF Known, ClientOK
<1>2. Free.outcome = Nothing /\ Free.req = Idle /\ Idle.type = "Idle"
  BY Constants DEF Free
<1>3. Getting # Idle /\ Getting.type = "Get"
  BY Constants, Zenon
<1>4. \A value, version : Putting(value, version) # Idle /\ Putting(value, version).type = "Put"
  BY PuttingFields, Zenon
<1>5. CASE q = Free
  BY <1>2, <1>5, Zenon
<1>6. CASE l.pc = "get" /\ q.req = Getting /\ (q.outcome = Nothing \/ Seen(p.name, e, q.outcome))
  BY <1>3, <1>6, Zenon
<1>7. CASE /\ l.pc = "put" /\ q.req = Putting(ValueOf(c, p.name, l), l.ver)
           /\ q.outcome \in {Nothing, Answer("OK"), Answer("ErrVersion")}
  <2>1. q.req # Idle /\ q.req.type = "Put"
    BY <1>4, <1>7, Zenon
  <2> QED
    BY <1>7, <2>1, Zenon
<1> QED
  BY <1>1, <1>5, <1>6, <1>7, Zenon DEF CallOK

\* A step that leaves the entry alone.
LEMMA SameEntry ==
    ASSUME NEW c, NEW p, NEW e, NEW l, NEW q, Known(c, p, e, l, q), NEW l2 \in Local, NEW q2 \in Calls,
           p.name # "least" => AtLeast(l2, q2) <= AtLeast(l, q) /\ AtMost(l, q) <= AtMost(l2, q2),
           l2.ver <= e.version, l2.pc = "get" \/ q2.outcome # Nothing => e.version # 0,
           CallOK(c, p.name, e, l2, q2), p.name # "put" => l2.err = "None",
           p.reliable => l2.nmaybe = 0 /\ l2.err # "ErrMaybe",
           p.name = "append" /\ l2.pc = "put" /\ l2.ver = e.version => l2.val = e.value,
           p.name = "least" => LeastOK(c, e, l2, q2)
    PROVE  Moved(c, p, e, l, q, e, l2, q2)
<1>1. p.name = "append" => ListOK(c, e.value, l2, q2)
  <2>1. p.name = "append" => ListOK(c, e.value, l, q) /\ p.name # "least"
    BY Zenon DEF Known, ClientOK
  <2>2. e.value \in Seq(Tuple) /\ l \in Local /\ q \in Calls
    BY KnownTypes, Zenon
  <2> QED
    BY <2>1, <2>2, ListLoosened, Zenon
<1>2. ClientOK(c, p, e, l2, q2)
  BY <1>1, Zenon DEF ClientOK
<1>3. Known(c, p, e, l2, q2)
  BY <1>2, Zenon DEF Known
<1>4. e.version \in Nat /\ l \in Local /\ q \in Calls
  BY KnownTypes, Zenon
<1>5. AtLeast(l, q) \in Nat /\ AtMost(l, q) \in Nat /\ AtLeast(l2, q2) \in Nat /\ AtMost(l2, q2) \in Nat
  BY <1>4, CountTypes, Zenon
<1>6. p.name = "put" => /\ AtLeast(l2, q2) + e.version <= AtLeast(l, q) + e.version
                        /\ AtMost(l, q) + e.version <= AtMost(l2, q2) + e.version
  BY <1>4, <1>5
<1> QED
  BY <1>3, <1>6, Zenon DEF Moved

\* The default case of select, done, and a result that was collected: no call.
LEMMA PcMoves ==
    ASSUME NEW c, NEW p, NEW e, NEW l, NEW q, Known(c, p, e, l, q), l.pc \in {"select", "report"},
           NEW pc \in {"get", "put", "report", "gone"},
           pc = "get" => p.name = "append", pc = "put" => p.name = "put"
    PROVE  q = Free /\ Moved(c, p, e, l, q, e, [l EXCEPT !.pc = pc], q)
<1> DEFINE l2 == [l EXCEPT !.pc = pc]
<1>1. q = Free
  BY KnownCall
<1>2. l \in Local /\ q \in Calls /\ p.name \in Programs
  BY KnownTypes, Zenon
<1>3. /\ l2 \in Local /\ l2.pc = pc /\ l2.ver = l.ver /\ l2.val = l.val /\ l2.err = l.err
      /\ l2.nok = l.nok /\ l2.nmaybe = l.nmaybe
  BY <1>2 DEF Local
<1>4. p.name # "least"
  BY Zenon DEF Known, ClientOK, LeastOK
<1>5. /\ l.ver <= e.version /\ (p.name # "put" => l.err = "None")
      /\ (p.reliable => l.nmaybe = 0 /\ l.err # "ErrMaybe") /\ EntryOK(p.name, e)
  BY Zenon DEF Known, ClientOK
<1>6. p.name = "append" => e.version # 0
  BY <1>5, KnownTypes DEF EntryOK
<1>7. Sure(l2, q) = 0 /\ Perhaps(l2, q) = 0 /\ Sure(l, q) = 0 /\ Perhaps(l, q) = 0
  <2>1. q.outcome.err = "None"
    BY <1>1, Constants DEF Free
  <2>2. l2.pc = "get" => l2.err = "None"
    BY <1>3, <1>5
  <2> HIDE DEF l2
  <2> QED
    BY <2>1, <2>2 DEF Sure, Perhaps
<1> HIDE DEF l2
<1>8. AtLeast(l2, q) <= AtLeast(l, q) /\ AtMost(l, q) <= AtMost(l2, q)
  BY <1>2, <1>3, <1>7, CountTypes DEF AtLeast, AtMost
<1>9. CallOK(c, p.name, e, l2, q)
  BY <1>1, Zenon DEF CallOK
<1>10. /\ l2.ver <= e.version /\ (l2.pc = "get" \/ q.outcome # Nothing => e.version # 0) /\ (p.name # "put" => l2.err = "None")
       /\ (p.reliable => l2.nmaybe = 0 /\ l2.err # "ErrMaybe")
       /\ (p.name = "append" /\ l2.pc = "put" /\ l2.ver = e.version => l2.val = e.value)
  BY <1>1, <1>3, <1>5, <1>6, Zenon DEF Free
<1>11. Moved(c, p, e, l, q, e, l2, q)
  BY <1>2, <1>3, <1>4, <1>8, <1>9, <1>10, SameEntry, Zenon
<1> QED
  BY <1>1, <1>11 DEF l2

\* GetJson or PutJson calls the clerk.
LEMMA CallMoves ==
    ASSUME NEW c, NEW p, NEW e, NEW l, NEW q, Known(c, p, e, l, q), q.req = Idle, NEW req,
           \/ l.pc = "get" /\ req = Getting
           \/ l.pc = "put" /\ req = Putting(ValueOf(c, p.name, l), l.ver)
    PROVE  Moved(c, p, e, l, q, e, l, [req |-> req, outcome |-> Nothing])
<1> DEFINE q2 == [req |-> req, outcome |-> Nothing]
<1>1. q = Free
  BY KnownCall
<1>2. c \in Client /\ l \in Local /\ q \in Calls /\ p.name \in Programs /\ l.ver \in Version
  BY KnownTypes, Zenon
<1>3. req \in {Idle, Getting} \cup {Putting(value, version) : value \in Seq(Tuple), version \in Version}
  <2>1. ValueOf(c, p.name, l) \in Seq(Tuple)
    BY <1>2, ValueType, Zenon
  <2> QED
    BY <1>2, <2>1
<1>4. q2 \in Calls /\ q2.req = req /\ q2.outcome = Nothing
  BY <1>3, Constants DEF Calls
<1>5. q.outcome = Nothing
  BY <1>1 DEF Free
<1> HIDE DEF q2
<1>6. Sure(l, q2) = Sure(l, q) /\ Perhaps(l, q2) = Perhaps(l, q)
  BY <1>4, <1>5, Zenon DEF Sure, Perhaps
<1>7. AtLeast(l, q2) <= AtLeast(l, q) /\ AtMost(l, q) <= AtMost(l, q2)
  BY <1>2, <1>6, CountTypes DEF AtLeast, AtMost
<1>8. CallOK(c, p.name, e, l, q2)
  BY <1>4, Zenon DEF CallOK
<1>9. /\ l.ver <= e.version /\ (l.pc = "get" \/ q.outcome # Nothing => e.version # 0) /\ (p.name # "put" => l.err = "None")
      /\ (p.reliable => l.nmaybe = 0 /\ l.err # "ErrMaybe")
      /\ (p.name = "append" /\ l.pc = "put" /\ l.ver = e.version => l.val = e.value)
      /\ (p.name = "least" => LeastOK(c, e, l, q))
  BY Zenon DEF Known, ClientOK
<1>10. p.name = "least" => LeastOK(c, e, l, q2)
  BY <1>4, <1>5, <1>9, Zenon DEF LeastOK
<1>11. Moved(c, p, e, l, q, e, l, q2)
  BY <1>2, <1>4, <1>5, <1>7, <1>8, <1>9, <1>10, SameEntry, Zenon
<1> QED
  BY <1>11 DEF q2

\* A Get reads the entry.
LEMMA GetMoves ==
    ASSUME NEW c, NEW p, NEW e, NEW l, NEW q, Known(c, p, e, l, q), q.req.type = "Get"
    PROVE  q.req = Getting /\ Moved(c, p, e, l, q, e, l, [q EXCEPT !.outcome = ReadOf(e)])
<1> DEFINE q2 == [q EXCEPT !.outcome = ReadOf(e)]
<1>1. l.pc = "get" /\ q.req = Getting
  BY KnownCall, Zenon
<1>2. /\ c \in Client /\ l \in Local /\ q \in Calls /\ p.name \in Programs /\ l.ver \in Version
      /\ e \in Held /\ e.version \in Nat /\ e.value \in Seq(Tuple) /\ e.version \in Version
      /\ q = [req |-> q.req, outcome |-> q.outcome]
  BY KnownTypes, Zenon
<1>3. /\ l.ver <= e.version /\ e.version # 0 /\ (p.name # "put" => l.err = "None")
      /\ (p.reliable => l.nmaybe = 0 /\ l.err # "ErrMaybe") /\ EntryOK(p.name, e)
      /\ (p.name = "append" /\ l.pc = "put" /\ l.ver = e.version => l.val = e.value)
      /\ (p.name = "least" => LeastOK(c, e, l, q))
  BY <1>1, Zenon DEF Known, ClientOK
<1>4. e # Missing
  BY <1>3 DEF Missing
<1>5. ReadOf(e) = [value |-> e.value, version |-> e.version, err |-> "OK"]
  BY <1>4, Zenon DEF ReadOf
<1>6. ReadOf(e) \in Outcome
  BY <1>2, <1>5 DEF Outcome
<1>7. q2 = [req |-> Getting, outcome |-> ReadOf(e)]
  BY <1>1, <1>2
<1>8. q2 \in Calls /\ q2.req = Getting /\ q2.outcome = ReadOf(e)
  <2> HIDE DEF q2
  <2> QED
    BY <1>6, <1>7 DEF Calls
<1> HIDE DEF q2
<1>9. Sure(l, q2) = Sure(l, q) /\ Perhaps(l, q2) = Perhaps(l, q)
  BY <1>1, Zenon DEF Sure, Perhaps
<1>10. AtLeast(l, q2) <= AtLeast(l, q) /\ AtMost(l, q) <= AtMost(l, q2)
  BY <1>2, <1>9, CountTypes DEF AtLeast, AtMost
<1>11. Seen(p.name, e, ReadOf(e))
  <2>1. ReadOf(e).err = "OK" /\ ReadOf(e).version = e.version /\ ReadOf(e).value = e.value
    BY <1>5
  <2>2. e.version <= e.version
    BY <1>2
  <2> QED
    BY <1>3, <2>1, <2>2, Zenon DEF Seen, EntryOK
<1>12. CallOK(c, p.name, e, l, q2)
  BY <1>1, <1>8, <1>11, Zenon DEF CallOK
<1>13. p.name = "least" => LeastOK(c, e, l, q2)
  BY <1>1, <1>3, <1>8, Zenon DEF LeastOK
<1>14. Moved(c, p, e, l, q, e, l, q2)
  BY <1>1, <1>2, <1>3, <1>8, <1>10, <1>12, <1>13, SameEntry, Zenon
<1> QED
  BY <1>1, <1>14 DEF q2

\* A Put meets another version.
LEMMA PutMisses ==
    ASSUME NEW c, NEW p, NEW e, NEW l, NEW q, Known(c, p, e, l, q), q.req.type = "Put",
           q.outcome.err # "OK", q.req.version # e.version
    PROVE  Moved(c, p, e, l, q, e, l, [q EXCEPT !.outcome = PutAnswer(e, q.req.version)])
<1> DEFINE q2 == [q EXCEPT !.outcome = PutAnswer(e, q.req.version)]
<1>1. l.pc = "put" /\ q.req = Putting(ValueOf(c, p.name, l), l.ver) /\ q.req.version = l.ver
  <2>1. l.pc = "put" /\ q.req = Putting(ValueOf(c, p.name, l), l.ver)
    BY KnownCall
  <2> QED
    BY <2>1, PuttingFields
<1>2. /\ c \in Client /\ l \in Local /\ q \in Calls /\ l.ver \in Nat /\ e \in Held /\ e.version \in Nat
      /\ q = [req |-> q.req, outcome |-> q.outcome]
  BY KnownTypes, Zenon
<1>3. /\ l.ver <= e.version /\ (p.name # "put" => l.err = "None")
      /\ (p.reliable => l.nmaybe = 0 /\ l.err # "ErrMaybe")
      /\ (p.name = "append" /\ l.pc = "put" /\ l.ver = e.version => l.val = e.value)
      /\ (p.name = "least" => LeastOK(c, e, l, q))
  BY <1>1, Zenon DEF Known, ClientOK
<1>4. e.version # 0
  BY <1>1, <1>2, <1>3
<1>5. e # Missing
  BY <1>4 DEF Missing
<1>6. PutAnswer(e, q.req.version) = Answer("ErrVersion")
  BY <1>5 DEF PutAnswer
<1>7. q2 = [req |-> q.req, outcome |-> Answer("ErrVersion")]
  BY <1>2, <1>6
<1>8. q2 \in Calls /\ q2.req = q.req /\ q2.outcome = Answer("ErrVersion") /\ q2.outcome.err = "ErrVersion"
  <2> HIDE DEF q2
  <2> QED
    BY <1>2, <1>7, Constants DEF Calls
<1> HIDE DEF q2
<1>9. Sure(l, q2) = Sure(l, q) /\ Perhaps(l, q2) = Perhaps(l, q)
  BY <1>1, <1>8, Zenon DEF Sure, Perhaps
<1>10. AtLeast(l, q2) <= AtLeast(l, q) /\ AtMost(l, q) <= AtMost(l, q2)
  BY <1>2, <1>9, CountTypes DEF AtLeast, AtMost
<1>11. CallOK(c, p.name, e, l, q2)
  BY <1>1, <1>8, Zenon DEF CallOK
<1>12. p.name # "least"
  <2>1. Answer("OK").err = "OK"
    BY Constants, Zenon
  <2> QED
    BY <1>1, <1>3, <2>1, Zenon DEF LeastOK
<1>13. Moved(c, p, e, l, q, e, l, q2)
  <2>1. l.pc # "get"
    BY <1>1, Zenon
  <2> QED
    BY <1>2, <1>3, <1>4, <1>8, <1>10, <1>11, <1>12, <2>1, SameEntry, Zenon
<1> QED
  BY <1>13 DEF q2

\* A client's entry was appended: the list has what its counts allow.
LEMMA ListGrows ==
    ASSUME NEW c \in Client, NEW es \in Seq(Tuple), NEW l \in Local, NEW q \in Calls, NEW q2 \in Calls,
           ListOK(c, es, l, q), Perhaps(l, q) = 0, Sure(l, q) = 0, Perhaps(l, q2) = 1, Sure(l, q2) = 1
    PROVE  ListOK(c, Append(es, [id |-> c, n |-> l.nok + l.nmaybe]), l, q2)
<1> DEFINE t == [id |-> c, n |-> l.nok + l.nmaybe]
           ap == Append(es, t)
           mine == EntriesOf(c, es)
           end == Len(es) + 1
<1>1. l.nok \in Nat /\ l.nmaybe \in Nat /\ l.nok + l.nmaybe \in Nat
  BY CountTypes
<1>2. t \in Tuple /\ t.id = c /\ t.n = l.nok + l.nmaybe
  BY <1>1 DEF Tuple
<1>3. /\ NEntries(c, es) \in Nat
      /\ \A i \in mine : i \in Nat /\ es[i].n \in Nat
  BY EntriesTypes, Zenon
<1>4. /\ AtMost(l, q) = l.nok + l.nmaybe /\ AtMost(l, q2) = l.nok + l.nmaybe + 1
      /\ AtLeast(l, q) = l.nok /\ AtLeast(l, q2) = l.nok + 1
  BY <1>1 DEF AtMost, AtLeast
<1> HIDE DEF t
<1>5. /\ EntriesOf(c, ap) = mine \cup {end} /\ ap[end] = t
      /\ \A i \in mine : ap[i] = es[i] /\ i < end /\ i \in Nat
      /\ NEntries(c, ap) = NEntries(c, es) + 1
  <2>1. OneMore(c, es, ap, t)
    BY <1>2, OwnEntry, Zenon
  <2> QED
    BY <2>1, Zenon DEF OneMore
<1>6. /\ \A i, j \in mine : i < j => es[i].n < es[j].n
      /\ \A i \in mine : es[i].n < AtMost(l, q)
      /\ AtLeast(l, q) <= NEntries(c, es) /\ NEntries(c, es) <= AtMost(l, q)
  BY Zenon DEF ListOK, Increasing
<1>7. end \in Nat
  OBVIOUS
<1> HIDE DEF ap, mine, end
<1>8. Increasing(c, ap)
  <2> SUFFICES ASSUME NEW i \in mine \cup {end}, NEW j \in mine \cup {end}, i < j
               PROVE  ap[i].n < ap[j].n
    BY <1>5, Zenon DEF Increasing
  <2>1. i \in mine
    <3>1. CASE i = end
      BY <1>5, <1>7, <3>1
    <3> QED
      BY <3>1
  <2>2. CASE j \in mine
    BY <1>5, <1>6, <2>1, <2>2, Zenon
  <2>3. CASE j = end
    BY <1>2, <1>4, <1>5, <1>6, <2>1, <2>3, Zenon
  <2> QED
    BY <2>2, <2>3, Zenon
<1>9. \A i \in mine \cup {end} : ap[i].n < AtMost(l, q2)
  <2>1. ap[end].n < AtMost(l, q2)
    BY <1>1, <1>2, <1>4, <1>5
  <2>2. ASSUME NEW i \in mine PROVE ap[i].n < AtMost(l, q2)
    <3>1. ap[i].n < AtMost(l, q) /\ ap[i].n \in Nat
      BY <1>3, <1>5, <1>6, Zenon
    <3> QED
      BY <1>1, <1>4, <3>1
  <2> QED
    BY <2>1, <2>2, Zenon
<1>10. /\ AtLeast(l, q2) <= NEntries(c, ap)
       /\ NEntries(c, ap) <= AtMost(l, q2)
  BY <1>1, <1>3, <1>4, <1>5, <1>6
<1>11. ListOK(c, ap, l, q2)
  BY <1>5, <1>8, <1>9, <1>10, Zenon DEF ListOK
<1> QED
  BY <1>11 DEF ap, t

\* The entry after a Put was performed.
After(e, req) == [value |-> req.value, version |-> e.version + 1]

\* A Put names the version of the key, and is performed.
LEMMA PutHits ==
    ASSUME NEW c, NEW p, NEW e, NEW l, NEW q, Known(c, p, e, l, q), q.req.type = "Put",
           q.outcome.err # "OK", q.req.version = e.version, e.version < MaxVersion
    PROVE  Moved(c, p, e, l, q, After(e, q.req), l, [q EXCEPT !.outcome = PutAnswer(e, q.req.version)])
<1> DEFINE q2 == [q EXCEPT !.outcome = PutAnswer(e, q.req.version)]
           e2 == After(e, q.req)
           value == ValueOf(c, p.name, l)
<1>1. /\ l.pc = "put" /\ q.req = Putting(value, l.ver) /\ q.req.version = l.ver
      /\ q.req.value = value /\ l.ver = e.version
  <2>1. l.pc = "put" /\ q.req = Putting(ValueOf(c, p.name, l), l.ver)
    BY KnownCall
  <2> QED
    BY <2>1, PuttingFields
<1>2. /\ c \in Client /\ l \in Local /\ q \in Calls /\ l.ver \in Nat /\ e \in Held /\ e.version \in Nat
      /\ l.nok \in Nat /\ l.nmaybe \in Nat /\ p \in ProgramType /\ p.name \in Programs
      /\ e.value \in Seq(Tuple) /\ q = [req |-> q.req, outcome |-> q.outcome]
  BY KnownTypes, Zenon
<1>3. /\ (p.name # "put" => l.err = "None")
      /\ (p.reliable => l.nmaybe = 0 /\ l.err # "ErrMaybe")
      /\ (p.name = "append" => l.val = e.value /\ ListOK(c, e.value, l, q))
      /\ (p.name = "least" => LeastOK(c, e, l, q)) /\ EntryOK(p.name, e)
  BY <1>1, Zenon DEF Known, ClientOK
<1>4. value \in Seq(Tuple)
  BY <1>2, ValueType, Zenon
<1>5. PutAnswer(e, q.req.version) = Answer("OK")
  BY DEF PutAnswer
<1>6. q2 = [req |-> q.req, outcome |-> Answer("OK")]
  BY <1>2, <1>5
<1>7. q2 \in Calls /\ q2.req = q.req /\ q2.outcome = Answer("OK") /\ q2.outcome.err = "OK"
  <2> HIDE DEF q2, value
  <2> QED
    BY <1>2, <1>6, Constants DEF Calls
<1>8. /\ e2.version = e.version + 1 /\ e2.value = value /\ e2.version \in Version /\ e2 \in Held
      /\ e2.version \in Nat /\ l.ver <= e2.version /\ l.ver # e2.version /\ e2.version # 0
  <2> HIDE DEF value
  <2>1. e2 = [value |-> value, version |-> e.version + 1]
    BY <1>1, Zenon DEF After
  <2>2. e.version + 1 \in Version
    BY <1>2, Constants
  <2> HIDE DEF e2
  <2> QED
    BY <1>1, <1>2, <1>4, <2>1, <2>2 DEF Held
<1> HIDE DEF q2, e2
<1>9. Sure(l, q2) = 1 /\ Perhaps(l, q2) = 1 /\ Sure(l, q) = 0 /\ Perhaps(l, q) = 0
  BY <1>1, <1>7, Zenon DEF Sure, Perhaps
<1>10. /\ AtLeast(l, q2) = AtLeast(l, q) + 1 /\ AtMost(l, q2) = AtMost(l, q) + 1
       /\ AtLeast(l, q) \in Nat /\ AtMost(l, q) \in Nat
  BY <1>2, <1>9 DEF AtLeast, AtMost
<1>11. EntryOK(p.name, e2)
  <2>1. CASE p.name = "put"
    <3>1. value = <<[id |-> c, n |-> l.ver]>>
      BY <2>1 DEF ValueOf
    <3>2. value # <<>> /\ value[1].n = l.ver
      BY <3>1
    <3> QED
      BY <1>1, <1>8, <2>1, <3>2, Zenon DEF EntryOK
  <2>2. CASE p.name = "append"
    <3>1. value = Append(l.val, [id |-> c, n |-> l.nok + l.nmaybe])
      BY <2>2 DEF ValueOf
    <3>2. Len(value) = Len(e.value) + 1 /\ Len(e.value) \in Nat
      BY <1>2, <1>3, <2>2, <3>1
    <3>3. Len(e.value) + 1 = e.version
      BY <1>3, <2>2, Zenon DEF EntryOK
    <3> QED
      BY <1>8, <2>2, <3>2, <3>3 DEF EntryOK
  <2>3. CASE p.name \notin {"put", "append"}
    BY <2>3, Zenon DEF EntryOK
  <2> QED
    BY <2>1, <2>2, <2>3, Zenon
<1>12. p.name = "append" => ListOK(c, e2.value, l, q2)
  <2> SUFFICES ASSUME p.name = "append" PROVE ListOK(c, e2.value, l, q2)
    OBVIOUS
  <2>1. e2.value = Append(e.value, [id |-> c, n |-> l.nok + l.nmaybe])
    BY <1>3, <1>8, Zenon DEF ValueOf
  <2> QED
    BY <1>2, <1>3, <1>7, <1>9, <2>1, ListGrows, Zenon
<1>13. p.name = "least" => LeastOK(c, e2, l, q2)
  <2> SUFFICES ASSUME p.name = "least" PROVE LeastOK(c, e2, l, q2)
    OBVIOUS
  <2>1. e2.value = ValueOf(c, "least", l) /\ l.ver + 1 = e2.version /\ q2.outcome # Nothing
    BY <1>1, <1>7, <1>8, Constants, Zenon
  <2>2. c = CHOOSE d \in Client : TRUE
    BY <1>1, <1>3, Zenon DEF LeastOK
  <2> QED
    BY <1>1, <1>7, <2>1, <2>2, Zenon DEF LeastOK
<1> HIDE DEF value
<1>14. CallOK(c, p.name, e2, l, q2)
  BY <1>1, <1>7, Zenon DEF CallOK, value
<1>15. ClientOK(c, p, e2, l, q2)
  BY <1>1, <1>3, <1>8, <1>12, <1>13, <1>14, Zenon DEF ClientOK
<1>16. Known(c, p, e2, l, q2)
  BY <1>2, <1>7, <1>8, <1>11, <1>15, Zenon DEF Known
<1>17. /\ AtLeast(l, q2) + e.version <= AtLeast(l, q) + e2.version
       /\ AtMost(l, q) + e2.version <= AtMost(l, q2) + e.version
  BY <1>2, <1>8, <1>10
<1>18. Moved(c, p, e, l, q, e2, l, q2)
  BY <1>16, <1>17, Zenon DEF Moved
<1> QED
  BY <1>18 DEF q2, e2

\* What the Put of client c is to another client d.
LEMMA OthersPut ==
    ASSUME NEW c, NEW d, c # d, NEW p, NEW e, NEW e2, NEW l, NEW q, NEW m, NEW r,
           Known(c, p, e, l, q), l.pc = "put", l.ver = e.version, Known(d, p, e, m, r),
           e2 \in Held, e2.version = e.version + 1, e2.value = ValueOf(c, p.name, l)
    PROVE  ClientOK(d, p, e2, m, r)
<1>1. /\ e.version \in Nat /\ m.ver \in Nat /\ e.value \in Seq(Tuple) /\ c \in Client /\ d \in Client /\ l.nok \in Nat
      /\ l.nmaybe \in Nat /\ m \in Local /\ r \in Calls /\ r.outcome \in Outcome
  BY KnownTypes, Zenon
<1>2. /\ m.ver <= e.version /\ CallOK(d, p.name, e, m, r)
      /\ (p.name # "put" => m.err = "None") /\ (p.reliable => m.nmaybe = 0 /\ m.err # "ErrMaybe")
      /\ (p.name = "append" => ListOK(d, e.value, m, r)) /\ (p.name = "least" => LeastOK(d, e, m, r))
  BY Zenon DEF Known, ClientOK
<1>3. m.ver <= e2.version /\ m.ver # e2.version /\ e2.version # 0
  BY <1>1, <1>2
<1>4. ASSUME Seen(p.name, e, r.outcome) PROVE Seen(p.name, e2, r.outcome)
  <2>1. r.outcome.version \in Nat
    BY <1>1, Constants, Zenon DEF Outcome
  <2>2. r.outcome.version <= e2.version /\ r.outcome.version # e2.version
    BY <1>1, <1>4, <2>1 DEF Seen
  <2> QED
    BY <1>4, <2>2, Zenon DEF Seen
<1>5. CallOK(d, p.name, e2, m, r)
  BY <1>2, <1>4, Zenon DEF CallOK
<1>6. p.name = "append" => ListOK(d, e2.value, m, r)
  <2> SUFFICES ASSUME p.name = "append" PROVE ListOK(d, e2.value, m, r)
    OBVIOUS
  <2> DEFINE t == [id |-> c, n |-> l.nok + l.nmaybe]
  <2>1. l.val = e.value
    BY Zenon DEF Known, ClientOK
  <2>2. e2.value = Append(e.value, t)
    BY <2>1 DEF ValueOf
  <2>3. t \in Tuple /\ t.id # d
    BY <1>1 DEF Tuple
  <2> HIDE DEF t
  <2>4. SameEntries(d, e.value, e2.value)
    BY <1>1, <2>2, <2>3, OthersEntry, Zenon
  <2>5. Increasing(d, e2.value)
    BY <1>2, <2>4, Zenon DEF ListOK, Increasing, SameEntries
  <2> QED
    BY <1>2, <2>4, <2>5, Zenon DEF ListOK, SameEntries
<1>7. p.name = "least" => LeastOK(d, e2, m, r)
  <2> SUFFICES ASSUME p.name = "least" PROVE LeastOK(d, e2, m, r)
    OBVIOUS
  <2>1. LeastOK(c, e, l, q)
    BY Zenon DEF Known, ClientOK
  <2>2. c = CHOOSE x \in Client : TRUE
    BY <2>1, Zenon DEF LeastOK
  <2>3. m.pc = "gone"
    BY <1>2, <2>2, Zenon DEF LeastOK
  <2> QED
    BY <2>3, Zenon DEF LeastOK
<1> QED
  BY <1>2, <1>3, <1>5, <1>6, <1>7, Zenon DEF ClientOK

\* A Get returns what the server answered, which it holds or held.
LEMMA GetReply ==
    ASSUME NEW c, NEW p, NEW e, NEW l, NEW q, Known(c, p, e, l, q), l.pc = "get",
           q.outcome # Nothing, NEW reply \in Answers(q)
    PROVE  reply = q.outcome /\ Seen(p.name, e, reply) /\ e.version # 0
<1>1. q.req = Getting /\ Seen(p.name, e, q.outcome)
  BY KnownCall, Zenon
<1>2. Getting.type # "Put"
  BY Constants, Zenon
<1>3. reply = q.outcome
  BY <1>1, <1>2, Zenon DEF Answers
<1>4. e.version # 0
  BY Zenon DEF Known, ClientOK
<1> QED
  BY <1>1, <1>3, <1>4, Zenon

\* A Put returns what the server answered, or ErrMaybe.
LEMMA PutReply ==
    ASSUME NEW c, NEW p, NEW e, NEW l, NEW q, Known(c, p, e, l, q), l.pc = "put",
           q.outcome # Nothing, NEW reply \in Answers(q)
    PROVE  /\ reply.err \in {"OK", "ErrVersion", "ErrMaybe"} /\ e.version # 0
           /\ reply.err = "OK" => q.outcome = Answer("OK")
           /\ q.outcome = Answer("OK") => reply.err \in {"OK", "ErrMaybe"}
           /\ q.outcome \in {Answer("OK"), Answer("ErrVersion")}
<1>1. q.outcome = Answer("OK") \/ q.outcome = Answer("ErrVersion")
  <2>1. q.outcome \in {Answer("OK"), Answer("ErrVersion")}
    BY KnownCall, Zenon
  <2> QED
    BY <2>1, Zenon
<1>2. reply = q.outcome \/ reply = Answer("ErrMaybe")
  BY Zenon DEF Answers
<1>3. \A err : Answer(err).err = err
  BY DEF Answer
<1>4. e.version # 0
  BY Zenon DEF Known, ClientOK
<1>5. \/ reply.err = "OK" /\ q.outcome = Answer("OK")
      \/ reply.err = "ErrVersion" /\ q.outcome = Answer("ErrVersion")
      \/ reply.err = "ErrMaybe"
  BY <1>1, <1>2, <1>3, Zenon
<1>6. reply.err = "ErrVersion" => q.outcome = Answer("ErrVersion")
  BY <1>5, Zenon
<1>7. Answer("OK") # Answer("ErrVersion")
  BY <1>3, Zenon
<1> QED
  BY <1>1, <1>4, <1>5, <1>6, <1>7, Zenon

\* Between two calls: what the counts of a client bound.
LEMMA FreeCounts ==
    ASSUME NEW l \in Local
    PROVE  /\ Sure(l, Free) = IF l.pc = "get" /\ l.err = "OK" THEN 1 ELSE 0
           /\ Perhaps(l, Free) = IF l.pc = "get" /\ l.err \in {"OK", "ErrMaybe"} THEN 1 ELSE 0
           /\ AtLeast(l, Free) = l.nok + Sure(l, Free) /\ AtMost(l, Free) = l.nok + l.nmaybe + Perhaps(l, Free)
           /\ Free.outcome = Nothing /\ Free \in Calls
<1>1. Free.outcome = Nothing /\ Free.outcome.err = "None" /\ Free \in Calls
  BY Constants, Zenon DEF Free
<1>2. /\ Sure(l, Free) = IF l.pc = "get" /\ l.err = "OK" THEN 1 ELSE 0
      /\ Perhaps(l, Free) = IF l.pc = "get" /\ l.err \in {"OK", "ErrMaybe"} THEN 1 ELSE 0
  BY <1>1 DEF Sure, Perhaps
<1> QED
  BY <1>1, <1>2, Zenon DEF AtLeast, AtMost

\* Between two calls, with no Put to be counted.
LEMMA FreeBounds ==
    ASSUME NEW l \in Local, l.pc # "get" \/ l.err = "None"
    PROVE  AtLeast(l, Free) = l.nok /\ AtMost(l, Free) = l.nok + l.nmaybe
<1>1. Sure(l, Free) = 0 /\ Perhaps(l, Free) = 0
  BY FreeCounts, Zenon
<1>2. AtLeast(l, Free) = l.nok + 0 /\ AtMost(l, Free) = l.nok + l.nmaybe + 0
  BY <1>1, FreeCounts, Zenon
<1>3. l.nok \in Nat /\ l.nmaybe \in Nat
  BY DEF Local
<1> QED
  BY <1>2, <1>3

\* A call returns, and the local variables of the client become l2.
LEMMA ReturnMoves ==
    ASSUME NEW c, NEW p, NEW e, NEW l, NEW q, Known(c, p, e, l, q), NEW l2 \in Local,
           p.name # "least" => AtLeast(l2, Free) <= AtLeast(l, q) /\ AtMost(l, q) <= AtMost(l2, Free),
           l2.ver <= e.version, e.version # 0, p.name # "put" => l2.err = "None",
           p.reliable => l2.nmaybe = 0 /\ l2.err # "ErrMaybe",
           p.name = "append" /\ l2.pc = "put" /\ l2.ver = e.version => l2.val = e.value,
           p.name = "least" => LeastOK(c, e, l2, Free)
    PROVE  Moved(c, p, e, l, q, e, l2, Free)
<1>1. CallOK(c, p.name, e, l2, Free)
  BY Zenon DEF CallOK
<1> QED
  BY <1>1, FreeCounts, SameEntry, Zenon

\* l2 is l with one more iteration, after an answer err, and at pc.
Advanced(l, pc, err, l2) ==
    /\ l2 \in Local /\ l2.pc = pc /\ l2.ver = l.ver /\ l2.val = l.val /\ l2.err = l.err
    /\ l2.nok = IF err = "OK" THEN l.nok + 1 ELSE l.nok
    /\ l2.nmaybe = IF err = "OK" THEN l.nmaybe ELSE l.nmaybe + 1

\* What Counted does.
LEMMA CountedIs ==
    ASSUME NEW l \in Local, NEW pc \in {"select", "put", "get", "report", "gone"}, NEW err
    PROVE  Advanced(l, pc, err, Counted([l EXCEPT !.pc = pc], err))
<1> DEFINE m == [l EXCEPT !.pc = pc]
<1>1. /\ m \in Local /\ m.pc = pc /\ m.ver = l.ver /\ m.val = l.val /\ m.err = l.err
      /\ m.nok = l.nok /\ m.nmaybe = l.nmaybe
  BY DEF Local
<1> HIDE DEF m
<1>2. ASSUME err = "OK" PROVE Advanced(l, pc, err, Counted(m, err))
  <2>1. Counted(m, err) = [m EXCEPT !.nok = @ + 1]
    BY <1>2, Zenon DEF Counted
  <2> DEFINE r == [m EXCEPT !.nok = @ + 1]
  <2>2. /\ r \in Local /\ r.pc = m.pc /\ r.ver = m.ver /\ r.val = m.val /\ r.err = m.err
        /\ r.nok = m.nok + 1 /\ r.nmaybe = m.nmaybe
    BY <1>1 DEF Local
  <2> HIDE DEF r
  <2> QED
    BY <1>1, <1>2, <2>1, <2>2, Zenon DEF Advanced, r
<1>3. ASSUME err # "OK" PROVE Advanced(l, pc, err, Counted(m, err))
  <2>1. Counted(m, err) = [m EXCEPT !.nmaybe = @ + 1]
    BY <1>3, Zenon DEF Counted
  <2> DEFINE r == [m EXCEPT !.nmaybe = @ + 1]
  <2>2. /\ r \in Local /\ r.pc = m.pc /\ r.ver = m.ver /\ r.val = m.val /\ r.err = m.err
        /\ r.nmaybe = m.nmaybe + 1 /\ r.nok = m.nok
    BY <1>1 DEF Local
  <2> HIDE DEF r
  <2> QED
    BY <1>1, <1>3, <2>1, <2>2, Zenon DEF Advanced, r
<1>4. Advanced(l, pc, err, Counted(m, err))
  BY <1>2, <1>3, Zenon
<1> QED
  BY <1>4 DEF m

\* OnePut: the Put returns.
LEMMA OnePutPuts ==
    ASSUME NEW c, NEW p, NEW e, NEW l, NEW q, Known(c, p, e, l, q), p.name = "put", l.pc = "put",
           q.outcome # Nothing, NEW reply \in Answers(q), p.reliable => reply.err # "ErrMaybe"
    PROVE  /\ reply.err \in {"OK", "ErrVersion", "ErrMaybe"}
           /\ Moved(c, p, e, l, q, e, [l EXCEPT !.pc = "get", !.err = reply.err], Free)
<1> DEFINE l2 == [l EXCEPT !.pc = "get", !.err = reply.err]
<1>1. /\ reply.err \in {"OK", "ErrVersion", "ErrMaybe"} /\ e.version # 0
      /\ reply.err = "OK" => q.outcome = Answer("OK")
      /\ q.outcome = Answer("OK") => reply.err \in {"OK", "ErrMaybe"}
      /\ q.outcome \in {Answer("OK"), Answer("ErrVersion")}
  BY PutReply, Zenon
<1>2. l \in Local /\ q \in Calls /\ l.nok \in Nat /\ l.nmaybe \in Nat
  BY KnownTypes, Zenon
<1>3. /\ l2 \in Local /\ l2.pc = "get" /\ l2.err = reply.err /\ l2.ver = l.ver /\ l2.val = l.val
      /\ l2.nok = l.nok /\ l2.nmaybe = l.nmaybe
  BY <1>1, <1>2, Zenon DEF Local
<1>4. l.ver <= e.version /\ (p.reliable => l.nmaybe = 0)
  BY Zenon DEF Known, ClientOK
<1> HIDE DEF l2
<1>5. /\ Sure(l, q) = IF q.outcome = Answer("OK") THEN 1 ELSE 0
      /\ Perhaps(l, q) = IF q.outcome = Answer("OK") THEN 1 ELSE 0
  BY <1>1, Constants, Zenon DEF Sure, Perhaps
<1>6. /\ Sure(l2, Free) = IF reply.err = "OK" THEN 1 ELSE 0
      /\ Perhaps(l2, Free) = IF reply.err \in {"OK", "ErrMaybe"} THEN 1 ELSE 0
      /\ AtLeast(l2, Free) = l.nok + Sure(l2, Free) /\ AtMost(l2, Free) = l.nok + l.nmaybe + Perhaps(l2, Free)
  BY <1>3, FreeCounts, Zenon
<1>7. AtLeast(l2, Free) <= AtLeast(l, q)
  BY <1>1, <1>2, <1>5, <1>6 DEF AtLeast
<1>8. AtMost(l, q) <= AtMost(l2, Free)
  BY <1>1, <1>2, <1>5, <1>6 DEF AtMost
<1>9. /\ l2.ver <= e.version /\ p.name # "append" /\ p.name # "least"
      /\ (p.reliable => l2.nmaybe = 0 /\ l2.err # "ErrMaybe")
  BY <1>3, <1>4, Zenon
<1>10. Moved(c, p, e, l, q, e, l2, Free)
  BY <1>1, <1>3, <1>7, <1>8, <1>9, ReturnMoves, Zenon
<1> QED
  BY <1>1, <1>10 DEF l2

\* What OnePut compares after the Get is as it should be.
PutRead(e, l, reply) ==
    /\ reply.err = "OK" /\ reply.version \in Version /\ reply.version <= e.version
    /\ reply.version = l.ver + 1 => Head(reply.value).n = l.ver

\* OnePut: the Get returns what it expects.
LEMMA OnePutReads ==
    ASSUME NEW c, NEW p, NEW e, NEW l, NEW q, Known(c, p, e, l, q), p.name = "put", l.pc = "get",
           q.outcome # Nothing, NEW reply \in Answers(q)
    PROVE  PutRead(e, l, reply)
<1>1. reply = q.outcome /\ Seen("put", e, reply)
  BY GetReply, Zenon
<1>2. reply \in Outcome /\ l.ver \in Nat
  BY <1>1, KnownTypes
<1>3. reply.version \in Version /\ reply.value \in Seq(Tuple)
  BY <1>2 DEF Outcome
<1>4. reply.err = "OK" /\ reply.version <= e.version /\ reply.value # <<>> /\ reply.value[1].n + 1 = reply.version
  BY <1>1, Zenon DEF Seen
<1>5. Head(reply.value) = reply.value[1] /\ reply.value[1] \in Tuple
  BY <1>3, <1>4
<1>6. reply.value[1].n \in Nat
  BY <1>5, Zenon DEF Tuple
<1>7. reply.version = l.ver + 1 => reply.value[1].n = l.ver
  BY <1>2, <1>4, <1>6
<1> QED
  BY <1>3, <1>4, <1>5, <1>7, Zenon DEF PutRead

\* OnePut: the Get returns, and a Put that was or may have been performed counts.
LEMMA OnePutGets ==
    ASSUME NEW c, NEW p, NEW e, NEW l, NEW q, Known(c, p, e, l, q), p.name = "put", l.pc = "get",
           NEW ver \in Version, ver <= e.version
    PROVE  LET seen == [l EXCEPT !.ver = ver]
           IN Moved(c, p, e, l, q, e,
                    IF l.err \in {"OK", "ErrMaybe"} THEN Counted([seen EXCEPT !.pc = "select"], l.err)
                    ELSE [seen EXCEPT !.pc = "put"], Free)
<1> DEFINE seen == [l EXCEPT !.ver = ver]
           l2 == IF l.err \in {"OK", "ErrMaybe"} THEN Counted([seen EXCEPT !.pc = "select"], l.err)
                 ELSE [seen EXCEPT !.pc = "put"]
<1>1. l \in Local /\ q \in Calls /\ l.nok \in Nat /\ l.nmaybe \in Nat /\ e.version # 0
  BY KnownTypes, Zenon DEF Known, ClientOK
<1>2. /\ l2 \in Local /\ l2.pc \in {"select", "put"} /\ l2.ver = ver /\ l2.err = l.err
      /\ l2.nok = IF l.err = "OK" THEN l.nok + 1 ELSE l.nok
      /\ l2.nmaybe = IF l.err = "ErrMaybe" THEN l.nmaybe + 1 ELSE l.nmaybe
  <2>1. seen \in Local /\ seen.ver = ver /\ seen.err = l.err /\ seen.nok = l.nok /\ seen.nmaybe = l.nmaybe
    BY <1>1 DEF Local
  <2> HIDE DEF seen
  <2>2. CASE l.err \in {"OK", "ErrMaybe"}
    <3>1. l2 = Counted([seen EXCEPT !.pc = "select"], l.err)
      BY <2>2
    <3>2. Advanced(seen, "select", l.err, l2)
      BY <2>1, <3>1, CountedIs, Zenon
    <3> HIDE DEF l2
    <3> QED
      BY <2>1, <2>2, <3>2, Zenon DEF Advanced
  <2>4. CASE l.err \notin {"OK", "ErrMaybe"}
    BY <1>1, <2>1, <2>4, Zenon DEF Local
  <2> QED
    BY <2>2, <2>4
<1>3. p.reliable => l.nmaybe = 0 /\ l.err # "ErrMaybe"
  BY DEF Known, ClientOK
<1> HIDE DEF l2
<1>4. /\ Sure(l, q) = IF l.err = "OK" THEN 1 ELSE 0
      /\ Perhaps(l, q) = IF l.err \in {"OK", "ErrMaybe"} THEN 1 ELSE 0
  BY Zenon DEF Sure, Perhaps
<1>5. AtLeast(l2, Free) = l2.nok /\ AtMost(l2, Free) = l2.nok + l2.nmaybe
  BY <1>2, FreeCounts DEF Local
<1>6. AtLeast(l2, Free) <= AtLeast(l, q)
  BY <1>1, <1>2, <1>4, <1>5 DEF AtLeast
<1>7. AtMost(l, q) <= AtMost(l2, Free)
  BY <1>1, <1>2, <1>4, <1>5 DEF AtMost
<1>8. /\ l2.ver <= e.version /\ p.name # "append" /\ p.name # "least"
      /\ (p.reliable => l2.nmaybe = 0 /\ l2.err # "ErrMaybe")
  BY <1>2, <1>3, Zenon
<1>9. Moved(c, p, e, l, q, e, l2, Free)
  BY <1>1, <1>2, <1>6, <1>7, <1>8, ReturnMoves, Zenon
<1> QED
  BY <1>9 DEF l2

\* OneClientAppend: the Get returns the list and its version.
LEMMA AppendGets ==
    ASSUME NEW c, NEW p, NEW e, NEW l, NEW q, Known(c, p, e, l, q), p.name = "append", l.pc = "get",
           q.outcome # Nothing, NEW reply \in Answers(q)
    PROVE  /\ reply.err = "OK"
           /\ Moved(c, p, e, l, q, e, [l EXCEPT !.pc = "put", !.ver = reply.version, !.val = reply.value], Free)
<1> DEFINE l2 == [l EXCEPT !.pc = "put", !.ver = reply.version, !.val = reply.value]
<1>1. reply = q.outcome /\ Seen("append", e, reply) /\ e.version # 0
  BY GetReply, Zenon
<1>2. /\ reply \in Outcome /\ l \in Local /\ q \in Calls /\ l.nok \in Nat /\ l.nmaybe \in Nat
  BY <1>1, KnownTypes, Zenon
<1>3. reply.version \in Version /\ reply.value \in Seq(Tuple)
  BY <1>2, Zenon DEF Outcome
<1>4. /\ reply.err = "OK" /\ reply.version <= e.version
      /\ reply.version = e.version => reply.value = e.value
  BY <1>1 DEF Seen
<1>5. /\ l2 \in Local /\ l2.pc = "put" /\ l2.ver = reply.version /\ l2.val = reply.value /\ l2.err = l.err
      /\ l2.nok = l.nok /\ l2.nmaybe = l.nmaybe
  BY <1>2, <1>3, Zenon DEF Local
<1>6. l.err = "None" /\ (p.reliable => l.nmaybe = 0)
  BY Zenon DEF Known, ClientOK
<1> HIDE DEF l2
<1>7. Sure(l, q) = 0 /\ Perhaps(l, q) = 0
  BY <1>6, Zenon DEF Sure, Perhaps
<1>8. AtLeast(l2, Free) = l2.nok /\ AtMost(l2, Free) = l2.nok + l2.nmaybe
  BY <1>5, <1>6, FreeBounds, Zenon
<1>9. AtLeast(l2, Free) <= AtLeast(l, q) /\ AtMost(l, q) <= AtMost(l2, Free)
  <2>1. AtLeast(l2, Free) = l.nok /\ AtMost(l2, Free) = l.nok + l.nmaybe
    BY <1>5, <1>8, Zenon
  <2>2. AtLeast(l, q) = l.nok + 0 /\ AtMost(l, q) = l.nok + l.nmaybe + 0
    BY <1>7, Zenon DEF AtLeast, AtMost
  <2> QED
    BY <1>2, <2>1, <2>2
<1>10. /\ l2.ver <= e.version /\ l2.err = "None" /\ p.name # "least"
       /\ (p.reliable => l2.nmaybe = 0 /\ l2.err # "ErrMaybe")
       /\ (l2.ver = e.version => l2.val = e.value)
  BY <1>4, <1>5, <1>6, Zenon
<1>11. Moved(c, p, e, l, q, e, l2, Free)
  BY <1>1, <1>5, <1>9, <1>10, ReturnMoves, Zenon
<1> QED
  BY <1>4, <1>11 DEF l2

\* OneClientAppend: the Put returns; it counts, or there is another try.
LEMMA AppendPuts ==
    ASSUME NEW c, NEW p, NEW e, NEW l, NEW q, Known(c, p, e, l, q), p.name = "append", l.pc = "put",
           q.outcome # Nothing, NEW reply \in Answers(q), p.reliable => reply.err # "ErrMaybe"
    PROVE  Moved(c, p, e, l, q, e,
                 IF reply.err \in {"OK", "ErrMaybe"} THEN Counted([l EXCEPT !.pc = "select"], reply.err)
                 ELSE [l EXCEPT !.pc = "get"], Free)
<1> DEFINE l2 == IF reply.err \in {"OK", "ErrMaybe"} THEN Counted([l EXCEPT !.pc = "select"], reply.err)
                 ELSE [l EXCEPT !.pc = "get"]
<1>1. /\ reply.err \in {"OK", "ErrVersion", "ErrMaybe"} /\ e.version # 0
      /\ reply.err = "OK" => q.outcome = Answer("OK")
      /\ q.outcome = Answer("OK") => reply.err \in {"OK", "ErrMaybe"}
      /\ q.outcome \in {Answer("OK"), Answer("ErrVersion")}
  BY PutReply, Zenon
<1>2. l \in Local /\ q \in Calls /\ l.nok \in Nat /\ l.nmaybe \in Nat
  BY KnownTypes, Zenon
<1>3. /\ l2 \in Local /\ l2.pc \in {"select", "get"} /\ l2.ver = l.ver /\ l2.err = l.err
      /\ l2.nok = IF reply.err = "OK" THEN l.nok + 1 ELSE l.nok
      /\ l2.nmaybe = IF reply.err = "ErrMaybe" THEN l.nmaybe + 1 ELSE l.nmaybe
  <2>1. CASE reply.err \in {"OK", "ErrMaybe"}
    <3>1. l2 = Counted([l EXCEPT !.pc = "select"], reply.err)
      BY <2>1
    <3> HIDE DEF l2
    <3>2. Advanced(l, "select", reply.err, Counted([l EXCEPT !.pc = "select"], reply.err))
      BY <1>2, CountedIs, Zenon
    <3>3. Advanced(l, "select", reply.err, l2)
      BY <3>1, <3>2, Zenon
<3> QED
      BY <2>1, <3>3, Zenon DEF Advanced
  <2>2. CASE reply.err \notin {"OK", "ErrMaybe"}
    BY <1>2, <2>2 DEF Local
  <2> QED
    BY <2>1, <2>2
<1>4. l.ver <= e.version /\ l.err = "None" /\ (p.reliable => l.nmaybe = 0)
  BY Zenon DEF Known, ClientOK
<1> HIDE DEF l2
<1>5. /\ Sure(l, q) = IF q.outcome = Answer("OK") THEN 1 ELSE 0
      /\ Perhaps(l, q) = IF q.outcome = Answer("OK") THEN 1 ELSE 0
  BY <1>1, Constants, Zenon DEF Sure, Perhaps
<1>6. AtLeast(l2, Free) = l2.nok /\ AtMost(l2, Free) = l2.nok + l2.nmaybe
  BY <1>3, <1>4, FreeBounds, Zenon
<1>7. AtLeast(l2, Free) <= AtLeast(l, q)
  BY <1>1, <1>2, <1>3, <1>5, <1>6 DEF AtLeast
<1>8. AtMost(l, q) <= AtMost(l2, Free)
  BY <1>1, <1>2, <1>3, <1>5, <1>6 DEF AtMost
<1>9. /\ l2.ver <= e.version /\ l2.err = "None" /\ p.name # "least" /\ l2.pc # "put"
      /\ (p.reliable => l2.nmaybe = 0 /\ l2.err # "ErrMaybe")
  BY <1>3, <1>4, Zenon
<1>10. Moved(c, p, e, l, q, e, l2, Free)
  BY <1>1, <1>3, <1>7, <1>8, <1>9, ReturnMoves, Zenon
<1> QED
  BY <1>10 DEF l2

\* PutAtLeastOnce: the Put was performed, whatever it returned.
LEMMA LeastPuts ==
    ASSUME NEW c, NEW p, NEW e, NEW l, NEW q, Known(c, p, e, l, q), p.name = "least", l.pc = "put",
           q.outcome # Nothing, NEW reply \in Answers(q), NEW pc \in {"put", "get"}
    PROVE  /\ reply.err \in {"OK", "ErrMaybe"}
           /\ Moved(c, p, e, l, q, e, [l EXCEPT !.pc = pc, !.ver = @ + 1], Free)
<1> DEFINE l2 == [l EXCEPT !.pc = pc, !.ver = @ + 1]
<1>1. /\ l.err = "None" /\ (p.reliable => l.nmaybe = 0) /\ LeastOK(c, e, l, q)
  BY Zenon DEF Known, ClientOK
<1>2. q.outcome = Answer("OK") /\ l.ver + 1 = e.version /\ e.value = ValueOf(c, "least", l)
  BY <1>1, Zenon DEF LeastOK
<1>3. reply.err \in {"OK", "ErrMaybe"} /\ e.version # 0
  BY <1>2, PutReply, Zenon
<1>4. l \in Local /\ q \in Calls /\ e.version \in Version /\ l.ver \in Nat /\ e.version \in Nat
  BY KnownTypes, Zenon
<1>5. /\ l2 \in Local /\ l2.pc = pc /\ l2.ver = l.ver + 1 /\ l2.err = l.err
      /\ l2.nok = l.nok /\ l2.nmaybe = l.nmaybe
  BY <1>2, <1>4, Zenon DEF Local
<1> HIDE DEF l2
<1>6. ValueOf(c, "least", l2) = ValueOf(c, "least", l)
  BY <1>5 DEF ValueOf
<1>7. c = CHOOSE d \in Client : TRUE
  BY <1>1, Zenon DEF LeastOK
<1>8. LeastOK(c, e, l2, Free)
  BY <1>2, <1>5, <1>6, <1>7, FreeCounts, Zenon DEF LeastOK
<1>9. /\ l2.ver <= e.version /\ l2.err = "None" /\ p.name # "append"
      /\ (p.reliable => l2.nmaybe = 0 /\ l2.err # "ErrMaybe")
  BY <1>1, <1>2, <1>4, <1>5
<1>10. Moved(c, p, e, l, q, e, l2, Free)
  BY <1>3, <1>5, <1>8, <1>9, ReturnMoves, Zenon
<1> QED
  BY <1>3, <1>10 DEF l2

\* CheckGet reads what was put.
LEMMA LeastReads ==
    ASSUME NEW c, NEW p, NEW e, NEW l, NEW q, Known(c, p, e, l, q), p.name = "least", l.pc = "get",
           q.outcome # Nothing, NEW reply \in Answers(q)
    PROVE  reply = [value |-> ValueOf(c, "least", l), version |-> l.ver, err |-> "OK"]
<1>1. LeastOK(c, e, l, q)
  BY Zenon DEF Known, ClientOK
<1>2. q.outcome = ReadOf(e) /\ l.ver = e.version /\ e.value = ValueOf(c, "least", l)
  BY <1>1, Zenon DEF LeastOK
<1>3. reply = q.outcome /\ e.version # 0
  BY GetReply, Zenon
<1>4. e # Missing
  BY <1>3 DEF Missing
<1>5. ReadOf(e) = [value |-> e.value, version |-> e.version, err |-> "OK"]
  BY <1>4, Zenon DEF ReadOf
<1> QED
  BY <1>2, <1>3, <1>5, Zenon

\* CheckGet goes on.
LEMMA LeastGets ==
    ASSUME NEW c, NEW p, NEW e, NEW l, NEW q, Known(c, p, e, l, q), p.name = "least", l.pc = "get",
           q.outcome # Nothing, NEW pc \in {"put", "gone"}
    PROVE  Moved(c, p, e, l, q, e, Counted([l EXCEPT !.pc = pc], "OK"), Free)
<1> DEFINE l2 == Counted([l EXCEPT !.pc = pc], "OK")
<1>1. /\ l.err = "None" /\ (p.reliable => l.nmaybe = 0) /\ LeastOK(c, e, l, q) /\ l.ver <= e.version
      /\ e.version # 0
  BY Zenon DEF Known, ClientOK
<1>2. q.outcome = ReadOf(e) /\ l.ver = e.version /\ e.value = ValueOf(c, "least", l)
  BY <1>1, Zenon DEF LeastOK
<1>3. l \in Local /\ q \in Calls /\ e.version \in Nat
  BY KnownTypes, Zenon
<1>4. Advanced(l, pc, "OK", l2)
  BY <1>3, CountedIs, Zenon
<1> HIDE DEF l2
<1>5. l2 \in Local /\ l2.pc = pc /\ l2.ver = l.ver /\ l2.err = l.err /\ l2.nmaybe = l.nmaybe
  BY <1>4, Zenon DEF Advanced
<1>6. c = CHOOSE d \in Client : TRUE
  BY <1>1, Zenon DEF LeastOK
<1>7. LeastOK(c, e, l2, Free)
  BY <1>2, <1>5, <1>6, FreeCounts, Zenon DEF LeastOK
<1>8. /\ l2.ver <= e.version /\ l2.err = "None" /\ p.name # "append"
       /\ (p.reliable => l2.nmaybe = 0 /\ l2.err # "ErrMaybe")
  BY <1>1, <1>5, Zenon
<1>9. Moved(c, p, e, l, q, e, l2, Free)
  BY <1>1, <1>5, <1>7, <1>8, ReturnMoves, Zenon
<1> QED
  BY <1>9 DEF l2

-----------------------------------------------------------------------------
(* The steps of the test. *)

\* The invariant, client by client.
LEMMA KnownOf ==
    ASSUME KVInv
    PROVE  \A c \in Client : Known(c, program, store[k], clnt[c], pending[c])
<1>1. program \in ProgramType /\ clnt \in [Client -> Local] /\ store \in [Key -> Held] /\ pending \in [Client -> Calls]
  BY Zenon DEF KVInv, KVTypes, KVTestTypeOK, ProgramType, Local, Tuple
<1>2. store[k] \in Held
  BY <1>1, Constants, Zenon
<1> QED
  BY <1>1, <1>2, Zenon DEF KVInv, Known

\* The types, from the outside.
LEMMA KVTypesAre ==
    KVTypes <=> /\ program \in ProgramType /\ clnt \in [Client -> Local]
                /\ spawner \in {"idle", "sleep", "signal", "collect", "check", "returned"}
                /\ res \in [nok : Nat, nmaybe : Nat] /\ fatal \in BOOLEAN
                /\ store \in [Key -> Held] /\ pending \in [Client -> Calls]
  BY Zenon DEF KVTypes, KVTestTypeOK, ProgramType, Local, Tuple

\* The bounds are functions.
LEMMA BoundTypes ==
    ASSUME NEW l \in [Client -> Local], NEW q \in [Client -> Calls]
    PROVE  /\ [c \in Client |-> AtLeast(l[c], q[c])] \in [Client -> Nat]
           /\ [c \in Client |-> AtMost(l[c], q[c])] \in [Client -> Nat]
<1>1. \A c \in Client : AtLeast(l[c], q[c]) \in Nat /\ AtMost(l[c], q[c]) \in Nat
  BY CountTypes, Zenon
<1> QED
  BY <1>1, Zenon

\* f and g are the same but for client c.
OnlyAt(c, f, g) == \A d \in Client : d # c => g[d] = f[d]

\* What is summed up stays below the version.
LEMMA LowerKept ==
    ASSUME NEW f \in [Client -> Nat], NEW g \in [Client -> Nat], NEW c \in Client, OnlyAt(c, f, g),
           NEW v \in Nat, NEW w \in Nat, NEW base \in Nat,
           g[c] + v <= f[c] + w, base + SumOf(f, nclnt) <= v
    PROVE  base + SumOf(g, nclnt) <= w
<1>1. SumOf(f, nclnt) \in Nat /\ SumOf(g, nclnt) \in Nat /\ f[c] \in Nat /\ g[c] \in Nat
  BY SumNat, Zenon
<1>2. SumOf(g, nclnt) + f[c] = SumOf(f, nclnt) + g[c]
  BY SumChange, Zenon DEF OnlyAt
<1> QED
  BY <1>1, <1>2

\* What is summed up stays above the version.
LEMMA UpperKept ==
    ASSUME NEW f \in [Client -> Nat], NEW g \in [Client -> Nat], NEW c \in Client, OnlyAt(c, f, g),
           NEW v \in Nat, NEW w \in Nat, NEW base \in Nat,
           f[c] + w <= g[c] + v, v <= base + SumOf(f, nclnt)
    PROVE  w <= base + SumOf(g, nclnt)
<1>1. SumOf(f, nclnt) \in Nat /\ SumOf(g, nclnt) \in Nat /\ f[c] \in Nat /\ g[c] \in Nat
  BY SumNat, Zenon
<1>2. SumOf(g, nclnt) + f[c] = SumOf(f, nclnt) + g[c]
  BY SumChange, Zenon DEF OnlyAt
<1> QED
  BY <1>1, <1>2

\* A step of client c, in which its variables become l2, its call q2 and the
\* entry of the key e2.
LEMMA StepKeeps ==
    ASSUME KVInv, NEW c \in Client, NEW e2, NEW l2, NEW q2,
           clnt' = [clnt EXCEPT ![c] = l2], pending' = [pending EXCEPT ![c] = q2],
           store' = [store EXCEPT ![k] = e2], UNCHANGED <<program, res, fatal>>,
           Moved(c, program, store[k], clnt[c], pending[c], e2, l2, q2),
           \A d \in Client : d # c => ClientOK(d, program, e2, clnt[d], pending[d]),
           Running("put") => Counting /\ Counting',
           spawner' \in {"idle", "sleep", "signal", "collect", "check", "returned"}, SpawnInv'
    PROVE  KVInv'
<1>1. /\ program \in ProgramType /\ clnt \in [Client -> Local] /\ res \in [nok : Nat, nmaybe : Nat]
      /\ fatal \in BOOLEAN /\ store \in [Key -> Held] /\ pending \in [Client -> Calls] /\ fatal = FALSE
  BY KVTypesAre, Zenon DEF KVInv
<1>2. Known(c, program, e2, l2, q2)
  BY Zenon DEF Moved
<1>3. e2 \in Held /\ l2 \in Local /\ q2 \in Calls /\ EntryOK(program.name, e2) /\ ClientOK(c, program, e2, l2, q2)
  BY <1>2, Zenon DEF Known
<1>4. store' \in [Key -> Held] /\ store'[k] = e2
  BY <1>1, <1>3, Constants, Zenon
<1>5. clnt' \in [Client -> Local] /\ pending' \in [Client -> Calls]
  BY <1>1, <1>3, Zenon
<1>6. /\ clnt'[c] = l2 /\ pending'[c] = q2
      /\ \A d \in Client : d # c => clnt'[d] = clnt[d] /\ pending'[d] = pending[d]
  BY <1>1, Zenon
<1>7. KVTypes'
  <2>1. program' \in ProgramType /\ res' \in [nok : Nat, nmaybe : Nat] /\ fatal' \in BOOLEAN
    BY <1>1, Zenon
  <2> QED
    BY <1>4, <1>5, <2>1, KVTypesAre, Zenon DEF KVTypes, KVTestTypeOK, ProgramType, Local, Tuple
<1>8. \A d \in Client : ClientOK(d, program', store'[k], clnt'[d], pending'[d])
  BY <1>3, <1>4, <1>6, Zenon
<1>9. PutsBalance'
  <2> SUFFICES ASSUME Running("put"), program.name = "put"
               PROVE  /\ res.nok + SumOf(Lower', nclnt) <= e2.version
                      /\ e2.version <= res.nok + res.nmaybe + SumOf(Upper', nclnt)
    BY <1>4, Zenon DEF PutsBalance, Running
  <2> DEFINE f == Lower
             g == Lower'
             m == Upper
             n == Upper'
             e == store[k]
             base == res.nok + res.nmaybe
  <2>1. f \in [Client -> Nat] /\ g \in [Client -> Nat] /\ m \in [Client -> Nat] /\ n \in [Client -> Nat]
    <3>1. f \in [Client -> Nat] /\ m \in [Client -> Nat]
      BY <1>1, BoundTypes, Zenon DEF Lower, Upper
    <3>2. g \in [Client -> Nat] /\ n \in [Client -> Nat]
      BY <1>5, BoundTypes, Zenon DEF Lower, Upper
    <3> QED
      BY <3>1, <3>2, Zenon
  <2>2. OnlyAt(c, f, g) /\ OnlyAt(c, m, n)
    BY <1>6 DEF Lower, Upper, OnlyAt
  <2>3. /\ f[c] = AtLeast(clnt[c], pending[c]) /\ g[c] = AtLeast(l2, q2)
        /\ m[c] = AtMost(clnt[c], pending[c]) /\ n[c] = AtMost(l2, q2)
    BY <1>6, Zenon DEF Lower, Upper
  <2>4. g[c] + e.version <= f[c] + e2.version /\ m[c] + e2.version <= n[c] + e.version
    BY <2>3, Zenon DEF Moved
  <2>5. e.version \in Nat /\ e2.version \in Nat /\ res.nok \in Nat /\ base \in Nat
    <3>1. Known(c, program, e, clnt[c], pending[c])
      BY KnownOf, Zenon
    <3>2. e.version \in Nat /\ e2.version \in Nat
      BY <1>2, <3>1, KnownTypes, Zenon
    <3> QED
      BY <1>1, <3>2
  <2>6. res.nok + SumOf(f, nclnt) <= e.version /\ e.version <= base + SumOf(m, nclnt)
    BY Zenon DEF KVInv, PutsBalance
  <2> HIDE DEF f, g, m, n, e, base
  <2>7. res.nok + SumOf(g, nclnt) <= e2.version
    BY <2>1, <2>2, <2>4, <2>5, <2>6, LowerKept, Zenon
  <2>8. e2.version <= base + SumOf(n, nclnt)
    BY <2>1, <2>2, <2>4, <2>5, <2>6, UpperKept, Zenon
  <2> QED
    BY <2>7, <2>8, Zenon DEF g, n, base
<1> QED
  BY <1>1, <1>3, <1>4, <1>7, <1>8, <1>9, Zenon DEF KVInv

\* A client that runs is waited for.
LEMMA ClientRuns ==
    ASSUME KVInv, NEW c \in Client, clnt[c].pc # "gone"
    PROVE  Counting /\ spawner # "check" /\ main = "wait"
  BY DEF KVInv, SpawnInv, Counting

\* A step of a client that the spawning goroutine does not take part in.
LEMMA ClientKeeps ==
    ASSUME KVInv, NEW c \in Client, clnt[c].pc # "gone", NEW e2, NEW l2, NEW q2,
           clnt' = [clnt EXCEPT ![c] = l2], pending' = [pending EXCEPT ![c] = q2],
           store' = [store EXCEPT ![k] = e2], UNCHANGED <<program, res, fatal, spawner, main>>,
           Moved(c, program, store[k], clnt[c], pending[c], e2, l2, q2),
           \A d \in Client : d # c => ClientOK(d, program, e2, clnt[d], pending[d])
    PROVE  KVInv'
<1>1. Counting /\ spawner # "check" /\ main = "wait"
  BY ClientRuns, Zenon
<1>2. Counting'
  BY <1>1, Zenon DEF Counting
<1>3. program.reliable => res.nmaybe = 0
  BY Zenon DEF KVInv, SpawnInv
<1>4. SpawnInv'
  BY <1>1, <1>2, <1>3 DEF SpawnInv
<1>5. spawner' \in {"idle", "sleep", "signal", "collect", "check", "returned"}
  BY KVTypesAre, Zenon DEF KVInv
<1> QED
  BY <1>1, <1>2, <1>4, <1>5, StepKeeps, Zenon

\* The same, when the store stays as it is.
LEMMA LocalKeeps ==
    ASSUME KVInv, NEW c \in Client, clnt[c].pc # "gone", NEW l2, NEW q2,
           clnt' = [clnt EXCEPT ![c] = l2], pending' = [pending EXCEPT ![c] = q2],
           UNCHANGED <<store, program, res, fatal, spawner, main>>,
           Moved(c, program, store[k], clnt[c], pending[c], store[k], l2, q2)
    PROVE  KVInv'
<1>1. store' = [store EXCEPT ![k] = store[k]]
  BY KVTypesAre, Constants, Zenon DEF KVInv
<1>2. \A d \in Client : ClientOK(d, program, store[k], clnt[d], pending[d])
  BY Zenon DEF KVInv
<1> QED
  BY <1>1, <1>2, ClientKeeps, Zenon

\* NewValue is ValueOf.
LEMMA NewValueIs ==
    ASSUME NEW c \in Client
    PROVE  NewValue(c) = ValueOf(c, program.name, clnt[c])
  BY DEF NewValue, ValueOf, Running, Iteration

\* A function does not change when it is given the value it has.
LEMMA SameFunction ==
    ASSUME NEW S, NEW T, NEW f \in [S -> T], NEW x \in S
    PROVE  f = [f EXCEPT ![x] = f[x]]
  OBVIOUS

\* clnt and pending are functions on the clients.
LEMMA ClientFunctions ==
    ASSUME KVInv, NEW c \in Client
    PROVE  /\ clnt = [clnt EXCEPT ![c] = clnt[c]] /\ pending = [pending EXCEPT ![c] = pending[c]]
           /\ clnt \in [Client -> Local] /\ pending \in [Client -> Calls] /\ store \in [Key -> Held]
           /\ Known(c, program, store[k], clnt[c], pending[c])
<1>1. clnt \in [Client -> Local] /\ pending \in [Client -> Calls] /\ store \in [Key -> Held]
  BY KVTypesAre, Zenon DEF KVInv
<1>2. clnt = [clnt EXCEPT ![c] = clnt[c]] /\ pending = [pending EXCEPT ![c] = pending[c]]
  BY <1>1, SameFunction, Zenon
<1> QED
  BY <1>1, <1>2, KnownOf, Zenon

\* The default case of a client's select.
LEMMA SelectKeeps ==
    ASSUME KVInv, NEW c \in Client, Select(c), UNCHANGED main
    PROVE  KVInv'
<1> DEFINE pc == IF Running("append") THEN "get" ELSE "put"
<1>1. /\ clnt[c].pc = "select" /\ clnt' = [clnt EXCEPT ![c] = [clnt[c] EXCEPT !.pc = pc]]
      /\ UNCHANGED <<store, pending, program, res, fatal, spawner, main>>
  BY DEF Select, Update, kvVars
<1>2. Known(c, program, store[k], clnt[c], pending[c]) /\ pending = [pending EXCEPT ![c] = pending[c]]
  BY ClientFunctions, Zenon
<1>3. program.name # "least" /\ program.name \in Programs
  BY <1>1, <1>2, KnownTypes, Zenon DEF Known, ClientOK, LeastOK
<1>4. pc \in {"get", "put"} /\ (pc = "get" => program.name = "append") /\ (pc = "put" => program.name = "put")
  BY <1>3, Zenon DEF Running, Programs
<1> HIDE DEF pc
<1>5. Moved(c, program, store[k], clnt[c], pending[c], store[k], [clnt[c] EXCEPT !.pc = pc], pending[c])
  BY <1>1, <1>2, <1>4, PcMoves, Zenon
<1>6. clnt[c].pc # "gone" /\ pending' = [pending EXCEPT ![c] = pending[c]]
  BY <1>1, <1>2
<1> QED
  BY <1>1, <1>5, <1>6, LocalKeeps, Zenon

\* GetJson and PutJson call the clerk.
LEMMA CallKeeps ==
    ASSUME KVInv, NEW c \in Client, Call(c), UNCHANGED main
    PROVE  KVInv'
<1>1. PICK req : /\ \/ clnt[c].pc = "get" /\ req = Getting
                    \/ clnt[c].pc = "put" /\ req = Putting(ValueOf(c, program.name, clnt[c]), clnt[c].ver)
                 /\ pending[c].req = Idle
                 /\ pending' = [pending EXCEPT ![c] = [req |-> req, outcome |-> Nothing]]
                 /\ UNCHANGED <<store, clnt, program, res, fatal, spawner, main>>
  <2>1. NewValue(c) = ValueOf(c, program.name, clnt[c])
    BY NewValueIs, Zenon
  <2>2. UNCHANGED <<clnt, program, res, fatal, spawner>>
    BY Zenon DEF Call, testVars
  <2>3. CASE clnt[c].pc = "get" /\ Invoke(c, Getting)
    BY <2>2, <2>3, Zenon DEF Invoke
  <2>4. CASE clnt[c].pc = "put" /\ Invoke(c, Putting(NewValue(c), clnt[c].ver))
    BY <2>1, <2>2, <2>4, Zenon DEF Invoke
  <2> QED
    BY <2>3, <2>4, Zenon DEF Call, Getting, Putting
<1>2. Known(c, program, store[k], clnt[c], pending[c]) /\ clnt' = [clnt EXCEPT ![c] = clnt[c]]
  BY <1>1, ClientFunctions, Zenon
<1>3. Moved(c, program, store[k], clnt[c], pending[c], store[k], clnt[c], [req |-> req, outcome |-> Nothing])
  BY <1>1, <1>2, CallMoves, Zenon
<1>4. clnt[c].pc # "gone"
  BY <1>1, Zenon
<1> QED
  BY <1>1, <1>2, <1>3, <1>4, LocalKeeps, Zenon

\* The service performs a call.
LEMMA ServeKeeps ==
    ASSUME KVInv, NEW c \in Client, Serve(c), UNCHANGED main
    PROVE  KVInv'
<1> DEFINE e == store[k]
           l == clnt[c]
           q == pending[c]
<1>1. UNCHANGED <<clnt, program, res, fatal, spawner, main>>
  BY Zenon DEF Serve, testVars
<1>2. /\ Known(c, program, e, l, q) /\ clnt' = [clnt EXCEPT ![c] = l]
      /\ pending \in [Client -> Calls] /\ store \in [Key -> Held]
  BY <1>1, ClientFunctions, Zenon
<1>3. ASSUME q.req.type = "Get", pending' = [pending EXCEPT ![c].outcome = ReadOf(store[q.req.key])], UNCHANGED store
      PROVE  KVInv'
  <2>1. q.req = Getting /\ Moved(c, program, e, l, q, e, l, [q EXCEPT !.outcome = ReadOf(e)])
    BY <1>2, <1>3, GetMoves, Zenon
  <2>2. q.req.key = k
    BY <2>1 DEF Getting
  <2>3. pending' = [pending EXCEPT ![c] = [q EXCEPT !.outcome = ReadOf(e)]]
    BY <1>3, <2>2
  <2>4. l.pc # "gone"
    <3>1. l.pc = "get"
      BY <1>2, <1>3, KnownCall
    <3> QED
      BY <3>1, Zenon
  <2> QED
    BY <1>1, <1>2, <1>3, <2>1, <2>3, <2>4, LocalKeeps, Zenon
<1>4. ASSUME q.req.type = "Put", q.outcome.err # "OK",
             PutAnswer(store[q.req.key], q.req.version).err = "OK" => store[q.req.key].version < MaxVersion,
             pending' = [pending EXCEPT ![c].outcome = PutAnswer(store[q.req.key], q.req.version)],
             store' = IF q.req.version = store[q.req.key].version
                      THEN [store EXCEPT ![q.req.key] = [value |-> q.req.value, version |-> @.version + 1]]
                      ELSE store
      PROVE  KVInv'
  <2>1. l.pc = "put" /\ q.req = Putting(ValueOf(c, program.name, l), l.ver)
    BY <1>2, <1>4, KnownCall
  <2>2. /\ q.req.key = k /\ q.req.version = l.ver /\ q.req.value = ValueOf(c, program.name, l) /\ l.pc # "gone"
    <3> DEFINE value == ValueOf(c, program.name, l)
    <3> HIDE DEF value, l, q
    <3>1. /\ Putting(value, l.ver).key = k /\ Putting(value, l.ver).version = l.ver
          /\ Putting(value, l.ver).value = value
      BY PuttingFields
    <3> QED
      BY <2>1, <3>1, Zenon DEF value
  <2> DEFINE q2 == [q EXCEPT !.outcome = PutAnswer(e, q.req.version)]
  <2>3. pending' = [pending EXCEPT ![c] = q2]
    BY <1>4, <2>2, Zenon
  <2>4. CASE q.req.version # e.version
    <3>1. store' = store
      BY <1>4, <2>2, <2>4, Zenon
    <3>2. Moved(c, program, e, l, q, e, l, q2)
      BY <1>2, <1>4, <2>4, PutMisses, Zenon
    <3> HIDE DEF q2
    <3> QED
      BY <1>1, <1>2, <2>2, <2>3, <3>1, <3>2, LocalKeeps, Zenon
  <2>5. CASE q.req.version = e.version
    <3> DEFINE e2 == After(e, q.req)
    <3>1. store' = [store EXCEPT ![k] = e2]
      BY <1>2, <1>4, <2>2, <2>5, Constants, Zenon DEF After
    <3>2. PutAnswer(e, q.req.version) = Answer("OK")
      BY <2>5 DEF PutAnswer
    <3>3. e.version < MaxVersion
      BY <1>4, <2>2, <3>2, Constants, Zenon
    <3>4. Moved(c, program, e, l, q, e2, l, q2)
      BY <1>2, <1>4, <2>5, <3>3, PutHits, Zenon
    <3>5. e2.version = e.version + 1 /\ e2.value = ValueOf(c, program.name, l) /\ l.ver = e.version
      BY <2>2, <2>5, Zenon DEF After
    <3> HIDE DEF e2, q2
    <3>6. e2 \in Held
      BY <3>4, Zenon DEF Moved, Known
    <3>7. ASSUME NEW d \in Client, d # c PROVE ClientOK(d, program, e2, clnt[d], pending[d])
      <4>1. Known(d, program, e, clnt[d], pending[d])
        BY KnownOf, Zenon
      <4> QED
        BY <1>2, <2>1, <3>5, <3>6, <3>7, <4>1, OthersPut, Zenon
    <3> QED
      BY <1>1, <1>2, <2>2, <2>3, <3>1, <3>4, <3>7, ClientKeeps, Zenon
  <2> QED
    BY <2>4, <2>5, Zenon
<1> QED
  BY <1>3, <1>4, Zenon DEF Serve, Apply

\* A call returns: what Returns says.
LEMMA ReturnsIs ==
    ASSUME KVInv, NEW c \in Client, NEW reply, Returns(c, reply)
    PROVE  /\ pending[c].outcome # Nothing /\ reply \in Answers(pending[c])
           /\ program.reliable => reply.err # "ErrMaybe"
           /\ pending' = [pending EXCEPT ![c] = Free] /\ UNCHANGED <<store, program, res>>
           /\ Known(c, program, store[k], clnt[c], pending[c])
<1>1. Known(c, program, store[k], clnt[c], pending[c])
  BY KnownOf, Zenon
<1> QED
  BY <1>1, Zenon DEF Returns, Return, Free

\* OnePut never fails.
LEMMA OnePutKeeps ==
    ASSUME KVInv, NEW c \in Client, NEW reply, OnePut(c, reply), UNCHANGED main
    PROVE  KVInv'
<1> DEFINE e == store[k]
           l == clnt[c]
           q == pending[c]
<1>1. Returns(c, reply) /\ UNCHANGED spawner /\ program.name = "put"
  BY DEF OnePut, Running
<1>2. /\ q.outcome # Nothing /\ reply \in Answers(q) /\ (program.reliable => reply.err # "ErrMaybe")
      /\ pending' = [pending EXCEPT ![c] = Free] /\ UNCHANGED <<store, program, res, spawner, main>>
      /\ Known(c, program, e, l, q)
  BY <1>1, ReturnsIs, Zenon
<1>3. ASSUME l.pc = "put",
             IF reply.err \in {"OK", "ErrVersion", "ErrMaybe"}
             THEN Update(c, [clnt[c] EXCEPT !.pc = "get", !.err = reply.err]) /\ UNCHANGED fatal
             ELSE Fatalf(c)
      PROVE  KVInv'
  <2> DEFINE l2 == [l EXCEPT !.pc = "get", !.err = reply.err]
  <2>1. reply.err \in {"OK", "ErrVersion", "ErrMaybe"} /\ Moved(c, program, e, l, q, e, l2, Free)
    BY <1>1, <1>2, <1>3, OnePutPuts, Zenon
  <2>2. clnt' = [clnt EXCEPT ![c] = l2] /\ UNCHANGED fatal /\ l.pc # "gone"
    BY <1>3, <2>1 DEF Update
  <2> HIDE DEF l2
  <2> QED
    BY <1>2, <2>1, <2>2, LocalKeeps, Zenon
<1>4. ASSUME l.pc = "get",
             IF \/ reply.err # "OK"
                \/ clnt[c].err = "OK" /\ reply.version = l.ver + 1
                   /\ (Head(reply.value).id # c /\ Head(reply.value).n # l.ver)
             THEN Fatalf(c)
             ELSE /\ LET seen == [clnt[c] EXCEPT !.ver = reply.version]
                     IN Update(c, IF clnt[c].err \in {"OK", "ErrMaybe"}
                                  THEN Counted([seen EXCEPT !.pc = "select"], clnt[c].err)
                                  ELSE [seen EXCEPT !.pc = "put"])
                  /\ UNCHANGED fatal
      PROVE  KVInv'
  <2> DEFINE seen == [l EXCEPT !.ver = reply.version]
             l2 == IF l.err \in {"OK", "ErrMaybe"} THEN Counted([seen EXCEPT !.pc = "select"], l.err)
                   ELSE [seen EXCEPT !.pc = "put"]
  <2>1. /\ reply.err = "OK" /\ reply.version \in Version /\ reply.version <= e.version
        /\ reply.version = l.ver + 1 => Head(reply.value).n = l.ver
    <3>1. l.pc = "get" /\ program.name = "put"
      BY <1>1, <1>4, Zenon
    <3> HIDE DEF e, l, q
    <3>2. PutRead(e, l, reply)
      BY <1>2, <3>1, OnePutReads, Zenon
    <3> QED
      BY <3>2, Zenon DEF PutRead
  <2>2. Moved(c, program, e, l, q, e, l2, Free)
    BY <1>1, <1>2, <1>4, <2>1, OnePutGets, Zenon
  <2>3. Update(c, l2) /\ UNCHANGED fatal
    BY <1>4, <2>1, Zenon
  <2>4. l.pc # "gone"
    BY <1>4
  <2> HIDE DEF l2
  <2> QED
    BY <1>2, <2>2, <2>3, <2>4, LocalKeeps, Zenon DEF Update
<1> QED
  BY <1>3, <1>4, Zenon DEF OnePut

\* OneClientAppend never fails.
LEMMA AppendKeeps ==
    ASSUME KVInv, NEW c \in Client, NEW reply, OneClientAppend(c, reply), UNCHANGED main
    PROVE  KVInv'
<1> DEFINE e == store[k]
           l == clnt[c]
           q == pending[c]
<1>1. Returns(c, reply) /\ UNCHANGED spawner /\ program.name = "append"
  BY DEF OneClientAppend, Running
<1>2. /\ q.outcome # Nothing /\ reply \in Answers(q) /\ (program.reliable => reply.err # "ErrMaybe")
      /\ pending' = [pending EXCEPT ![c] = Free] /\ UNCHANGED <<store, program, res, spawner, main>>
      /\ Known(c, program, e, l, q)
  BY <1>1, ReturnsIs, Zenon
<1>3. ASSUME l.pc = "get",
             IF reply.err = "OK"
             THEN /\ Update(c, [clnt[c] EXCEPT !.pc = "put", !.ver = reply.version, !.val = reply.value])
                  /\ UNCHANGED fatal
             ELSE Fatalf(c)
      PROVE  KVInv'
  <2> DEFINE l2 == [l EXCEPT !.pc = "put", !.ver = reply.version, !.val = reply.value]
  <2>1. reply.err = "OK" /\ Moved(c, program, e, l, q, e, l2, Free)
    BY <1>1, <1>2, <1>3, AppendGets, Zenon
  <2>2. clnt' = [clnt EXCEPT ![c] = l2] /\ UNCHANGED fatal /\ l.pc # "gone"
    BY <1>3, <2>1 DEF Update
  <2> HIDE DEF l2
  <2> QED
    BY <1>2, <2>1, <2>2, LocalKeeps, Zenon
<1>4. ASSUME l.pc = "put",
             Update(c, IF reply.err \in {"OK", "ErrMaybe"}
                       THEN Counted([clnt[c] EXCEPT !.pc = "select"], reply.err)
                       ELSE [clnt[c] EXCEPT !.pc = "get"]),
             UNCHANGED fatal
      PROVE  KVInv'
  <2> DEFINE l2 == IF reply.err \in {"OK", "ErrMaybe"} THEN Counted([l EXCEPT !.pc = "select"], reply.err)
                   ELSE [l EXCEPT !.pc = "get"]
  <2>1. Moved(c, program, e, l, q, e, l2, Free)
    BY <1>1, <1>2, <1>4, AppendPuts, Zenon
  <2>2. Update(c, l2)
    BY <1>4, Zenon
  <2>3. l.pc # "gone"
    BY <1>4
  <2> HIDE DEF l2
  <2> QED
    BY <1>2, <1>4, <2>1, <2>2, <2>3, LocalKeeps, Zenon DEF Update
<1> QED
  BY <1>3, <1>4, Zenon DEF OneClientAppend

\* PutAtLeastOnce never fails.
LEMMA LeastKeeps ==
    ASSUME KVInv, NEW c \in Client, NEW reply, PutAtLeastOnce(c, reply), UNCHANGED main
    PROVE  KVInv'
<1> DEFINE e == store[k]
           l == clnt[c]
           q == pending[c]
<1>1. Returns(c, reply) /\ UNCHANGED spawner /\ program.name = "least" /\ l.pc = "put"
  BY DEF PutAtLeastOnce, Running
<1>2. /\ q.outcome # Nothing /\ reply \in Answers(q)
      /\ pending' = [pending EXCEPT ![c] = Free] /\ UNCHANGED <<store, program, res, spawner, main>>
      /\ Known(c, program, e, l, q)
  BY <1>1, ReturnsIs, Zenon
<1>3. l \in Local /\ l.pc # "gone"
  BY <1>1, <1>2, KnownTypes, Zenon
<1>4. reply.err \in {"OK", "ErrMaybe"}
  BY <1>1, <1>2, LeastPuts, Zenon
<1>5. CASE reply.err = "OK"
  <2> DEFINE l2 == [l EXCEPT !.pc = "get", !.ver = @ + 1]
  <2>1. clnt' = [clnt EXCEPT ![c] = l2] /\ UNCHANGED fatal
    BY <1>5 DEF PutAtLeastOnce, Update
  <2>2. Moved(c, program, e, l, q, e, l2, Free)
    BY <1>1, <1>2, LeastPuts, Zenon
  <2> HIDE DEF l2
  <2> QED
    BY <1>2, <1>3, <2>1, <2>2, LocalKeeps, Zenon
<1>6. CASE reply.err = "ErrMaybe"
  <2> DEFINE l2 == [l EXCEPT !.pc = "put", !.ver = @ + 1]
  <2>1. Update(c, [l EXCEPT !.ver = @ + 1]) /\ UNCHANGED fatal
    BY <1>6 DEF PutAtLeastOnce
  <2>2. l2 = [l EXCEPT !.ver = @ + 1]
    BY <1>1, <1>3, Zenon DEF Local
  <2>3. Moved(c, program, e, l, q, e, l2, Free)
    BY <1>1, <1>2, LeastPuts, Zenon
  <2> HIDE DEF l2
  <2>4. clnt' = [clnt EXCEPT ![c] = l2]
    BY <2>1, <2>2, Zenon DEF Update
  <2> QED
    BY <1>2, <1>3, <2>1, <2>3, <2>4, LocalKeeps, Zenon
<1> QED
  BY <1>4, <1>5, <1>6, Zenon

\* CheckGet never fails; after the last one the test goes on.
LEMMA CheckGetKeeps ==
    ASSUME KVInv, NEW c \in Client, NEW reply, CheckGet(c, reply), UNCHANGED main
    PROVE  KVInv'
<1> DEFINE e == store[k]
           l == clnt[c]
           q == pending[c]
           last == Iteration(c) + 1 = MaxPuts["least"]
           pc == IF last THEN "gone" ELSE "put"
           l2 == Counted([l EXCEPT !.pc = pc], "OK")
<1>1. Returns(c, reply) /\ program.name = "least" /\ l.pc = "get"
  BY DEF CheckGet, Running
<1>2. /\ q.outcome # Nothing /\ reply \in Answers(q)
      /\ pending' = [pending EXCEPT ![c] = Free] /\ UNCHANGED <<store, program, res, main>>
      /\ Known(c, program, e, l, q)
  BY <1>1, ReturnsIs, Zenon
<1>3. l \in Local /\ l.pc # "gone" /\ pc \in {"put", "gone"}
  BY <1>1, <1>2, KnownTypes, Zenon
<1>4. /\ reply = [value |-> ValueOf(c, "least", l), version |-> l.ver, err |-> "OK"]
      /\ Moved(c, program, e, l, q, e, l2, Free)
  <2>1. l.pc = "get" /\ program.name = "least"
    BY <1>1, Zenon
  <2>2. reply = [value |-> ValueOf(c, "least", l), version |-> l.ver, err |-> "OK"]
    BY <1>2, <2>1, LeastReads, Zenon
  <2> HIDE DEF pc, last
  <2>3. Moved(c, program, e, l, q, e, l2, Free)
    BY <1>2, <1>3, <2>1, LeastGets, Zenon
  <2> QED
    BY <2>2, <2>3, Zenon
<1>5. NewValue(c) = ValueOf(c, "least", l)
  BY <1>1, NewValueIs, Zenon
<1>6. clnt' = [clnt EXCEPT ![c] = l2] /\ UNCHANGED fatal /\ spawner' = IF last THEN "returned" ELSE spawner
  <2>1. reply = [value |-> NewValue(c), version |-> clnt[c].ver, err |-> "OK"]
    BY <1>4, <1>5, Zenon
  <2> QED
    BY <2>1, Zenon DEF CheckGet, Update
<1>7. CASE ~last
  <2>1. UNCHANGED spawner
    BY <1>6, <1>7
  <2> HIDE DEF l2, pc, last
  <2> QED
    BY <1>2, <1>3, <1>4, <1>6, <2>1, LocalKeeps, Zenon
<1>8. CASE last
  <2>1. l2.pc = "gone"
    <3>1. pc = "gone"
      BY <1>8, Zenon
    <3>2. Advanced(l, pc, "OK", l2)
      BY <1>3, CountedIs, Zenon
    <3> HIDE DEF l2, pc
    <3> QED
      BY <3>1, <3>2, Zenon DEF Advanced
  <2>2. spawner' = "returned"
    BY <1>6, <1>8
  <2>3. store' = [store EXCEPT ![k] = e] /\ \A d \in Client : ClientOK(d, program, e, clnt[d], pending[d])
    BY <1>2, KVTypesAre, SameFunction, Constants, Zenon DEF KVInv
  <2> HIDE DEF l2, pc, last
  <2>4. \A d \in Client : clnt'[d].pc = "gone"
    <3> SUFFICES ASSUME NEW d \in Client PROVE clnt'[d].pc = "gone"
      OBVIOUS
    <3>1. clnt \in [Client -> Local]
      BY ClientFunctions, Zenon
    <3>2. c = CHOOSE x \in Client : TRUE
      BY <1>1, <1>2, Zenon DEF Known, ClientOK, LeastOK
    <3>3. d # c => clnt[d].pc = "gone"
      <4>1. LeastOK(d, e, clnt[d], pending[d])
        BY <1>1, <2>3, Zenon DEF ClientOK
      <4> QED
        BY <3>2, <4>1, Zenon DEF LeastOK
    <3> QED
      BY <1>6, <2>1, <3>1, <3>3, Zenon
  <2>5. main = "wait" /\ (program.reliable => res.nmaybe = 0)
    BY <1>3, ClientRuns, Zenon DEF KVInv, SpawnInv
  <2>6. SpawnInv'
    BY <1>2, <2>2, <2>4, <2>5 DEF SpawnInv
  <2>7. ~Running("put") /\ spawner' \in {"idle", "sleep", "signal", "collect", "check", "returned"}
    BY <1>1, <2>2, Zenon DEF Running
  <2> QED
    BY <1>2, <1>4, <1>6, <2>3, <2>6, <2>7, StepKeeps, Zenon
<1> QED
  BY <1>7, <1>8, Zenon

-----------------------------------------------------------------------------
(* The steps of the spawning goroutine. *)

\* A list that is not empty has a last element.
LEMMA MaxIs ==
    ASSUME NEW n \in Nat, NEW S \in SUBSET (1..n), S # {}
    PROVE  Max(S) \in S
<1> DEFINE W == {m \in Nat : \A y \in S : m >= y}
           Less == OpToRel(<, Nat)
<1>1. W \subseteq Nat /\ n \in W
  OBVIOUS
<1>2. \A x, y \in Nat : x < y => <<x, y>> \in Less
  BY Zenon DEF OpToRel
<1>3. IsWellFoundedOn(Less, Nat)
  BY NatLessThanWellFounded, Zenon
<1>4. PICK m \in W : \A y \in W : ~(<<y, m>> \in Less)
  <2> HIDE DEF Less, W
  <2> QED
    BY <1>1, <1>3, WFMin, Zenon
<1>5. m \in Nat /\ m # 0 /\ \A y \in S : m >= y
  <2>1. m \in Nat /\ \A y \in S : m >= y
    BY <1>4, Zenon
  <2>2. PICK y \in S : y \in 1..n
    BY Zenon
  <2> QED
    BY <2>1, <2>2
<1>6. m \in S
  <2> SUFFICES ASSUME m \notin S PROVE FALSE
    OBVIOUS
  <2>1. m - 1 \in Nat /\ m - 1 < m /\ \A y \in S : m - 1 >= y
    BY <1>5
  <2> QED
    BY <1>2, <1>4, <1>5, <2>1, Zenon
<1> QED
  BY <1>5, <1>6, Zenon DEF Max

\* A step that leaves the clients and the store as they are.
LEMMA QuietKeeps ==
    ASSUME KVInv, UNCHANGED <<store, pending, program, clnt, res, fatal>>, Counting' <=> Counting,
           spawner' \in {"idle", "sleep", "signal", "collect", "check", "returned"}, SpawnInv'
    PROVE  KVInv'
<1>1. KVTypes'
  BY KVTypesAre, Zenon DEF KVInv, KVTypes, KVTestTypeOK, ProgramType, Local, Tuple
<1>2. UNCHANGED <<Lower, Upper>>
  BY Zenon DEF Lower, Upper
<1>3. PutsBalance'
  BY <1>2, Zenon DEF KVInv, PutsBalance, Running
<1> QED
  BY <1>1, <1>3, Zenon DEF KVInv

\* Waking up.
LEMMA WakeKeeps ==
    ASSUME KVInv, Wake, UNCHANGED main
    PROVE  KVInv'
<1>1. /\ UNCHANGED <<store, pending, program, clnt, res, fatal, main>> /\ spawner = "sleep" /\ spawner' = "signal"
  BY Zenon DEF Wake, kvVars
<1>2. Counting /\ Counting'
  BY <1>1, Zenon DEF Counting
<1>3. main = "wait" /\ (program.reliable => res.nmaybe = 0)
  BY <1>1 DEF KVInv, SpawnInv
<1>4. SpawnInv'
  BY <1>1, <1>2, <1>3 DEF SpawnInv
<1> QED
  BY <1>1, <1>2, <1>4, QuietKeeps, Zenon

\* A client leaves its loop, or its result is received.
LEMMA LeaveKeeps ==
    ASSUME KVInv, NEW c \in Client, clnt[c].pc \in {"select", "report"}, NEW pc \in {"report", "gone"},
           clnt' = [clnt EXCEPT ![c] = [clnt[c] EXCEPT !.pc = pc]],
           UNCHANGED <<store, pending, program, res, fatal, main>>,
           spawner' \in {"signal", "collect", "check"},
           spawner' = "check" => \A d \in Client : clnt'[d].pc = "gone"
    PROVE  KVInv'
<1>1. /\ Known(c, program, store[k], clnt[c], pending[c]) /\ pending' = [pending EXCEPT ![c] = pending[c]]
      /\ store \in [Key -> Held]
  BY ClientFunctions, Zenon
<1>2. Moved(c, program, store[k], clnt[c], pending[c], store[k], [clnt[c] EXCEPT !.pc = pc], pending[c])
  BY <1>1, PcMoves, Zenon
<1>3. store' = [store EXCEPT ![k] = store[k]]
  BY <1>1, SameFunction, Constants, Zenon
<1>4. \A d \in Client : ClientOK(d, program, store[k], clnt[d], pending[d])
  BY Zenon DEF KVInv
<1>5. Counting /\ main = "wait"
  BY ClientRuns
<1>6. Counting' /\ spawner' \in {"idle", "sleep", "signal", "collect", "check", "returned"}
  BY DEF Counting
<1>7. program.reliable => res.nmaybe = 0
  BY Zenon DEF KVInv, SpawnInv
<1>8. SpawnInv'
  BY <1>5, <1>6, <1>7 DEF SpawnInv
<1> QED
  BY <1>1, <1>2, <1>3, <1>4, <1>5, <1>6, <1>8, StepKeeps, Zenon

\* A client receives from done.
LEMMA TakeDoneKeeps ==
    ASSUME KVInv, NEW c \in Client, TakeDone(c), UNCHANGED main
    PROVE  KVInv'
<1>1. /\ clnt[c].pc = "select" /\ clnt' = [clnt EXCEPT ![c] = [clnt[c] EXCEPT !.pc = "report"]]
      /\ UNCHANGED <<store, pending, program, res, fatal, main>> /\ spawner' \in {"signal", "collect"}
  BY DEF TakeDone, Update, kvVars
<1>2. /\ clnt[c].pc \in {"select", "report"} /\ "report" \in {"report", "gone"}
      /\ spawner' \in {"signal", "collect", "check"} /\ spawner' # "check"
  BY <1>1
<1> QED
  BY <1>1, <1>2, LeaveKeeps, Zenon

\* The result of a client is received.
LEMMA CollectKeeps ==
    ASSUME KVInv, NEW c \in Client, Collect(c), UNCHANGED main
    PROVE  KVInv'
<1>1. /\ clnt[c].pc = "report" /\ clnt' = [clnt EXCEPT ![c] = [clnt[c] EXCEPT !.pc = "gone"]]
      /\ UNCHANGED <<store, pending, program, res, fatal, main>>
      /\ \A d \in Client : d < c => clnt[d].pc = "gone"
      /\ spawner' = IF \A d \in Client : d > c => clnt[d].pc = "gone" THEN "check" ELSE "collect"
  BY DEF Collect, Update, kvVars
<1>2. /\ clnt[c].pc \in {"select", "report"} /\ "gone" \in {"report", "gone"}
      /\ spawner' \in {"signal", "collect", "check"}
  BY <1>1
<1>3. ASSUME spawner' = "check", NEW d \in Client PROVE clnt'[d].pc = "gone"
  <2>1. clnt \in [Client -> Local]
    BY ClientFunctions, Zenon
  <2>2. c \in Nat /\ d \in Nat
    BY ClientNumbers
  <2>3. d # c => clnt[d].pc = "gone"
    BY <1>1, <1>3, <2>2
  <2> QED
    BY <1>1, <2>1, <2>3 DEF Local
<1> QED
  BY <1>1, <1>2, <1>3, LeaveKeeps, Zenon

\* When all clients have reported, what they counted are the bounds.
LEMMA AllCounted ==
    ASSUME KVInv, \A c \in Client : clnt[c].pc = "gone"
    PROVE  /\ \A c \in Client : /\ pending[c] = Free
                                /\ AtLeast(clnt[c], Free) = clnt[c].nok
                                /\ AtMost(clnt[c], Free) = clnt[c].nok + clnt[c].nmaybe
           /\ SumOf(Lower, nclnt) = Total("nok") /\ SumOf(Upper, nclnt) = Total("nok") + Total("nmaybe")
           /\ Total("nok") \in Nat /\ Total("nmaybe") \in Nat
           /\ program.reliable => Total("nmaybe") = 0
<1> DEFINE f == [c \in Client |-> clnt[c].nok]
           g == [c \in Client |-> clnt[c].nmaybe]
<1>1. ASSUME NEW c \in Client
      PROVE  /\ pending[c] = Free /\ clnt[c].nok \in Nat /\ clnt[c].nmaybe \in Nat
             /\ AtLeast(clnt[c], Free) = clnt[c].nok /\ AtMost(clnt[c], Free) = clnt[c].nok + clnt[c].nmaybe
             /\ program.reliable => clnt[c].nmaybe = 0
  <2>1. Known(c, program, store[k], clnt[c], pending[c])
    BY KnownOf, Zenon
  <2>2. clnt[c] \in Local /\ clnt[c].pc = "gone"
    BY <2>1, KnownTypes, Zenon
  <2>3. pending[c] = Free /\ (program.reliable => clnt[c].nmaybe = 0)
    BY <2>1, <2>2, Zenon DEF Known, ClientOK, CallOK
  <2>4. clnt[c].nok \in Nat /\ clnt[c].nmaybe \in Nat
    BY <2>2, Zenon DEF Local
  <2>5. AtLeast(clnt[c], Free) = clnt[c].nok /\ AtMost(clnt[c], Free) = clnt[c].nok + clnt[c].nmaybe
    BY <2>2, FreeBounds, Zenon
  <2> QED
    BY <2>3, <2>4, <2>5, Zenon
<1>2. f \in [Client -> Nat] /\ g \in [Client -> Nat]
  BY <1>1, Zenon
<1>3. Total("nok") = SumOf(f, nclnt) /\ Total("nmaybe") = SumOf(g, nclnt)
  BY Zenon DEF Total
<1>4. Lower = f
  BY <1>1, Zenon DEF Lower
<1>5. Upper \in [Client -> Nat] /\ \A c \in Client : Upper[c] = f[c] + g[c]
  BY <1>1 DEF Upper
<1>6. program.reliable => \A c \in Client : g[c] = 0
  BY <1>1, Zenon
<1> HIDE DEF f, g
<1>7. SumOf(Upper, nclnt) = SumOf(f, nclnt) + SumOf(g, nclnt) /\ SumOf(f, nclnt) \in Nat /\ SumOf(g, nclnt) \in Nat
  BY <1>2, <1>5, SumAdd, SumNat, Zenon
<1>8. program.reliable => SumOf(g, nclnt) = 0
  BY <1>2, <1>6, SumZero, Zenon
<1> QED
  BY <1>1, <1>3, <1>4, <1>7, <1>8, Zenon

\* At the check, the lists: no entry is missing that was acknowledged.
LEMMA ListsCounted ==
    ASSUME KVInv, \A c \in Client : clnt[c].pc = "gone", Running("append"), NEW c \in Client
    PROVE  LET es == store[k].value
               mine == EntriesOf(c, es)
           IN /\ Increasing(c, es) /\ clnt[c].nok <= NEntries(c, es)
              /\ NEntries(c, es) <= clnt[c].nok + clnt[c].nmaybe
              /\ NEntries(c, es) \in Nat /\ clnt[c].nok \in Nat /\ clnt[c].nmaybe \in Nat
              /\ mine # {} => /\ es[Max(mine)].n \in Nat
                              /\ es[Max(mine)].n < clnt[c].nok + clnt[c].nmaybe
<1> DEFINE es == store[k].value
           mine == EntriesOf(c, es)
<1>1. Known(c, program, store[k], clnt[c], pending[c])
  BY KnownOf, Zenon
<1>2. program.name = "append" /\ pending[c] = Free
  BY AllCounted, Zenon DEF Running
<1>3. ListOK(c, es, clnt[c], Free)
  BY <1>1, <1>2, Zenon DEF Known, ClientOK
<1>4. AtLeast(clnt[c], Free) = clnt[c].nok /\ AtMost(clnt[c], Free) = clnt[c].nok + clnt[c].nmaybe
  BY AllCounted, Zenon
<1>5. /\ Increasing(c, es) /\ clnt[c].nok <= NEntries(c, es)
      /\ NEntries(c, es) <= clnt[c].nok + clnt[c].nmaybe
      /\ \A i \in mine : es[i].n < clnt[c].nok + clnt[c].nmaybe
  BY <1>3, <1>4, Zenon DEF ListOK
<1>6. es \in Seq(Tuple) /\ clnt[c] \in Local
  BY <1>1, KnownTypes, Zenon DEF Known, Held
<1>7. clnt[c].nok \in Nat /\ clnt[c].nmaybe \in Nat
  BY <1>6, Zenon DEF Local
<1>8. /\ NEntries(c, es) \in Nat /\ \A i \in mine : i \in 1..Len(es) /\ es[i].n \in Nat
  BY <1>6, EntriesTypes, Zenon
<1>9. mine # {} => Max(mine) \in mine
  <2>1. mine \in SUBSET (1..Len(es))
    BY <1>8, Zenon
  <2> HIDE DEF mine, es
  <2>2. Len(es) \in Nat
    BY <1>6
  <2> QED
    BY <2>1, <2>2, MaxIs, Zenon
<1> QED
  BY <1>5, <1>7, <1>8, <1>9, Zenon

\* At the check, the counts: they bound the version of the key.
LEMMA VersionCounted ==
    ASSUME KVInv, spawner = "check", Running("put")
    PROVE  LET nok == res.nok + Total("nok")
               nmaybe == res.nmaybe + Total("nmaybe")
           IN nok <= store[k].version /\ store[k].version <= nok + nmaybe
<1> DEFINE a == Total("nok")
           b == Total("nmaybe")
           v == store[k].version
<1>1. \A c \in Client : clnt[c].pc = "gone"
  BY Zenon DEF KVInv, SpawnInv
<1>2. SumOf(Lower, nclnt) = a /\ SumOf(Upper, nclnt) = a + b /\ a \in Nat /\ b \in Nat
  BY <1>1, AllCounted, Zenon
<1>3. res.nok + SumOf(Lower, nclnt) <= v /\ v <= res.nok + res.nmaybe + SumOf(Upper, nclnt)
  BY Zenon DEF KVInv, PutsBalance, Counting
<1>4. res.nok \in Nat /\ res.nmaybe \in Nat /\ v \in Nat
  <2>1. res \in [nok : Nat, nmaybe : Nat] /\ store[k] \in Held
    BY KVTypesAre, Constants, Zenon DEF KVInv
  <2> QED
    BY <2>1, Constants, Zenon DEF Held
<1> HIDE DEF a, b, v
<1>5. res.nok + a <= v /\ v <= (res.nok + a) + (res.nmaybe + b)
  BY <1>2, <1>3, <1>4
<1> QED
  BY <1>5, Zenon DEF a, b, v

\* CheckAppends succeeds.
LEMMA AppendsChecked ==
    ASSUME KVInv, spawner = "check", Running("append")
    PROVE  CheckAppends
<1> DEFINE es == store[k].value
<1>1. \A c \in Client : clnt[c].pc = "gone"
  BY Zenon DEF KVInv, SpawnInv
<1>2. Len(es) + 1 = store[k].version
  BY Zenon DEF KVInv, EntryOK, Running
<1>3. ASSUME NEW c \in Client
      PROVE  LET mine == EntriesOf(c, es)
                 expect == IF mine = {} THEN 0 ELSE es[Max(mine)].n + 1
             IN /\ Increasing(c, es)
                /\ expect - NEntries(c, es) <= clnt[c].nmaybe
                /\ expect <= clnt[c].nok + clnt[c].nmaybe
  <2> DEFINE mine == EntriesOf(c, es)
             n == es[Max(mine)].n
             l == clnt[c]
             card == NEntries(c, es)
             expect == IF mine = {} THEN 0 ELSE n + 1
  <2>1. /\ Increasing(c, es) /\ l.nok <= card /\ card <= l.nok + l.nmaybe
        /\ card \in Nat /\ l.nok \in Nat /\ l.nmaybe \in Nat
        /\ mine # {} => n \in Nat /\ n < l.nok + l.nmaybe
    BY <1>1, ListsCounted, Zenon
  <2> HIDE DEF mine, n, l, card
  <2>2. expect - card <= l.nmaybe /\ expect <= l.nok + l.nmaybe
    BY <2>1
  <2> QED
    BY <2>1, <2>2, Zenon DEF mine, n, l, card
<1> QED
  BY <1>2, <1>3, Zenon DEF CheckAppends

\* CheckPutConcurrent succeeds.
LEMMA PutsChecked ==
    ASSUME KVInv, KeyWritten, spawner = "check", Running("put"),
           res' = [nok |-> res.nok + Total("nok"), nmaybe |-> res.nmaybe + Total("nmaybe")]
    PROVE  CheckPutConcurrent
<1> DEFINE a == res.nok + Total("nok")
           b == res.nmaybe + Total("nmaybe")
           v == store[k].version
<1>1. a <= v /\ v <= a + b
  BY VersionCounted, Zenon
<1>2. res'.nok = a /\ res'.nmaybe = b
  BY Zenon
<1>3. program.reliable => b = 0
  <2>1. program.reliable => res.nmaybe = 0 /\ Total("nmaybe") = 0
    BY AllCounted, Zenon DEF KVInv, SpawnInv
  <2> QED
    BY <2>1
<1>4. a \in Nat /\ v \in Nat
  <2>1. res \in [nok : Nat, nmaybe : Nat] /\ store[k] \in Held /\ Total("nok") \in Nat
    BY KVTypesAre, Constants, AllCounted, Zenon DEF KVInv, SpawnInv
  <2>2. v \in Nat
    BY <2>1, Constants, Zenon DEF Held
  <2>3. res.nok \in Nat
    BY <2>1, Zenon
  <2> HIDE DEF v
  <2> QED
    BY <2>1, <2>2, <2>3
<1> HIDE DEF a, b, v
<1>5. program.reliable => v = a
  BY <1>1, <1>3, <1>4
<1>6. v # 0
  BY Zenon DEF KeyWritten, v
<1>7. v > 0
  BY <1>4, <1>6
<1> QED
  BY <1>1, <1>2, <1>5, <1>7, Zenon DEF CheckPutConcurrent, v

\* The results are compared with the store.
LEMMA CheckKeeps ==
    ASSUME KVInv, KeyWritten, Check, UNCHANGED main
    PROVE  KVInv'
<1> DEFINE a == Total("nok")
           b == Total("nmaybe")
<1>1. /\ spawner = "check" /\ res' = [nok |-> res.nok + a, nmaybe |-> res.nmaybe + b]
      /\ UNCHANGED <<store, pending, program, clnt, main>>
      /\ (Running("put") => CheckPutConcurrent) /\ (Running("append") => CheckAppends) =>
            spawner' = "returned" /\ UNCHANGED fatal
  BY Zenon DEF Check, kvVars
<1>2. spawner' = "returned" /\ UNCHANGED fatal
  BY <1>1, PutsChecked, AppendsChecked, Zenon
<1>3. (\A c \in Client : clnt[c].pc = "gone") /\ main = "wait" /\ (program.reliable => res.nmaybe = 0)
  BY <1>1, Zenon DEF KVInv, SpawnInv
<1>4. a \in Nat /\ b \in Nat /\ (program.reliable => b = 0)
  BY <1>3, AllCounted, Zenon
<1>5. res.nok \in Nat /\ res.nmaybe \in Nat
  <2>1. res \in [nok : Nat, nmaybe : Nat]
    BY KVTypesAre, Zenon DEF KVInv
  <2> QED
    BY <2>1, Zenon
<1>6. Running("put") => res.nok + a <= store[k].version /\ store[k].version <= (res.nok + a) + (res.nmaybe + b)
  BY <1>1, VersionCounted, Zenon
<1> HIDE DEF a, b
<1>7. res'.nok = res.nok + a /\ res'.nmaybe = res.nmaybe + b
  BY <1>1, Zenon
<1>8. res' \in [nok : Nat, nmaybe : Nat] /\ (program.reliable => res'.nmaybe = 0)
  BY <1>1, <1>3, <1>4, <1>5
<1>9. KVTypes'
  <2>1. spawner' \in {"idle", "sleep", "signal", "collect", "check", "returned"}
    BY <1>2, Zenon
  <2> QED
    BY <1>1, <1>2, <1>8, <2>1, KVTypesAre, Zenon DEF KVInv, KVTypes, KVTestTypeOK, ProgramType, Local, Tuple
<1>10. ~Counting'
  BY <1>2, Zenon DEF Counting
<1>11. PutsBalance'
  BY <1>1, <1>6, <1>7, <1>10, Zenon DEF PutsBalance, Running
<1>12. SpawnInv'
  BY <1>1, <1>2, <1>3, <1>8, Zenon DEF SpawnInv
<1> QED
  BY <1>1, <1>2, <1>9, <1>11, <1>12, Zenon DEF KVInv

\* What a client starts with.
LEMMA StartedOK ==
    ASSUME NEW c \in Client, NEW p \in ProgramType, NEW e \in Held,
           NEW pc \in {"select", "put", "gone"},
           p.name = "least" => pc # "select" /\ (pc = "put" => c = CHOOSE d \in Client : TRUE),
           p.name # "put" => e = [Missing EXCEPT !.version = IF p.name = "append" THEN 1 ELSE 0]
    PROVE  /\ Started(pc) \in Local /\ ClientOK(c, p, e, Started(pc), Free)
           /\ AtLeast(Started(pc), Free) = 0 /\ AtMost(Started(pc), Free) = 0
<1> DEFINE l == Started(pc)
<1>1. /\ l \in Local /\ l.pc = pc /\ l.ver = 0 /\ l.err = "None" /\ l.nok = 0 /\ l.nmaybe = 0
  BY Constants DEF Started, Local
<1> HIDE DEF l
<1>2. AtLeast(l, Free) = 0 /\ AtMost(l, Free) = 0
  BY <1>1, FreeCounts
<1>3. e.version \in Nat
  BY Constants DEF Held
<1>4. l.ver <= e.version /\ l.pc # "get" /\ Free.outcome = Nothing
  BY <1>1, <1>3, FreeCounts
<1>5. ASSUME p.name = "append" PROVE (l.pc = "put" /\ l.ver = e.version => l.val = e.value) /\ ListOK(c, e.value, l, Free)
  <2>1. e.version = 1 /\ e.value = <<>>
    BY <1>5, Constants DEF Missing
  <2>2. EntriesOf(c, e.value) = {}
    BY <2>1 DEF EntriesOf
  <2>3. NEntries(c, e.value) = 0
    BY <2>1, Constants, EntriesTypes, Zenon
  <2> QED
    BY <1>1, <1>2, <2>1, <2>2, <2>3 DEF ListOK, Increasing
<1>6. ASSUME p.name = "least" PROVE LeastOK(c, e, l, Free)
  <2>1. e.version = 0
    BY <1>6, Zenon DEF Missing
  <2> QED
    BY <1>1, <1>4, <1>6, <2>1 DEF LeastOK
<1>7. CallOK(c, p.name, e, l, Free)
  BY Zenon DEF CallOK
<1>8. ClientOK(c, p, e, l, Free)
  BY <1>1, <1>4, <1>5, <1>6, <1>7 DEF ClientOK
<1> QED
  BY <1>1, <1>2, <1>8 DEF l

\* The clients start.
LEMMA SpawnKeeps ==
    ASSUME KVInv, StartIteration
    PROVE  KVInv'
<1> DEFINE first == CHOOSE d \in Client : TRUE
           Pc(c) == IF Running("least") /\ c # first THEN "gone" ELSE IF Running("least") THEN "put" ELSE "select"
           e == store[k]
<1>1. /\ main = "spawn" /\ main' = "wait" /\ UNCHANGED <<store, pending, program, res, fatal>>
      /\ spawner = "idle" /\ spawner' \in {"sleep", "collect"} /\ clnt' = [c \in Client |-> Started(Pc(c))]
  BY Zenon DEF StartIteration, Main, Spawn, kvVars
<1>2. Counting' /\ ~Counting /\ spawner' \in {"idle", "sleep", "signal", "collect", "check", "returned"}
  BY <1>1, Zenon DEF Counting
<1>3. /\ program \in ProgramType /\ res \in [nok : Nat, nmaybe : Nat] /\ fatal \in BOOLEAN
      /\ store \in [Key -> Held] /\ pending \in [Client -> Calls] /\ e \in Held
  BY KVTypesAre, Constants, Zenon DEF KVInv
<1>4. \A c \in Client : pending[c] = Free
  <2>1. \A c \in Client : clnt[c].pc = "gone"
    BY <1>2, Zenon DEF KVInv, SpawnInv
  <2> QED
    BY <2>1, AllCounted, Zenon
<1>5. program.name # "put" => e = [Missing EXCEPT !.version = IF program.name = "append" THEN 1 ELSE 0]
  BY <1>1, Zenon DEF KVInv, SpawnInv, Running
<1>6. ASSUME NEW c \in Client
      PROVE  /\ Started(Pc(c)) \in Local /\ ClientOK(c, program, e, Started(Pc(c)), Free)
             /\ AtLeast(Started(Pc(c)), Free) = 0 /\ AtMost(Started(Pc(c)), Free) = 0
  <2> DEFINE pc == Pc(c)
  <2>1. /\ pc \in {"select", "put", "gone"}
        /\ program.name = "least" => pc # "select" /\ (pc = "put" => c = CHOOSE d \in Client : TRUE)
    BY Zenon DEF Running
  <2> HIDE DEF pc, e
  <2>2. /\ Started(pc) \in Local /\ ClientOK(c, program, e, Started(pc), Free)
        /\ AtLeast(Started(pc), Free) = 0 /\ AtMost(Started(pc), Free) = 0
    BY <1>3, <1>5, <2>1, StartedOK, Zenon
  <2> QED
    BY <2>2, Zenon DEF pc
<1> HIDE DEF Pc
<1>7. clnt' \in [Client -> Local] /\ \A c \in Client : clnt'[c] = Started(Pc(c))
  BY <1>1, <1>6, Zenon
<1>8. KVTypes'
  BY <1>1, <1>2, <1>3, <1>7, Zenon DEF KVTypes, KVTestTypeOK, ProgramType, Local, Tuple
<1>9. \A c \in Client : ClientOK(c, program', store'[k], clnt'[c], pending'[c])
  BY <1>1, <1>4, <1>6, <1>7, Zenon
<1>10. SumOf(Lower', nclnt) = 0 /\ SumOf(Upper', nclnt) = 0
  <2>1. \A c \in Client : AtLeast(clnt'[c], pending'[c]) = 0 /\ AtMost(clnt'[c], pending'[c]) = 0
    BY <1>1, <1>4, <1>6, <1>7, Zenon
  <2> DEFINE low == Lower'
             up == Upper'
  <2>2. low \in [Client -> Nat] /\ up \in [Client -> Nat] /\ \A c \in Client : low[c] = 0 /\ up[c] = 0
    BY <2>1 DEF Lower, Upper
  <2> HIDE DEF low, up
  <2>3. SumOf(low, nclnt) = 0 /\ SumOf(up, nclnt) = 0
    BY <2>2, SumZero, Zenon
  <2> QED
    BY <2>3, Zenon DEF low, up
<1>11. PutsBalance'
  <2> SUFFICES ASSUME Running("put")
               PROVE  /\ res.nok + SumOf(Lower', nclnt) <= e.version
                      /\ e.version <= res.nok + res.nmaybe + SumOf(Upper', nclnt)
    BY <1>1, <1>2, Zenon DEF PutsBalance, Running
  <2>1. res.nok <= e.version /\ e.version <= res.nok + res.nmaybe
    BY <1>2, Zenon DEF KVInv, PutsBalance
  <2>2. res.nok \in Nat /\ res.nmaybe \in Nat /\ e.version \in Nat
    BY <1>3, Constants, Zenon DEF Held
  <2> HIDE DEF e
  <2> QED
    BY <1>10, <2>1, <2>2
<1>12. SpawnInv'
  <2>1. spawner' # "check" /\ main' = "wait" /\ main' # "spawn"
    BY <1>1, Zenon
  <2>2. program.reliable => res.nmaybe = 0
    BY Zenon DEF KVInv, SpawnInv
  <2> QED
    BY <1>1, <1>2, <2>1, <2>2, Zenon DEF SpawnInv
<1>13. fatal' = FALSE /\ EntryOK(program'.name, store'[k])
  BY <1>1, Zenon DEF KVInv
<1> QED
  BY <1>8, <1>9, <1>11, <1>12, <1>13, Zenon DEF KVInv

\* The spawning goroutine has returned.
LEMMA JoinKeeps ==
    ASSUME KVInv, JoinClients
    PROVE  KVInv'
<1>1. /\ spawner = "returned" /\ spawner' = "idle" /\ UNCHANGED <<store, pending, program, clnt, res, fatal>>
      /\ main' \in {"stop", "crash", "cleanup"}
  BY Zenon DEF JoinClients, Main, kvVars, AfterCheck
<1>2. ~Counting /\ ~Counting'
  BY <1>1, Zenon DEF Counting
<1>3. SpawnInv'
  BY <1>1, <1>2, Zenon DEF KVInv, SpawnInv
<1> QED
  BY <1>1, <1>2, <1>3, QuietKeeps, Zenon

\* The other steps of the test goroutine, and those of a test without clients.
LEMMA MainKeeps ==
    ASSUME KVInv, UNCHANGED <<kvVars, testVars>>,
           main' = main \/ (main # "wait" /\ main' # "wait" /\ (main' = "spawn" => Running("put")))
    PROVE  KVInv'
<1>1. UNCHANGED <<store, pending, program, clnt, res, fatal, spawner>>
  BY Zenon DEF kvVars, testVars
<1>2. Counting' <=> Counting
  BY <1>1, Zenon DEF Counting
<1>3. spawner' \in {"idle", "sleep", "signal", "collect", "check", "returned"}
  BY <1>1, KVTypesAre, Zenon DEF KVInv
<1>4. SpawnInv
  BY Zenon DEF KVInv
<1>5. SpawnInv'
  BY <1>1, <1>2, <1>4 DEF SpawnInv, Running
<1> QED
  BY <1>1, <1>2, <1>3, <1>5, QuietKeeps, Zenon

\* The invariant holds at first.
LEMMA KVStarts ==
    ASSUME Init
    PROVE  KVInv
<1> DEFINE e == store[k]
<1>1. PICK name \in {"put", "append", "least"} : KVTestInit(name)
  BY Zenon DEF Init
<1>2. main \in {"spawn", "faults"} /\ (main = "faults" \/ main = "spawn")
  BY Zenon DEF Init
<1>3. /\ program \in ProgramType /\ program.name = name
      /\ store = [key \in Key |-> [Missing EXCEPT !.version = IF name = "append" THEN 1 ELSE 0]]
      /\ pending = [c \in Client |-> Free] /\ clnt = [c \in Client |-> Started("gone")]
      /\ spawner = "idle" /\ res = [nok |-> 0, nmaybe |-> 0] /\ fatal = FALSE
  BY <1>1 DEF KVTestInit, ProgramType, Programs, Free
<1>4. e = [Missing EXCEPT !.version = IF name = "append" THEN 1 ELSE 0]
  BY <1>3, Constants
<1>5. /\ e.value = <<>> /\ e.version = (IF name = "append" THEN 1 ELSE 0)
  BY <1>4, Constants DEF Missing
<1>6. e \in Held /\ store \in [Key -> Held]
  <2>1. [Missing EXCEPT !.version = IF name = "append" THEN 1 ELSE 0] \in Held
    <3>1. 1 \in Version
      BY KVTestAssumption, Constants
    <3> QED
      BY <3>1, Constants, Zenon DEF Missing, Held
  <2> QED
    BY <1>3, <1>4, <2>1, Zenon
<1>7. pending \in [Client -> Calls] /\ \A c \in Client : pending[c] = Free /\ clnt[c] = Started("gone")
  BY <1>3, Constants
<1>8. ASSUME NEW c \in Client PROVE Started("gone") \in Local /\ ClientOK(c, program, e, Started("gone"), Free)
  <2>1. "gone" \in {"select", "put", "gone"} /\ "gone" # "select" /\ "gone" # "put"
    OBVIOUS
  <2> QED
    BY <1>3, <1>4, <1>6, <2>1, StartedOK, Zenon
<1>9. KVTypes
  <2>1. clnt \in [Client -> Local]
    BY <1>3, <1>8
  <2> QED
    BY <1>3, <1>6, <1>7, <2>1, KVTypesAre, Zenon
<1>10. EntryOK(program.name, e)
  BY <1>3, <1>5 DEF EntryOK
<1>11. \A c \in Client : ClientOK(c, program, e, clnt[c], pending[c])
  BY <1>7, <1>8, Zenon
<1>12. PutsBalance
  BY <1>3, <1>5 DEF PutsBalance, Running, Counting
<1>13. SpawnInv
  <2>1. \A c \in Client : clnt[c].pc = "gone"
    <3>1. Started("gone").pc = "gone"
      BY Zenon DEF Started
    <3> QED
      BY <1>7, <3>1, Zenon
  <2> QED
    BY <1>3, <1>4, <2>1, Zenon DEF SpawnInv, Running
<1> QED
  BY <1>3, <1>9, <1>10, <1>11, <1>12, <1>13, Zenon DEF KVInv

\* Every step keeps the invariant.
LEMMA KVKeeps ==
    ASSUME KVInv, KeyWritten, [Next]_vars
    PROVE  KVInv'
<1>1. ASSUME MainStep PROVE KVInv'
  <2>1. ASSUME StopPartitioner \/ JoinPartitioner \/ ShutdownAll \/ RestartAll \/ NoCrash \/ Cleanup
        PROVE  KVInv'
    <3>1. UNCHANGED <<kvVars, testVars>>
      BY <2>1, Zenon DEF StopPartitioner, JoinPartitioner, ShutdownAll, RestartAll, NoCrash, Cleanup
    <3>2. main # "wait" /\ main' # "wait" /\ main' # "spawn"
      BY <2>1, Zenon DEF StopPartitioner, JoinPartitioner, ShutdownAll, RestartAll, NoCrash, Cleanup, Main
    <3> QED
      BY <3>1, <3>2, MainKeeps, Zenon
  <2>2. ASSUME EndIteration PROVE KVInv'
    <3>1. UNCHANGED <<kvVars, testVars>>
      BY <2>2, Zenon DEF EndIteration
    <3>2. main # "wait" /\ main' # "wait" /\ (main' = "spawn" => Running("put"))
      BY <2>2, Zenon DEF EndIteration, Main
    <3> QED
      BY <3>1, <3>2, MainKeeps, Zenon
  <2> QED
    BY <1>1, <2>1, <2>2, SpawnKeeps, JoinKeeps, Zenon DEF MainStep
<1>2. ASSUME UNCHANGED <<kvVars, testVars>>, UNCHANGED main PROVE KVInv'
  BY <1>2, MainKeeps, Zenon
<1>3. ASSUME SpawnerStep, UNCHANGED main PROVE KVInv'
  BY <1>3, WakeKeeps, CheckKeeps, TakeDoneKeeps, CollectKeeps, Zenon DEF SpawnerStep
<1>4. ASSUME NEW c \in Client, ClientStep(c), UNCHANGED main PROVE KVInv'
  <2>1. ASSUME Continue(c) PROVE KVInv'
    BY <1>4, <2>1, OnePutKeeps, AppendKeeps, LeastKeeps, CheckGetKeeps, Zenon DEF Continue
  <2> QED
    BY <1>4, <2>1, SelectKeeps, CallKeeps, ServeKeeps, Zenon DEF ClientStep
<1>5. ASSUME OthersUnchanged PROVE UNCHANGED main
  BY <1>5, Zenon DEF OthersUnchanged, mainVars
<1>6. ASSUME Repartition \/ FaultStep PROVE KVInv'
  <2>1. UNCHANGED <<kvVars, testVars>> /\ UNCHANGED mainVars
    BY <1>6, Zenon DEF Repartition, FaultStep
  <2> QED
    BY <1>2, <2>1, Zenon DEF mainVars
<1>7. ASSUME UNCHANGED vars PROVE KVInv'
  <2>1. UNCHANGED <<kvVars, testVars>> /\ UNCHANGED main
    BY <1>7, Zenon DEF vars, mainVars
  <2> QED
    BY <1>2, <2>1, Zenon
<1> QED
  BY <1>1, <1>3, <1>4, <1>5, <1>6, <1>7, Zenon DEF Next, Finished

\* The version of the key, once it exists, is never 0 again.
LEMMA KeyStays ==
    ASSUME KVInv, NEW c \in Client, Serve(c), store[k].version # 0
    PROVE  store'[k].version # 0
<1> DEFINE req == pending[c].req
<1>1. \/ store' = store
      \/ store' = [store EXCEPT ![req.key] = [value |-> req.value, version |-> store[req.key].version + 1]]
  BY Zenon DEF Serve, Apply
<1>2. store \in [Key -> Held] /\ k \in Key
  BY KVTypesAre, Constants, Zenon DEF KVInv
<1>3. store[k].version \in Nat
  BY <1>2, Constants, Zenon DEF Held
<1>4. CASE store' = store
  BY <1>4
<1>5. CASE store' = [store EXCEPT ![req.key] = [value |-> req.value, version |-> store[req.key].version + 1]]
  <2> HIDE DEF req
  <2>1. \/ req.key # k /\ store'[k] = store[k]
        \/ req.key = k /\ store'[k].version = store[k].version + 1
    BY <1>2, <1>5
  <2>2. store[k].version + 1 # 0
    BY <1>3
  <2> QED
    BY <2>1, <2>2, Zenon
<1> QED
  BY <1>1, <1>4, <1>5, Zenon

\* A call that returns has met the key.
LEMMA AnsweredKey ==
    ASSUME KVInv, NEW c \in Client, Continue(c)
    PROVE  store[k].version # 0 /\ store' = store
<1>1. pending[c].outcome # Nothing /\ store' = store
  BY Zenon DEF Continue, OnePut, OneClientAppend, PutAtLeastOnce, CheckGet, Returns, Return
<1>2. ClientOK(c, program, store[k], clnt[c], pending[c])
  BY Zenon DEF KVInv
<1> QED
  BY <1>1, <1>2, Zenon DEF ClientOK

\* Every step keeps KeyWritten.
LEMMA WrittenKeeps ==
    ASSUME KVInv, KeyWritten, [Next]_vars
    PROVE  KeyWritten'
<1>1. ASSUME UNCHANGED <<store, program, clnt>>, spawner' = spawner \/ spawner' \in {"idle", "sleep", "returned"}
      PROVE  KeyWritten'
  BY <1>1 DEF KeyWritten, Running
<1>2. ASSUME UNCHANGED <<kvVars, testVars>> PROVE KeyWritten'
  BY <1>1, <1>2, Zenon DEF kvVars, testVars
<1>3. ASSUME NEW c \in Client, ClientStep(c) PROVE KeyWritten'
  <2>1. ASSUME Continue(c) PROVE KeyWritten'
    <3>1. store'[k].version # 0
      BY <2>1, AnsweredKey, Zenon
    <3> QED
      BY <3>1, Zenon DEF KeyWritten
  <2>2. ASSUME Serve(c) PROVE KeyWritten'
    <3>1. UNCHANGED <<program, clnt, spawner>>
      BY <2>2, Zenon DEF Serve, testVars
    <3>2. store[k].version # 0 => store'[k].version # 0
      BY <2>2, KeyStays, Zenon
    <3> QED
      BY <3>1, <3>2, Zenon DEF KeyWritten, Running
  <2>3. ASSUME Call(c) PROVE KeyWritten'
    <3>1. UNCHANGED <<store, program, clnt, spawner>>
      BY <2>3, Zenon DEF Call, Invoke, testVars
    <3> QED
      BY <1>1, <3>1, Zenon
  <2>4. ASSUME Select(c) PROVE KeyWritten'
    <3>1. spawner # "signal" /\ UNCHANGED <<store, program, spawner>>
      BY <2>4, Zenon DEF Select, kvVars
    <3> QED
      BY <3>1, Zenon DEF KeyWritten, Running
  <2> QED
    BY <1>3, <2>1, <2>2, <2>3, <2>4, Zenon DEF ClientStep
<1>4. ASSUME Wake PROVE KeyWritten'
  <2>1. /\ spawner' = "signal" /\ UNCHANGED <<store, clnt>>
        /\ store[k].version > 0 \/ \E c \in Client : clnt[c].pc = "put"
    BY <1>4, Zenon DEF Wake, kvVars
  <2>2. store[k].version > 0 => store[k].version # 0
    OBVIOUS
  <2> QED
    BY <2>1, <2>2 DEF KeyWritten
<1>5. ASSUME NEW c \in Client, TakeDone(c) PROVE KeyWritten'
  <2>1. /\ spawner = "signal" /\ clnt[c].pc = "select" /\ UNCHANGED <<store, program>>
        /\ clnt' = [clnt EXCEPT ![c] = [clnt[c] EXCEPT !.pc = "report"]]
        /\ \/ spawner' = "signal"
           \/ spawner' = "collect" /\ \A d \in Client \ {c} : clnt[d].pc = "report"
    BY <1>5 DEF TakeDone, Update, kvVars
  <2>2. clnt \in [Client -> Local]
    BY ClientFunctions, Zenon
  <2>3. \A d \in Client : clnt[d].pc = "put" => d # c /\ clnt'[d] = clnt[d]
    BY <2>1, <2>2
  <2>4. spawner' = "collect" => \A d \in Client : clnt[d].pc # "put"
    BY <2>1
  <2> QED
    BY <2>1, <2>3, <2>4 DEF KeyWritten, Running
<1>6. ASSUME NEW c \in Client, Collect(c) PROVE KeyWritten'
  <2>1. spawner = "collect" /\ spawner' \in {"check", "collect"} /\ UNCHANGED <<store, program>>
    BY <1>6 DEF Collect, kvVars
  <2> QED
    BY <2>1 DEF KeyWritten, Running
<1>7. ASSUME Check PROVE KeyWritten'
  <2>1. UNCHANGED <<store, program, clnt>> /\ (spawner' = spawner \/ spawner' \in {"idle", "sleep", "returned"})
    BY <1>7 DEF Check, kvVars
  <2> QED
    BY <1>1, <2>1, Zenon
<1>8. ASSUME MainStep PROVE KeyWritten'
  <2>1. ASSUME StartIteration PROVE KeyWritten'
    <3>1. /\ UNCHANGED program
          /\ spawner' = IF Running("least") THEN "collect" ELSE "sleep"
      BY <2>1, Zenon DEF StartIteration, Spawn
    <3> QED
      BY <3>1 DEF KeyWritten, Running
  <2>2. ASSUME JoinClients PROVE KeyWritten'
    <3>1. spawner' = "idle" /\ UNCHANGED <<store, program, clnt>>
      BY <2>2, Zenon DEF JoinClients, kvVars
    <3> QED
      BY <1>1, <3>1
  <2>3. ASSUME ~StartIteration, ~JoinClients PROVE UNCHANGED <<kvVars, testVars>>
    BY <1>8, <2>3, Zenon DEF MainStep, StopPartitioner, JoinPartitioner, ShutdownAll, RestartAll, NoCrash,
       EndIteration, Cleanup
  <2> QED
    BY <1>2, <2>1, <2>2, <2>3, Zenon
<1>9. ASSUME Repartition \/ FaultStep \/ UNCHANGED vars PROVE KeyWritten'
  <2>1. UNCHANGED <<kvVars, testVars>>
    BY <1>9, Zenon DEF Repartition, FaultStep, vars
  <2> QED
    BY <1>2, <2>1, Zenon
<1>10. ASSUME SpawnerStep PROVE KeyWritten'
  BY <1>4, <1>5, <1>6, <1>7, <1>10, Zenon DEF SpawnerStep
<1> QED
  BY <1>3, <1>8, <1>9, <1>10, Zenon DEF Next, Finished

\* The invariant implies what the tests promise.
LEMMA KVImplies ==
    ASSUME KVInv
    PROVE  ChecksPass /\ PutsAccounted
<1>1. ChecksPass
  BY Zenon DEF KVInv, ChecksPass
<1>2. KVTestTypeOK
  BY Zenon DEF KVInv, KVTypes
<1>3. ASSUME spawner = "check", Running("put")
      PROVE  LET nok == res.nok + Total("nok")
                 nmaybe == res.nmaybe + Total("nmaybe")
             IN nok <= store[k].version /\ store[k].version <= nok + nmaybe
  BY <1>3, VersionCounted, Zenon
<1>4. ASSUME spawner = "check", Running("append"), NEW c \in Client
      PROVE  LET puts == NEntries(c, store[k].value)
             IN /\ Increasing(c, store[k].value)
                /\ clnt[c].nok <= puts
                /\ puts <= clnt[c].nok + clnt[c].nmaybe
  <2>1. \A d \in Client : clnt[d].pc = "gone"
    BY <1>4, Zenon DEF KVInv, SpawnInv
  <2> QED
    BY <1>4, <2>1, ListsCounted, Zenon
<1>5. PutsAccounted
  BY <1>2, <1>3, <1>4, Zenon DEF PutsAccounted
<1> QED
  BY <1>1, <1>5, Zenon

\* KVInv and KeyWritten are invariants of the tests.
THEOREM KVInvariant == FairSpec => [](KVInv /\ KeyWritten)
<1>1. Init => KVInv /\ KeyWritten
  <2>1. Init => spawner = "idle"
    BY Zenon DEF Init, KVTestInit
  <2>2. spawner = "idle" => KeyWritten
    BY DEF KeyWritten
  <2> QED
    BY <2>1, <2>2, KVStarts, Zenon
<1>2. KVInv /\ KeyWritten /\ [Next]_vars => KVInv' /\ KeyWritten'
  BY KVKeeps, WrittenKeeps, Zenon
<1> QED
  BY <1>1, <1>2, PTL DEF FairSpec

-----------------------------------------------------------------------------
(* The theorems. *)

\* No check of the tests fails, however the calls of the clients interleave and
\* whichever answers are ErrMaybe: OnePut reads an entry it may read, the version
\* that PutAtLeastOnce computes is the key's, and CheckPutConcurrent and
\* CheckAppends find the counts they expect (the calls of ts.Fatalf in kvtest.go).
THEOREM TestChecksPass == FairSpec => []ChecksPass
<1>1. KVInv => ChecksPass
  BY KVImplies, Zenon
<1> QED
  BY <1>1, KVInvariant, PTL

\* When all clients have reported, the store holds every Put that returned OK,
\* and no more than these and the ErrMaybe ones: the version of the key for
\* OnePut, the entries of each client in the list for OneClientAppend.
THEOREM PutsAreAccounted == FairSpec => []PutsAccounted
<1>1. KVInv => PutsAccounted
  BY KVImplies, Zenon
<1> QED
  BY <1>1, KVInvariant, PTL

=============================================================================
