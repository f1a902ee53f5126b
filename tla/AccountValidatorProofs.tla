----------------------- MODULE AccountValidatorProofs -----------------------
(***************************************************************************)
(* Proofs about the search for an account's servers, for any number of     *)
(* servers a service may have.                                             *)
(***************************************************************************)
EXTENDS AccountValidator, TLAPS

LEMMA TypesInit == Init => TypeOK
<1> SUFFICES ASSUME Init PROVE TypeOK
  OBVIOUS
<1> USE MaxHostsAssumption DEF Init
<1>1. /\ enabled \subseteq Services /\ hosts \in [Services -> 0..MaxHosts]
      /\ named \in {"none", "nodomain", "known", "unknown"}
      /\ stage \in {"new", "started", "cancelled"}
      /\ mOperation \in {"none", "running", "posted"}
      /\ mx \in {"none", "running", "posted", "over"}
  OBVIOUS
<1>2. tested \in 0..3 /\ index \in 0..MaxHosts /\ calls \in Nat
  BY DEF IMAP
<1>3. /\ error \in [Services -> Errors] /\ server \in [Services -> 0..MaxHosts]
      /\ answers \in [Services -> Seq(Answers)]
  BY DEF Errors, Answers
<1>4. secret \in BOOLEAN /\ mResolveMX \in BOOLEAN /\ mxCancelled \in BOOLEAN
      /\ timer \in BOOLEAN
  OBVIOUS
<1> QED
  BY <1>1, <1>2, <1>3, <1>4 DEF TypeOK

\* The first of some services.
LEMMA FirstService ==
  ASSUME NEW S \in SUBSET Services, S # {}
  PROVE  LET next == CHOOSE t \in S : \A u \in S : t <= u
         IN  next \in S /\ \A u \in S : next <= u
<1>1. \A u \in S : u = 0 \/ u = 1 \/ u = 2
  BY DEF Services, IMAP, POP, SMTP
<1>2. \/ 0 \in S /\ \A u \in S : 0 <= u
      \/ 1 \in S /\ \A u \in S : 1 <= u
      \/ 2 \in S /\ \A u \in S : 2 <= u
  BY <1>1
<1>3. \E t \in S : \A u \in S : t <= u
  BY <1>2
<1> QED
  BY <1>3

\* What checkNextHost() comes to: the next server to try, the end of a
\* service's servers, or the end of the services.
GoesOn(s, i, known) ==
  /\ mOperation' = "running" /\ calls' = calls
  /\ tested' \in Services /\ tested' >= s /\ Testable(tested', known)
  /\ index' = (IF tested' = s THEN i ELSE 0) /\ index' < known[tested']
  /\ server' = [server EXCEPT ![tested'] = index' + 1]
  /\ \A u \in Services : s <= u /\ u < tested' => ~Testable(u, known)

RunsOut(s, i, known) ==
  /\ mOperation' = "none" /\ calls' = calls + 1
  /\ s \in Services /\ Testable(s, known) /\ i >= known[s]
  /\ tested' = s /\ index' = i
  /\ server' = [server EXCEPT ![s] = 0]

Ends(s, i, known) ==
  /\ mOperation' = "none" /\ calls' = calls + 1
  /\ tested' = 3 /\ index' \in {0, i}
  /\ server' = server
  /\ \A u \in Services : s <= u => ~Testable(u, known)

LEMMA CheckNextHostEffect ==
  ASSUME NEW s \in 0..3, NEW i \in Nat, NEW known \in [Services -> 0..MaxHosts],
         CheckNextHost(s, i, known)
  PROVE  GoesOn(s, i, known) \/ RunsOut(s, i, known) \/ Ends(s, i, known)
<1> DEFINE later == {t \in Services : t > s /\ Testable(t, known)}
           exhausted == s \in Services /\ Testable(s, known) /\ i >= known[s]
           here == s \in Services /\ Testable(s, known) /\ i < known[s]
           next == IF here \/ exhausted THEN s
                   ELSE IF later = {} THEN 3
                   ELSE CHOOSE t \in later : \A u \in later : t <= u
           at == IF next = s THEN i ELSE 0
<1>1. /\ tested' = next /\ index' = at
      /\ IF next = 3 \/ exhausted
         THEN /\ CallBack
              /\ server' = IF exhausted THEN [server EXCEPT ![s] = 0] ELSE server
              /\ mOperation' = "none"
         ELSE /\ mOperation' = "running"
              /\ server' = [server EXCEPT ![next] = at + 1]
              /\ UNCHANGED calls
  BY DEF CheckNextHost
<1>2. \A t \in Services : t \in Int /\ t # 3 /\ known[t] \in Int
  BY DEF Services, IMAP, POP, SMTP
<1>3. CASE exhausted
  BY <1>1, <1>3 DEF RunsOut, CallBack
<1>4. CASE here
  <2>1. next = s /\ ~exhausted /\ s # 3
    BY <1>2, <1>4
  <2> QED
    BY <1>1, <1>2, <1>4, <2>1 DEF GoesOn
<1>5. CASE ~here /\ ~exhausted /\ later = {}
  <2>1. next = 3
    BY <1>5
  <2>2. ~(s \in Services /\ Testable(s, known))
    BY <1>2, <1>5
  <2>3. \A u \in Services : s <= u => ~Testable(u, known)
    BY <1>2, <1>5, <2>2
  <2>4. /\ mOperation' = "none" /\ calls' = calls + 1
        /\ tested' = 3 /\ index' \in {0, i} /\ server' = server
    BY <1>1, <1>5, <2>1 DEF CallBack
  <2> HIDE DEF later, exhausted, here, next, at
  <2> QED
    BY <2>3, <2>4 DEF Ends
<1>6. CASE ~here /\ ~exhausted /\ later # {}
  <2>1. next \in later /\ \A u \in later : next <= u
    <3>1. later \in SUBSET Services
      OBVIOUS
    <3>2. next = CHOOSE t \in later : \A u \in later : t <= u
      BY <1>6
    <3> HIDE DEF later, next
    <3> QED
      BY <1>6, <3>1, <3>2, FirstService
  <2>2. ~(s \in Services /\ Testable(s, known))
    BY <1>2, <1>6
  <2>3. next \in Services /\ next > s /\ Testable(next, known) /\ next # 3 /\ at = 0
    BY <1>2, <2>1
  <2>4. ASSUME NEW u \in Services, s <= u, u < next
        PROVE  ~Testable(u, known)
    <3>1. u # s => u \notin later
      BY <1>2, <2>1, <2>3, <2>4
    <3> QED
      BY <1>2, <2>2, <2>4, <3>1
  <2>5. known[next] > 0
    BY <2>3 DEF Testable
  <2>6. /\ mOperation' = "running" /\ calls' = calls
        /\ tested' = next /\ index' = 0 /\ server' = [server EXCEPT ![next] = 0 + 1]
    BY <1>1, <1>6, <2>3
  <2> HIDE DEF later, exhausted, here, next, at
  <2> QED
    BY <1>2, <2>3, <2>4, <2>5, <2>6 DEF GoesOn
<1> QED
  BY <1>3, <1>4, <1>5, <1>6

-----------------------------------------------------------------------------
\* How far the search has come.  A service waits for its turn; i of its
\* servers were tried and failed; or what is reported of it is final.
Waiting(s) ==
  /\ answers[s] = <<>>
  /\ s \in enabled => error[s] = IF hosts[s] = 0 THEN "NoValidServerFound" ELSE "None"

Tried(s, i) ==
  /\ s \in enabled /\ i <= hosts[s] /\ Len(answers[s]) = i
  /\ \A j \in 1..i : answers[s][j] # "None"
  /\ error[s] = IF i = 0 THEN "None"
                ELSE IF Refused(s) THEN "Authentication" ELSE answers[s][i]

Settled(s) ==
  s \in enabled =>
    IF answers[s] # <<>> THEN TrueOf(s)
    ELSE /\ server[s] = 0
         /\ error[s] = IF hosts[s] = 0 THEN "NoValidServerFound" ELSE "None"

\* While a check runs the services before it are settled, those after it wait.
Progress ==
  mOperation # "none" =>
    /\ tested \in Services /\ index < hosts[tested]
    /\ Tried(tested, index) /\ server[tested] = index + 1
    /\ \A u \in Services : u < tested => Settled(u)
    /\ \A u \in Services : u > tested => Waiting(u) /\ server[u] = 0

\* Going on from server i of service s keeps to that, and an answer to the
\* client is final for every service.
LEMMA Advance ==
  ASSUME NEW s \in 0..3, NEW i \in Nat, CheckNextHost(s, i, hosts'),
         hosts' \in [Services -> 0..MaxHosts],
         server \in [Services -> 0..MaxHosts],
         answers' \in [Services -> Seq(Answers)],
         calls = 0, enabled \subseteq Services, enabled' = enabled,
         \A u \in Services : u < s /\ server'[u] = server[u] => Settled(u)',
         \A u \in Services : u > s => Waiting(u)' /\ server[u] = 0,
         s \in Services =>
           \/ i = 0 /\ Waiting(s)' /\ server[s] = 0
           \/ i > 0 /\ Tried(s, i)'
  PROVE  /\ Progress' /\ ReportIsTrue'
         /\ calls' <= 1 /\ calls' \in Nat
         /\ mOperation' \in {"none", "running"}
         /\ mOperation' # "none" => calls' = 0
         /\ server' \in [Services -> 0..MaxHosts]
         /\ tested' \in 0..3 /\ index' \in Nat /\ (index' <= MaxHosts \/ index' = i)
<1>1. \A t \in Services : t \in Int /\ t \in 0..2 /\ hosts'[t] \in Int /\ hosts'[t] <= MaxHosts
  BY DEF Services, IMAP, POP, SMTP
<1>2. ASSUME NEW u \in Services, Waiting(u)', server'[u] = 0
      PROVE  Settled(u)'
  BY <1>2 DEF Waiting, Settled
<1>3. ASSUME NEW u \in Services, s <= u, ~Testable(u, hosts'), server'[u] = server[u]
      PROVE  Settled(u)'
  <2>1. CASE u = s
    <3>1. ~(i > 0 /\ Tried(s, i)')
      BY <1>1, <1>3, <2>1 DEF Tried, Testable
    <3> QED
      BY <1>2, <1>3, <2>1, <3>1
  <2>2. CASE u # s
    BY <1>1, <1>2, <1>3, <2>2, SMTT(30)
  <2> QED
    BY <2>1, <2>2
<1>4. ASSUME \A u \in Services : Settled(u)'
      PROVE  ReportIsTrue'
  BY <1>4 DEF ReportIsTrue, Settled
<1>5. CASE GoesOn(s, i, hosts')
  <2>1. /\ mOperation' = "running" /\ calls' = calls
        /\ tested' \in Services /\ tested' >= s /\ Testable(tested', hosts')
        /\ index' = (IF tested' = s THEN i ELSE 0) /\ index' < hosts'[tested']
        /\ server' = [server EXCEPT ![tested'] = index' + 1]
        /\ \A u \in Services : s <= u /\ u < tested' => ~Testable(u, hosts')
    BY <1>5 DEF GoesOn
  <2>2. /\ server'[tested'] = index' + 1
        /\ \A u \in Services : u # tested' => server'[u] = server[u]
    BY <2>1
  <2>3. Tried(tested, index)'
    <3>1. PICK t \in Services : t = tested'
      BY <2>1
    <3>2. PICK n \in Nat : n = index'
      BY <2>1
    <3>3. Tried(t, n)'
      <4>1. CASE n = 0
        <5>1. Waiting(t)'
          BY <1>1, <2>1, <3>1, <3>2, <4>1
        <5> QED
          BY <1>1, <2>1, <3>1, <4>1, <5>1 DEF Waiting, Tried, Testable
      <4>2. CASE n # 0
        <5>1. t = s /\ n = i /\ i > 0
          BY <2>1, <3>1, <3>2, <4>2
        <5> QED
          BY <3>1, <5>1
      <4> QED
        BY <4>1, <4>2
    <3> QED
      BY <3>1, <3>2, <3>3 DEF Tried, Refused
  <2>4. ASSUME NEW u \in Services, u < tested'
        PROVE  Settled(u)'
    <3>1. server'[u] = server[u]
      BY <1>1, <2>1, <2>2, <2>4
    <3>2. CASE u < s
      BY <3>1, <3>2
    <3>3. CASE s <= u
      BY <1>3, <2>1, <2>4, <3>1, <3>3
    <3> QED
      BY <1>1, <3>2, <3>3
  <2>5. ASSUME NEW u \in Services, u > tested'
        PROVE  Waiting(u)' /\ server'[u] = 0
    BY <1>1, <2>1, <2>2, <2>5
  <2>6. Progress'
    BY <2>1, <2>2, <2>3, <2>4, <2>5 DEF Progress
  <2>7. ReportIsTrue'
    BY <2>1 DEF ReportIsTrue
  <2>8. index' \in Nat /\ index' + 1 \in 0..MaxHosts /\ index' <= MaxHosts
    BY <1>1, <2>1, MaxHostsAssumption
  <2>9. server' \in [Services -> 0..MaxHosts]
    BY <2>1, <2>8
  <2>10. tested' \in 0..3
    BY <1>1, <2>1
  <2> QED
    BY <2>1, <2>6, <2>7, <2>8, <2>9, <2>10
<1>6. CASE RunsOut(s, i, hosts')
  <2>1. /\ mOperation' = "none" /\ calls' = 1
        /\ s \in Services /\ Testable(s, hosts') /\ i >= hosts'[s]
        /\ tested' = s /\ index' = i
        /\ server' = [server EXCEPT ![s] = 0]
    BY <1>6 DEF RunsOut
  <2>2. /\ server'[s] = 0
        /\ \A u \in Services : u # s => server'[u] = server[u]
    BY <2>1
  <2>3. i > 0 /\ Tried(s, i)' /\ i = hosts'[s]
    BY <1>1, <2>1 DEF Testable, Tried
  <2>4. Settled(s)'
    <3>1. answers'[s] \in Seq(Answers) /\ Len(answers'[s]) = i /\ answers'[s] # <<>>
      BY <2>1, <2>3 DEF Tried
    <3>2. TrueOf(s)'
      BY <2>2, <2>3, <3>1 DEF Tried, TrueOf
    <3> QED
      BY <3>1, <3>2 DEF Settled
  <2>5. \A u \in Services : Settled(u)'
    BY <1>1, <1>2, <2>1, <2>2, <2>4
  <2> QED
    BY <1>1, <1>4, <2>1, <2>5, MaxHostsAssumption DEF Progress
<1>7. CASE Ends(s, i, hosts')
  <2>1. /\ mOperation' = "none" /\ calls' = 1
        /\ tested' = 3 /\ index' \in {0, i} /\ server' = server
        /\ \A u \in Services : s <= u => ~Testable(u, hosts')
    BY <1>7 DEF Ends
  <2>2. \A u \in Services : Settled(u)'
    BY <1>1, <1>3, <2>1
  <2> QED
    BY <1>4, <2>1, <2>2, MaxHostsAssumption DEF Progress
<1> QED
  BY <1>5, <1>6, <1>7, CheckNextHostEffect

LEMMA AppendFacts ==
  ASSUME NEW q \in Seq(Answers), NEW a \in Answers
  PROVE  /\ Append(q, a) \in Seq(Answers) /\ Append(q, a) # <<>>
         /\ Len(q) \in Nat /\ Len(Append(q, a)) = Len(q) + 1
         /\ DOMAIN q = 1..Len(q) /\ DOMAIN Append(q, a) = 1..Len(q) + 1
         /\ \A i \in 1..Len(q) : Append(q, a)[i] = q[i]
         /\ Append(q, a)[Len(q) + 1] = a
OBVIOUS

\* A refusal stands until a server answers otherwise than by not being there.
LEMMA RefusedAppend ==
  ASSUME NEW s, NEW a \in Answers, answers[s] \in Seq(Answers),
         answers'[s] = Append(answers[s], a)
  PROVE  Refused(s)' <=> \/ a = "Authentication"
                         \/ a = "Connection" /\ Refused(s)
<1> DEFINE q == answers[s]
           n == Len(answers[s])
           r == Append(q, a)
<1>1. /\ n \in Nat /\ DOMAIN q = 1..n /\ DOMAIN r = 1..n + 1
      /\ \A i \in 1..n : r[i] = q[i]
      /\ r[n + 1] = a
  BY AppendFacts
<1>2. Refused(s) <=> \E i \in DOMAIN q :
                       /\ q[i] = "Authentication"
                       /\ \A j \in DOMAIN q : j > i => q[j] = "Connection"
  BY DEF Refused
<1>3. Refused(s)' <=> \E i \in DOMAIN r :
                        /\ r[i] = "Authentication"
                        /\ \A j \in DOMAIN r : j > i => r[j] = "Connection"
  BY DEF Refused
<1> HIDE DEF q, n, r
<1>4. ASSUME a = "Authentication"
      PROVE  Refused(s)'
  <2>1. n + 1 \in DOMAIN r /\ \A j \in DOMAIN r : ~(j > n + 1)
    BY <1>1
  <2> QED
    BY <1>1, <1>3, <1>4, <2>1
<1>5. ASSUME a = "Connection", Refused(s)
      PROVE  Refused(s)'
  <2>1. PICK i \in DOMAIN q : /\ q[i] = "Authentication"
                              /\ \A j \in DOMAIN q : j > i => q[j] = "Connection"
    BY <1>2, <1>5
  <2>2. i \in DOMAIN r /\ r[i] = "Authentication"
    BY <1>1, <2>1
  <2>3. ASSUME NEW j \in DOMAIN r, j > i
        PROVE  r[j] = "Connection"
    <3>1. CASE j = n + 1
      BY <1>1, <1>5, <3>1
    <3>2. CASE j # n + 1
      <4>1. j \in 1..n
        BY <1>1, <2>3, <3>2
      <4> QED
        BY <1>1, <2>1, <2>3, <4>1
    <3> QED
      BY <3>1, <3>2
  <2> QED
    BY <1>3, <2>2, <2>3
<1>6. ASSUME Refused(s)', a # "Authentication"
      PROVE  a = "Connection" /\ Refused(s)
  <2>1. PICK i \in DOMAIN r : /\ r[i] = "Authentication"
                              /\ \A j \in DOMAIN r : j > i => r[j] = "Connection"
    BY <1>3, <1>6
  <2>2. i # n + 1
    BY <1>1, <1>6, <2>1
  <2>3. i \in 1..n /\ n + 1 > i /\ n + 1 \in DOMAIN r
    BY <1>1, <2>1, <2>2
  <2>4. a = "Connection"
    BY <1>1, <2>1, <2>3
  <2>5. \A j \in DOMAIN q : j \in DOMAIN r /\ r[j] = q[j]
    BY <1>1
  <2>6. i \in DOMAIN q /\ q[i] = "Authentication"
    BY <1>1, <2>1, <2>3
  <2> QED
    BY <1>2, <2>1, <2>4, <2>5, <2>6
<1> QED
  BY <1>4, <1>5, <1>6

-----------------------------------------------------------------------------
\* The resolver is raced by the timer exactly while its answer would count;
\* a check runs only before the client is answered.
Phase ==
  /\ mx \in {"running", "posted"} /\ ~mxCancelled <=> timer
  /\ timer => mResolveMX /\ stage = "started" /\ calls = 0 /\ mOperation = "none"
  /\ stage = "new" => /\ calls = 0 /\ mOperation = "none"
                      /\ mx = "none" /\ ~mxCancelled
  /\ mOperation # "none" => calls = 0 /\ stage = "started"
  /\ calls <= 1

\* Nothing was checked before the provider is settled.
Fresh ==
  stage = "new" \/ timer =>
    /\ tested = 0 /\ index = 0
    /\ \A s \in Services : answers[s] = <<>> /\ server[s] = 0 /\ error[s] = "None"

IInv == TypeOK /\ Phase /\ Fresh /\ Progress /\ ReportIsTrue

LEMMA InvInit == Init => IInv
<1> SUFFICES ASSUME Init PROVE IInv
  OBVIOUS
<1>1. TypeOK
  BY TypesInit
<1>2. calls = 0 /\ mOperation = "none" /\ mx = "none" /\ stage = "new"
      /\ ~timer /\ ~mxCancelled
  BY DEF Init
<1>3. Fresh
  BY DEF Init, Fresh, IMAP
<1> QED
  BY <1>1, <1>2, <1>3 DEF IInv, Phase, Progress, ReportIsTrue

\* What starting to check establishes, from a fresh state.
LEMMA StartCheckingEffect ==
  ASSUME TypeOK, calls = 0, mOperation = "none", NEW provider \in BOOLEAN,
         tested = 0, index = 0,
         \A s \in Services : answers[s] = <<>> /\ server[s] = 0 /\ error[s] = "None",
         StartCheckingHosts(provider), UNCHANGED request
  PROVE  /\ hosts' \in [Services -> 0..MaxHosts]
         /\ error' \in [Services -> Errors]
         /\ answers' = answers
         /\ Progress' /\ ReportIsTrue'
         /\ calls' <= 1 /\ calls' \in Nat
         /\ mOperation' \in {"none", "running"}
         /\ mOperation' # "none" => calls' = 0
         /\ server' \in [Services -> 0..MaxHosts]
         /\ tested' \in 0..3 /\ index' \in 0..MaxHosts
<1>1. PICK known \in SetupServices(provider) :
        /\ hosts' = known
        /\ UNCHANGED answers
        /\ IF secret
           THEN /\ error' = [s \in Services |-> IF s \in enabled /\ known[s] = 0
                                                THEN "NoValidServerFound" ELSE error[s]]
                /\ CheckNextHost(tested, index, known)
           ELSE CallBack /\ UNCHANGED <<error, tested, index, server, mOperation>>
  BY DEF StartCheckingHosts
<1>2. hosts' \in [Services -> 0..MaxHosts]
  BY <1>1 DEF SetupServices, TypeOK
<1>3. UNCHANGED <<enabled, named, secret>>
  BY DEF request
<1>4. CASE secret
  <2>1. /\ error' = [s \in Services |-> IF s \in enabled /\ hosts'[s] = 0
                                        THEN "NoValidServerFound" ELSE error[s]]
        /\ CheckNextHost(0, 0, hosts')
    BY <1>1, <1>4
  <2>2. error' \in [Services -> Errors]
    BY <2>1 DEF TypeOK, Errors
  <2>3. ASSUME NEW u \in Services
        PROVE  Waiting(u)' /\ server[u] = 0 /\ ~(u < 0)
    <3>1. ~(u < 0)
      BY DEF Services, IMAP, POP, SMTP
    <3> QED
      BY <1>1, <1>3, <2>1, <3>1 DEF Waiting
  <2>4. 0 \in 0..3 /\ 0 \in Nat /\ 0 <= MaxHosts
    BY MaxHostsAssumption
  <2>5. /\ server \in [Services -> 0..MaxHosts] /\ enabled \subseteq Services
        /\ answers' \in [Services -> Seq(Answers)]
    BY <1>1 DEF TypeOK
  <2>6. /\ Progress' /\ ReportIsTrue'
        /\ calls' <= 1 /\ calls' \in Nat
        /\ mOperation' \in {"none", "running"}
        /\ mOperation' # "none" => calls' = 0
        /\ server' \in [Services -> 0..MaxHosts]
        /\ tested' \in 0..3 /\ index' \in Nat /\ (index' <= MaxHosts \/ index' = 0)
    <3> DEFINE i == 0
    <3>1. /\ i \in 0..3 /\ i \in Nat /\ CheckNextHost(i, i, hosts')
          /\ \A u \in Services : u < i /\ server'[u] = server[u] => Settled(u)'
          /\ \A u \in Services : u > i => Waiting(u)' /\ server[u] = 0
          /\ i \in Services =>
               \/ i = 0 /\ Waiting(i)' /\ server[i] = 0
               \/ i > 0 /\ Tried(i, i)'
      BY <2>1, <2>3, <2>4
    <3> HIDE DEF i
    <3>2. /\ Progress' /\ ReportIsTrue'
          /\ calls' <= 1 /\ calls' \in Nat
          /\ mOperation' \in {"none", "running"}
          /\ mOperation' # "none" => calls' = 0
          /\ server' \in [Services -> 0..MaxHosts]
          /\ tested' \in 0..3 /\ index' \in Nat /\ (index' <= MaxHosts \/ index' = i)
      BY <1>2, <1>3, <2>5, <3>1, Advance
    <3> QED
      BY <3>2 DEF i
  <2> QED
    BY <1>1, <1>2, <2>2, <2>6, MaxHostsAssumption
<1>5. CASE ~secret
  BY <1>1, <1>2, <1>3, <1>5 DEF CallBack, TypeOK, Progress, ReportIsTrue, Asked
<1> QED
  BY <1>4, <1>5 DEF TypeOK

\* A step that leaves the checks alone keeps what they established.
LEMMA ChecksKept ==
  ASSUME Progress, ReportIsTrue, UNCHANGED <<request, hosts, tested, index, error, server, answers>>,
         mOperation' # "none" => mOperation # "none", calls' > 0 => calls > 0
  PROVE  Progress' /\ ReportIsTrue'
<1>1. UNCHANGED <<enabled, named, secret>>
  BY DEF request
<1> QED
  BY <1>1 DEF Progress, ReportIsTrue, Asked, Waiting, Tried, Settled, TrueOf, Refused

\* The three ways to start checking: the provider known at once, the
\* resolver's answer, and its timeout.
LEMMA StartsChecking ==
  ASSUME IInv, NEW provider \in BOOLEAN, StartCheckingHosts(provider),
         UNCHANGED request,
         stage = "new" \/ timer, stage' = "started", timer' = FALSE,
         mx' \in {"none", "over"} \/ (mx' = mx /\ mxCancelled'),
         mx' \in {"none", "running", "posted", "over"}, mxCancelled' \in BOOLEAN,
         mResolveMX' \in BOOLEAN
  PROVE  IInv'
<1>1. /\ calls = 0 /\ mOperation = "none" /\ tested = 0 /\ index = 0
      /\ \A s \in Services : answers[s] = <<>> /\ server[s] = 0 /\ error[s] = "None"
  BY DEF IInv, Phase, Fresh
<1>2. /\ hosts' \in [Services -> 0..MaxHosts]
      /\ error' \in [Services -> Errors]
      /\ answers' = answers
      /\ Progress' /\ ReportIsTrue'
      /\ calls' <= 1 /\ calls' \in Nat
      /\ mOperation' \in {"none", "running"}
      /\ mOperation' # "none" => calls' = 0
      /\ server' \in [Services -> 0..MaxHosts]
      /\ tested' \in 0..3 /\ index' \in 0..MaxHosts
  BY <1>1, StartCheckingEffect DEF IInv
<1>3. Phase'
  BY <1>2 DEF Phase
<1>4. Fresh'
  BY DEF Fresh
<1>5. TypeOK'
  BY <1>2 DEF IInv, TypeOK, request
<1> QED
  BY <1>2, <1>3, <1>4, <1>5 DEF IInv

\* The answer of a check.
LEMMA CheckAnswered ==
  ASSUME IInv, CheckNextHostDone
  PROVE  IInv'
<1> DEFINE t == tested
           n == index + 1
<1>1. PICK a \in Answers :
        /\ error' = [error EXCEPT ![tested] = Report(error[tested], a)]
        /\ answers' = [answers EXCEPT ![tested] = Append(@, a)]
        /\ IF Report(error[tested], a) = "None"
           THEN CheckNextHost(tested + 1, 0, hosts)
           ELSE CheckNextHost(tested, index + 1, hosts)
  BY DEF CheckNextHostDone
<1>2. /\ UNCHANGED <<enabled, named, secret, hosts, mResolveMX, mx, mxCancelled, timer, stage>>
      /\ mOperation = "posted"
  BY DEF CheckNextHostDone, request, mxVars
<1>3. /\ calls = 0 /\ stage = "started" /\ ~timer
      /\ tested \in Services /\ index < hosts[tested]
      /\ Tried(tested, index) /\ server[tested] = index + 1
      /\ \A u \in Services : u < tested => Settled(u)
      /\ \A u \in Services : u > tested => Waiting(u) /\ server[u] = 0
  BY <1>2 DEF IInv, Phase, Progress
<1>4. /\ tested \in 0..2 /\ index \in Nat /\ hosts[tested] \in 0..MaxHosts
      /\ answers[tested] \in Seq(Answers) /\ error[tested] \in Errors
      /\ enabled \subseteq Services
      /\ \A u \in Services : u \in 0..2
  BY <1>3, MaxHostsAssumption DEF IInv, TypeOK, Services, IMAP, POP, SMTP
<1>5. /\ error'[tested] = Report(error[tested], a)
      /\ answers'[tested] = Append(answers[tested], a)
      /\ \A u \in Services : u # tested => /\ error'[u] = error[u]
                                         /\ answers'[u] = answers[u]
  BY <1>1, <1>3 DEF IInv, TypeOK
<1>6. /\ Len(answers'[tested]) = index + 1 /\ answers'[tested] # <<>>
      /\ answers'[tested][index + 1] = a
      /\ \A j \in 1..index : answers'[tested][j] # "None"
  BY <1>3, <1>4, <1>5, AppendFacts DEF Tried
<1>7. PICK s \in Services : s = tested
  BY <1>3
<1>8. Refused(s)' <=> a = "Authentication" \/ (a = "Connection" /\ Refused(s))
  BY <1>4, <1>5, <1>7, RefusedAppend
<1>9. error'[s] = IF Refused(s)' THEN "Authentication" ELSE a
  <2>1. Refused(s) => error[s] = "Authentication"
    <3>1. Refused(s) => index # 0
      BY <1>3, <1>4, <1>7, AppendFacts DEF Tried, Refused
    <3> QED
      BY <1>3, <1>7, <3>1 DEF Tried
  <2>2. error[s] = "Authentication" => Refused(s)
    <3>1. ASSUME error[s] = "Authentication", ~Refused(s)
          PROVE  FALSE
      <4>1. index # 0 /\ answers[s][index] = "Authentication"
        BY <1>3, <1>7, <3>1 DEF Tried
      <4>2. /\ Len(answers[s]) = index /\ index \in DOMAIN answers[s]
            /\ \A j \in DOMAIN answers[s] : ~(j > index)
        BY <1>3, <1>4, <1>7, <4>1 DEF Tried
      <4> QED
        BY <3>1, <4>1, <4>2 DEF Refused
    <3> QED
      BY <3>1
  <2> QED
    BY <1>5, <1>7, <1>8, <2>1, <2>2 DEF Report
<1>10. ASSUME NEW u \in Services, u < tested, server'[u] = server[u]
       PROVE  Settled(u)'
  <2>1. u # tested /\ Settled(u)
    BY <1>3, <1>4, <1>10
  <2>2. answers'[u] = answers[u] /\ error'[u] = error[u]
    BY <1>5, <2>1
  <2> QED
    BY <1>2, <1>10, <2>1, <2>2 DEF Settled, TrueOf, Refused
<1>11. ASSUME NEW u \in Services, u > tested
       PROVE  Waiting(u)' /\ server[u] = 0
  <2>1. u # tested /\ Waiting(u) /\ server[u] = 0
    BY <1>3, <1>4, <1>11
  <2> QED
    BY <1>2, <1>5, <2>1 DEF Waiting
<1>12. /\ error' \in [Services -> Errors]
       /\ answers' \in [Services -> Seq(Answers)]
       /\ hosts' \in [Services -> 0..MaxHosts] /\ server \in [Services -> 0..MaxHosts]
  <2>1. Report(error[tested], a) \in Errors
    BY <1>4 DEF Report, Errors
  <2>2. Append(answers[tested], a) \in Seq(Answers)
    BY <1>4, AppendFacts
  <2> QED
    BY <1>1, <1>2, <2>1, <2>2 DEF IInv, TypeOK
<1>13. /\ Progress' /\ ReportIsTrue'
       /\ calls' <= 1 /\ calls' \in Nat
       /\ mOperation' \in {"none", "running"}
       /\ mOperation' # "none" => calls' = 0
       /\ server' \in [Services -> 0..MaxHosts]
       /\ tested' \in 0..3 /\ index' \in 0..MaxHosts
  <2>1. CASE Report(error[tested], a) = "None"
    <3>0. PICK k \in Nat, i \in Nat : k = tested + 1 /\ i = 0
      BY <1>4
    <3>1. /\ k \in 0..3 /\ i \in Nat /\ CheckNextHost(k, i, hosts') /\ i <= MaxHosts
      BY <1>1, <1>2, <1>4, <2>1, <3>0, MaxHostsAssumption
    <3>2. a = "None" /\ ~Refused(s)'
      BY <1>5, <1>7, <1>8, <1>9, <2>1
    <3>3. server'[s] = server[s] => Settled(s)'
      BY <1>3, <1>6, <1>7, <1>9, <3>2, <1>4 DEF Settled, TrueOf
    <3>4. \A u \in Services : u < k /\ server'[u] = server[u] => Settled(u)'
      BY <1>4, <1>7, <1>10, <3>0, <3>3
    <3>5. /\ \A u \in Services : u > k => Waiting(u)' /\ server[u] = 0
          /\ k \in Services =>
               \/ i = 0 /\ Waiting(k)' /\ server[k] = 0
               \/ i > 0 /\ Tried(k, i)'
      BY <1>4, <1>11, <3>0
    <3>6. /\ Progress' /\ ReportIsTrue'
          /\ calls' <= 1 /\ calls' \in Nat
          /\ mOperation' \in {"none", "running"}
          /\ mOperation' # "none" => calls' = 0
          /\ server' \in [Services -> 0..MaxHosts]
          /\ tested' \in 0..3 /\ index' \in Nat /\ (index' <= MaxHosts \/ index' = i)
      BY <1>2, <1>3, <1>4, <1>12, <3>1, <3>4, <3>5, Advance
    <3> QED
      BY <3>1, <3>6, MaxHostsAssumption
  <2>2. CASE Report(error[tested], a) # "None"
    <3>0. PICK i \in Nat : i = index + 1
      BY <1>4
    <3>1. /\ s \in 0..3 /\ i \in Nat /\ CheckNextHost(s, i, hosts') /\ i <= MaxHosts
          /\ i > 0 /\ i <= hosts'[s]
      BY <1>1, <1>2, <1>3, <1>4, <1>7, <2>2, <3>0, MaxHostsAssumption
    <3>2. a # "None"
      BY <1>4, <2>2 DEF Report
    <3>3. Tried(s, i)'
      BY <1>2, <1>3, <1>4, <1>6, <1>7, <1>9, <3>0, <3>1, <3>2, SMTT(30) DEF Tried
    <3>4. /\ \A u \in Services : u < s /\ server'[u] = server[u] => Settled(u)'
          /\ \A u \in Services : u > s => Waiting(u)' /\ server[u] = 0
      BY <1>7, <1>10, <1>11
    <3>5. /\ Progress' /\ ReportIsTrue'
          /\ calls' <= 1 /\ calls' \in Nat
          /\ mOperation' \in {"none", "running"}
          /\ mOperation' # "none" => calls' = 0
          /\ server' \in [Services -> 0..MaxHosts]
          /\ tested' \in 0..3 /\ index' \in Nat /\ (index' <= MaxHosts \/ index' = i)
      BY <1>2, <1>3, <1>4, <1>12, <3>1, <3>3, <3>4, Advance
    <3> QED
      BY <3>1, <3>5, MaxHostsAssumption
  <2> QED
    BY <2>1, <2>2
<1>14. Phase' /\ Fresh'
  BY <1>2, <1>3, <1>13 DEF IInv, Phase, Fresh
<1>15. TypeOK'
  BY <1>2, <1>12, <1>13 DEF IInv, TypeOK
<1> QED
  BY <1>13, <1>14, <1>15 DEF IInv

LEMMA InvNext == IInv /\ [Next]_vars => IInv'
<1> SUFFICES ASSUME IInv, [Next]_vars PROVE IInv'
  OBVIOUS
<1>1. CASE Start
  <2>1. /\ stage = "new" /\ stage' = "started" /\ UNCHANGED request
        /\ calls = 0 /\ mOperation = "none" /\ ~timer /\ mx = "none" /\ ~mxCancelled
        /\ tested = 0 /\ index = 0
        /\ \A s \in Services : answers[s] = <<>> /\ server[s] = 0 /\ error[s] = "None"
    BY <1>1 DEF Start, IInv, Phase, Fresh
  <2>2. CASE named = "none" /\ UNCHANGED <<hosts, mxVars, checkVars, calls>>
    <3>1. UNCHANGED <<mResolveMX, mx, mxCancelled, timer, hosts, calls, tested, index, error,
                      server, mOperation, answers>>
      BY <2>2 DEF mxVars, checkVars
    <3>2. Progress' /\ ReportIsTrue'
      BY <2>1, <3>1, ChecksKept DEF IInv
    <3> QED
      BY <2>1, <3>1, <3>2 DEF IInv, TypeOK, request, Phase, Fresh
  <2>3. CASE /\ named = "nodomain"
             /\ error' = [s \in Services |-> "NoValidServerFound"]
             /\ CallBack
             /\ UNCHANGED <<hosts, mxVars, tested, index, server, mOperation, answers>>
    <3>1. /\ UNCHANGED <<mResolveMX, mx, mxCancelled, timer, enabled, named, secret>>
          /\ calls' = 1
      BY <2>1, <2>3 DEF mxVars, request, CallBack
    <3>2. ~Asked'
      BY <2>3, <3>1 DEF Asked
    <3>3. Progress' /\ ReportIsTrue'
      BY <2>1, <2>3, <3>2 DEF Progress, ReportIsTrue
    <3>4. error' \in [Services -> Errors]
      BY <2>3 DEF Errors
    <3>5. TypeOK'
      BY <2>1, <2>3, <3>1, <3>4 DEF IInv, TypeOK
    <3> QED
      BY <2>1, <2>3, <3>1, <3>3, <3>5 DEF IInv, Phase, Fresh
  <2>4. CASE named = "known" /\ StartCheckingHosts(TRUE) /\ UNCHANGED mxVars
    <3>1. UNCHANGED <<mResolveMX, mx, mxCancelled, timer>>
      BY <2>4 DEF mxVars
    <3>2. /\ stage = "new" \/ timer
          /\ stage' = "started" /\ timer' = FALSE
          /\ mx' \in {"none", "over"} \/ (mx' = mx /\ mxCancelled')
          /\ mx' \in {"none", "running", "posted", "over"}
          /\ mxCancelled' \in BOOLEAN /\ mResolveMX' \in BOOLEAN
      BY <2>1, <3>1 DEF IInv, TypeOK
    <3>3. TRUE \in BOOLEAN
      OBVIOUS
    <3> QED
      BY <2>1, <2>4, <3>2, <3>3, StartsChecking
  <2>5. CASE /\ named = "unknown" /\ timer' = TRUE
             /\ mResolveMX' = TRUE /\ mx' = "running"
             /\ UNCHANGED <<hosts, mxCancelled, checkVars, calls>>
    <3>1. UNCHANGED <<tested, index, error, server, mOperation, answers>>
      BY <2>5 DEF checkVars
    <3>2. Progress' /\ ReportIsTrue'
      BY <2>1, <2>5, <3>1, ChecksKept DEF IInv
    <3>3. TypeOK'
      BY <2>1, <2>5, <3>1 DEF IInv, TypeOK, request
    <3> QED
      BY <2>1, <2>5, <3>1, <3>2, <3>3 DEF IInv, Phase, Fresh
  <2> QED
    BY <1>1, <2>2, <2>3, <2>4, <2>5 DEF Start
<1>2. CASE ResolveMXFinished
  <2>1. /\ mx = "posted" /\ ~mxCancelled /\ mx' = "over"
        /\ UNCHANGED <<request, mResolveMX, mxCancelled, stage>>
        /\ timer' = FALSE
    BY <1>2 DEF ResolveMXFinished, ResolveMXDone
  <2>2. PICK provider \in BOOLEAN : StartCheckingHosts(provider)
    BY <1>2 DEF ResolveMXFinished, ResolveMXDone
  <2>3. timer /\ stage = "started"
    BY <2>1 DEF IInv, Phase
  <2>4. /\ stage = "new" \/ timer
        /\ stage' = "started" /\ timer' = FALSE
        /\ mx' \in {"none", "over"} \/ (mx' = mx /\ mxCancelled')
        /\ mx' \in {"none", "running", "posted", "over"}
        /\ mxCancelled' \in BOOLEAN /\ mResolveMX' \in BOOLEAN
    BY <2>1, <2>3 DEF IInv, TypeOK
  <2> QED
    BY <2>1, <2>2, <2>4, StartsChecking
<1>3. CASE ResolveMXTimeout
  <2>1. /\ timer /\ mxCancelled' = TRUE /\ mResolveMX' = FALSE
        /\ UNCHANGED <<request, mx, stage>>
        /\ timer' = FALSE
    BY <1>3 DEF ResolveMXTimeout, ResolveMXDone
  <2>2. PICK provider \in BOOLEAN : StartCheckingHosts(provider)
    BY <1>3 DEF ResolveMXTimeout, ResolveMXDone
  <2>3. stage = "started"
    BY <2>1 DEF IInv, Phase
  <2>4. /\ stage = "new" \/ timer
        /\ stage' = "started" /\ timer' = FALSE
        /\ mx' \in {"none", "over"} \/ (mx' = mx /\ mxCancelled')
        /\ mx' \in {"none", "running", "posted", "over"}
        /\ mxCancelled' \in BOOLEAN /\ mResolveMX' \in BOOLEAN
    BY <2>1, <2>3 DEF IInv, TypeOK
  <2> QED
    BY <2>1, <2>2, <2>4, StartsChecking
<1>4. CASE CheckNextHostDone
  BY <1>4, CheckAnswered
<1>5. CASE ResolveMXDropped \/ ResolveMX
  <2>1. /\ UNCHANGED <<request, hosts, mResolveMX, mxCancelled, timer, tested, index, error,
                       server, mOperation, answers, stage, calls>>
        /\ \/ mx = "posted" /\ mxCancelled /\ mx' = "over"
           \/ mx = "running" /\ mx' = "posted"
    BY <1>5 DEF ResolveMXDropped, ResolveMX, checkVars
  <2>2. Progress' /\ ReportIsTrue'
    BY <2>1, ChecksKept DEF IInv
  <2>3. TypeOK'
    BY <2>1 DEF IInv, TypeOK, request
  <2> QED
    BY <2>1, <2>2, <2>3 DEF IInv, Phase, Fresh
<1>6. CASE CheckAccount
  <2>1. /\ UNCHANGED <<request, hosts, mResolveMX, mx, mxCancelled, timer, tested, index,
                       error, server, answers, stage, calls>>
        /\ mOperation = "running" /\ mOperation' = "posted"
    BY <1>6 DEF CheckAccount, mxVars
  <2>2. Progress' /\ ReportIsTrue'
    BY <2>1, ChecksKept DEF IInv
  <2>3. TypeOK'
    BY <2>1 DEF IInv, TypeOK, request
  <2> QED
    BY <2>1, <2>2, <2>3 DEF IInv, Phase, Fresh
<1>7. CASE Cancel
  <2>1. /\ UNCHANGED <<request, hosts, mx, tested, index, error, server, answers, calls>>
        /\ stage' = "cancelled" /\ mOperation' = "none" /\ timer' = FALSE
        /\ mResolveMX' = FALSE
        /\ mxCancelled' = (mxCancelled \/ mResolveMX)
    BY <1>7 DEF Cancel
  <2>2. mxCancelled' \in BOOLEAN /\ (mxCancelled' <=> mxCancelled \/ mResolveMX)
    BY <2>1, Zenon
  <2>3. Progress' /\ ReportIsTrue'
    BY <2>1, ChecksKept DEF IInv
  <2>4. TypeOK'
    BY <2>1, <2>2 DEF IInv, TypeOK, request
  <2> QED
    BY <2>1, <2>2, <2>3, <2>4 DEF IInv, Phase, Fresh
<1>8. CASE UNCHANGED vars
  <2>1. UNCHANGED <<request, hosts, mResolveMX, mx, mxCancelled, timer, tested, index,
                    error, server, answers, mOperation, stage, calls>>
    BY <1>8 DEF vars, mxVars, checkVars
  <2>2. Progress' /\ ReportIsTrue'
    BY <2>1, ChecksKept DEF IInv
  <2> QED
    BY <2>1, <2>2 DEF IInv, TypeOK, Phase, Fresh, request
<1> QED
  BY <1>1, <1>2, <1>3, <1>4, <1>5, <1>6, <1>7, <1>8 DEF Next

LEMMA SpecInv == Spec => []IInv
BY InvInit, InvNext, PTL DEF Spec

\* Every variable keeps its type: no server past the last one listed is tried.
THEOREM TypesHold == Spec => []TypeOK
<1>1. IInv => TypeOK
  BY DEF IInv
<1> QED
  BY <1>1, SpecInv, PTL

\* The client is answered once at most and not after it cancelled, whichever
\* of the timer, the resolver's answer, a check's answer and the cancellation
\* comes first (cancel, resolveMXTimeout, operationFinished).
THEOREM OneAnswer == Spec => []AnswersOnce
<1>1. IInv => AnswersOnce
  BY DEF IInv, Phase, TypeOK, AnswersOnce
<1> QED
  BY <1>1, SpecInv, PTL

\* When the client is answered, the server and the error it is told of each
\* service are what the servers tried have answered (checkNextHost,
\* checkNextHostDone), for any number of servers and any of their answers.
THEOREM TrueReport == Spec => []ReportIsTrue
<1>1. IInv => ReportIsTrue
  BY DEF IInv
<1> QED
  BY <1>1, SpecInv, PTL
=============================================================================
