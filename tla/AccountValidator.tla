-------------------------- MODULE AccountValidator --------------------------
(***************************************************************************)
(* The search for servers that accept an account.  A provider is known     *)
(* from the address, or from the domain's MX records, which are asked for  *)
(* on a queue of their own and raced by a timer; then each service, each   *)
(* of its servers, is tried by the check operation of a session made for   *)
(* it, one after the other.  Everything but main() of these operations     *)
(* happens on the main thread, where the client may cancel at any moment.  *)
(***************************************************************************)
EXTENDS Integers, Sequences

CONSTANT MaxHosts    \* how many servers a service may have, a bound

ASSUME MaxHostsAssumption == MaxHosts \in Nat

IMAP == 0
POP == 1
SMTP == 2
Services == {IMAP, POP, SMTP}

VARIABLES
  enabled,     \* the services the client wants
  hosts,       \* how many servers are listed for each
  named,       \* the address: "none" given, "nodomain", "known" or "unknown"
  secret,      \* there is a password or a token
  tested,      \* mCurrentServiceTested
  index,       \* mCurrentServiceIndex
  error,       \* mImapError, mPopError, mSmtpError
  server,      \* mImapServer, ...: which of the servers, 0 for NULL
  mOperation,  \* the check: "none", "running", or "posted" its callback
  mResolveMX,  \* the MX operation is referred to
  mx,          \* the same for it, "over" once the callback was made or dropped
  mxCancelled,
  timer,       \* resolveMXTimeout() is scheduled
  stage,       \* "new", "started" or "cancelled", for the client
  calls,       \* how often the client was called back
  answers      \* what each server tried said: history

request == <<enabled, named, secret>>
mxVars == <<mResolveMX, mx, mxCancelled, timer>>
checkVars == <<tested, index, error, server, mOperation, answers>>
vars == <<request, hosts, mxVars, checkVars, stage, calls>>

Answers == {"None", "Authentication", "Connection", "Other"}
Errors == Answers \cup {"NoValidServerFound"}

TypeOK ==
  /\ enabled \subseteq Services
  /\ hosts \in [Services -> 0..MaxHosts]
  /\ named \in {"none", "nodomain", "known", "unknown"}
  /\ secret \in BOOLEAN
  /\ tested \in 0..3 /\ index \in 0..MaxHosts
  /\ error \in [Services -> Errors]
  /\ server \in [Services -> 0..MaxHosts]
  /\ mOperation \in {"none", "running", "posted"}
  /\ mResolveMX \in BOOLEAN
  /\ mx \in {"none", "running", "posted", "over"}
  /\ mxCancelled \in BOOLEAN
  /\ timer \in BOOLEAN
  /\ stage \in {"new", "started", "cancelled"}
  /\ calls \in Nat
  /\ answers \in [Services -> Seq(Answers)]

Init ==
  /\ enabled \in SUBSET Services
  /\ hosts \in [Services -> 0..MaxHosts]
  /\ named \in {"none", "nodomain", "known", "unknown"}
  /\ secret \in BOOLEAN
  /\ tested = IMAP /\ index = 0
  /\ error = [s \in Services |-> "None"]
  /\ server = [s \in Services |-> 0]
  /\ mOperation = "none"
  /\ mResolveMX = FALSE /\ mx = "none" /\ mxCancelled = FALSE
  /\ timer = FALSE
  /\ stage = "new" /\ calls = 0
  /\ answers = [s \in Services |-> <<>>]

-----------------------------------------------------------------------------
CallBack == calls' = calls + 1

Testable(s, known) == s \in enabled /\ known[s] > 0

\* Mutant: the server that failed last is still reported when all have.
CheckNextHost_KeepsServer(s, i, known) ==
  /\ tested' = s /\ index' = i
  /\ UNCHANGED server
  /\ IF \E t \in Services : t >= s /\ Testable(t, known) /\ (t = s => i < known[t])
     THEN mOperation' = "running" /\ UNCHANGED calls
     ELSE mOperation' = "none" /\ CallBack

\* checkNextHost() from server i of service s on.  A service that is not
\* wanted or has no server is passed over; one that has used its servers up
\* ends the validation.
CheckNextHost(s, i, known) ==
  LET later == {t \in Services : t > s /\ Testable(t, known)}
      exhausted == s \in Services /\ Testable(s, known) /\ i >= known[s]
      here == s \in Services /\ Testable(s, known) /\ i < known[s]
      next == IF here \/ exhausted THEN s
              ELSE IF later = {} THEN 3
              ELSE CHOOSE t \in later : \A u \in later : t <= u
      at == IF next = s THEN i ELSE 0
  IN
  /\ tested' = next /\ index' = at
  /\ IF next = 3 \/ exhausted
     THEN /\ CallBack
          /\ server' = IF exhausted THEN [server EXCEPT ![s] = 0] ELSE server
          /\ mOperation' = "none"
     ELSE /\ mOperation' = "running"
          /\ server' = [server EXCEPT ![next] = at + 1]
          /\ UNCHANGED calls

\* setupServices(): the provider's servers, where the client gave none.
SetupServices(provider) ==
  IF provider
  THEN {h \in [Services -> 0..MaxHosts] : \A s \in Services : hosts[s] > 0 => h[s] = hosts[s]}
  ELSE {hosts}

StartCheckingHosts(provider) ==
  \E known \in SetupServices(provider) :
    /\ hosts' = known
    /\ UNCHANGED answers
    /\ IF secret
       THEN /\ error' = [s \in Services |-> IF s \in enabled /\ known[s] = 0
                                            THEN "NoValidServerFound" ELSE error[s]]
            /\ CheckNextHost(tested, index, known)
       ELSE CallBack /\ UNCHANGED <<error, tested, index, server, mOperation>>

-----------------------------------------------------------------------------
(* The main thread.                                                        *)

\* start(), and resolveMX() when the address says nothing of the provider.
Start ==
  /\ stage = "new" /\ stage' = "started"
  /\ \/ /\ named = "none"
        /\ UNCHANGED <<hosts, mxVars, checkVars, calls>>
     \/ /\ named = "nodomain"
        /\ error' = [s \in Services |-> "NoValidServerFound"]
        /\ CallBack
        /\ UNCHANGED <<hosts, mxVars, tested, index, server, mOperation, answers>>
     \/ /\ named = "known"
        /\ StartCheckingHosts(TRUE)
        /\ UNCHANGED mxVars
     \/ /\ named = "unknown"
        /\ timer' = TRUE
        /\ mResolveMX' = TRUE /\ mx' = "running"
        /\ UNCHANGED <<hosts, mxCancelled, checkVars, calls>>
  /\ UNCHANGED request

\* Mutant: the answer does not stop the timer.
ResolveMXDone_KeepsTimer(records) ==
  /\ UNCHANGED timer
  /\ \E provider \in {FALSE, records} : StartCheckingHosts(provider)

ResolveMXDone(records) ==
  /\ timer' = FALSE
  /\ \E provider \in {FALSE, records} : StartCheckingHosts(provider)

\* operationFinished() of the MX operation, unless it was cancelled.
ResolveMXFinished ==
  /\ mx = "posted" /\ ~mxCancelled
  /\ mx' = "over"
  /\ ResolveMXDone(TRUE)
  /\ UNCHANGED <<request, mResolveMX, mxCancelled, stage>>

ResolveMXDropped ==
  /\ mx = "posted" /\ mxCancelled
  /\ mx' = "over"
  /\ UNCHANGED <<request, hosts, mResolveMX, mxCancelled, timer, checkVars, stage, calls>>

\* Mutant: the timeout only cancels the question.
ResolveMXTimeout_OnlyCancels ==
  /\ timer /\ timer' = FALSE
  /\ mxCancelled' = TRUE /\ mResolveMX' = FALSE
  /\ UNCHANGED <<request, hosts, mx, checkVars, stage, calls>>

\* resolveMXTimeout(), after 30 seconds: go on without the records.
ResolveMXTimeout ==
  /\ timer
  /\ mxCancelled' = TRUE /\ mResolveMX' = FALSE
  /\ ResolveMXDone(FALSE)
  /\ UNCHANGED <<request, mx, stage>>

\* Once a server refused the user, being unable to reach another is no news.
Report(old, new) ==
  IF old = "Authentication" /\ new = "Connection" THEN old ELSE new

\* operationFinished() of the check: checkNextHostDone().
CheckNextHostDone ==
  /\ mOperation = "posted"
  /\ \E answer \in Answers :
       LET report == Report(error[tested], answer) IN
       /\ error' = [error EXCEPT ![tested] = report]
       /\ answers' = [answers EXCEPT ![tested] = Append(@, answer)]
       /\ IF report = "None" THEN CheckNextHost(tested + 1, 0, hosts)
                              ELSE CheckNextHost(tested, index + 1, hosts)
  /\ UNCHANGED <<request, hosts, mxVars, stage>>

\* cancel() by the client: nothing that is under way is answered.
Cancel ==
  /\ stage # "cancelled" /\ stage' = "cancelled"
  /\ mOperation' = "none"
  /\ mxCancelled' = (mxCancelled \/ mResolveMX)
  /\ mResolveMX' = FALSE
  /\ timer' = FALSE
  /\ UNCHANGED <<request, hosts, mx, tested, index, error, server, answers, calls>>

-----------------------------------------------------------------------------
(* The operations' threads.                                                *)

ResolveMX ==
  /\ mx = "running" /\ mx' = "posted"
  /\ UNCHANGED <<request, hosts, mResolveMX, mxCancelled, timer, checkVars, stage, calls>>

CheckAccount ==
  /\ mOperation = "running" /\ mOperation' = "posted"
  /\ UNCHANGED <<request, hosts, mxVars, tested, index, error, server, answers,
                 stage, calls>>

Next ==
  \/ Start \/ ResolveMXFinished \/ ResolveMXDropped \/ ResolveMXTimeout
  \/ CheckNextHostDone \/ Cancel \/ ResolveMX \/ CheckAccount

Spec == Init /\ [][Next]_vars

\* The main thread's run loop delivers, the timer fires and a check comes to
\* an end, since its connection has a timeout.  That the resolver answers is
\* not assumed.
FairSpec ==
  /\ Spec
  /\ WF_vars(ResolveMXTimeout)
  /\ WF_vars(CheckAccount)
  /\ WF_vars(CheckNextHostDone)

-----------------------------------------------------------------------------
(* Properties.                                                             *)

Asked == secret /\ named # "nodomain"

\* The last host that could be reached refused the user.
Refused(s) ==
  \E i \in DOMAIN answers[s] :
    /\ answers[s][i] = "Authentication"
    /\ \A j \in DOMAIN answers[s] : j > i => answers[s][j] = "Connection"

\* What a service that was tried is reported to be: the first server that
\* accepted the account, or none after all were tried; with the error of the
\* last one, but for failures to connect after a refusal.
TrueOf(s) ==
  LET n == Len(answers[s]) IN
  /\ \A i \in 1..n - 1 : answers[s][i] # "None"
  /\ answers[s][n] = "None" => server[s] = n
  /\ answers[s][n] # "None" => server[s] = 0 /\ n = hosts[s]
  /\ error[s] = IF Refused(s) THEN "Authentication" ELSE answers[s][n]

\* The client is told of each service it wanted what its servers answered,
\* and of one without servers that there are none.
ReportIsTrue ==
  calls > 0 /\ Asked =>
    \A s \in enabled :
      IF answers[s] # <<>> THEN TrueOf(s)
      ELSE /\ server[s] = 0
           /\ error[s] = IF hosts[s] = 0 THEN "NoValidServerFound" ELSE "None"

\* One answer, none after a cancel, and nothing left that could lead to one;
\* the timer and the resolver's answer find the operation they are about.
AnswersOnce ==
  /\ calls <= 1
  /\ calls = 1 \/ stage = "cancelled" =>
       mOperation = "none" /\ ~timer /\ (mx \in {"running", "posted"} => mxCancelled)
  /\ timer \/ (mx = "posted" /\ ~mxCancelled) => mResolveMX

\* The client is answered, however long the resolver takes.
Validates == stage = "started" /\ named # "none" ~> calls > 0 \/ stage = "cancelled"

\* What the comment on checkNextHost() says: every service wanted is tested,
\* the next one also after all the servers of one have failed.  The code does
\* not keep this, so no run checks it (README, "Disagreements"): it ends there.
EveryServiceTried ==
  calls > 0 /\ Asked => \A s \in enabled : hosts[s] > 0 => answers[s] # <<>>
=============================================================================
