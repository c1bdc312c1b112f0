----------------------------- MODULE Calls_proofs -----------------------------
(***************************************************************************)
(* Proofs about the calls of the privileged helper (Helper, HelperProps)   *)
(* and the checks of a request (Protocol), for any number of clients,      *)
(* calls and requests.                                                     *)
(***************************************************************************)
EXTENDS MCCalls, FiniteSetTheorems, TLAPS

(* The calls: what holds of a client and its helper *)

\* The helper that runs holds the lock, and no other does.
HoldsLock(c) == helper[c] = "run" <=> lock = c

\* A helper works for a client that waits or has gone.
HasClient(c) == helper[c] # "none" => client[c] # "idle" /\ call[c] # 0 /\ request[c] \in Request

\* A helper that waits for the lock or holds it was not asked for the status.
PastCheck(c) == helper[c] \in {"lock", "run"} => request[c].kind # "status"

\* Before it runs, a helper has done nothing; the one that runs wrote the last
\* lines of the log: one for each of its operations so far.
Fresh(c) == done[c] = <<>> /\ NothingRan(call[c])
Wrote(c) ==
    LET n == Len(done[c])
    IN  /\ n <= Len(Ops(c)) /\ n <= Len(log)
        /\ Entries(call[c]) = (Len(log) - n + 1)..Len(log)
        /\ \A j \in 1..n : log[Len(log) - n + j].op = Ops(c)[j] /\ log[Len(log) - n + j].outcome = done[c][j]
Progress(c) ==
    /\ helper[c] \in {"prompt", "check", "lock"} => Fresh(c)
    /\ helper[c] = "run" => Wrote(c)

\* What may be told of a call: ToldTheTruth, of one client.
TruthOf(c, code, results) ==
    /\ code \in {"results"} \cup Outcome => request[c] \in Request
    /\ code = "results" => Ran(call[c], Ops(c), results)
    /\ code \in Outcome =>
           IF request[c].kind = "status" THEN NothingRan(call[c]) ELSE Ran(call[c], Ops(c), <<code>>)
    /\ code \in {"timeout", "permission_denied", "invalid_request"} => NothingRan(call[c])
Truth(c) == client[c] = "idle" => TruthOf(c, told[c].code, told[c].results)

Each(c) == call[c] <= calls /\ HoldsLock(c) /\ HasClient(c) /\ PastCheck(c) /\ Progress(c) /\ Truth(c)

\* Each call has a number of its own.
NumbersDiffer ==
    /\ \A c, d \in Client : call[c] = call[d] /\ c # d => call[c] = 0
    /\ \A i \in DOMAIN log : log[i].call <= calls

CallsInv == TypeOK /\ (\A c \in Client : Each(c)) /\ NumbersDiffer /\ Together

LogLine == [call : 1..MaxCalls, op : Op, outcome : Outcome, kills : BOOLEAN]
Tale == [code : Code \cup {None}, results : Seq(Outcome)]

LEMMA Types ==
    ASSUME TypeOK
    PROVE  /\ call \in [Client -> 0..MaxCalls] /\ calls \in 0..MaxCalls /\ MaxCalls \in Nat
           /\ \A c \in Client : call[c] \in Nat
           /\ calls \in Nat /\ log \in Seq(LogLine) /\ Len(log) \in Nat /\ DOMAIN log = 1..Len(log)
  <1>1. log \in Seq(LogLine)
    BY DEF TypeOK, LogLine
  <1> QED BY <1>1, CallsAreBounded DEF TypeOK

LEMMA LinesHaveCalls ==
    ASSUME TypeOK PROVE \A i \in DOMAIN log : log[i] \in LogLine /\ log[i].call \in Nat /\ log[i].call \in 1..MaxCalls
  <1>1. log \in Seq(LogLine) /\ MaxCalls \in Nat
    BY Types
  <1>2. \A i \in DOMAIN log : log[i] \in LogLine
    BY <1>1
  <1>3. \A x \in LogLine : x.call \in 1..MaxCalls
    BY DEF LogLine
  <1> QED BY <1>1, <1>2, <1>3

LEMMA CallsInvInit == Init => CallsInv
  <1> SUFFICES ASSUME Init PROVE CallsInv
    OBVIOUS
  <1> USE DEF Init
  <1>1. /\ <<>> \in Seq(Outcome) /\ log \in Seq(LogLine) /\ DOMAIN log = {} /\ None \notin Code
        /\ Untold \in Tale /\ Untold.code = None
    BY NullIsNew DEF Untold, Tale
  <1>2. TypeOK
    BY <1>1, CallsAreBounded DEF TypeOK, LogLine, Tale
  <1>3. NumbersDiffer /\ Together
    BY <1>1 DEF NumbersDiffer, Together
  <1>4. ASSUME NEW c \in Client PROVE Each(c)
    <2>1. call[c] <= calls /\ HoldsLock(c) /\ HasClient(c) /\ PastCheck(c) /\ Progress(c)
      BY NullIsNew DEF HoldsLock, HasClient, PastCheck, Progress
    <2>2. Truth(c)
      BY <1>1 DEF Truth, TruthOf, Code, Outcome
    <2> QED BY <2>1, <2>2 DEF Each
  <1> QED BY <1>2, <1>3, <1>4 DEF CallsInv

-----------------------------------------------------------------------------
(* Steps that write nothing to the log *)

\* What a step leaves alone of a client.
Same(d) ==
    /\ client'[d] = client[d] /\ request'[d] = request[d] /\ call'[d] = call[d] /\ told'[d] = told[d]
    /\ helper'[d] = helper[d] /\ done'[d] = done[d] /\ (lock' = d <=> lock = d)

LEMMA OthersStay ==
    ASSUME CallsInv, TypeOK', NEW d \in Client, Same(d), UNCHANGED log, calls <= calls'
    PROVE  Each(d)'
  <1>1. Each(d) /\ call[d] \in Nat /\ calls \in Nat /\ calls' \in Nat
    BY Types DEF CallsInv, TypeOK
  <1>2. call'[d] <= calls'
    BY <1>1 DEF Each, Same
  <1>3. HoldsLock(d)' /\ HasClient(d)' /\ PastCheck(d)'
    BY <1>1 DEF Each, Same, HoldsLock, HasClient, PastCheck
  <1>4. Progress(d)'
    BY <1>1 DEF Each, Same, Progress, Fresh, Wrote, NothingRan, Entries, Ops
  <1>5. Truth(d)'
    <2> SUFFICES ASSUME client[d] = "idle" PROVE TruthOf(d, told[d].code, told[d].results)'
      BY DEF Truth, Same
    <2>1. TruthOf(d, told[d].code, told[d].results)
      BY <1>1 DEF Each, Truth
    <2>2. Entries(call[d])' = Entries(call[d])
      BY DEF Entries, Same
    <2>3. NothingRan(call[d])' <=> NothingRan(call[d])
      BY <2>2 DEF NothingRan
    <2>4. /\ Ran(call[d], Ops(d), told[d].results)' <=> Ran(call[d], Ops(d), told[d].results)
          /\ Ran(call[d], Ops(d), <<told[d].code>>)' <=> Ran(call[d], Ops(d), <<told[d].code>>)
      BY <2>2 DEF Ran, Ops, Same
    <2> QED BY <2>1, <2>3, <2>4 DEF TruthOf, Same
  <1> QED BY <1>2, <1>3, <1>4, <1>5 DEF Each

\* A step of one client that writes nothing and starts no call.
LEMMA OneSteps ==
    ASSUME CallsInv, TypeOK', NEW c \in Client, \A d \in Client : d # c => Same(d), Each(c)',
           UNCHANGED <<log, call, calls>>
    PROVE  CallsInv'
  <1>1. calls <= calls'
    BY Types DEF CallsInv
  <1>2. \A d \in Client : Each(d)'
    BY <1>1, OthersStay
  <1>3. NumbersDiffer' /\ Together'
    BY DEF CallsInv, NumbersDiffer, Together
  <1> QED BY <1>2, <1>3 DEF CallsInv

\* The helper of a client ends, and the client is told the truth or has gone.
LEMMA EndsWell ==
    ASSUME CallsInv, NEW c \in Client, Ends(c), UNCHANGED <<request, call, calls, done, log>>,
           \/ UNCHANGED <<client, told>> /\ client[c] # "idle"
           \/ \E code \in Code, results \in Seq(Outcome) : Returns(c, code, results) /\ TruthOf(c, code, results)
    PROVE  CallsInv'
  <1>t. TypeOK /\ Each(c) /\ NullIsNew
    BY NullIsNew DEF CallsInv
  <1>1. /\ helper' \in [Client -> {"none", "prompt", "check", "lock", "run"}] /\ helper'[c] = "none"
        /\ \A d \in Client : d # c => helper'[d] = helper[d]
    BY <1>t DEF TypeOK, Ends
  <1>2. lock' \in Client \cup {None} /\ lock' # c /\ \A d \in Client : d # c => (lock' = d <=> lock = d)
    BY <1>t, NullIsNew DEF TypeOK, Ends
  <1>3. CASE UNCHANGED <<client, told>> /\ client[c] # "idle"
    <2>1. TypeOK'
      BY <1>t, <1>1, <1>2, <1>3 DEF TypeOK
    <2>2. \A d \in Client : d # c => Same(d)
      BY <1>1, <1>2, <1>3 DEF Same
    <2>3. Each(c)'
      BY <1>t, <1>1, <1>2, <1>3 DEF Each, HoldsLock, HasClient, PastCheck, Progress, Truth
    <2> QED BY <2>1, <2>2, <2>3, OneSteps
  <1>4. CASE \E code \in Code, results \in Seq(Outcome) : Returns(c, code, results) /\ TruthOf(c, code, results)
    <2>1. PICK code \in Code, results \in Seq(Outcome) : Returns(c, code, results) /\ TruthOf(c, code, results)
      BY <1>4
    <2>2. Told(code, results) \in Tale /\ Told(code, results).code = code /\ Told(code, results).results = results
      BY DEF Told, Tale
    <2>3. /\ client' \in [Client -> {"idle", "waiting", "closing", "gone"}] /\ told' \in [Client -> Tale]
          /\ told'[c].code = code /\ told'[c].results = results
          /\ \A d \in Client : d # c => client'[d] = client[d] /\ told'[d] = told[d]
      BY <1>t, <2>1, <2>2 DEF TypeOK, Returns, Tale
    <2>4. TypeOK'
      BY <1>t, <1>1, <1>2, <2>3 DEF TypeOK, Tale
    <2>5. \A d \in Client : d # c => Same(d)
      BY <1>1, <1>2, <2>3 DEF Same
    <2>6. TruthOf(c, code, results)'
      BY <2>1 DEF TruthOf, Ran, NothingRan, Entries, Ops
    <2>7. Truth(c)'
      BY <2>3, <2>6 DEF Truth
    <2>8. Each(c)'
      BY <1>t, <1>1, <1>2, <2>7 DEF Each, HoldsLock, HasClient, PastCheck, Progress
    <2> QED BY <2>4, <2>5, <2>8, OneSteps
  <1> QED BY <1>3, <1>4

-----------------------------------------------------------------------------
(* The steps, one by one *)

\* The codes that say that something ran.
LEMMA OtherCodes ==
    /\ {"timeout", "helper_error", "permission_denied", "invalid_request", "interrupted", "results"} \subseteq Code
    /\ Outcome \subseteq Code
    /\ {"timeout", "helper_error", "permission_denied", "invalid_request", "interrupted", "results"} \cap Outcome = {}
  BY DEF Code, Outcome

\* An error says nothing of what ran.
LEMMA ErrorsAreTrue ==
    ASSUME NEW c \in Client, NEW code \in {"helper_error", "interrupted"} PROVE TruthOf(c, code, <<>>)
  BY DEF TruthOf, Outcome

\* A refusal is true before the helper runs.
LEMMA RefusalsAreTrue ==
    ASSUME NEW c \in Client, NEW code \in {"timeout", "permission_denied", "invalid_request"}, NothingRan(call[c])
    PROVE  TruthOf(c, code, <<>>)
  BY DEF TruthOf, Outcome

\* What the helper answers reaches the client as it is, or as an error.
LEMMA AnswersWell ==
    ASSUME CallsInv, NEW c \in Client, helper[c] # "none", NEW code \in Code, NEW results \in Seq(Outcome),
           Answers(c, code, results), TruthOf(c, code, results), UNCHANGED <<request, call, calls, done, log>>
    PROVE  CallsInv'
  <1>1. Ends(c)
    BY DEF Answers
  <1>2. client[c] # "idle"
    BY DEF CallsInv, Each, HasClient
  <1>3. CASE client[c] = "waiting"
    BY <1>1, <1>3, EndsWell DEF Answers
  <1>4. CASE client[c] = "closing"
    <2>1. Returns(c, "helper_error", <<>>)
      BY <1>4 DEF Answers
    <2>2. TruthOf(c, "helper_error", <<>>) /\ "helper_error" \in Code /\ <<>> \in Seq(Outcome)
      BY ErrorsAreTrue, OtherCodes
    <2> QED BY <1>1, <2>1, <2>2, EndsWell
  <1>5. CASE client[c] # "waiting" /\ client[c] # "closing"
    BY <1>1, <1>2, <1>5, EndsWell DEF Answers
  <1> QED BY <1>3, <1>4, <1>5

LEMMA CallStep == ASSUME CallsInv, NEW c \in Client, NEW r \in Request, Call(c, r) PROVE CallsInv'
  <1>t. TypeOK /\ Each(c) /\ call[c] \in Nat /\ calls \in Nat
    BY Types DEF CallsInv
  <1>1. helper[c] = "none" /\ lock # c /\ calls < MaxCalls
    BY <1>t DEF Call, Each, HasClient, HoldsLock
  <1>2. TypeOK'
    <2>1. <<>> \in Seq(Outcome) /\ Untold \in [code : Code \cup {None}, results : Seq(Outcome)]
      BY DEF Untold
    <2>2. calls + 1 \in 0..MaxCalls
      BY <1>t, <1>1, CallsAreBounded
    <2> QED BY <1>t, <2>1, <2>2 DEF Call, TypeOK
  <1>3. /\ calls' = calls + 1 /\ call'[c] = calls + 1 /\ client'[c] = "waiting" /\ request'[c] = r
        /\ helper'[c] \in {"prompt", "check"} /\ done'[c] = <<>> /\ UNCHANGED <<lock, log>>
        /\ \A d \in Client : d # c => call'[d] = call[d]
    BY <1>t DEF Call, TypeOK
  <1>4. ASSUME NEW d \in Client, d # c PROVE Same(d)
    BY <1>t, <1>4 DEF Call, TypeOK, Same
  <1>5. ASSUME NEW d \in Client, d # c PROVE Each(d)'
    BY <1>2, <1>3, <1>4, <1>5, <1>t, OthersStay
  <1>6. NothingRan(call[c])'
    <2>1. \A i \in DOMAIN log : log[i].call <= calls /\ log[i].call \in Nat
      BY <1>t, LinesHaveCalls DEF CallsInv, NumbersDiffer
    <2> QED BY <1>3, <1>t, <2>1 DEF NothingRan, Entries
  <1>7. Each(c)'
    <2>1. HoldsLock(c)' /\ HasClient(c)' /\ PastCheck(c)' /\ Truth(c)'
      BY <1>1, <1>3, <1>t DEF HoldsLock, HasClient, PastCheck, Truth
    <2>2. Progress(c)'
      BY <1>3, <1>6 DEF Progress, Fresh
    <2>3. call'[c] <= calls'
      BY <1>3, <1>t
    <2> QED BY <2>1, <2>2, <2>3 DEF Each
  <1>8. NumbersDiffer'
    <2>1. \A d \in Client : call[d] \in Nat /\ call[d] <= calls
      BY <1>t, Types DEF CallsInv, Each
    <2>2. \A d, x \in Client : call'[d] = call'[x] /\ d # x => call'[d] = 0
      BY <1>3, <1>t, <2>1 DEF CallsInv, NumbersDiffer
    <2>3. \A i \in DOMAIN log : log[i].call <= calls /\ log[i].call \in Nat
      BY <1>t, LinesHaveCalls DEF CallsInv, NumbersDiffer
    <2> QED BY <1>3, <1>t, <2>2, <2>3 DEF NumbersDiffer
  <1>9. Together'
    BY <1>3 DEF CallsInv, Together
  <1> QED BY <1>2, <1>5, <1>7, <1>8, <1>9 DEF CallsInv

LEMMA CannotStartStep == ASSUME CallsInv, NEW c \in Client, CannotStart(c) PROVE CallsInv'
  <1>t. TypeOK /\ Each(c) /\ call[c] \in Nat /\ calls \in Nat
    BY Types DEF CallsInv
  <1>1. helper[c] = "none" /\ lock # c /\ calls < MaxCalls
    BY <1>t DEF CannotStart, Each, HasClient, HoldsLock
  <1>2. TypeOK'
    <2>1. <<>> \in Seq(Outcome) /\ Told("helper_error", <<>>) \in [code : Code \cup {None}, results : Seq(Outcome)]
      BY OtherCodes DEF Told
    <2>2. calls + 1 \in 0..MaxCalls
      BY <1>t, <1>1, CallsAreBounded
    <2> QED BY <1>t, <2>1, <2>2 DEF CannotStart, TypeOK
  <1>3. /\ calls' = calls + 1 /\ call'[c] = calls + 1 /\ told'[c] = Told("helper_error", <<>>)
        /\ done'[c] = <<>> /\ UNCHANGED <<client, request, helper, lock, log>>
        /\ \A d \in Client : d # c => call'[d] = call[d]
    BY <1>t DEF CannotStart, TypeOK
  <1>4. ASSUME NEW d \in Client, d # c PROVE Same(d)
    BY <1>t, <1>4 DEF CannotStart, TypeOK, Same
  <1>5. ASSUME NEW d \in Client, d # c PROVE Each(d)'
    BY <1>2, <1>3, <1>4, <1>5, <1>t, OthersStay
  <1>7. Each(c)'
    <2>1. HoldsLock(c)' /\ HasClient(c)' /\ PastCheck(c)' /\ Progress(c)'
      BY <1>1, <1>3, <1>t DEF HoldsLock, HasClient, PastCheck, Progress
    <2>2. told'[c].code = "helper_error"
      BY <1>3 DEF Told
    <2>3. Truth(c)'
      BY <2>2 DEF Truth, TruthOf, Outcome
    <2>4. call'[c] <= calls'
      BY <1>3, <1>t
    <2> QED BY <2>1, <2>3, <2>4 DEF Each
  <1>8. NumbersDiffer'
    <2>1. \A d \in Client : call[d] \in Nat /\ call[d] <= calls
      BY <1>t, Types DEF CallsInv, Each
    <2>2. \A d, x \in Client : call'[d] = call'[x] /\ d # x => call'[d] = 0
      BY <1>3, <1>t, <2>1 DEF CallsInv, NumbersDiffer
    <2>3. \A i \in DOMAIN log : log[i].call <= calls /\ log[i].call \in Nat
      BY <1>t, LinesHaveCalls DEF CallsInv, NumbersDiffer
    <2> QED BY <1>3, <1>t, <2>2, <2>3 DEF NumbersDiffer
  <1>9. Together'
    BY <1>3 DEF CallsInv, Together
  <1> QED BY <1>2, <1>5, <1>7, <1>8, <1>9 DEF CallsInv

\* The helper gets on, or its client stops waiting or goes, and nothing ends.
LEMMA GoesOn ==
    ASSUME CallsInv, NEW c \in Client,
           UNCHANGED <<request, call, told, calls, done, log>>, HoldsLock(c)',
           client' = client \/ (client'[c] # "idle" /\ \A d \in Client : d # c => client'[d] = client[d]),
           client' \in [Client -> {"idle", "waiting", "closing", "gone"}],
           helper' = helper \/ (helper[c] # "none" /\ helper' = [helper EXCEPT ![c] = helper'[c]]),
           helper'[c] \in {"none", "check", "lock", "run", "prompt"},
           lock' \in {lock, c}, lock' # lock => lock = None,
           helper'[c] \in {"lock", "run"} => request[c].kind # "status", Progress(c)'
    PROVE  CallsInv'
  <1>t. TypeOK /\ Each(c)
    BY DEF CallsInv
  <1>1. /\ \A d \in Client : d # c => helper'[d] = helper[d] /\ client'[d] = client[d]
        /\ helper' \in [Client -> {"none", "prompt", "check", "lock", "run"}]
    BY <1>t DEF TypeOK
  <1>2. lock' \in Client \cup {None} /\ \A d \in Client : d # c => (lock' = d <=> lock = d)
    BY <1>t, NullIsNew DEF TypeOK
  <1>3. TypeOK'
    BY <1>t, <1>1, <1>2 DEF TypeOK
  <1>4. \A d \in Client : d # c => Same(d)
    BY <1>1, <1>2 DEF Same
  <1>5. HasClient(c)'
    BY <1>t DEF Each, HasClient
  <1>6. PastCheck(c)'
    BY DEF PastCheck
  <1>7. Truth(c)'
    <2> SUFFICES ASSUME client'[c] = "idle" PROVE TruthOf(c, told[c].code, told[c].results)'
      BY DEF Truth
    <2>1. TruthOf(c, told[c].code, told[c].results)
      BY <1>t DEF Each, Truth
    <2> QED BY <2>1 DEF TruthOf, Ran, NothingRan, Entries, Ops
  <1>8. Each(c)'
    BY <1>t, <1>5, <1>6, <1>7 DEF Each
  <1> QED BY <1>3, <1>4, <1>8, OneSteps

LEMMA GrantStep == ASSUME CallsInv, NEW c \in Client, Grant(c) PROVE CallsInv'
  <1>t. TypeOK /\ Each(c)
    BY DEF CallsInv
  <1>1. helper'[c] = "check" /\ helper' = [helper EXCEPT ![c] = helper'[c]] /\ helper[c] # "none"
    BY <1>t DEF Grant, TypeOK
  <1>2. lock # c
    BY <1>t DEF Grant, Each, HoldsLock
  <1>3. Progress(c)'
    BY <1>t, <1>1 DEF Grant, Each, Progress, Fresh, NothingRan, Entries
  <1>4. HoldsLock(c)'
    BY <1>1, <1>2 DEF HoldsLock, Grant
  <1>5. client \in [Client -> {"idle", "waiting", "closing", "gone"}]
    BY <1>t DEF TypeOK
  <1> QED BY <1>1, <1>3, <1>4, <1>5, GoesOn DEF Grant

LEMMA DenyStep == ASSUME CallsInv, NEW c \in Client, Deny(c) PROVE CallsInv'
  <1>1. client[c] # "idle" /\ NothingRan(call[c])
    BY DEF CallsInv, Each, HasClient, Progress, Fresh, Deny
  <1>2. TruthOf(c, "permission_denied", <<>>) /\ "permission_denied" \in Code /\ <<>> \in Seq(Outcome)
    BY <1>1, RefusalsAreTrue, OtherCodes
  <1>3. CASE client[c] = "waiting"
    BY <1>1, <1>2, <1>3, EndsWell DEF Deny
  <1>4. CASE client[c] # "waiting"
    BY <1>1, <1>4, EndsWell DEF Deny
  <1> QED BY <1>3, <1>4

LEMMA CheckStep == ASSUME CallsInv, NEW c \in Client, Check(c) PROVE CallsInv'
  <1>t. TypeOK /\ Each(c) /\ helper[c] = "check"
    BY DEF CallsInv, Check
  <1>1. NothingRan(call[c]) /\ request[c] \in Request
    BY <1>t DEF Each, HasClient, Progress, Fresh
  <1>2. <<>> \in Seq(Outcome)
    OBVIOUS
  <1>3. CASE Answers(c, "invalid_request", <<>>)
    <2>1. TruthOf(c, "invalid_request", <<>>) /\ "invalid_request" \in Code
      BY <1>1, RefusalsAreTrue, OtherCodes
    <2> QED BY <1>t, <1>2, <1>3, <2>1, AnswersWell DEF Check
  <1>4. CASE Answers(c, "permission_denied", <<>>)
    <2>1. TruthOf(c, "permission_denied", <<>>) /\ "permission_denied" \in Code
      BY <1>1, RefusalsAreTrue, OtherCodes
    <2> QED BY <1>t, <1>2, <1>4, <2>1, AnswersWell DEF Check
  <1>5. CASE request[c].kind = "status" /\ Answers(c, "ok", <<>>)
    <2>1. TruthOf(c, "ok", <<>>) /\ "ok" \in Code
      BY <1>1, <1>5 DEF TruthOf, Outcome, Code
    <2> QED BY <1>t, <1>2, <1>5, <2>1, AnswersWell DEF Check
  <1>6. CASE /\ request[c].kind # "status" /\ helper' = [helper EXCEPT ![c] = "lock"]
             /\ UNCHANGED <<client, told, lock>>
    <2>1. helper'[c] = "lock" /\ helper' = [helper EXCEPT ![c] = helper'[c]]
      BY <1>t, <1>6 DEF TypeOK
    <2>2. lock # c
      BY <1>t DEF Each, HoldsLock
    <2>3. Progress(c)'
      BY <1>t, <2>1 DEF Check, Each, Progress, Fresh, NothingRan, Entries
    <2>4. HoldsLock(c)'
      BY <1>6, <2>1, <2>2 DEF HoldsLock
    <2>5. client \in [Client -> {"idle", "waiting", "closing", "gone"}]
      BY <1>t DEF TypeOK
    <2> QED BY <1>t, <1>6, <2>1, <2>3, <2>4, <2>5, GoesOn DEF Check
  <1> QED BY <1>3, <1>4, <1>5, <1>6 DEF Check

LEMMA LockStep == ASSUME CallsInv, NEW c \in Client, Lock(c) PROVE CallsInv'
  <1>t. TypeOK /\ Each(c) /\ helper[c] = "lock"
    BY DEF CallsInv, Lock
  <1>1. helper'[c] = "run" /\ helper' = [helper EXCEPT ![c] = helper'[c]]
    BY <1>t DEF TypeOK, Lock
  <1>2. done[c] = <<>> /\ Entries(call[c]) = {} /\ request[c] \in Request /\ request[c].kind # "status"
    BY <1>t DEF Each, HasClient, PastCheck, Progress, Fresh, NothingRan
  <1>3. Wrote(c)'
    <2>1. Len(log) \in Nat /\ Len(request[c].ops) \in Nat
      BY <1>2, <1>t, Types, RequestsAreRequests
    <2> QED BY <1>2, <2>1 DEF Lock, Wrote, Entries, Ops
  <1>4. Progress(c)' /\ HoldsLock(c)'
    BY <1>1, <1>3 DEF Progress, HoldsLock, Lock
  <1>5. client \in [Client -> {"idle", "waiting", "closing", "gone"}]
    BY <1>t DEF TypeOK
  <1> QED BY <1>t, <1>1, <1>2, <1>4, <1>5, GoesOn DEF Lock

LEMMA AnswerStep == ASSUME CallsInv, NEW c \in Client, Answer(c) PROVE CallsInv'
  <1>t. TypeOK /\ Each(c) /\ helper[c] = "run" /\ Len(done[c]) >= Len(Ops(c))
    <2>1. TypeOK /\ Each(c) /\ helper[c] = "run" /\ ~(Len(done[c]) < Len(Ops(c)))
      BY DEF CallsInv, Answer, MoreToDo
    <2>2. done[c] \in Seq(Outcome) /\ request[c] \in Request
      BY <2>1 DEF TypeOK, Each, HasClient
    <2>3. Ops(c) \in Seq(Op)
      BY <2>2, RequestsAreRequests DEF Ops
    <2> QED BY <2>1, <2>2, <2>3
  <1>1. /\ Wrote(c) /\ request[c] \in Request /\ request[c].kind # "status" /\ done[c] \in Seq(Outcome)
        /\ Ops(c) \in Seq(Op) /\ (request[c].kind # "batch" => Len(Ops(c)) = 1)
    BY <1>t, RequestsAreRequests DEF Each, HasClient, PastCheck, Progress, TypeOK, Ops
  <1>2. Len(done[c]) = Len(Ops(c)) /\ Len(log) \in Nat /\ Len(Ops(c)) \in Nat /\ Len(Ops(c)) <= Len(log)
    <2>1. Len(done[c]) <= Len(Ops(c)) /\ Len(done[c]) <= Len(log)
      BY <1>1 DEF Wrote
    <2> QED BY <1>t, <1>1, <2>1, Types
  <1>3. Ran(call[c], Ops(c), done[c])
    <2> DEFINE k == Len(log) - Len(Ops(c))
    <2>1. k \in 0..Len(log) /\ k + Len(Ops(c)) = Len(log)
      BY <1>2
    <2>2. Entries(call[c]) = (k + 1)..(k + Len(Ops(c)))
      BY <1>1, <1>2, <2>1 DEF Wrote
    <2>3. \A j \in DOMAIN Ops(c) : log[k + j].op = Ops(c)[j] /\ log[k + j].outcome = done[c][j]
      BY <1>1, <1>2 DEF Wrote
    <2> HIDE DEF k
    <2> QED BY <1>2, <2>1, <2>2, <2>3 DEF Ran
  <1>4. CASE request[c].kind = "batch"
    <2>1. TruthOf(c, "results", done[c]) /\ "results" \in Code
      BY <1>1, <1>3, OtherCodes DEF TruthOf, Outcome
    <2> QED BY <1>t, <1>1, <1>4, <2>1, AnswersWell DEF Answer
  <1>5. CASE request[c].kind # "batch"
    <2>1. Len(done[c]) = 1
      BY <1>1, <1>2, <1>5
    <2>2. done[c] = <<Last(done[c])>> /\ Last(done[c]) \in Outcome
      BY <1>1, <2>1 DEF Last
    <2>3. Last(done[c]) \in Code /\ <<>> \in Seq(Outcome)
      BY <2>2, OtherCodes
    <2>4. Ran(call[c], Ops(c), <<Last(done[c])>>)
      BY <1>3, <2>2
    <2>5. TruthOf(c, Last(done[c]), <<>>)
      BY <1>1, <2>2, <2>4, OtherCodes DEF TruthOf
    <2> QED BY <1>t, <1>5, <2>3, <2>5, AnswersWell DEF Answer
  <1> QED BY <1>4, <1>5

LEMMA DieStep == ASSUME CallsInv, NEW c \in Client, Die(c) PROVE CallsInv'
  <1>1. TruthOf(c, "helper_error", <<>>) /\ "helper_error" \in Code /\ <<>> \in Seq(Outcome) /\ helper[c] # "none"
    BY ErrorsAreTrue, OtherCodes DEF Die
  <1> QED BY <1>1, AnswersWell DEF Die

LEMMA TimeoutStep == ASSUME CallsInv, NEW c \in Client, Timeout(c) PROVE CallsInv'
  <1>t. TypeOK /\ Each(c) /\ client[c] = "waiting"
    BY DEF CallsInv, Timeout
  <1>1. CASE helper[c] = "prompt"
    <2>1. NothingRan(call[c])
      BY <1>t, <1>1 DEF Each, Progress, Fresh
    <2>2. TruthOf(c, "timeout", <<>>) /\ "timeout" \in Code /\ <<>> \in Seq(Outcome)
      BY <2>1, RefusalsAreTrue, OtherCodes
    <2> QED BY <1>1, <2>2, EndsWell DEF Timeout
  <1>2. CASE helper[c] # "prompt"
    <2>1. /\ client' \in [Client -> {"idle", "waiting", "closing", "gone"}] /\ client'[c] # "idle"
          /\ \A d \in Client : d # c => client'[d] = client[d]
      BY <1>t, <1>2 DEF Timeout, TypeOK
    <2>2. UNCHANGED <<request, call, told, calls, done, log, helper, lock>>
      BY <1>2 DEF Timeout
    <2>3. /\ HoldsLock(c)' /\ Progress(c)' /\ (helper'[c] \in {"lock", "run"} => request[c].kind # "status")
          /\ helper'[c] \in {"none", "check", "lock", "run", "prompt"}
      BY <1>t, <2>2 DEF TypeOK, Each, HoldsLock, Progress, Fresh, Wrote, NothingRan, Entries, Ops, PastCheck
    <2> QED BY <2>1, <2>2, <2>3, GoesOn
  <1> QED BY <1>1, <1>2

LEMMA InterruptStep == ASSUME CallsInv, NEW c \in Client, Interrupt(c) PROVE CallsInv'
  <1>1. TruthOf(c, "interrupted", <<>>) /\ "interrupted" \in Code /\ <<>> \in Seq(Outcome)
    BY ErrorsAreTrue, OtherCodes
  <1> QED BY <1>1, EndsWell DEF Interrupt

LEMMA QuitStep == ASSUME CallsInv, NEW c \in Client, Quit(c) PROVE CallsInv'
  <1>t. TypeOK /\ Each(c)
    BY DEF CallsInv
  <1>1. /\ client' \in [Client -> {"idle", "waiting", "closing", "gone"}] /\ client'[c] # "idle"
        /\ \A d \in Client : d # c => client'[d] = client[d]
        /\ UNCHANGED <<request, call, told, calls, done, log, helper, lock>>
    BY <1>t DEF Quit, TypeOK, helpers
  <1>2. /\ HoldsLock(c)' /\ Progress(c)' /\ (helper'[c] \in {"lock", "run"} => request[c].kind # "status")
        /\ helper'[c] \in {"none", "check", "lock", "run", "prompt"}
    BY <1>t, <1>1 DEF TypeOK, Each, HoldsLock, Progress, Fresh, Wrote, NothingRan, Entries, Ops, PastCheck
  <1> QED BY <1>1, <1>2, GoesOn

-----------------------------------------------------------------------------
(* The step that writes to the log *)

\* Entries and Ran, of a log given by its value.
EntriesOf(l, n) == {i \in DOMAIN l : l[i].call = n}
RanIn(l, n, ops, outcomes) ==
    /\ Len(outcomes) = Len(ops)
    /\ \E k \in 0..Len(l) :
          /\ EntriesOf(l, n) = (k + 1)..(k + Len(ops))
          /\ \A j \in DOMAIN ops : l[k + j].op = ops[j] /\ l[k + j].outcome = outcomes[j]

\* What one more line changes: the entries of its own call, and no other's.
LEMMA OneMoreLine ==
    ASSUME NEW l \in Seq(LogLine), NEW entry \in LogLine
    PROVE  /\ Append(l, entry) \in Seq(LogLine) /\ Len(l) \in Nat /\ Len(Append(l, entry)) = Len(l) + 1
           /\ DOMAIN l = 1..Len(l) /\ DOMAIN Append(l, entry) = 1..(Len(l) + 1)
           /\ (\A i \in 1..Len(l) : Append(l, entry)[i] = l[i]) /\ Append(l, entry)[Len(l) + 1] = entry
  OBVIOUS

LEMMA ItsEntries ==
    ASSUME NEW l \in Seq(LogLine), NEW entry \in LogLine
    PROVE  /\ EntriesOf(Append(l, entry), entry.call) = EntriesOf(l, entry.call) \cup {Len(l) + 1}
           /\ \A n : n # entry.call => EntriesOf(Append(l, entry), n) = EntriesOf(l, n)
  <1> DEFINE new == Append(l, entry)
  <1>1. /\ Len(l) \in Nat /\ DOMAIN l = 1..Len(l) /\ DOMAIN new = 1..(Len(l) + 1)
        /\ (\A i \in 1..Len(l) : new[i] = l[i]) /\ new[Len(l) + 1] = entry
    BY OneMoreLine
  <1> HIDE DEF new
  <1>2. 1..(Len(l) + 1) = 1..Len(l) \cup {Len(l) + 1} /\ Len(l) + 1 \notin 1..Len(l)
    BY <1>1
  <1>3. EntriesOf(new, entry.call) = EntriesOf(l, entry.call) \cup {Len(l) + 1}
    BY <1>1, <1>2 DEF EntriesOf
  <1>4. ASSUME NEW n, n # entry.call PROVE EntriesOf(new, n) = EntriesOf(l, n)
    BY <1>1, <1>2, <1>4 DEF EntriesOf
  <1> QED BY <1>3, <1>4 DEF new

\* What was told of another call is still true.
LEMMA RanStays ==
    ASSUME NEW l \in Seq(LogLine), NEW entry \in LogLine, NEW n, n # entry.call,
           NEW ops \in Seq(Op), NEW outcomes, RanIn(l, n, ops, outcomes)
    PROVE  RanIn(Append(l, entry), n, ops, outcomes)
  <1> DEFINE new == Append(l, entry)
  <1>1. /\ Len(l) \in Nat /\ Len(new) = Len(l) + 1 /\ DOMAIN l = 1..Len(l)
        /\ \A i \in 1..Len(l) : new[i] = l[i]
        /\ EntriesOf(new, n) = EntriesOf(l, n)
    BY OneMoreLine, ItsEntries
  <1> HIDE DEF new
  <1>2. PICK k \in 0..Len(l) :
          /\ EntriesOf(l, n) = (k + 1)..(k + Len(ops))
          /\ \A j \in DOMAIN ops : l[k + j].op = ops[j] /\ l[k + j].outcome = outcomes[j]
    BY DEF RanIn
  <1>3. ASSUME NEW j \in DOMAIN ops PROVE new[k + j] = l[k + j]
    <2>1. j \in 1..Len(ops) /\ Len(ops) \in Nat /\ k \in Nat
      BY <1>1
    <2>2. k + j \in (k + 1)..(k + Len(ops))
      BY <2>1
    <2>3. k + j \in 1..Len(l)
      BY <1>1, <1>2, <2>2 DEF EntriesOf
    <2> QED BY <1>1, <2>3
  <1>4. k \in 0..Len(new)
    BY <1>1
  <1>5. Len(outcomes) = Len(ops)
    BY DEF RanIn
  <1>6. \A j \in DOMAIN ops : new[k + j].op = ops[j] /\ new[k + j].outcome = outcomes[j]
    BY <1>2, <1>3
  <1> QED BY <1>1, <1>2, <1>4, <1>5, <1>6 DEF RanIn, new

LEMMA RunOpStep == ASSUME CallsInv, NEW c \in Client, RunOp(c) PROVE CallsInv'
  <1>t. TypeOK /\ Each(c) /\ helper[c] = "run" /\ lock = c /\ MoreToDo(c)
    BY DEF CallsInv, RunOp, Each, HoldsLock
  <1>1. PICK o \in Outcome :
          /\ done' = [done EXCEPT ![c] = Append(@, o)]
          /\ log' = Append(log, [call |-> call[c], op |-> Ops(c)[Len(done[c]) + 1], outcome |-> o,
                                 kills |-> request[c].kind = "reset" /\ User(c)])
    BY DEF RunOp
  <1>0. PICK entry, m, n, L :
            /\ entry = [call |-> call[c], op |-> Ops(c)[Len(done[c]) + 1], outcome |-> o,
                    kills |-> request[c].kind = "reset" /\ User(c)]
            /\ m = call[c] /\ n = Len(done[c]) /\ L = Len(log)
    OBVIOUS
  <1>2. Wrote(c) /\ request[c] \in Request /\ m # 0 /\ client[c] # "idle" /\ done[c] \in Seq(Outcome)
    BY <1>t, <1>0 DEF Each, HasClient, Progress, TypeOK
  <1>3. Ops(c) \in Seq(Op) /\ n \in Nat /\ n + 1 \in 1..Len(Ops(c)) /\ Len(Ops(c)) \in Nat
    <2>1. Ops(c) \in Seq(Op)
      BY <1>2, RequestsAreRequests DEF Ops
    <2>2. n < Len(Ops(c)) /\ n \in Nat
      BY <1>t, <1>0, <1>2 DEF MoreToDo
    <2>3. Len(Ops(c)) \in Nat
      BY <2>1
    <2> QED BY <2>1, <2>2, <2>3
  <1>4. entry \in LogLine /\ entry.call = m /\ entry.op = Ops(c)[n + 1] /\ entry.outcome = o
    <2>1. m \in 1..MaxCalls
      BY <1>t, <1>0, <1>2, Types
    <2>2. Ops(c)[n + 1] \in Op
      BY <1>3
    <2> QED BY <1>0, <2>1, <2>2 DEF LogLine
  <1>5. /\ log' = Append(log, entry) /\ UNCHANGED <<client, request, call, told, calls, helper, lock>>
        /\ done' = [done EXCEPT ![c] = Append(done[c], o)]
    BY <1>0, <1>1 DEF RunOp
  <1>6. /\ log' \in Seq(LogLine) /\ L \in Nat /\ Len(log') = L + 1 /\ DOMAIN log = 1..L /\ DOMAIN log' = 1..(L + 1)
        /\ (\A i \in 1..L : log'[i] = log[i]) /\ log'[L + 1] = entry
        /\ \A x : x # m => EntriesOf(log', x) = EntriesOf(log, x)
        /\ EntriesOf(log', m) = EntriesOf(log, m) \cup {L + 1}
    <2>1. log \in Seq(LogLine)
      BY <1>t, Types
    <2>2. /\ log' \in Seq(LogLine) /\ L \in Nat /\ Len(log') = L + 1 /\ DOMAIN log = 1..L /\ DOMAIN log' = 1..(L + 1)
          /\ (\A i \in 1..L : log'[i] = log[i]) /\ log'[L + 1] = entry
      BY <1>0, <1>4, <1>5, <2>1, OneMoreLine
    <2>3. /\ \A x : x # entry.call => EntriesOf(Append(log, entry), x) = EntriesOf(log, x)
          /\ EntriesOf(Append(log, entry), entry.call) = EntriesOf(log, entry.call) \cup {Len(log) + 1}
      BY <1>4, <2>1, ItsEntries
    <2> QED BY <1>0, <1>4, <1>5, <2>2, <2>3
  <1>7. /\ done' \in [Client -> Seq(Outcome)] /\ done'[c] = Append(done[c], o)
        /\ \A d \in Client : d # c => done'[d] = done[d]
    BY <1>t, <1>2, <1>5 DEF TypeOK
  <1>8. TypeOK'
    BY <1>t, <1>5, <1>6, <1>7 DEF TypeOK, LogLine
  <1>9. ASSUME NEW d \in Client, d # c PROVE Each(d)'
    <2>1. Each(d) /\ call[d] # m /\ helper[d] # "run"
      BY <1>0, <1>9, <1>t, <1>2 DEF CallsInv, NumbersDiffer, Each, HoldsLock
    <2>2. Entries(call[d])' = Entries(call[d])
      BY <1>5, <1>6, <2>1 DEF Entries, EntriesOf
    <2>3. call'[d] <= calls' /\ HoldsLock(d)' /\ HasClient(d)' /\ PastCheck(d)'
      BY <1>5, <2>1 DEF Each, HoldsLock, HasClient, PastCheck
    <2>4. NothingRan(call[d])' <=> NothingRan(call[d])
      BY <2>2 DEF NothingRan
    <2>5. Progress(d)'
      BY <1>5, <1>7, <1>9, <2>1, <2>4 DEF Each, Progress, Fresh
    <2>6. ASSUME client[d] = "idle" PROVE TruthOf(d, told[d].code, told[d].results)'
      <3>1. TruthOf(d, told[d].code, told[d].results)
        BY <2>1, <2>6 DEF Each, Truth
      <3>2. ASSUME told[d].code \in {"results"} \cup Outcome PROVE Ops(d) \in Seq(Op)
        BY <3>1, <3>2, RequestsAreRequests DEF TruthOf, Ops
      <3>3. ASSUME NEW x, Ops(d) \in Seq(Op), RanIn(log, call[d], Ops(d), x)
            PROVE  RanIn(log', call[d], Ops(d), x)
        <4>1. log \in Seq(LogLine)
          BY <1>t, Types
        <4> QED BY <1>4, <1>5, <2>1, <3>3, <4>1, RanStays
      <3>4. told[d].code = "results" => RanIn(log', call[d], Ops(d), told[d].results)
        BY <3>1, <3>2, <3>3 DEF TruthOf, Ran, RanIn, Entries, EntriesOf
      <3>5. told[d].code \in Outcome /\ request[d].kind # "status" => RanIn(log', call[d], Ops(d), <<told[d].code>>)
        BY <3>1, <3>2, <3>3 DEF TruthOf, Ran, RanIn, Entries, EntriesOf
      <3>6. told[d].code = "results" => Ran(call[d], Ops(d), told[d].results)'
        BY <1>5, <3>4 DEF Ran, RanIn, Entries, EntriesOf, Ops
      <3>7. told[d].code \in Outcome /\ request[d].kind # "status" => Ran(call[d], Ops(d), <<told[d].code>>)'
        BY <1>5, <3>5 DEF Ran, RanIn, Entries, EntriesOf, Ops
      <3> QED BY <1>5, <2>4, <3>1, <3>6, <3>7 DEF TruthOf
    <2>7. Truth(d)'
      BY <1>5, <2>6 DEF Truth
    <2> QED BY <2>3, <2>5, <2>7 DEF Each
  <1>10. Wrote(c)'
    <2>1. Len(done'[c]) = n + 1 /\ done'[c][n + 1] = o /\ \A j \in 1..n : done'[c][j] = done[c][j]
      BY <1>0, <1>2, <1>3, <1>7
    <2>2. /\ n <= L /\ EntriesOf(log, m) = (L - n + 1)..L
          /\ \A j \in 1..n : log[L - n + j].op = Ops(c)[j] /\ log[L - n + j].outcome = done[c][j]
      BY <1>0, <1>2 DEF Wrote, Entries, EntriesOf
    <2>n. n \in Nat /\ L \in Nat /\ (L + 1) - (n + 1) = L - n
      BY <1>3, <1>6
    <2>3. ((L - n + 1)..L) \cup {L + 1} = (L - n + 1)..(L + 1)
      BY <2>n
    <2>4. EntriesOf(log', m) = (L - n + 1)..(L + 1)
      BY <1>6, <2>2, <2>3
    <2>5. ASSUME NEW j \in 1..(n + 1)
          PROVE  log'[L - n + j].op = Ops(c)[j] /\ log'[L - n + j].outcome = done'[c][j]
      <3>1. CASE j = n + 1
        <4>1. L - n + j = L + 1
          BY <2>n, <3>1
        <4> QED BY <1>4, <1>6, <2>1, <3>1, <4>1
      <3>2. CASE j \in 1..n
        <4>1. L - n + j \in 1..L
          BY <2>n, <2>2, <3>2
        <4> QED BY <1>6, <2>1, <2>2, <3>2, <4>1
      <3> QED BY <2>n, <3>1, <3>2
    <2>6. n + 1 <= Len(Ops(c)) /\ n + 1 <= L + 1
      BY <1>3, <2>n, <2>2
    <2>7. Ops(c)' = Ops(c) /\ call'[c] = m
      BY <1>0, <1>5 DEF Ops
    <2>8. Entries(call[c])' = (L - n + 1)..(L + 1)
      BY <2>4, <2>7 DEF Entries, EntriesOf
    <2> QED BY <1>6, <2>n, <2>1, <2>5, <2>6, <2>7, <2>8 DEF Wrote
  <1>11. Each(c)'
    BY <1>t, <1>2, <1>5, <1>10 DEF Each, HoldsLock, HasClient, PastCheck, Progress, Truth
  <1>12. NumbersDiffer'
    <2>1. ASSUME NEW i \in DOMAIN log' PROVE log'[i].call <= calls
      <3>1. i \in 1..L \/ i = L + 1
        BY <1>6
      <3> QED BY <3>1, <1>0, <1>t, <1>4, <1>6 DEF CallsInv, NumbersDiffer, Each
    <2> QED BY <1>5, <2>1 DEF CallsInv, NumbersDiffer
  <1>13. Together'
    <2> SUFFICES ASSUME NEW i \in DOMAIN log', NEW k \in DOMAIN log', log'[i].call = log'[k].call, NEW j \in i..k
                 PROVE  log'[j].call = log'[i].call
      BY DEF Together
    <2>1. i \in 1..(L + 1) /\ k \in 1..(L + 1) /\ j \in 1..(L + 1) /\ i <= j /\ j <= k
      BY <1>6
    <2>2. CASE k \in 1..L
      <3>1. i \in 1..L /\ j \in 1..L
        BY <1>6, <2>1, <2>2
      <3>2. log[i].call = log[k].call
        BY <1>6, <2>2, <3>1
      <3>3. log[j].call = log[i].call
        BY <1>6, <2>2, <3>1, <3>2 DEF CallsInv, Together
      <3> QED BY <1>6, <3>1, <3>3
    <2>3. CASE k = L + 1
      <3>n. n \in Nat /\ L \in Nat
        BY <1>3, <1>6
      <3>1. EntriesOf(log', m) = ((L - n + 1)..L) \cup {L + 1}
        BY <1>0, <1>2, <1>6 DEF Wrote, Entries, EntriesOf
      <3>2. i \in EntriesOf(log', m)
        BY <1>4, <1>6, <2>3 DEF EntriesOf
      <3>3. j \in ((L - n + 1)..L) \cup {L + 1}
        <4>1. i \in ((L - n + 1)..L) \cup {L + 1}
          BY <3>1, <3>2
        <4>2. i >= L - n + 1
          BY <3>n, <4>1
        <4> QED BY <3>n, <2>1, <4>2
      <3>4. log'[i].call = m /\ log'[j].call = m
        BY <3>1, <3>2, <3>3 DEF EntriesOf
      <3> QED BY <3>4
    <2> QED BY <1>6, <2>1, <2>2, <2>3
  <1> QED BY <1>8, <1>9, <1>11, <1>12, <1>13 DEF CallsInv

-----------------------------------------------------------------------------
(* The theorem *)

LEMMA CallsInvNext == ASSUME CallsInv, [Next]_vars PROVE CallsInv'
  <1>1. CASE Next
    <2>1. PICK c \in Client :
            \/ (\E r \in Request : Call(c, r)) \/ CannotStart(c)
            \/ Grant(c) \/ Deny(c)
            \/ HelperStep(c) \/ Die(c)
            \/ Timeout(c) \/ Interrupt(c) \/ Quit(c)
      BY <1>1 DEF Next
    <2>2. CASE HelperStep(c)
      BY <2>2, CheckStep, LockStep, RunOpStep, AnswerStep DEF HelperStep
    <2> QED BY <2>1, <2>2, CallStep, CannotStartStep, GrantStep, DenyStep, DieStep, TimeoutStep, InterruptStep, QuitStep
  <1>2. CASE UNCHANGED vars
    <2>1. /\ UNCHANGED <<client, request, call, told, calls>> /\ UNCHANGED <<helper, done, lock, log>>
      BY <1>2 DEF vars, helpers
    <2>2. TypeOK' /\ NumbersDiffer' /\ Together'
      BY <2>1 DEF CallsInv, TypeOK, NumbersDiffer, Together
    <2>3. ASSUME NEW d \in Client PROVE Each(d)'
      <3>1. Same(d) /\ calls <= calls'
        BY <2>1, Types DEF CallsInv, Same
      <3> QED BY <2>1, <2>2, <3>1, OthersStay
    <2> QED BY <2>2, <2>3 DEF CallsInv
  <1> QED BY <1>1, <1>2

\* What a client is told is what its helper did, for any number of clients and
\* calls and any requests: a batch is answered with one outcome for each of its
\* operations, in order; a refusal or a timeout with that code ran nothing; a
\* call that returned left no helper behind; batches do not mix (_run_batch,
\* handle, _dispatch and the timeout of client.call).
THEOREM AlwaysTrueAnswers == Spec => []AnswersAreTrue
  <1>1. CallsInv => AnswersAreTrue
    <2> SUFFICES ASSUME CallsInv PROVE AnswersAreTrue
      OBVIOUS
    <2>1. TypeOK /\ Together /\ \A c \in Client : HasClient(c) /\ Truth(c)
      BY DEF CallsInv, Each
    <2>2. NothingLeft
      BY <2>1 DEF NothingLeft, HasClient
    <2>3. ToldTheTruth
      BY <2>1 DEF ToldTheTruth, Truth, TruthOf
    <2> QED BY <2>1, <2>2, <2>3 DEF AnswersAreTrue
  <1> QED BY <1>1, CallsInvInit, CallsInvNext, PTL DEF Spec

-----------------------------------------------------------------------------
(* The command line *)

Actions == {"bind"} \cup C!Named \cup C!Guarded \cup C!Remote \cup C!Local
CliSteps == {"parse", "resolve", "confirm", "call", "wait", "ask", "report", "exit"}
Sent == [action : Actions \cup {None}, path : Path \cup {None}, changed : BOOLEAN]

CliTypes ==
    /\ command \in Command /\ input \in Seq(STRING) /\ asked \in Seq(STRING)
    /\ step \in CliSteps
    /\ path \in Path \cup {None} /\ policy \in {"ask", "close", "separate", None}
    /\ action \in Actions \cup {None}
    /\ reply \in {None, "ok", "left", "error", "already_running"}
    /\ exit \in {None, 0, 1, 2, 130} /\ (exit = None <=> step # "exit")
    /\ found \in Path \cup {None} /\ running \subseteq C!Instances
    /\ records \subseteq [app : Path, at : Iface]
    /\ changes \in Nat /\ sent \in Seq(Sent)

\* Where a command is, and what it has asked the helper for by then.
OnItsWay ==
    /\ Len(sent) <= 2
    /\ step \in {"parse", "resolve", "confirm"} => sent = <<>>
    /\ step \in {"call", "wait"} => Len(sent) <= 1
    /\ step = "ask" => Len(sent) = 1 /\ C!Kind = "bind"
    /\ step = "report" => sent # <<>>
    /\ step = "resolve" => C!Kind \in C!Named \cup {"bind"}
    /\ step = "confirm" => C!Kind \in C!Guarded
    /\ step \notin {"parse", "exit"} =>
          /\ C!Kind \notin C!Local
          /\ IF C!Kind = "bind" THEN action \in {"bind", "adopt"} ELSE action = C!Kind
    /\ step \in {"call", "wait", "ask", "report"} /\ C!Kind \in C!Named \cup {"bind"} => path \in Path

\* Every call is about the path that was shown, and the first of two changed nothing.
AboutPath ==
    /\ \A i \in DOMAIN sent : sent[i].path = path
    /\ step \in {"call", "wait", "ask"} => \A i \in DOMAIN sent : ~sent[i].changed
    /\ Len(sent) = 2 => ~sent[1].changed
    /\ step = "report" /\ reply = "already_running" => \A i \in DOMAIN sent : ~sent[i].changed

\* What a call does to running applications was asked for.
Agreed ==
    /\ step \in {"resolve", "call", "wait"} /\ action = "bind" /\ C!Kind = "bind" /\ policy = "close" =>
          "close" \in command.flags \/ C!Said({"1"})
    /\ step \in {"call", "wait"} /\ C!Kind \in C!Guarded =>
          "yes" \in command.flags \/ C!Said({"y", "yes"})
    /\ C!Kind \in C!Guarded \cup {"bind"} /\ exit # 130 /\ C!Said({"3", "n"}) =>
          step \in {"ask", "exit"} /\ \A i \in DOMAIN sent : ~sent[i].changed
    /\ step \in {"parse", "resolve"} => asked = <<>>

\* Between the answer and its report nothing else has happened.
Achieved == step = "report" /\ reply = "ok" /\ changes = 0 => C!NoneLeft

CliInv == CliTypes /\ OnItsWay /\ AboutPath /\ Agreed /\ Achieved

LEMMA CommandTypes ==
    ASSUME command \in Command
    PROVE  /\ C!Kind \in Actions /\ command.flags \subseteq {"close", "separate", "yes", "kill_apps"}
           /\ command.wellformed \in BOOLEAN
           /\ (C!Kind \in {"bind", "restart"} => command.iface \in Iface)
           /\ (C!Kind = "move" => command.to \in Iface)
<1>1. command \in C!Commands BY CommandsAreCommands
<1> QED BY <1>1, CommandsAreCommands DEF C!Commands, C!Kind, Actions

LEMMA KindSets ==
    /\ C!Named = {"stop", "restart", "move", "kill", "adopt"} /\ C!Bound = {"stop", "restart", "move"}
    /\ C!Guarded = {"remove", "reset"}
    /\ C!Remote = {"release", "verify", "dns", "limit", "reconnect", "teardown-idle"}
    /\ C!Local = {"interfaces", "apps", "status", "check", "report"}
  BY DEF C!Named, C!Bound, C!Guarded, C!Remote, C!Local

LEMMA CliInvInit == C!Init => CliInv
<1> SUFFICES ASSUME C!Init PROVE CliInv
  OBVIOUS
<1>1. input \in Seq(STRING) /\ command \in Command BY CommandsAreCommands DEF C!Init
<1>2. CliTypes BY <1>1, NoneIsNoCode DEF C!Init, CliTypes, CliSteps
<1> QED BY <1>2 DEF C!Init, CliInv, OnItsWay, AboutPath, Agreed, Achieved, C!Said

\* What no step of the command but the one of the helper changes.
Still == UNCHANGED <<command, running, records, adopted, found, changes>>

LEMMA ParseStep == CliInv /\ C!Parse => CliInv'
<1> SUFFICES ASSUME CliInv, C!Parse PROVE CliInv'
  OBVIOUS
<1> USE CommandTypes, KindSets, NoneIsNoCode
<1>1. /\ UNCHANGED <<command, input, path, reply, running, records, adopted, found, changes, asked, sent>>
      /\ step = "parse" /\ action' = C!Kind /\ C!Kind' = C!Kind
      /\ policy' \in {"ask", "close", "separate"} /\ (policy' = "close" => "close" \in command.flags)
  BY DEF C!Parse, C!world, C!Kind
<1>2. \/ step' = "exit" /\ exit' \in {0, 1, 2}
      \/ /\ C!Kind \notin C!Local /\ exit' = None
         /\ step' = IF C!Kind \in C!Named \cup {"bind"} THEN "resolve"
                    ELSE IF C!Kind \in C!Guarded THEN "confirm" ELSE "call"
  BY DEF C!Parse, C!Exit, C!LocalCode, C!DiagnosisCode, C!ListingCode, CliInv, CliTypes
<1>3. sent = <<>> /\ asked = <<>> BY <1>1 DEF CliInv, OnItsWay, Agreed
<1>4. CliTypes' BY <1>1, <1>2 DEF CliInv, CliTypes, Actions, CliSteps
<1>5. OnItsWay' BY <1>1, <1>2, <1>3 DEF OnItsWay, CliInv, CliTypes, Actions
<1>6. AboutPath' BY <1>1, <1>2, <1>3 DEF AboutPath
<1>7. Agreed' BY <1>1, <1>2, <1>3 DEF Agreed, C!Said
<1>8. Achieved' BY <1>1, <1>2 DEF Achieved
<1> QED BY <1>4, <1>5, <1>6, <1>7, <1>8 DEF CliInv

LEMMA ResolveStep == CliInv /\ C!Resolve => CliInv'
<1> SUFFICES ASSUME CliInv, C!Resolve PROVE CliInv'
  OBVIOUS
<1> USE CommandTypes, KindSets, NoneIsNoCode
<1>1. /\ UNCHANGED <<command, input, policy, action, reply, running, records, adopted, found, changes, asked, sent>>
      /\ step = "resolve" /\ C!Kind' = C!Kind
  BY DEF C!Resolve, C!world, C!Kind
<1>2. C!Recorded \subseteq Path BY DEF CliInv, CliTypes, C!Recorded
<1>3. \/ step' = "exit" /\ exit' = 1 /\ path' = path
      \/ step' = "call" /\ exit' = None /\ path' \in Path
  BY <1>2 DEF C!Resolve, C!Exit, CliInv, CliTypes
<1>4. sent = <<>> /\ asked = <<>> /\ C!Kind \in C!Named \cup {"bind"}
  BY <1>1 DEF CliInv, OnItsWay, Agreed
<1>5. CliTypes' BY <1>1, <1>3 DEF CliInv, CliTypes, CliSteps
<1>6. OnItsWay' BY <1>1, <1>3, <1>4 DEF OnItsWay, CliInv
<1>7. AboutPath' BY <1>1, <1>3, <1>4 DEF AboutPath
<1>8. Agreed' BY <1>1, <1>3, <1>4 DEF Agreed, C!Said, CliInv
<1>9. Achieved' BY <1>1, <1>3 DEF Achieved
<1> QED BY <1>5, <1>6, <1>7, <1>8, <1>9 DEF CliInv

\* One line is read: it is the last of those that were given.
LEMMA LineRead ==
    ASSUME CliTypes, C!Read
    PROVE  /\ input' \in Seq(STRING) /\ asked' \in Seq(STRING)
           /\ asked' # <<>> /\ asked'[Len(asked')] = Head(input) /\ Len(asked') \in Nat
  BY DEF CliTypes, C!Read

LEMMA ConfirmStep == CliInv /\ C!Confirm => CliInv'
<1> SUFFICES ASSUME CliInv, C!Confirm PROVE CliInv'
  OBVIOUS
<1> USE CommandTypes, KindSets, NoneIsNoCode
<1>1. /\ UNCHANGED <<command, path, policy, action, reply, running, records, adopted, found, changes, sent>>
      /\ step = "confirm" /\ C!Kind' = C!Kind /\ C!Kind \in C!Guarded /\ sent = <<>>
  BY DEF C!Confirm, C!world, C!Kind, CliInv, OnItsWay
<1>2. input' \in Seq(STRING) /\ asked' \in Seq(STRING)
  BY LineRead DEF C!Confirm, C!EndOfInput, CliInv, CliTypes
<1>3. \/ step' = "exit" /\ exit' = 1
      \/ /\ step' = "call" /\ exit' = None
         /\ \/ "yes" \in command.flags /\ asked' = asked
            \/ asked' # <<>> /\ asked'[Len(asked')] \in {"y", "yes"}
  BY LineRead DEF C!Confirm, C!Exit, C!EndOfInput, C!Word, CliInv, CliTypes
<1>4. CliTypes' BY <1>1, <1>2, <1>3 DEF CliInv, CliTypes, CliSteps
<1>5. OnItsWay' BY <1>1, <1>3 DEF OnItsWay, CliInv
<1>6. AboutPath' BY <1>1, <1>3 DEF AboutPath
<1>7. Agreed'
  <2>1. exit # 130 BY <1>1, NoneIsNoCode DEF CliInv, CliTypes
  <2>2. ~C!Said({"3", "n"}) BY <1>1, <2>1 DEF CliInv, Agreed
  <2> QED BY <1>1, <1>3, <2>2 DEF Agreed, C!Said
<1>8. Achieved' BY <1>1, <1>3 DEF Achieved
<1> QED BY <1>4, <1>5, <1>6, <1>7, <1>8 DEF CliInv

LEMMA AskStep == CliInv /\ C!Ask => CliInv'
<1> SUFFICES ASSUME CliInv, C!Ask PROVE CliInv'
  OBVIOUS
<1> USE CommandTypes, KindSets, NoneIsNoCode
<1>1. /\ UNCHANGED <<command, path, reply, running, records, adopted, found, changes, sent>>
      /\ step = "ask" /\ C!Kind' = C!Kind /\ C!Kind = "bind" /\ Len(sent) = 1 /\ path \in Path
      /\ action \in {"bind", "adopt"} /\ exit = None
      /\ \A i \in DOMAIN sent : ~sent[i].changed /\ sent[i].path = path
  BY DEF C!Ask, C!world, C!Kind, CliInv, CliTypes, OnItsWay, AboutPath
<1>2. input' \in Seq(STRING) /\ asked' \in Seq(STRING)
  BY LineRead DEF C!Ask, C!EndOfInput, CliInv, CliTypes
<1>3. \/ step' = "exit" /\ exit' = 0 /\ UNCHANGED <<action, policy>>
      \/ step' = "ask" /\ exit' = None /\ UNCHANGED <<action, policy>>
      \/ /\ step' = "call" /\ exit' = None
         /\ asked' # <<>> /\ asked'[Len(asked')] \in {"1", "2", "4"}
         /\ action' \in {"bind", "adopt"} /\ policy' \in {"close", "separate", None}
         /\ (action' = "bind" /\ policy' = "close" => asked'[Len(asked')] = "1")
  <2>1. /\ DOMAIN C!Choice = {"1", "2", "3", "4"}
        /\ C!Choice["1"] = <<"bind", "close">> /\ C!Choice["2"] = <<"bind", "separate">>
        /\ C!Choice["3"] = <<"cancel", None>> /\ C!Choice["4"] = <<"adopt", None>>
    BY DEF C!Choice
  <2>2. CASE C!EndOfInput BY <1>1, <2>2 DEF C!Ask, C!Exit, C!Read, C!EndOfInput
  <2>3. CASE C!Read /\ Head(input) \notin DOMAIN C!Choice
    BY <1>1, <2>3 DEF C!Ask, C!Read, C!EndOfInput
  <2>4. CASE C!Read /\ Head(input) = "3"
    BY <1>1, <2>1, <2>4 DEF C!Ask, C!Exit, C!Read, C!EndOfInput
  <2>5. CASE C!Read /\ Head(input) \in {"1", "2", "4"}
    <3>1. asked' # <<>> /\ asked'[Len(asked')] = Head(input) BY <2>5, LineRead DEF CliInv
    <3>2. C!Choice[Head(input)][1] # "cancel" BY <2>1, <2>5
    <3>3. /\ action' = C!Choice[Head(input)][1] /\ policy' = C!Choice[Head(input)][2]
          /\ step' = "call" /\ exit' = exit
      BY <1>1, <2>1, <2>5, <3>2 DEF C!Ask, C!EndOfInput, C!Read
    <3>4. /\ action' \in {"bind", "adopt"} /\ policy' \in {"close", "separate", None}
          /\ (action' = "bind" /\ policy' = "close" => Head(input) = "1")
      <4>1. CASE Head(input) = "1" BY <2>1, <3>3, <4>1
      <4>2. CASE Head(input) = "2" BY <2>1, <3>3, <4>2
      <4>3. CASE Head(input) = "4" BY <2>1, <3>3, <4>3
      <4> QED BY <2>5, <4>1, <4>2, <4>3
    <3> QED BY <1>1, <2>5, <3>1, <3>3, <3>4
  <2> QED BY <2>1, <2>2, <2>3, <2>4, <2>5 DEF C!Ask
<1>4. CliTypes' BY <1>1, <1>2, <1>3 DEF CliInv, CliTypes, CliSteps, Actions
<1>5. OnItsWay' BY <1>1, <1>3 DEF OnItsWay, CliInv
<1>6. AboutPath' BY <1>1, <1>3 DEF AboutPath
<1>7. Agreed' BY <1>1, <1>3 DEF Agreed, C!Said
<1>8. Achieved' BY <1>1, <1>3 DEF Achieved
<1> QED BY <1>4, <1>5, <1>6, <1>7, <1>8 DEF CliInv

LEMMA CallStepCli == CliInv /\ C!Call => CliInv'
<1> SUFFICES ASSUME CliInv, C!Call PROVE CliInv'
  OBVIOUS
<1>1. /\ UNCHANGED <<command, input, path, policy, action, reply, exit, running, records, adopted, found, changes, asked, sent>>
      /\ step = "call" /\ step' = "wait" /\ C!Kind' = C!Kind
  BY DEF C!Call, C!world, C!Kind
<1>2. CliTypes' BY <1>1 DEF CliInv, CliTypes, CliSteps
<1>3. OnItsWay' BY <1>1 DEF CliInv, OnItsWay
<1>4. AboutPath' BY <1>1 DEF CliInv, AboutPath
<1>5. Agreed' BY <1>1 DEF CliInv, Agreed, C!Said
<1>6. Achieved' BY <1>1 DEF Achieved
<1> QED BY <1>2, <1>3, <1>4, <1>5, <1>6 DEF CliInv

LEMMA ReportStep == CliInv /\ C!Report => CliInv'
<1> SUFFICES ASSUME CliInv, C!Report PROVE CliInv'
  OBVIOUS
<1> USE NoneIsNoCode
<1>1. /\ UNCHANGED <<command, input, path, policy, action, reply, running, records, adopted, found, changes, asked, sent>>
      /\ step = "report" /\ C!Kind' = C!Kind
  BY DEF C!Report, C!world, C!Kind
<1>2. \/ step' = "exit" /\ exit' \in {0, 1}
      \/ step' = "ask" /\ exit' = exit /\ C!Kind = "bind" /\ Len(sent) = 1 /\ reply = "already_running"
  BY DEF C!Report, C!Exit, C!ExitCode
<1>3. CliTypes' BY <1>1, <1>2 DEF CliInv, CliTypes, CliSteps
<1>4. OnItsWay' BY <1>1, <1>2 DEF CliInv, OnItsWay
<1>5. AboutPath' BY <1>1, <1>2 DEF CliInv, AboutPath
<1>6. Agreed'
  <2>1. exit # 130 BY <1>1 DEF CliInv, CliTypes
  <2> QED BY <1>1, <1>2, <2>1 DEF CliInv, Agreed, C!Said
<1>7. Achieved' BY <1>1, <1>2 DEF Achieved
<1> QED BY <1>3, <1>4, <1>5, <1>6, <1>7 DEF CliInv

LEMMA InterruptStepCli == CliInv /\ C!Interrupt => CliInv'
<1> SUFFICES ASSUME CliInv, C!Interrupt PROVE CliInv'
  OBVIOUS
<1>1. /\ UNCHANGED <<command, input, path, policy, action, reply, running, records, adopted, found, changes, asked, sent>>
      /\ step' = "exit" /\ exit' = 130 /\ C!Kind' = C!Kind
  BY DEF C!Interrupt, C!Exit, C!world, C!Kind
<1>2. CliTypes' BY <1>1, NoneIsNoCode DEF CliInv, CliTypes, CliSteps
<1>3. OnItsWay' BY <1>1 DEF CliInv, OnItsWay
<1>4. AboutPath' BY <1>1 DEF CliInv, AboutPath
<1>5. Agreed' BY <1>1 DEF Agreed
<1>6. Achieved' BY <1>1 DEF Achieved
<1> QED BY <1>2, <1>3, <1>4, <1>5, <1>6 DEF CliInv

LEMMA MeanwhileStep == CliInv /\ C!Meanwhile => CliInv'
<1> SUFFICES ASSUME CliInv, C!Meanwhile PROVE CliInv'
  OBVIOUS
<1>1. /\ UNCHANGED <<command, input, step, path, policy, action, reply, exit, adopted, asked, sent>>
      /\ changes' = changes + 1 /\ changes \in Nat /\ C!Kind' = C!Kind
  BY DEF C!Meanwhile, C!Kind, CliInv, CliTypes
<1>2. /\ running' \subseteq C!Instances /\ found' \in Path \cup {None}
      /\ records' \subseteq [app : Path, at : Iface]
  BY DEF C!Meanwhile, CliInv, CliTypes
<1>3. CliTypes' BY <1>1, <1>2 DEF CliInv, CliTypes
<1>4. OnItsWay' BY <1>1 DEF CliInv, OnItsWay
<1>5. AboutPath' BY <1>1 DEF CliInv, AboutPath
<1>6. Agreed' BY <1>1 DEF CliInv, Agreed, C!Said
<1>7. Achieved' BY <1>1 DEF Achieved
<1> QED BY <1>3, <1>4, <1>5, <1>6, <1>7 DEF CliInv

-----------------------------------------------------------------------------
(* What the helper does *)

LEMMA Launched ==
    ASSUME CliTypes, NEW kept, NEW where, C!Launches(kept, where)
    PROVE  /\ running' = kept \/ running' = kept \cup {[app |-> path, at |-> where]}
           /\ reply' \in {"ok", "error"}
  BY DEF C!Launches, C!Replies

\* What is found of an application runs, and what has ended of it is no more than that.
LEMMA FoundRuns ==
    ASSUME NEW r, NEW tree \in SUBSET C!Own
    PROVE  C!BoundPids(r, tree) \subseteq running /\ C!Instance(tree) \subseteq running
<1>1. \A b : C!BoundPids(b, tree) \subseteq running
  BY DEF C!BoundPids, C!Inside, C!ByName, C!Own
<1> QED BY <1>1 DEF C!Instance, C!ByName

\* What was found may end, and nothing else does; nothing but what is launched appears.
LEMMA EndsOnly ==
    ASSUME CliTypes, NEW pids \in SUBSET running, NEW tree, NEW where,
           \/ C!Terminates(pids)
           \/ \E kept \in C!Ended(pids, tree) : C!Launches(kept, where)
    PROVE  /\ running \ running' \subseteq pids
           /\ running' \subseteq running \cup {[app |-> path, at |-> where]}
<1>1. CASE C!Terminates(pids) BY <1>1 DEF C!Terminates
<1>2. CASE \E kept \in C!Ended(pids, tree) : C!Launches(kept, where)
  <2>1. PICK kept \in C!Ended(pids, tree) : C!Launches(kept, where) BY <1>2
  <2>2. running' = kept \/ running' = kept \cup {[app |-> path, at |-> where]} BY <2>1, Launched
  <2>3. kept \subseteq running /\ running \ kept \subseteq pids BY <2>1 DEF C!Ended
  <2> QED BY <2>2, <2>3
<1> QED BY <1>1, <1>2

\* restart and move: what they close is what they find of the binding.
LEMMA AgainEnds ==
    ASSUME CliTypes, NEW where, C!HelperAgain(where)
    PROVE  /\ reply' \in {"ok", "error"}
           /\ running' \subseteq running \cup {[app |-> path, at |-> where]}
           /\ \/ running' = running
              \/ /\ C!Here \in records
                 /\ \E tree \in SUBSET C!Own : running \ running' \subseteq C!BoundPids(C!Here, tree)
<1>1. CASE C!Replies("error") /\ UNCHANGED running BY <1>1 DEF C!Replies
<1>2. CASE /\ C!Here \in records
           /\ \E tree \in SUBSET C!Own :
                 LET pids == C!BoundPids(C!Here, tree)
                 IN  \/ C!Terminates(pids) /\ ~C!Gone(pids) /\ C!Replies("error")
                     \/ \E kept \in C!Ended(pids, tree) : C!Launches(kept, where)
  <2>1. PICK tree \in SUBSET C!Own :
           \/ C!Terminates(C!BoundPids(C!Here, tree)) /\ C!Replies("error")
           \/ \E kept \in C!Ended(C!BoundPids(C!Here, tree), tree) : C!Launches(kept, where)
    BY <1>2
  <2>2. C!BoundPids(C!Here, tree) \subseteq running BY FoundRuns
  <2>3. reply' \in {"ok", "error"} BY <2>1, Launched DEF C!Replies
  <2>4. /\ running \ running' \subseteq C!BoundPids(C!Here, tree)
        /\ running' \subseteq running \cup {[app |-> path, at |-> where]}
    BY <2>1, <2>2, EndsOnly
  <2> QED BY <1>2, <2>3, <2>4
<1> QED BY <1>1, <1>2 DEF C!HelperAgain

\* bind: what it closes is what it takes for the application, and only if told to.
LEMMA BindEnds ==
    ASSUME CliTypes, C!HelperBind
    PROVE  /\ reply' \in {"ok", "error", "already_running"}
           /\ running' \subseteq running \cup {C!Here}
           /\ reply' = "already_running" => running' = running
           /\ running \ running' # {} =>
                 policy = "close" /\ \E tree \in SUBSET C!Own : running \ running' \subseteq C!Instance(tree)
<1>1. PICK tree \in SUBSET C!Own :
         \/ policy = "ask" /\ C!Replies("already_running") /\ UNCHANGED running
         \/ policy = "close" /\ C!Terminates(C!Instance(tree)) /\ C!Replies("error")
         \/ policy = "close" /\ \E kept \in C!Ended(C!Instance(tree), tree) : C!Launches(kept, command.iface)
         \/ C!Launches(running, command.iface)
         \/ C!Replies("error") /\ UNCHANGED running
  BY DEF C!HelperBind
<1>2. C!Instance(tree) \subseteq running BY FoundRuns
<1>3. C!Here = [app |-> path, at |-> command.iface] BY DEF C!Here
<1>4. CASE policy = "ask" /\ C!Replies("already_running") /\ UNCHANGED running
  BY <1>4 DEF C!Replies
<1>5. CASE policy = "close" /\ C!Terminates(C!Instance(tree)) /\ C!Replies("error")
  BY <1>2, <1>3, <1>5, EndsOnly DEF C!Replies
<1>6. CASE policy = "close" /\ \E kept \in C!Ended(C!Instance(tree), tree) : C!Launches(kept, command.iface)
  <2>1. reply' \in {"ok", "error"} BY <1>6, Launched
  <2> QED BY <1>2, <1>3, <1>6, <2>1, EndsOnly
<1>7. CASE C!Launches(running, command.iface) BY <1>3, <1>7, Launched
<1>8. CASE C!Replies("error") /\ UNCHANGED running BY <1>8 DEF C!Replies
<1> QED BY <1>1, <1>4, <1>5, <1>6, <1>7, <1>8

\* What is found of a binding belongs to its application, by name or descent, or runs
\* in a namespace that no other binding shares.
LEMMA FoundBelongs ==
    ASSUME CliTypes, NEW tree \in SUBSET C!Own, NEW r \in records, r.app = path
    PROVE  C!BoundPids(r, tree) \subseteq C!Belonging
<1> DEFINE named == C!Inside(C!ByName(r.app) \cup tree, {r.at})
<1>1. C!BoundPids(r, tree) = IF named = {} /\ ~C!Shared(r) THEN C!Inside(running, {r.at}) ELSE named
  BY DEF C!BoundPids
<1>2. named \subseteq C!Belonging
  BY DEF CliTypes, C!Inside, C!ByName, C!Own, C!Belonging
<1>3. ASSUME ~C!Shared(r), NEW x \in C!Inside(running, {r.at}) PROVE x \in C!Belonging
  <2>1. x \in C!Instances /\ x.at = r.at BY DEF CliTypes, C!Inside
  <2>2. \A other \in records : other.at = x.at => other.app = path BY <1>3, <2>1 DEF C!Shared
  <2> QED BY <2>1, <2>2 DEF C!Belonging
<1> QED BY <1>1, <1>2, <1>3

\* The same of what bind takes for the running application.
LEMMA InstanceBelongs ==
    ASSUME CliTypes, NEW tree \in SUBSET C!Own
    PROVE  C!Instance(tree) \subseteq C!Belonging
<1>1. C!ByName(path) \subseteq C!Belonging BY DEF CliTypes, C!ByName, C!Belonging
<1>2. \A r \in records : r.app = path => C!BoundPids(r, tree) \subseteq C!Belonging
  BY FoundBelongs
<1> QED BY <1>1, <1>2 DEF C!Instance

\* What each action of the helper may do.
LEMMA EngineTypes ==
    ASSUME CliInv, step = "wait", C!Engine, UNCHANGED command
    PROVE  /\ reply' \in {"ok", "left", "error", "already_running"}
           /\ running' \subseteq C!Instances /\ records' \subseteq [app : Path, at : Iface]
           /\ reply' = "already_running" =>
                 action = "bind" /\ UNCHANGED <<running, records, adopted>>
<1> USE CommandTypes, KindSets
<1>0. CliTypes BY DEF CliInv
<1>1. C!Kind \in C!Named \cup {"bind"} => path \in Path BY DEF CliInv, OnItsWay
<1>2. IF C!Kind = "bind" THEN action \in {"bind", "adopt"} ELSE action = C!Kind
  BY DEF CliInv, OnItsWay
<1>3. ASSUME NEW where \in Iface, path \in Path
      PROVE  [app |-> path, at |-> where] \in C!Instances /\ [app |-> path, at |-> where] \in [app : Path, at : Iface]
  BY <1>3 DEF C!Instances, C!Places
<1>4. CASE action = "bind" /\ C!HelperBind
  <2>0. action \in Actions /\ path \in Path /\ command.iface \in Iface BY <1>0, <1>1, <1>2, <1>4 DEF CliTypes
  <2>1. C!Here = [app |-> path, at |-> command.iface] BY DEF C!Here
  <2>2. C!Here \in C!Instances /\ C!Here \in [app : Path, at : Iface] BY <1>3, <2>0, <2>1
  <2>3. /\ reply' \in {"ok", "error", "already_running"}
        /\ running' \subseteq running \cup {C!Here}
        /\ (reply' = "already_running" => running' = running)
    BY <1>0, <1>4, BindEnds
  <2>4. records' \subseteq records \cup {C!Here} /\ (reply' # "ok" => records' = records) /\ adopted' = adopted
    BY <1>4 DEF C!HelperBind
  <2> QED BY <1>0, <1>4, <2>2, <2>3, <2>4 DEF CliTypes
<1>5. CASE action = "stop" /\ C!HelperStop
  <2>1. UNCHANGED <<records, adopted>> BY <1>5 DEF C!HelperStop
  <2>2. reply' \in {"ok", "left", "error"} /\ running' \subseteq running
    BY <1>5, FoundRuns DEF C!HelperStop, C!Replies, C!Terminates, C!Ended
  <2> QED BY <1>0, <2>1, <2>2 DEF CliTypes
<1>6. ASSUME NEW where \in Iface, path \in Path, C!HelperAgain(where)
      PROVE  /\ reply' \in {"ok", "error"}
             /\ running' \subseteq C!Instances /\ records' \subseteq [app : Path, at : Iface]
  <2>1. reply' \in {"ok", "error"} /\ running' \subseteq running \cup {[app |-> path, at |-> where]}
    BY <1>0, <1>6, AgainEnds
  <2>2. records' \subseteq records \cup {[app |-> path, at |-> where]} BY <1>6 DEF C!HelperAgain
  <2> QED BY <1>0, <1>3, <1>6, <2>1, <2>2 DEF CliTypes
<1>7. CASE action = "restart" /\ C!HelperAgain(command.iface)
  <2>1. C!Kind = "restart" /\ path \in Path /\ command.iface \in Iface BY <1>0, <1>1, <1>2, <1>7 DEF CliTypes
  <2> QED BY <1>6, <1>7, <2>1
<1>8. CASE action = "move" /\ C!HelperAgain(command.to)
  <2>1. C!Kind = "move" /\ path \in Path /\ command.to \in Iface BY <1>0, <1>1, <1>2, <1>8 DEF CliTypes
  <2> QED BY <1>6, <1>8, <2>1
<1>9. CASE action = "kill" /\ C!HelperKill
  BY <1>0, <1>9 DEF CliTypes, C!HelperKill, C!Replies, C!Terminates, C!ByName
<1>10. CASE action = "adopt" /\ C!HelperAdopt
  BY <1>0, <1>10 DEF CliTypes, C!HelperAdopt, C!Replies
<1>11. CASE action = "remove" /\ C!HelperRemove
  BY <1>0, <1>11 DEF CliTypes, C!HelperRemove, C!Replies, C!Terminates, C!Inside
<1>12. CASE action = "reset" /\ C!HelperReset
  BY <1>0, <1>12 DEF CliTypes, C!HelperReset, C!Replies, C!Terminates, C!Inside
<1>13. CASE action = "release" /\ C!HelperRelease
  BY <1>0, <1>13 DEF CliTypes, C!HelperRelease, C!Replies
<1>14. CASE action \in C!Remote \ {"release"} /\ C!HelperRest
  BY <1>0, <1>14 DEF CliTypes, C!HelperRest, C!Replies
<1>15. CASE C!Replies("error") /\ UNCHANGED <<running, records, adopted>>
  BY <1>0, <1>15 DEF CliTypes, C!Replies
<1> QED
  BY <1>4, <1>5, <1>7, <1>8, <1>9, <1>10, <1>11, <1>12, <1>13, <1>14, <1>15 DEF C!Engine

\* An answer that says so means that nothing is left.
LEMMA OkMeansDone ==
    ASSUME CliInv, step = "wait", C!Engine, UNCHANGED <<command, path>>, reply' = "ok"
    PROVE  C!NoneLeft'
<1> USE KindSets
<1>0. CliTypes /\ (C!Kind # "bind" => action = C!Kind) /\ C!Kind' = C!Kind
  BY DEF CliInv, OnItsWay, C!Kind
<1>1. CASE C!Kind = "stop"
  <2>1. C!HelperStop BY <1>0, <1>1 DEF C!Engine, C!Replies
  <2>2. ASSUME path \in Findable PROVE C!Here \notin running'
    <3>1. PICK tree \in SUBSET C!Own : running' \in C!Ended(C!BoundPids(C!Here, tree), tree)
      BY <2>1 DEF C!HelperStop, C!Replies
    <3>2. tree \ C!ByName(path) = {} BY <2>2 DEF C!Own, C!ByName
    <3>3. running' = running \ C!BoundPids(C!Here, tree) BY <3>1, <3>2 DEF C!Ended
    <3>4. C!Here \in running => C!Here \in C!BoundPids(C!Here, tree)
      BY <2>2 DEF C!BoundPids, C!Inside, C!ByName, C!Here
    <3> QED BY <3>3, <3>4
  <2>3. C!Here' = C!Here BY DEF C!Here
  <2> QED BY <1>0, <1>1, <2>2, <2>3 DEF C!NoneLeft
<1>2. CASE C!Kind = "kill"
  <2>1. C!HelperKill BY <1>0, <1>2 DEF C!Engine, C!Replies
  <2>2. running' \cap C!ByName(path) = {} BY <2>1 DEF C!HelperKill, C!Replies, C!Gone
  <2>3. running' \subseteq running BY <2>1 DEF C!HelperKill, C!Terminates, C!ByName
  <2>4. path \in Findable => C!Own' = {} BY <2>2, <2>3 DEF C!Own, C!ByName
  <2> QED BY <1>0, <1>2, <2>4 DEF C!NoneLeft
<1>3. CASE C!Kind = "remove"
  <2>1. C!HelperRemove BY <1>0, <1>3 DEF C!Engine, C!Replies
  <2>2. C!Inside(running', {command.iface}) = {} BY <2>1 DEF C!HelperRemove, C!Replies
  <2>3. \A r \in records' : r.at # command.iface BY <2>1 DEF C!HelperRemove
  <2> QED BY <1>0, <1>3, <2>2, <2>3 DEF C!NoneLeft, C!Inside
<1>4. CASE C!Kind = "reset"
  <2>1. C!HelperReset BY <1>0, <1>4 DEF C!Engine, C!Replies
  <2>2. records' = {} /\ ("kill_apps" \in command.flags => C!Inside(running', Iface) = {})
    BY <2>1 DEF C!HelperReset, C!Replies
  <2> QED BY <1>0, <1>4, <2>2 DEF C!NoneLeft, C!Inside
<1>5. CASE C!Kind \notin {"stop", "kill", "remove", "reset"}
  BY <1>0, <1>5 DEF C!NoneLeft
<1> QED BY <1>1, <1>2, <1>3, <1>4, <1>5

LEMMA AnsweredStep == CliInv /\ C!Answered => CliInv'
<1> SUFFICES ASSUME CliInv, C!Answered PROVE CliInv'
  OBVIOUS
<1> DEFINE new == [action |-> action, path |-> path,
                   changed |-> <<running, records, adopted>>' # <<running, records, adopted>>]
<1> HIDE DEF new
<1>1. /\ UNCHANGED <<command, input, path, policy, action, exit, found, changes, asked>>
      /\ step = "wait" /\ step' = "report" /\ C!Engine /\ sent' = Append(sent, new) /\ C!Kind' = C!Kind
  BY DEF C!Answered, C!Kind, new
<1>2. /\ reply' \in {"ok", "left", "error", "already_running"}
      /\ running' \subseteq C!Instances /\ records' \subseteq [app : Path, at : Iface]
      /\ (reply' = "already_running" => action = "bind" /\ UNCHANGED <<running, records, adopted>>)
  BY <1>1, EngineTypes
<1>3. new \in Sent /\ sent \in Seq(Sent) /\ Len(sent) \in 0..1
  <2>1. (<<running, records, adopted>>' # <<running, records, adopted>>) \in BOOLEAN OBVIOUS
  <2>2. action \in Actions \cup {None} /\ path \in Path \cup {None} BY DEF CliInv, CliTypes
  <2>3. new \in Sent BY <2>1, <2>2 DEF Sent, new
  <2>4. sent \in Seq(Sent) /\ Len(sent) <= 1 BY <1>1 DEF CliInv, CliTypes, OnItsWay
  <2>5. Len(sent) \in Nat BY <2>4
  <2> QED BY <2>3, <2>4, <2>5
<1>4. /\ sent' \in Seq(Sent) /\ Len(sent') = Len(sent) + 1 /\ sent'[Len(sent) + 1] = new
      /\ DOMAIN sent = 1..Len(sent) /\ DOMAIN sent' = 1..(Len(sent) + 1)
      /\ \A i \in DOMAIN sent : sent'[i] = sent[i]
  BY <1>1, <1>3
<1>5. new.path = path /\ (reply' = "already_running" => ~new.changed) BY <1>2 DEF new
<1>6. CliTypes' BY NoneIsNoCode, <1>1, <1>2, <1>4 DEF CliInv, CliTypes, CliSteps
<1>7. OnItsWay' BY <1>1, <1>3, <1>4 DEF CliInv, OnItsWay
<1>8. AboutPath'
  <2>1. \A i \in DOMAIN sent : sent[i].path = path /\ ~sent[i].changed
    BY <1>1 DEF CliInv, AboutPath
  <2>2. ASSUME NEW i \in DOMAIN sent' PROVE i \in DOMAIN sent \/ sent'[i] = new
    BY <1>3, <1>4
  <2>3. \A i \in DOMAIN sent' : sent'[i].path = path' BY <1>1, <1>4, <1>5, <2>1, <2>2
  <2>4. Len(sent') = 2 => ~sent'[1].changed
    <3>1. ASSUME Len(sent') = 2 PROVE 1 \in DOMAIN sent
      <4>1. Len(sent') = Len(sent) + 1 BY <1>4
      <4>2. Len(sent) \in 0..1 BY <1>3
      <4>3. Len(sent) = 1 BY <3>1, <4>1, <4>2
      <4> QED BY <1>4, <4>3
    <3> QED BY <1>4, <2>1, <3>1
  <2>5. reply' = "already_running" => \A i \in DOMAIN sent' : ~sent'[i].changed
    BY <1>4, <1>5, <2>1, <2>2
  <2> QED BY <1>1, <2>3, <2>4, <2>5 DEF AboutPath
<1>9. Agreed'
  <2>1. exit # 130 BY <1>1, NoneIsNoCode DEF CliInv, CliTypes
  <2> QED BY <1>1, <2>1 DEF CliInv, Agreed, C!Said
<1>10. Achieved' BY <1>1, OkMeansDone DEF Achieved
<1> QED BY <1>6, <1>7, <1>8, <1>9, <1>10 DEF CliInv

LEMMA CliStep == CliInv /\ C!Next => CliInv'
  BY ParseStep, ResolveStep, ConfirmStep, AskStep, CallStepCli, AnsweredStep, ReportStep,
     InterruptStepCli, MeanwhileStep DEF C!Next, C!Step

-----------------------------------------------------------------------------
(* What a step of the command may do *)

\* Whose step it is that leads from one place to another.
LEMMA WhoseStep ==
    ASSUME C!Next
    PROVE  /\ step = "wait" /\ step' = "report" => C!Answered
           /\ step = "report" /\ step' = "exit" => C!Report \/ exit' = 130
           /\ step = "report" /\ step' # "exit" => UNCHANGED exit
           /\ step = "resolve" /\ step' = "call" => C!Resolve
<1>1. ~(step = "report" /\ step' = "report" /\ C!Report)
  BY DEF C!Report, C!Exit
<1> QED
  BY <1>1 DEF C!Next, C!Step, C!Parse, C!Resolve, C!Confirm, C!Ask, C!Call, C!Answered, C!Report,
     C!Interrupt, C!Meanwhile, C!Exit

\* A step that closes an application.
Closes == running \ running' # {} /\ step = "wait" /\ step' = "report"
Consented ==
    \/ /\ \/ C!Kind \in {"stop", "kill", "restart", "move"}
          \/ C!Kind = "bind" /\ ("close" \in command.flags \/ C!Said({"1"}))
       /\ running \ running' \subseteq C!Belonging
    \/ C!Kind \in C!Guarded /\ ("yes" \in command.flags \/ C!Said({"y", "yes"}))

LEMMA ConsentStep ==
    ASSUME CliInv, C!Next, Closes
    PROVE  Consented
<1> USE KindSets
<1>0. C!Answered /\ C!Engine /\ step = "wait" BY WhoseStep DEF Closes, C!Answered
<1>1. CliTypes /\ C!Kind \in Actions /\ C!Kind \notin C!Local
      /\ IF C!Kind = "bind" THEN action \in {"bind", "adopt"} ELSE action = C!Kind
  BY <1>0, CommandTypes DEF CliInv, CliTypes, OnItsWay
<1>2. CASE C!Kind = "bind"
  <2>1. action = "bind" /\ C!HelperBind
    BY <1>0, <1>1, <1>2 DEF C!Engine, C!HelperAdopt, Closes
  <2>2. policy = "close" /\ \E tree \in SUBSET C!Own : running \ running' \subseteq C!Instance(tree)
    BY <1>1, <2>1, BindEnds DEF Closes
  <2>3. "close" \in command.flags \/ C!Said({"1"}) BY <1>0, <1>2, <2>1, <2>2 DEF CliInv, Agreed
  <2>4. running \ running' \subseteq C!Belonging BY <1>1, <2>2, InstanceBelongs
  <2> QED BY <1>2, <2>2, <2>3, <2>4 DEF Consented
<1>3. CASE C!Kind \in C!Guarded
  BY <1>0, <1>3 DEF CliInv, Agreed, Consented
<1>4. CASE C!Kind = "kill"
  <2>1. running \ running' \subseteq C!ByName(path)
    BY <1>0, <1>1, <1>4 DEF C!Engine, C!HelperKill, C!Terminates
  <2>2. C!ByName(path) \subseteq C!Belonging BY <1>1 DEF CliTypes, C!ByName, C!Belonging
  <2> QED BY <1>4, <2>1, <2>2 DEF Consented
<1>5. CASE C!Kind \in C!Bound
  <2>1. C!Here \in records /\ \E tree \in SUBSET C!Own : running \ running' \subseteq C!BoundPids(C!Here, tree)
    <3>1. CASE C!Kind = "stop"
      BY <1>0, <1>1, <3>1 DEF C!Engine, C!HelperStop, C!Terminates, C!Ended, Closes
    <3>2. CASE C!Kind \in {"restart", "move"}
      BY <1>0, <1>1, <3>2, AgainEnds DEF C!Engine, Closes
    <3> QED BY <1>5, <3>1, <3>2
  <2>2. C!Here.app = path BY DEF C!Here
  <2>3. running \ running' \subseteq C!Belonging BY <1>1, <2>1, <2>2, FoundBelongs
  <2> QED BY <1>5, <2>3 DEF Consented
<1>6. C!Kind \notin C!Remote \cup {"adopt"}
  BY <1>0, <1>1 DEF C!Engine, C!HelperAdopt, C!HelperRelease, C!HelperRest, Closes
<1> QED BY <1>1, <1>2, <1>3, <1>4, <1>5, <1>6 DEF Actions

LEMMA DoneStep ==
    ASSUME CliInv, C!Next, step = "report", exit' = 0, changes = 0
    PROVE  C!NoneLeft
<1>1. exit = None BY DEF CliInv, CliTypes
<1>2. step' = "exit" /\ C!Report BY <1>1, WhoseStep, NoneIsNoCode
<1>3. reply = "ok" BY <1>2 DEF C!Report, C!Exit, C!ExitCode
<1> QED BY <1>3 DEF CliInv, Achieved

LEMMA GuessStep ==
    ASSUME CliInv, C!Next, step = "resolve", step' = "call", found = None, C!Kind \in C!Bound
    PROVE  \A r \in records : r.at = command.iface => r.app = path'
<1> USE KindSets
<1>1. C!Resolve BY WhoseStep
<1>2. C!Cardinality(C!Recorded) = 1 /\ path' \in C!Recorded BY <1>1 DEF C!Resolve, C!Exit
<1>3. C!Cardinality(C!Recorded) = Cardinality(C!Recorded)
  BY DEF C!Cardinality, Cardinality
<1>4. C!Recorded \subseteq Path BY DEF CliInv, CliTypes, C!Recorded
<1>5. IsFiniteSet(C!Recorded) BY <1>4, FS_Subset, BoundsAreRight
<1>6. PICK x : C!Recorded = {x} BY <1>2, <1>5, <1>3, FS_Singleton
<1>7. \A r \in records : r.at = command.iface => r.app \in C!Recorded BY DEF C!Recorded
<1> QED BY <1>2, <1>6, <1>7

\* For any command lines, applications and interfaces, whatever is typed and
\* whatever others do meanwhile: a command does what its user agreed to, and says
\* how it went (_resolve_app, _confirm, _ask_running_policy, _report_stop).
THEOREM CommandsAgree == CallsSpec => DoesAsAgreed
<1>1. CallsInit => CliInv BY CliInvInit DEF CallsInit
<1>2. ASSUME CliInv, [CallsNext]_all PROVE CliInv' /\ [C!Next]_(C!vars)
  <2>1. CASE UNCHANGED cli
    <3>1. CliInv' BY <1>2, <2>1 DEF cli, CliInv, CliTypes, OnItsWay, AboutPath, Agreed, Achieved,
            C!Kind, C!Said, C!NoneLeft, C!Here, C!Own, C!Inside
    <3> QED BY <2>1, <3>1 DEF cli, C!vars, C!world
  <2>2. CASE C!Next BY <1>2, <2>2, CliStep
  <2> QED BY <1>2, <2>1, <2>2 DEF CallsNext, all
<1>3. CliInv => C!TypeOK /\ C!CancelledIsHarmless /\ C!OnePath
  <2> SUFFICES ASSUME CliInv PROVE C!TypeOK /\ C!CancelledIsHarmless /\ C!OnePath
    OBVIOUS
  <2>1. C!TypeOK BY DEF CliInv, CliTypes, OnItsWay, C!TypeOK, Actions, CliSteps
  <2>2. C!CancelledIsHarmless BY DEF CliInv, Agreed, C!CancelledIsHarmless
  <2>3. C!OnePath
    <3>1. Len(sent) = 2 => {1, 2} \subseteq DOMAIN sent BY DEF CliInv, CliTypes
    <3> QED BY <3>1 DEF CliInv, AboutPath, C!OnePath
  <2> QED BY <2>1, <2>2, <2>3
<1>4. CliInv /\ [C!Next]_(C!vars) => [Closes => Consented]_(C!vars)
  BY ConsentStep
<1>5. CliInv /\ [C!Next]_(C!vars) =>
         [step = "report" /\ exit' = 0 /\ changes = 0 => C!NoneLeft]_(C!vars)
  BY DoneStep
<1>6. CliInv /\ [C!Next]_(C!vars) =>
         [step = "resolve" /\ step' = "call" /\ found = None /\ C!Kind \in C!Bound =>
             \A r \in records : r.at = command.iface => r.app = path']_(C!vars)
  BY GuessStep
<1> QED
  BY <1>1, <1>2, <1>3, <1>4, <1>5, <1>6, PTL
  DEF CallsSpec, DoesAsAgreed, C!ClosedWithConsent, C!ZeroMeansDone, C!NoGuessing, Closes, Consented

-----------------------------------------------------------------------------
(* The checks of a request *)

\* What is known of a request before it is checked.
IsRequest(r) ==
    /\ DOMAIN r = {"current", "action", "params", "ops"}
    /\ DOMAIN r.ops = 1..Len(r.ops)
    /\ r.action # "batch" => r.ops = <<>>

\* A validator accepts what it returns, and returns it again.
LEMMA CleanStays ==
    ASSUME NEW type \in DOMAIN Accepts, NEW value \in Accepts[type]
    PROVE  Clean(value) \in Accepts[type] /\ Clean(Clean(value)) = Clean(value)
<1>1. DOMAIN Accepts = {"iface", "app", "id", "bool", "policy", "env", "dns", "dns_set", "mbit", "limit", "ops"}
  BY DEF Accepts
<1>2. CASE type \in {"iface", "app", "id", "bool", "policy", "env", "ops"}
  BY <1>2 DEF Accepts, Clean
<1>3. CASE type \in {"dns", "dns_set"}
  BY <1>3 DEF Accepts, Clean
<1>4. CASE type \in {"mbit", "limit"}
  BY <1>4 DEF Accepts, Clean
<1> QED BY <1>1, <1>2, <1>3, <1>4

\* A parameter of an action has a validator that accepts its default.
Sound(specs) ==
    \A name \in DOMAIN specs :
        /\ specs[name].type \in DOMAIN Accepts
        /\ \/ specs[name].default = Required
           \/ /\ specs[name].default \in Accepts[specs[name].type]
              /\ Clean(specs[name].default) = specs[name].default

LEMMA KindsAreKinds ==
    DOMAIN Specs = {"status", "teardown_idle", "reconnect", "bind", "stop_app", "adopt", "kill_app", "reset",
                    "verify", "remove_namespace", "release_adoption", "set_dns", "set_limit", "restart_app",
                    "move_app", "batch"}
  BY DEF Specs

LEMMA SpecsAreSound == ASSUME NEW kind \in DOMAIN Specs PROVE Sound(Specs[kind])
<1>1. CASE kind \in {"status", "teardown_idle", "reconnect"}
  BY <1>1 DEF Specs, Sound
<1>2. CASE kind \in {"stop_app", "adopt"}
  BY <1>2 DEF Specs, Sound, Placed, Needs, Accepts
<1>3. CASE kind \in {"kill_app", "reset"}
  BY <1>3 DEF Specs, Sound, Needs, Or, Accepts, Clean
<1>4. CASE kind \in {"verify", "remove_namespace", "release_adoption", "set_dns", "batch"}
  BY <1>4 DEF Specs, Sound, Needs, Accepts
<1>5. CASE kind = "set_limit"
  BY <1>5 DEF Specs, Sound, Needs, Or, Accepts, Clean
<1>6. CASE kind = "bind"
  BY <1>6 DEF Specs, Sound, Needs, Or, Accepts, Clean
<1>7. CASE kind \in {"restart_app", "move_app"}
  BY <1>7 DEF Specs, Sound, Needs, Or, Accepts, Clean
<1> QED BY <1>1, <1>2, <1>3, <1>4, <1>5, <1>6, <1>7, KindsAreKinds

\* What a validator of an action's parameters lets through: every parameter, clean,
\* and so again.
LEMMA ValuesAreValues == ASSUME NEW type \in DOMAIN Accepts PROVE Accepts[type] \subseteq Value
  BY DEF Value

Refused(specs, params) ==
    \/ DOMAIN params \ DOMAIN specs # {}
    \/ \E name \in DOMAIN specs : name \notin DOMAIN params /\ specs[name].default = Required
    \/ \E name \in DOMAIN specs \cap DOMAIN params : params[name] \notin Accepts[specs[name].type]
Fill(specs, params) ==
    [name \in DOMAIN specs |-> IF name \in DOMAIN params THEN Clean(params[name]) ELSE specs[name].default]

LEMMA RefusedOrFilled ==
    ASSUME NEW specs, NEW params
    PROVE  ValidateSpec(specs, params) = IF Refused(specs, params) THEN Rejected ELSE Fill(specs, params)
  BY DEF ValidateSpec, Refused, Fill

LEMMA FilledIsClean ==
    ASSUME NEW specs, Sound(specs), NEW params, ~Refused(specs, params)
    PROVE  LET out == Fill(specs, params)
           IN  /\ out \in [DOMAIN specs -> Value]
               /\ ~Refused(specs, out) /\ Fill(specs, out) = out
<1> DEFINE out == Fill(specs, params)
<1>1. DOMAIN out = DOMAIN specs BY DEF Fill
<1>2. ASSUME NEW name \in DOMAIN specs
      PROVE  out[name] \in Accepts[specs[name].type] /\ Clean(out[name]) = out[name]
  <2>1. CASE name \in DOMAIN params
    <3>1. params[name] \in Accepts[specs[name].type] BY <2>1, <1>2 DEF Refused
    <3>2. out[name] = Clean(params[name]) BY <2>1, <1>2 DEF Fill
    <3> QED BY <3>1, <3>2, <1>2, CleanStays DEF Sound
  <2>2. CASE name \notin DOMAIN params
    <3>1. specs[name].default # Required BY <2>2, <1>2 DEF Refused
    <3>2. out[name] = specs[name].default BY <2>2, <1>2 DEF Fill
    <3> QED BY <3>1, <3>2, <1>2 DEF Sound
  <2> QED BY <2>1, <2>2
<1>3. out \in [DOMAIN specs -> Value]
  <2>1. \A name \in DOMAIN specs : out[name] \in Value BY <1>2, ValuesAreValues DEF Sound
  <2> QED BY <2>1 DEF Fill
<1>4. ~Refused(specs, out) BY <1>1, <1>2 DEF Refused
<1>5. Fill(specs, out) = out
  <2>1. Fill(specs, out) = [name \in DOMAIN specs |-> Clean(out[name])] BY <1>1 DEF Fill
  <2>2. out = [name \in DOMAIN specs |-> out[name]] BY DEF Fill
  <2> QED BY <2>1, <2>2, <1>2
<1> QED BY <1>3, <1>4, <1>5

\* So for the parameters of an action.
LEMMA SpecTwice ==
    ASSUME NEW kind \in DOMAIN Specs, NEW params, ValidateSpec(Specs[kind], params) # Rejected
    PROVE  LET out == ValidateSpec(Specs[kind], params)
           IN  out \in Filled(kind) /\ ValidateSpec(Specs[kind], out) = out
<1> DEFINE specs == Specs[kind]
<1>1. Sound(specs) BY SpecsAreSound
<1>2. ~Refused(specs, params) /\ ValidateSpec(specs, params) = Fill(specs, params) BY RefusedOrFilled
<1> DEFINE out == Fill(specs, params)
<1>3. out \in [DOMAIN specs -> Value] /\ ~Refused(specs, out) /\ Fill(specs, out) = out
  BY <1>1, <1>2, FilledIsClean
<1>4. ValidateSpec(specs, out) = out BY <1>3, RefusedOrFilled
<1> QED BY <1>2, <1>3, <1>4 DEF Filled

-----------------------------------------------------------------------------
(* The operations of a batch *)

LEMMA BatchKinds ==
    BatchOps = {"bind", "adopt", "set_limit"} /\ BatchOps \subseteq DOMAIN Specs /\ "batch" \notin BatchOps
  BY KindsAreKinds DEF BatchOps

LEMMA OpOf ==
    ASSUME NEW kind \in BatchOps, NEW params \in Filled(kind)
    PROVE  [op |-> kind, params |-> params] \in BatchOp
<1>1. [op |-> kind, params |-> params] \in [op : {kind}, params : Filled(kind)] OBVIOUS
<1>2. CASE kind = "bind" BY <1>1, <1>2 DEF BatchOp
<1>3. CASE kind = "adopt" BY <1>1, <1>3 DEF BatchOp
<1>4. CASE kind = "set_limit" BY <1>1, <1>4 DEF BatchOp
<1> QED BY <1>2, <1>3, <1>4, BatchKinds

Fit(ops) ==
    /\ Len(ops) \in 1..MaxBatchOps
    /\ \A i \in DOMAIN ops :
          ops[i].op \in BatchOps /\ ValidateSpec(Specs[ops[i].op], ops[i].params) # Rejected
Cleaned(ops) ==
    [i \in DOMAIN ops |-> [op |-> ops[i].op, params |-> ValidateSpec(Specs[ops[i].op], ops[i].params)]]

LEMMA FitOrNot ==
    ASSUME NEW ops PROVE ValidateOps(ops) = IF Fit(ops) THEN Cleaned(ops) ELSE Rejected
<1> DEFINE checked == [i \in DOMAIN ops |->
                          IF ops[i].op \in BatchOps THEN ValidateSpec(Specs[ops[i].op], ops[i].params) ELSE Rejected]
           out == [i \in DOMAIN ops |-> [op |-> ops[i].op, params |-> checked[i]]]
<1>1. ValidateOps(ops) =
        IF Len(ops) \notin 1..MaxBatchOps \/ \E i \in DOMAIN ops : checked[i] = Rejected THEN Rejected ELSE out
  BY DEF ValidateOps
<1>2. (Len(ops) \notin 1..MaxBatchOps \/ \E i \in DOMAIN ops : checked[i] = Rejected) <=> ~Fit(ops)
  BY DEF Fit
<1>3. ASSUME Fit(ops) PROVE out = Cleaned(ops)
  <2>1. \A i \in DOMAIN ops : checked[i] = ValidateSpec(Specs[ops[i].op], ops[i].params) BY <1>3 DEF Fit
  <2> QED BY <2>1 DEF Cleaned
<1> QED BY <1>1, <1>2, <1>3

LEMMA OpsTwice ==
    ASSUME NEW ops, Fit(ops), DOMAIN ops = 1..Len(ops)
    PROVE  LET out == Cleaned(ops)
           IN  /\ out \in Seq(BatchOp) /\ DOMAIN out = DOMAIN ops /\ Len(out) = Len(ops) /\ out # Rejected
               /\ Fit(out) /\ Cleaned(out) = out
<1> DEFINE out == Cleaned(ops)
<1>1. DOMAIN out = DOMAIN ops BY DEF Cleaned
<1>2. Len(ops) \in Nat BY SomeOpsFit DEF Fit
<1>3. ASSUME NEW i \in DOMAIN ops
      PROVE  /\ out[i] = [op |-> ops[i].op, params |-> ValidateSpec(Specs[ops[i].op], ops[i].params)]
             /\ out[i] \in BatchOp
             /\ out[i].op \in BatchOps
             /\ ValidateSpec(Specs[out[i].op], out[i].params) = out[i].params
             /\ out[i].params # Rejected
             /\ out[i] = [op |-> out[i].op, params |-> out[i].params]
  <2>1. ops[i].op \in BatchOps /\ ops[i].op \in DOMAIN Specs /\ ValidateSpec(Specs[ops[i].op], ops[i].params) # Rejected
    BY <1>3, BatchKinds DEF Fit
  <2>2. out[i] = [op |-> ops[i].op, params |-> ValidateSpec(Specs[ops[i].op], ops[i].params)]
    BY <1>3 DEF Cleaned
  <2>3. out[i].op = ops[i].op /\ out[i].params = ValidateSpec(Specs[ops[i].op], ops[i].params) BY <2>2
  <2>4. /\ ValidateSpec(Specs[ops[i].op], ops[i].params) \in Filled(ops[i].op)
        /\ ValidateSpec(Specs[out[i].op], out[i].params) = out[i].params
    BY <2>1, <2>3, SpecTwice
  <2> QED BY <2>1, <2>2, <2>3, <2>4, OpOf
<1>4. out \in Seq(BatchOp) /\ Len(out) = Len(ops)
  <2>1. out \in [1..Len(ops) -> BatchOp] BY <1>3 DEF Cleaned
  <2> QED BY <2>1, <1>2
<1>5. Fit(out) BY <1>1, <1>3, <1>4 DEF Fit
<1>6. Cleaned(out) = out
  <2>1. Cleaned(out) = [i \in DOMAIN ops |-> [op |-> out[i].op, params |-> out[i].params]]
    BY <1>1, <1>3 DEF Cleaned
  <2>2. out = [i \in DOMAIN ops |-> out[i]] BY DEF Cleaned
  <2> QED BY <2>1, <2>2, <1>3
<1>7. out # Rejected BY <1>4, NothingIsRejected
<1> QED BY <1>1, <1>4, <1>5, <1>6, <1>7

-----------------------------------------------------------------------------
(* A request *)

Whole(r) ==
    /\ r.current /\ r.action \in DOMAIN Specs
    /\ ValidateSpec(Specs[r.action], r.params) # Rejected
    /\ r.action = "batch" => Fit(r.ops)
Put(r) ==
    [r EXCEPT !.params = ValidateSpec(Specs[r.action], r.params),
              !.ops = IF r.action = "batch" THEN Cleaned(r.ops) ELSE @]

LEMMA WholeOrNot ==
    ASSUME NEW r, IsRequest(r) PROVE ValidateRequest(r) = IF Whole(r) THEN Put(r) ELSE Rejected
<1> DEFINE vparams == ValidateSpec(Specs[r.action], r.params)
           vops == ValidateOps(r.ops)
           out == [r EXCEPT !.params = vparams, !.ops = IF r.action = "batch" THEN vops ELSE @]
<1>1. ValidateRequest(r) =
        IF \/ ~r.current \/ r.action \notin DOMAIN Specs \/ vparams = Rejected
           \/ r.action = "batch" /\ vops = Rejected
        THEN Rejected ELSE out
  BY DEF ValidateRequest
<1>2. vops = IF Fit(r.ops) THEN Cleaned(r.ops) ELSE Rejected BY FitOrNot
<1>3. Fit(r.ops) => vops # Rejected BY <1>2, OpsTwice DEF IsRequest
<1>4. (\/ ~r.current \/ r.action \notin DOMAIN Specs \/ vparams = Rejected
       \/ r.action = "batch" /\ vops = Rejected) <=> ~Whole(r)
  BY <1>2, <1>3 DEF Whole
<1>5. ASSUME Whole(r) PROVE out = Put(r)
  <2>1. CASE r.action = "batch"
    <3>1. vops = Cleaned(r.ops) BY <2>1, <1>2, <1>5 DEF Whole
    <3> QED BY <3>1 DEF Put
  <2>2. CASE r.action # "batch" BY <2>2 DEF Put
  <2> QED BY <2>1, <2>2
<1> QED BY <1>1, <1>4, <1>5

LEMMA PutFields ==
    ASSUME NEW r, IsRequest(r), Whole(r)
    PROVE  LET out == Put(r)
           IN  /\ out = [current |-> r.current, action |-> r.action,
                         params |-> ValidateSpec(Specs[r.action], r.params), ops |-> out.ops]
               /\ out.ops = IF r.action = "batch" THEN Cleaned(r.ops) ELSE <<>>
<1> DEFINE out == Put(r)
<1>1. DOMAIN r = {"current", "action", "params", "ops"} BY DEF IsRequest
<1>2. out = [field \in DOMAIN r |-> out[field]] BY DEF Put
<1>3. out.current = r.current /\ out.action = r.action BY <1>1 DEF Put
<1>4. out.params = ValidateSpec(Specs[r.action], r.params) BY <1>1 DEF Put
<1>5. out.ops = IF r.action = "batch" THEN Cleaned(r.ops) ELSE r.ops BY <1>1 DEF Put
<1>6. out = [current |-> out.current, action |-> out.action, params |-> out.params, ops |-> out.ops]
  <2> HIDE DEF out
  <2> QED BY <1>1, <1>2
<1>7. r.action # "batch" => r.ops = <<>> BY DEF IsRequest
<1> QED BY <1>3, <1>4, <1>5, <1>6, <1>7

LEMMA RequestTwice ==
    ASSUME NEW r, IsRequest(r), Whole(r), r.current = TRUE
    PROVE  LET out == Put(r)
           IN  /\ out \in Taken(r.action) /\ out # Rejected
               /\ IsRequest(out) /\ ValidateRequest(out) = out
<1> DEFINE out == Put(r)
           clean == ValidateSpec(Specs[r.action], r.params)
<1>1. r.action \in DOMAIN Specs /\ clean # Rejected BY DEF Whole
<1>2. clean \in Filled(r.action) /\ ValidateSpec(Specs[r.action], clean) = clean BY <1>1, SpecTwice
<1>3. out = [current |-> TRUE, action |-> r.action, params |-> clean, ops |-> out.ops] BY PutFields
<1>4. out.ops = IF r.action = "batch" THEN Cleaned(r.ops) ELSE <<>> BY PutFields
<1>5. /\ out.ops \in Seq(BatchOp) /\ DOMAIN out.ops = 1..Len(out.ops)
      /\ r.action = "batch" => Fit(out.ops) /\ Cleaned(out.ops) = out.ops
  <2>1. CASE r.action = "batch"
    <3>1. Fit(r.ops) BY <2>1 DEF Whole
    <3>2. DOMAIN r.ops = 1..Len(r.ops) BY DEF IsRequest
    <3> QED BY <2>1, <3>1, <3>2, <1>4, OpsTwice
  <2>2. CASE r.action # "batch"
    <3>1. out.ops = <<>> BY <2>2, <1>4
    <3> QED BY <3>1, <2>2
  <2> QED BY <2>1, <2>2
<1>6. out \in Taken(r.action)
  <2> DEFINE list == out.ops
  <2>1. list \in Seq(BatchOp) BY <1>5
  <2> HIDE DEF out, clean, list
  <2>2. [current |-> TRUE, action |-> r.action, params |-> clean, ops |-> list] \in Taken(r.action)
    BY <1>2, <2>1 DEF Taken
  <2> QED BY <1>3, <2>2 DEF list
<1>7. out # Rejected BY <1>1, <1>6, NothingIsRejected
<1>8. IsRequest(out)
  <2>1. out.action = r.action /\ DOMAIN out = {"current", "action", "params", "ops"} BY <1>3
  <2>2. r.action # "batch" => out.ops = <<>> BY <1>4
  <2> QED BY <2>1, <2>2, <1>5 DEF IsRequest
<1>9. Whole(out) BY <1>1, <1>2, <1>3, <1>5 DEF Whole
<1>10. Put(out) = out
  <2>1. out.action = r.action /\ out.params = clean /\ out.current = TRUE BY <1>3
  <2>2. Put(out).ops = out.ops
    <3>1. Put(out).ops = IF r.action = "batch" THEN Cleaned(out.ops) ELSE <<>>
      BY <1>8, <1>9, <2>1, PutFields
    <3> QED BY <3>1, <1>4, <1>5
  <2>3. Put(out) = [current |-> out.current, action |-> out.action,
                    params |-> ValidateSpec(Specs[out.action], out.params), ops |-> Put(out).ops]
    BY <1>8, <1>9, PutFields
  <2> QED BY <2>1, <2>2, <2>3, <1>2, <1>3
<1>11. ValidateRequest(out) = out BY <1>8, <1>9, <1>10, WholeOrNot
<1> QED BY <1>6, <1>7, <1>8, <1>11

\* What is read of the parameters of an action is among them.
LEMMA ReadsAreParameters ==
    /\ \A kind \in DOMAIN Specs : Reads(kind) \subseteq DOMAIN Specs[kind]
    /\ \A kind \in BatchOps : BatchReads(kind) \subseteq DOMAIN Specs[kind]
<1>1. ASSUME NEW kind \in DOMAIN Specs PROVE Reads(kind) \subseteq DOMAIN Specs[kind]
  <2>1. CASE kind \in {"status", "teardown_idle", "reconnect"} BY <2>1 DEF Reads
  <2>2. CASE kind \in {"stop_app", "adopt"} BY <2>2 DEF Reads, Specs, Placed
  <2>3. CASE kind \in {"kill_app", "reset", "verify", "remove_namespace", "release_adoption"}
    BY <2>3 DEF Reads, Specs
  <2>4. CASE kind \in {"set_dns", "set_limit", "batch"} BY <2>4 DEF Reads, Specs
  <2>5. CASE kind \in {"bind", "restart_app", "move_app"} BY <2>5 DEF Reads, Specs
  <2> QED BY <2>1, <2>2, <2>3, <2>4, <2>5, KindsAreKinds
<1>2. ASSUME NEW kind \in BatchOps PROVE BatchReads(kind) \subseteq DOMAIN Specs[kind]
  BY <1>2 DEF BatchOps, BatchReads, Specs, Placed
<1> QED BY <1>1, <1>2

-----------------------------------------------------------------------------
(* What a client has sent was a request, and what was made of it is its check. *)
ChecksInv == IsRequest(given) /\ given.current \in BOOLEAN /\ taken = ValidateRequest(given)

LEMMA ChecksInit == ProtocolInit => ChecksInv
  BY OfferedAreRequests DEF ProtocolInit, ChecksInv, IsRequest

LEMMA ChecksAgain == ChecksInv /\ [ProtocolNext]_checks => ChecksInv'
<1> SUFFICES ASSUME ChecksInv, Again PROVE ChecksInv'
  BY DEF ChecksInv, ProtocolNext, checks
<1>1. PICK r : r = given OBVIOUS
<1>2. IsRequest(r) /\ Whole(r) /\ taken = Put(r) BY <1>1, WholeOrNot DEF ChecksInv, Again
<1>3. r.current = TRUE BY <1>1, <1>2 DEF ChecksInv, Whole
<1>4. taken \in Taken(r.action) /\ IsRequest(taken) BY <1>2, <1>3, RequestTwice
<1>5. taken.current = TRUE BY <1>4 DEF Taken
<1> QED BY <1>4, <1>5 DEF Again, ChecksInv

LEMMA ChecksHold == ChecksInv => RequestsChecked
<1> SUFFICES ASSUME ChecksInv PROVE RequestsChecked
  OBVIOUS
<1>1. PICK r : r = given OBVIOUS
<1>2. IsRequest(r) /\ r.current \in BOOLEAN /\ taken = IF Whole(r) THEN Put(r) ELSE Rejected
  BY <1>1, WholeOrNot DEF ChecksInv
<1>3. ASSUME taken # Rejected
      PROVE  /\ Whole(r) /\ r.current = TRUE /\ r.action \in DOMAIN Specs /\ taken = Put(r)
             /\ taken \in Taken(r.action) /\ ValidateRequest(taken) = taken
  <2>1. Whole(r) /\ taken = Put(r) BY <1>2, <1>3
  <2>2. r.current = TRUE /\ r.action \in DOMAIN Specs BY <2>1, <1>2 DEF Whole
  <2> QED BY <2>1, <2>2, <1>2, RequestTwice
<1>4. TakenIsWhole BY <1>3 DEF TakenIsWhole
<1>5. TakenIsClean BY <1>3 DEF TakenIsClean
<1>6. ReadsAreThere
  <2> SUFFICES ASSUME taken # Rejected
               PROVE  /\ Reads(taken.action) \subseteq DOMAIN taken.params
                      /\ \A i \in DOMAIN taken.ops : BatchReads(taken.ops[i].op) \subseteq DOMAIN taken.ops[i].params
    BY DEF ReadsAreThere
  <2>1. /\ taken.action = r.action /\ taken.params \in Filled(r.action) /\ taken.ops \in Seq(BatchOp)
        /\ r.action \in DOMAIN Specs
    BY <1>3 DEF Taken
  <2>2. DOMAIN taken.params = DOMAIN Specs[r.action] BY <2>1 DEF Filled
  <2>3. ASSUME NEW i \in DOMAIN taken.ops
        PROVE  BatchReads(taken.ops[i].op) \subseteq DOMAIN taken.ops[i].params
    <3>1. taken.ops[i] \in BatchOp BY <2>1, <2>3
    <3>2. taken.ops[i].op \in BatchOps /\ taken.ops[i].params \in Filled(taken.ops[i].op)
      BY <3>1, BatchKinds DEF BatchOp
    <3>3. DOMAIN taken.ops[i].params = DOMAIN Specs[taken.ops[i].op] BY <3>2 DEF Filled
    <3> QED BY <3>2, <3>3, ReadsAreParameters
  <2> QED BY <2>1, <2>2, <2>3, ReadsAreParameters
<1>7. SingleRules
  <2> SUFFICES ASSUME given.action = "batch" PROVE SingleRules
    BY DEF SingleRules
  <2> DEFINE whole == given.current /\ ValidateSpec(Specs.batch, given.params) # Rejected
             alone(i) == ValidateRequest([current |-> TRUE, action |-> given.ops[i].op,
                                          params |-> given.ops[i].params, ops |-> <<>>])
             fits == Len(given.ops) \in 1..MaxBatchOps /\ \A i \in DOMAIN given.ops : given.ops[i].op \in BatchOps
  <2>1. ASSUME NEW i \in DOMAIN given.ops, given.ops[i].op \in BatchOps
        PROVE  /\ alone(i) # Rejected <=> ValidateSpec(Specs[given.ops[i].op], given.ops[i].params) # Rejected
               /\ alone(i) # Rejected => alone(i).params = ValidateSpec(Specs[given.ops[i].op], given.ops[i].params)
    <3> DEFINE single == [current |-> TRUE, action |-> given.ops[i].op, params |-> given.ops[i].params, ops |-> <<>>]
    <3>1. /\ single.action = given.ops[i].op /\ single.params = given.ops[i].params
          /\ single.current = TRUE /\ single.ops = <<>>
      OBVIOUS
    <3>2. IsRequest(single) BY <3>1 DEF IsRequest
    <3>3. single.action \in DOMAIN Specs /\ single.action # "batch" BY <2>1, <3>1, BatchKinds
    <3>4. Whole(single) <=> ValidateSpec(Specs[given.ops[i].op], given.ops[i].params) # Rejected
      BY <3>1, <3>3 DEF Whole
    <3>5. Whole(single) => Put(single) # Rejected BY <3>1, <3>2, RequestTwice
    <3>6. Whole(single) => Put(single).params = ValidateSpec(Specs[given.ops[i].op], given.ops[i].params)
      BY <3>1, <3>2, PutFields
    <3>7. alone(i) = IF Whole(single) THEN Put(single) ELSE Rejected BY <3>2, WholeOrNot
    <3> QED BY <3>4, <3>5, <3>6, <3>7
  <2>2. taken # Rejected <=> Whole(r) BY <1>2, <1>3, RequestTwice DEF Whole
  <2>3. Whole(r) <=> whole /\ Fit(given.ops) BY <1>1, KindsAreKinds DEF Whole
  <2>4. Fit(given.ops) <=> fits /\ \A i \in DOMAIN given.ops : alone(i) # Rejected BY <2>1 DEF Fit
  <2>5. ASSUME taken # Rejected, NEW i \in DOMAIN taken.ops PROVE taken.ops[i].params = alone(i).params
    <3>1. taken.ops = Cleaned(given.ops) BY <1>1, <1>2, <1>3, <2>5, PutFields
    <3>2. DOMAIN taken.ops = DOMAIN given.ops BY <3>1 DEF Cleaned
    <3>3. taken.ops[i].params = ValidateSpec(Specs[given.ops[i].op], given.ops[i].params)
      BY <3>1, <3>2, <2>5 DEF Cleaned
    <3>4. Fit(given.ops) BY <2>2, <2>3, <2>5
    <3>5. given.ops[i].op \in BatchOps /\ alone(i) # Rejected BY <2>4, <3>2, <3>4, <2>5
    <3> QED BY <2>1, <2>5, <3>2, <3>3, <3>5
  <2> QED BY <2>2, <2>3, <2>4, <2>5 DEF SingleRules
<1> QED BY <1>4, <1>5, <1>6, <1>7 DEF RequestsChecked

\* What reaches the engine is what the rules allow, whatever is sent and however
\* often it is sent again (validate_request).
THEOREM RequestsAlwaysChecked == CallsSpec => []RequestsChecked
<1>1. CallsInit => ChecksInv BY ChecksInit DEF CallsInit
<1>2. ChecksInv /\ [CallsNext]_all => ChecksInv'
  BY ChecksAgain DEF CallsNext, all, checks
<1> QED BY <1>1, <1>2, ChecksHold, PTL DEF CallsSpec
=============================================================================
