----------------------- MODULE ModbusConnectionProofs -----------------------
(***************************************************************************)
(* Serialized and HonestAnswers for any set of calls, provided that no     *)
(* more of them are made on one connection than there are transaction      *)
(* identifiers (65536): beyond that a response that comes back after a     *)
(* full turn of the identifiers would be taken for another call's.         *)
(***************************************************************************)
EXTENDS ModbusConnection, QueuesProofs, FiniteSetTheorems

FewCalls == IsFiniteSet(Calls) /\ Cardinality(Calls) <= Transactions

\* Before the connection is ready nothing has been asked of it.
Unused ==
    phase \in {"connecting", "failed"} =>
        calls = {} /\ queue = <<>> /\ active = NoCall /\ senders = {}

\* A ready connection: the calls are the queued ones and the active one.
Sorted ==
    phase = "ready" =>
        /\ calls = Queued \cup ({active} \ {NoCall})
        /\ active \notin Queued /\ Distinct(queue)
        /\ mode = "loop" /\ active = NoCall => queue = <<>>
        /\ senders \subseteq {active}

\* Where a call is: not asked, in the mailbox, admitted, answered.
Ledger ==
    /\ phase = "dead" => calls = {} /\ reqs = {}
    /\ \A c \in Calls :
         /\ cpc[c] = "idle" => /\ c \notin reqs \cup admitted /\ replies[c] = 0
                               /\ inbox[c] = "none" /\ got[c] = "none"
         /\ replies[c] <= 1
         /\ c \in reqs => c \notin admitted /\ replies[c] = 0
         /\ c \in calls => c \in admitted /\ replies[c] = 0
         /\ c \in admitted => c \in calls \/ replies[c] = 1 \/ exitReason = "killed"
    /\ phase # "dead" <=> exitReason = "none"

\* Only a call that was activated is sent, once.
SentOnce ==
    /\ senders \cap transmitted = {} /\ senders \cup transmitted \subseteq admitted
    /\ \A c \in Calls :
         /\ tid[c] # -1 => c \in admitted
         /\ tid[c] # -1 /\ c \in calls => c = active
         /\ phase # "dead" /\ c \in senders \cup transmitted => tid[c] # -1
    /\ \A i \in 1..Len(rx) : rx[i].call \in transmitted

\* A write told to have had no effect is neither sent nor going to be.
Untold ==
    \A c \in Writes : "error" \in {got[c], inbox[c]} =>
        c \notin senders \cup transmitted \cup reqs \cup calls

\* Transaction identifiers are given out in turn, starting with FirstId.
Numbered == {c \in Calls : tid[c] # -1}

Distance(t) == IF t >= FirstId THEN t - FirstId ELSE t - FirstId + Transactions

Turn ==
    /\ \A c \in Numbered : Distance(tid[c]) < Cardinality(Numbered)
    /\ \A c, d \in Numbered : tid[c] = tid[d] => c = d
    /\ transaction = IF FirstId + Cardinality(Numbered) < Transactions
                     THEN FirstId + Cardinality(Numbered)
                     ELSE FirstId + Cardinality(Numbered) - Transactions

IInv == TypeOK /\ Unused /\ Sorted /\ Ledger /\ SentOnce /\ Untold /\ Turn /\ Attribution

-----------------------------------------------------------------------------
(* What answering and ending do *)

LEMMA ReplyEffect ==
  ASSUME TypeOK, NEW c \in Calls, NEW r \in Result, Reply(c, r)
  PROVE  /\ replies' \in [Calls -> Nat] /\ inbox' \in [Calls -> Result]
         /\ replies'[c] = replies[c] + 1 /\ inbox'[c] \in {inbox[c], r}
         /\ \A d \in Calls \ {c} : replies'[d] = replies[d] /\ inbox'[d] = inbox[d]
  <1>1. replies \in [Calls -> Nat] /\ inbox \in [Calls -> Result]
    BY DEF TypeOK
  <1>2. replies' = [replies EXCEPT ![c] = @ + 1]
    BY DEF Reply
  <1>3. inbox' = inbox \/ inbox' = [inbox EXCEPT ![c] = r]
    BY DEF Reply
  <1> QED BY <1>1, <1>2, <1>3

LEMMA FinishEffect ==
  ASSUME TypeOK, NEW c \in Calls, NEW r \in Result, Finish(c, r)
  PROVE  /\ Reply(c, r) /\ calls' = calls \ {c}
         /\ queue' \in Seq(Calls) /\ Elements(queue') = Queued \ {c}
         /\ Distinct(queue) => Distinct(queue')
  BY WithoutElements DEF TypeOK, Finish, Queued

\* A call in the state leaves it with an answer that is true of its effect.
LEMMA FinishKeeps ==
  ASSUME IInv, NEW c \in calls, NEW r \in Result, Finish(c, r),
         r = "error" /\ c \in Writes => c \notin senders \cup transmitted,
         active' = active \/ (active' = NoCall /\ c = active),
         phase # "dead", phase' # "dead",
         UNCHANGED <<reqs, cpc, admitted, got, senders, transmitted, exitReason, tid>>,
         \A i \in 1..Len(rx') : rx'[i].call \in transmitted
  PROVE  /\ Ledger' /\ SentOnce' /\ Untold'
         /\ calls' \subseteq Calls /\ queue' \in Seq(Calls)
         /\ replies' \in [Calls -> Nat] /\ inbox' \in [Calls -> Result]
  <1>1. TypeOK /\ c \in Calls /\ calls \subseteq Calls /\ Writes \subseteq Calls
    BY ConnectionAssumption DEF IInv, TypeOK
  <1>2. Reply(c, r) /\ calls' = calls \ {c} /\ queue' \in Seq(Calls)
    BY <1>1, FinishEffect
  <1>3. /\ replies' \in [Calls -> Nat] /\ inbox' \in [Calls -> Result]
        /\ replies'[c] = replies[c] + 1 /\ inbox'[c] \in {inbox[c], r}
        /\ \A d \in Calls \ {c} : replies'[d] = replies[d] /\ inbox'[d] = inbox[d]
    BY <1>1, <1>2, ReplyEffect
  <1>4. c \in admitted /\ replies[c] = 0 /\ c \notin reqs /\ exitReason = "none"
    BY <1>1 DEF IInv, Ledger
  <1>5. Ledger'
    <2>1. ASSUME NEW d \in Calls
          PROVE  /\ replies'[d] <= 1 /\ (d \in reqs => replies'[d] = 0)
                 /\ cpc[d] = "idle" => replies'[d] = 0 /\ inbox'[d] = "none"
                 /\ d \in calls' => replies'[d] = 0
                 /\ d \in admitted => d \in calls' \/ replies'[d] = 1
      BY <1>2, <1>3, <1>4 DEF IInv, Ledger
    <2> QED BY <1>2, <1>4, <2>1 DEF IInv, Ledger
  <1>6. SentOnce'
    BY <1>2 DEF IInv, SentOnce
  <1>7. Untold'
    <2> SUFFICES ASSUME NEW d \in Writes, "error" \in {got[d], inbox'[d]}
                 PROVE  d \notin senders \cup transmitted \cup reqs \cup calls'
      BY DEF Untold
    <2>1. CASE d = c
      BY <2>1, <1>2, <1>3, <1>4 DEF IInv, Untold
    <2>2. CASE d # c
      BY <2>2, <1>1, <1>2, <1>3 DEF IInv, Untold
    <2> QED BY <2>1, <2>2
  <1> QED BY <1>1, <1>2, <1>3, <1>5, <1>6, <1>7

LEMMA TurnStays ==
  ASSUME Turn, UNCHANGED <<tid, transaction>>
  PROVE  Turn'
  BY DEF Turn, Numbered, Distance

\* fail/2: the active call, if there is one, is told the truth.
LEMMA FailKeeps ==
  ASSUME IInv, Loop, Fail,
         UNCHANGED <<reqs, cpc, admitted, got, senders, transmitted, exitReason, tid,
                     transaction, active, answeredBy>>,
         \A i \in 1..Len(rx') : rx'[i].call \in transmitted
  PROVE  /\ Unused' /\ Sorted' /\ Ledger' /\ SentOnce' /\ Untold' /\ Turn' /\ Attribution'
         /\ phase' = "terminate"
         /\ calls' \subseteq Calls /\ queue' \in Seq(Calls)
         /\ replies' \in [Calls -> Nat] /\ inbox' \in [Calls -> Result]
  <1>1. phase' = "terminate" /\ phase = "ready"
    BY DEF Fail, Stop, Loop
  <1>2. Unused' /\ Sorted' /\ Turn' /\ Attribution'
    BY <1>1, TurnStays DEF Unused, Sorted, Attribution, IInv
  <1>3. CASE active = NoCall
    <2>1. UNCHANGED <<calls, queue, inbox, replies>>
      BY <1>3 DEF Fail, replyVars
    <2> QED BY <1>1, <1>2, <2>1 DEF IInv, Ledger, SentOnce, Untold, TypeOK
  <1>4. CASE active # NoCall
    <2>1. active \in calls /\ Finish(active, Effect(active))
      BY <1>1, <1>4 DEF IInv, Sorted, Fail
    <2>2. Effect(active) \in Result /\ (active \in Writes => Effect(active) # "error")
      BY DEF Effect, Result
    <2> QED BY <1>1, <1>2, <2>1, <2>2, FinishKeeps
  <1> QED BY <1>3, <1>4

-----------------------------------------------------------------------------
(* One lemma per action *)

LEMMA StartupKeeps == ASSUME IInv, Startup PROVE IInv'
  <1>0. TypeOK /\ Turn /\ Attribution
    BY DEF IInv
  <1> USE DEF IInv, workVars, senderVars, wireVars, callerVars, replyVars, Stop
  <1>1. /\ UNCHANGED <<exitReason, mode, workVars, senderVars, wireVars, callerVars,
                       replyVars, answeredBy>>
        /\ starter' \in {"calling", "ok", "error"} /\ readyCall' \in BOOLEAN
        /\ readyFrom' \in BOOLEAN
        /\ \/ UNCHANGED phase
           \/ phase = "connecting" /\ phase' \in {"ready", "failed", "terminate"}
           \/ phase = "failed" /\ phase' = "terminate"
    BY <1>0 DEF TypeOK, Startup, StartupOk, StartupError, HandleReady, FailedReady
  <1>2. TypeOK'
    BY <1>0, <1>1 DEF TypeOK
  <1>3. Turn' /\ Attribution'
    BY <1>0, <1>1, TurnStays DEF Attribution
  <1>4. Ledger' /\ SentOnce' /\ Untold' /\ Unused'
    BY <1>1 DEF Ledger, SentOnce, Untold, Unused
  <1>5. Sorted'
    BY <1>1 DEF Sorted, Unused, Queued, Elements, Distinct
  <1> QED BY <1>2, <1>3, <1>4, <1>5

\* Die, before callers are answered or not.
LEMMA DieKeeps ==
  ASSUME IInv, NEW why \in {"normal", "killed"}, Die(why),
         replies' \in [Calls -> Nat], inbox' \in [Calls -> Result],
         \A c \in Calls : /\ replies'[c] <= 1
                          /\ c \notin admitted => UNCHANGED <<replies[c], inbox[c]>>
                          /\ why = "normal" /\ c \in admitted => replies'[c] = 1,
         \A c \in Writes : inbox'[c] = "error" =>
             inbox[c] = "error" \/ c \notin senders \cup transmitted
  PROVE  IInv'
  <1>1. /\ calls' = {} /\ reqs' = {} /\ phase' = "dead" /\ exitReason' = why
        /\ tid' = [c \in Calls |-> -1] /\ transaction' = FirstId /\ rx' = <<>>
        /\ queue' = <<>> /\ active' = NoCall /\ worker' = NoCall /\ smsgs' = {}
        /\ mode' = "loop" /\ readyCall' = FALSE /\ readyFrom' = FALSE
        /\ starter' \in {starter, "error"}
        /\ UNCHANGED <<senders, killed, transmitted, frames, cpc, admitted, got, live,
                       expired, answeredBy>>
    BY DEF Die
  <1>2. TypeOK'
    <2>1. tid' \in [Calls -> -1..(Transactions - 1)] /\ transaction' \in 0..(Transactions - 1)
      BY <1>1, ConnectionAssumption
    <2>2. /\ rx' \in Seq([call : Calls, status : {"ok", "exception", "invalid"}])
          /\ queue' \in Seq(Calls) /\ calls' \subseteq Calls /\ reqs' \subseteq Calls
          /\ smsgs' \subseteq [call : Calls, kind : {"ok", "error", "exit"}]
          /\ active' \in Calls \cup {NoCall} /\ worker' \in Calls \cup {NoCall}
      BY <1>1
    <2>3. /\ starter' \in {"calling", "ok", "error"} /\ mode' \in {"loop", "next"}
          /\ readyCall' \in BOOLEAN /\ readyFrom' \in BOOLEAN
          /\ phase' \in {"connecting", "ready", "failed", "terminate", "closing", "dead"}
          /\ exitReason' \in {"none", "normal", "killed"}
      BY <1>1 DEF IInv, TypeOK
    <2> QED BY <1>1, <2>1, <2>2, <2>3 DEF IInv, TypeOK
  <1>3. Unused' /\ Sorted' /\ Attribution'
    BY <1>1 DEF IInv, Unused, Sorted, Attribution
  <1>4. Ledger'
    BY <1>1 DEF IInv, Ledger
  <1>5. SentOnce'
    BY <1>1 DEF IInv, SentOnce
  <1>6. Untold'
    BY <1>1 DEF IInv, Untold
  <1>7. Turn'
    <2>1. Numbered' = {}
      BY <1>1 DEF Numbered
    <2>2. Cardinality(Numbered') = 0
      BY <2>1, FS_EmptySet
    <2> QED BY <1>1, <2>1, <2>2, ConnectionAssumption DEF Turn
  <1> QED BY <1>2, <1>3, <1>4, <1>5, <1>6, <1>7 DEF IInv

LEMMA KillKeeps == ASSUME IInv, Kill PROVE IInv'
  <1>1. Die("killed") /\ UNCHANGED <<inbox, replies>>
    BY DEF Kill, replyVars
  <1> QED BY <1>1, DieKeeps DEF IInv, TypeOK, Ledger

\* terminate/2 answers what is left.  Only the active call can have been sent.
LEMMA TerminatedKeeps == ASSUME IInv, Terminated PROVE IInv'
  <1>1. TypeOK /\ Writes \subseteq Calls /\ phase = "closing" /\ exitReason = "none"
    BY ConnectionAssumption DEF IInv, Terminated, Ledger
  <1>2. \A c \in Calls : TerminateResult(c) \in Result
    BY DEF TerminateResult, Effect, Result
  <1>3. /\ Die("normal")
        /\ replies' = [c \in Calls |-> IF c \in calls THEN replies[c] + 1 ELSE replies[c]]
        /\ inbox' = [c \in Calls |-> IF c \in calls /\ cpc[c] = "called"
                                     THEN TerminateResult(c) ELSE inbox[c]]
    BY DEF Terminated
  <1>4. replies' \in [Calls -> Nat] /\ inbox' \in [Calls -> Result]
    BY <1>1, <1>2, <1>3 DEF TypeOK
  <1>5. ASSUME NEW c \in Calls
        PROVE  /\ replies'[c] <= 1 /\ (c \in admitted => replies'[c] = 1)
               /\ c \notin admitted => UNCHANGED <<replies[c], inbox[c]>>
    BY <1>1, <1>3 DEF IInv, Ledger, TypeOK
  <1>6. ASSUME NEW c \in Writes, inbox'[c] = "error"
        PROVE  inbox[c] = "error" \/ c \notin senders \cup transmitted
    <2>1. CASE c \in calls /\ cpc[c] = "called"
      <3>1. c # active
        BY <1>1, <1>3, <1>6, <2>1 DEF TerminateResult, Effect
      <3> QED BY <1>1, <2>1, <3>1 DEF IInv, SentOnce
    <2>2. CASE ~(c \in calls /\ cpc[c] = "called")
      BY <1>1, <1>3, <1>6, <2>2
    <2> QED BY <2>1, <2>2
  <1> QED BY <1>3, <1>4, <1>5, <1>6, DieKeeps

\* The server's state stays as it is when a caller acts, but for its mailbox.
LEMMA CallerKeeps == ASSUME IInv, NEW c \in Calls, CallerStep(c) PROVE IInv'
  <1>1. TypeOK /\ Writes \subseteq Calls
    BY ConnectionAssumption DEF IInv
  <1> USE DEF startVars, workVars, senderVars, wireVars, replyVars
  <1>2. CASE Request(c)
    <2>1. /\ cpc[c] = "idle" /\ c \notin reqs \cup admitted
          /\ c \notin senders \cup transmitted \cup calls
      BY <1>2 DEF Request, IInv, Ledger, SentOnce
    <2>2. /\ \/ phase = "dead" /\ Finished(c, "error") /\ UNCHANGED reqs
             \/ /\ phase # "dead" /\ cpc' = [cpc EXCEPT ![c] = "called"]
                /\ reqs' = reqs \cup {c} /\ UNCHANGED got
          /\ UNCHANGED <<startVars, phase, exitReason, mode, workVars, senderVars, wireVars,
                         admitted, live, expired, replyVars, answeredBy>>
      BY <1>2 DEF Request
    <2>3. TypeOK'
      BY <1>1, <2>2 DEF TypeOK, Finished, Result
    <2>4. Unused' /\ Sorted' /\ SentOnce' /\ Attribution' /\ Turn'
      BY <2>2, TurnStays DEF IInv, Unused, Sorted, SentOnce, Attribution, Queued
    <2>5. replies[c] = 0 /\ inbox[c] = "none" /\ got[c] = "none"
      BY <2>1 DEF IInv, Ledger
    <2>6. Ledger'
      BY <1>1, <2>1, <2>2, <2>5 DEF IInv, Ledger, Finished, TypeOK
    <2>7. Untold'
      <3> SUFFICES ASSUME NEW d \in Writes, "error" \in {got'[d], inbox[d]}
                   PROVE  d \notin senders \cup transmitted \cup reqs' \cup calls
        BY <2>2 DEF Untold
      <3>1. CASE d = c
        BY <3>1, <1>1, <2>1, <2>2, <2>5 DEF Finished, TypeOK
      <3>2. CASE d # c
        BY <3>2, <1>1, <2>2 DEF IInv, Untold, Finished, TypeOK
      <3> QED BY <3>1, <3>2
    <2> QED BY <2>3, <2>4, <2>6, <2>7 DEF IInv
  <1>3. CASE Return(c)
    <2>1. /\ cpc' = [cpc EXCEPT ![c] = "done"]
          /\ \E r \in Result : /\ got' = [got EXCEPT ![c] = r]
                               /\ \/ r = inbox[c]
                                  \/ r = ExitResult(c) /\ phase = "dead"
                                  \/ r = Effect(c)
          /\ UNCHANGED <<startVars, phase, exitReason, mode, workVars, senderVars, wireVars,
                         reqs, admitted, live, expired, replyVars, answeredBy>>
      BY <1>1, <1>3 DEF Return, Finished, ExitResult, Effect, Result, TypeOK
    <2>2. PICK r \in Result : /\ got' = [got EXCEPT ![c] = r]
                              /\ \/ r = inbox[c]
                                 \/ r = ExitResult(c) /\ phase = "dead"
                                 \/ r = Effect(c)
      BY <2>1
    <2>3. TypeOK'
      BY <1>1, <2>1, <2>2 DEF TypeOK
    <2>4. Unused' /\ Sorted' /\ SentOnce' /\ Attribution' /\ Turn'
      BY <2>1, TurnStays DEF IInv, Unused, Sorted, SentOnce, Attribution, Queued
    <2>5. cpc[c] = "called"
      BY <1>3 DEF Return
    <2>6. Ledger'
      BY <1>1, <2>1, <2>2, <2>5 DEF IInv, Ledger, TypeOK
    <2>7. ASSUME c \in Writes, r = "error"
          PROVE  c \notin senders \cup transmitted \cup reqs \cup calls
      <3>1. CASE inbox[c] = "error"
        BY <3>1, <2>7 DEF IInv, Untold
      <3>2. CASE inbox[c] # "error"
        <4>1. r = ExitResult(c) /\ phase = "dead" /\ c \notin admitted
          BY <3>2, <2>2, <2>7 DEF Effect, ExitResult
        <4> QED BY <4>1 DEF IInv, Ledger, SentOnce
      <3> QED BY <3>1, <3>2
    <2>8. Untold'
      <3> SUFFICES ASSUME NEW d \in Writes, "error" \in {got'[d], inbox[d]}
                   PROVE  d \notin senders \cup transmitted \cup reqs \cup calls
        BY <2>1 DEF Untold
      <3>1. CASE d = c
        BY <3>1, <1>1, <2>2, <2>7 DEF TypeOK, IInv, Untold
      <3>2. CASE d # c
        BY <3>2, <1>1, <2>2 DEF IInv, Untold, TypeOK
      <3> QED BY <3>1, <3>2
    <2> QED BY <2>3, <2>4, <2>6, <2>8 DEF IInv
  <1>4. CASE Expire(c) \/ CallerDies(c)
    <2>1. /\ UNCHANGED <<startVars, phase, exitReason, mode, workVars, senderVars, wireVars,
                         cpc, reqs, admitted, got, replyVars, answeredBy>>
          /\ live' \subseteq Calls /\ expired' \subseteq Calls
      BY <1>1, <1>4 DEF Expire, CallerDies, TypeOK
    <2>2. TypeOK'
      BY <1>1, <2>1 DEF TypeOK
    <2>3. Unused' /\ Sorted' /\ SentOnce' /\ Attribution' /\ Turn' /\ Ledger' /\ Untold'
      BY <2>1, TurnStays
      DEF IInv, Unused, Sorted, SentOnce, Attribution, Queued, Ledger, Untold
    <2> QED BY <2>2, <2>3 DEF IInv
  <1> QED BY <1>2, <1>3, <1>4 DEF CallerStep

LEMMA WireKeeps == ASSUME IInv, Wire PROVE IInv'
  <1>1. TypeOK /\ Turn /\ Attribution
    BY DEF IInv
  <1> USE DEF startVars, workVars, callerVars, replyVars
  <1>2. ASSUME NEW c \in Calls, NEW kind \in {"ok", "error", "exit"}, SenderEnds(c, kind)
        PROVE  IInv'
    <2>1. /\ c \in senders /\ senders' = senders \ {c} /\ killed' = killed
          /\ transmitted' \in {transmitted, transmitted \cup {c}}
          /\ smsgs' \subseteq smsgs \cup {[call |-> c, kind |-> kind]}
          /\ UNCHANGED <<startVars, phase, exitReason, mode, workVars, rx, frames,
                         callerVars, replyVars, answeredBy>>
      BY <1>2 DEF SenderEnds
    <2>2. TypeOK'
      BY <1>1, <2>1 DEF TypeOK
    <2>3. Unused' /\ Sorted' /\ Ledger' /\ Turn' /\ Attribution'
      BY <1>1, <2>1, TurnStays DEF IInv, Unused, Sorted, Ledger, Attribution, Queued
    <2>4. SentOnce'
      BY <2>1 DEF IInv, SentOnce
    <2>5. Untold'
      BY <2>1 DEF IInv, Untold
    <2> QED BY <2>2, <2>3, <2>4, <2>5 DEF IInv
  <1>3. ASSUME NEW c \in Calls, SenderKilled(c) PROVE IInv'
    <2>1. /\ senders' = senders \ {c}
          /\ UNCHANGED <<startVars, phase, exitReason, mode, workVars, killed, smsgs,
                         wireVars, callerVars, replyVars, answeredBy>>
      BY <1>3 DEF SenderKilled
    <2>2. TypeOK'
      BY <1>1, <2>1 DEF TypeOK, wireVars
    <2>3. Unused' /\ Sorted' /\ Ledger' /\ Turn' /\ Attribution'
      BY <1>1, <2>1, TurnStays DEF IInv, Unused, Sorted, Ledger, Attribution, Queued
    <2>4. SentOnce' /\ Untold'
      BY <2>1 DEF IInv, SentOnce, Untold, wireVars
    <2> QED BY <2>2, <2>3, <2>4 DEF IInv
  <1>4. ASSUME NEW c \in Calls, NEW status \in {"ok", "exception", "invalid"},
               PeerSends(c, status)
        PROVE  IInv'
    <2>1. /\ c \in transmitted /\ rx' = Append(rx, [call |-> c, status |-> status])
          /\ frames' = frames + 1
          /\ UNCHANGED <<startVars, phase, exitReason, mode, workVars, senderVars,
                         transmitted, callerVars, replyVars, answeredBy>>
      BY <1>4 DEF PeerSends
    <2>2. TypeOK'
      BY <1>1, <2>1 DEF TypeOK, senderVars
    <2>3. Unused' /\ Sorted' /\ Ledger' /\ Turn' /\ Attribution' /\ Untold'
      BY <1>1, <2>1, TurnStays
      DEF IInv, Unused, Sorted, Ledger, Attribution, Queued, Untold, senderVars
    <2>4. \A i \in 1..Len(rx') : rx'[i].call \in transmitted
      <3>1. rx \in Seq([call : Calls, status : {"ok", "exception", "invalid"}])
        BY <1>1 DEF TypeOK
      <3>2. \A i \in 1..Len(rx) : rx[i].call \in transmitted
        BY DEF IInv, SentOnce
      <3>3. /\ Len(rx) \in Nat /\ Len(rx') = Len(rx) + 1
            /\ \A i \in 1..Len(rx) : rx'[i] = rx[i]
            /\ rx'[Len(rx) + 1] = [call |-> c, status |-> status]
        BY <2>1, <3>1
      <3> QED BY <2>1, <3>2, <3>3
    <2>5. SentOnce'
      BY <2>1, <2>4 DEF IInv, SentOnce, senderVars
    <2> QED BY <2>2, <2>3, <2>5 DEF IInv
  <1> QED BY <1>2, <1>3, <1>4 DEF Wire

LEMMA RequestKeeps == ASSUME IInv, NEW c \in Calls, HandleRequest(c) PROVE IInv'
  <1>1. TypeOK /\ Turn /\ Attribution /\ Writes \subseteq Calls
    BY ConnectionAssumption DEF IInv
  <1> USE DEF startVars, senderVars, wireVars
  <1>2. /\ phase = "ready" /\ mode = "loop" /\ c \in reqs /\ reqs' = reqs \ {c}
        /\ UNCHANGED <<startVars, phase, exitReason, active, transaction, tid, worker,
                       senderVars, wireVars, cpc, got, live, expired, answeredBy>>
    BY DEF HandleRequest, Loop
  <1>3. /\ c \notin admitted /\ c \notin calls /\ replies[c] = 0 /\ cpc[c] # "idle"
        /\ c \notin senders \cup transmitted /\ tid[c] = -1 /\ c # active
    BY <1>2, ConnectionAssumption DEF IInv, Ledger, SentOnce, Sorted
  <1>4. Turn' /\ Attribution' /\ Unused'
    BY <1>1, <1>2, TurnStays DEF Attribution, Unused
  <1>5. CASE Reply(c, "error") /\ UNCHANGED <<mode, calls, queue, admitted>>
    <2>1. /\ replies' \in [Calls -> Nat] /\ inbox' \in [Calls -> Result]
          /\ replies'[c] = replies[c] + 1 /\ inbox'[c] \in {inbox[c], "error"}
          /\ \A d \in Calls \ {c} : replies'[d] = replies[d] /\ inbox'[d] = inbox[d]
      BY <1>1, <1>5, ReplyEffect DEF Result
    <2>2. TypeOK'
      BY <1>1, <1>2, <1>5, <2>1 DEF TypeOK
    <2>3. Sorted' /\ SentOnce'
      BY <1>2, <1>5 DEF IInv, Sorted, SentOnce, Queued
    <2>4. Ledger'
      BY <1>2, <1>3, <1>5, <2>1 DEF IInv, Ledger
    <2>5. Untold'
      BY <1>1, <1>2, <1>3, <1>5, <2>1 DEF IInv, Untold
    <2> QED BY <1>4, <2>2, <2>3, <2>4, <2>5 DEF IInv
  <1>6. CASE /\ calls' = calls \cup {c} /\ queue' = Append(queue, c)
             /\ admitted' = admitted \cup {c} /\ mode' = "next" /\ UNCHANGED replyVars
    <2>1. UNCHANGED <<inbox, replies>>
      BY <1>6 DEF replyVars
    <2>2. queue' \in Seq(Calls) /\ Elements(queue') = Queued \cup {c}
          /\ (Distinct(queue) /\ c \notin Queued => Distinct(queue'))
      BY <1>1, <1>6, AppendElements DEF TypeOK, Queued
    <2>3. TypeOK'
      BY <1>1, <1>2, <1>6, <2>1, <2>2 DEF TypeOK
    <2>4. Sorted'
      BY <1>2, <1>3, <1>6, <2>2 DEF IInv, Sorted, Queued
    <2>5. Ledger' /\ SentOnce'
      BY <1>2, <1>3, <1>6, <2>1 DEF IInv, Ledger, SentOnce
    <2>6. Untold'
      BY <1>1, <1>2, <1>3, <1>6, <2>1 DEF IInv, Untold
    <2> QED BY <1>4, <2>3, <2>4, <2>5, <2>6 DEF IInv
  <1> QED BY <1>5, <1>6 DEF HandleRequest

LEMMA NextNumber ==
  ASSUME NEW t \in 0..(Transactions - 1)
  PROVE  NextTransaction(t) = IF t + 1 < Transactions THEN t + 1 ELSE 0
  <1>1. Transactions \in Nat \ {0} /\ t \in Nat /\ t + 1 <= Transactions
    BY ConnectionAssumption
  <1>2. CASE t + 1 < Transactions
    BY <1>1, <1>2 DEF NextTransaction
  <1>3. CASE t + 1 = Transactions
    BY <1>1, <1>3 DEF NextTransaction
  <1> QED BY <1>1, <1>2, <1>3

\* The next identifier has not been used as long as there are enough.
LEMMA ActivateTurn ==
  ASSUME FewCalls, TypeOK, Turn, NEW c \in Calls, tid[c] = -1,
         tid' = [tid EXCEPT ![c] = transaction],
         transaction' = NextTransaction(transaction)
  PROVE  Turn'
  <1> DEFINE k == Cardinality(Numbered)
  <1>1. /\ transaction \in 0..(Transactions - 1) /\ tid \in [Calls -> -1..(Transactions - 1)]
        /\ Transactions \in Nat \ {0} /\ FirstId \in 0..(Transactions - 1)
    BY ConnectionAssumption DEF TypeOK
  <1>2. Numbered' = Numbered \cup {c} /\ c \notin Numbered
    BY <1>1 DEF Numbered
  <1>3. IsFiniteSet(Numbered) /\ Numbered \cup {c} \subseteq Calls
    BY FS_Subset DEF FewCalls, Numbered
  <1>4. k \in Nat /\ Cardinality(Numbered') = k + 1
    BY <1>2, <1>3, FS_AddElement, FS_CardinalityType
  <1>5. k + 1 <= Transactions
    <2>1. Cardinality(Numbered') <= Cardinality(Calls) /\ Cardinality(Calls) \in Nat
      BY <1>2, <1>3, FS_Subset, FS_CardinalityType DEF FewCalls
    <2> QED BY <1>1, <1>4, <2>1 DEF FewCalls
  <1> HIDE DEF k
  <1>6. transaction = IF FirstId + k < Transactions THEN FirstId + k
                      ELSE FirstId + k - Transactions
    BY DEF Turn, k
  <1>7. Distance(transaction) = k
    BY <1>1, <1>4, <1>5, <1>6 DEF Distance
  <1>8. \A d \in Numbered : /\ tid'[d] = tid[d] /\ tid[d] \in 0..(Transactions - 1)
                            /\ Distance(tid[d]) \in Int /\ Distance(tid[d]) < k
    BY <1>1, <1>2 DEF Numbered, Turn, Distance, k
  <1>9. tid'[c] = transaction
    BY <1>1
  <1>10. \A d \in Numbered' : Distance(tid'[d]) < k + 1
    BY <1>2, <1>4, <1>7, <1>8, <1>9
  <1>11. \A d, e \in Numbered' : tid'[d] = tid'[e] => d = e
    <2>1. \A d \in Numbered : tid'[d] # tid'[c]
      BY <1>4, <1>7, <1>8, <1>9
    <2>2. \A d, e \in Numbered : tid'[d] = tid'[e] => d = e
      BY <1>8 DEF Turn
    <2> QED BY <1>2, <2>1, <2>2
  <1>12. transaction' = IF FirstId + (k + 1) < Transactions THEN FirstId + (k + 1)
                        ELSE FirstId + (k + 1) - Transactions
    BY <1>1, <1>4, <1>5, <1>6, NextNumber
  <1>13. \A d \in Numbered' : Distance(tid'[d]) < Cardinality(Numbered')
    BY <1>4, <1>10
  <1>14. transaction' = IF FirstId + Cardinality(Numbered') < Transactions
                        THEN FirstId + Cardinality(Numbered')
                        ELSE FirstId + Cardinality(Numbered') - Transactions
    BY <1>4, <1>12
  <1> QED BY <1>11, <1>13, <1>14 DEF Turn, Distance

LEMMA NextCallKeeps == ASSUME FewCalls, IInv, NextCall PROVE IInv'
  <1>1. TypeOK /\ Turn /\ Attribution /\ Sorted /\ NoCall \notin Calls
    BY ConnectionAssumption DEF IInv
  <1>2. /\ phase = "ready" /\ mode = "next"
        /\ UNCHANGED <<startVars, phase, exitReason, killed, smsgs, wireVars, callerVars,
                       answeredBy>>
    BY DEF NextCall
  <1> USE DEF startVars, wireVars, callerVars
  <1>3. Unused' /\ Attribution'
    BY <1>1, <1>2 DEF Unused, Attribution
  <1>4. CASE ~MayActivate /\ mode' = "loop" /\ UNCHANGED <<workVars, senders, replyVars>>
    <2>1. UNCHANGED <<calls, queue, active, transaction, tid, worker, inbox, replies>>
      BY <1>4 DEF workVars, replyVars
    <2>2. TypeOK'
      BY <1>1, <1>2, <1>4, <2>1 DEF TypeOK
    <2>3. Sorted'
      BY <1>1, <1>2, <1>4, <2>1 DEF Sorted, MayActivate, Queued
    <2>4. Ledger' /\ SentOnce' /\ Untold' /\ Turn'
      BY <1>1, <1>2, <1>4, <2>1, TurnStays DEF IInv, Ledger, SentOnce, Untold
    <2> QED BY <1>3, <2>2, <2>3, <2>4 DEF IInv
  <1>5. ASSUME MayActivate, Skip(Head(queue)) \/ Activate(Head(queue)) PROVE IInv'
    <2> DEFINE c == Head(queue)
    <2>1. queue # <<>> /\ active = NoCall /\ queue \in Seq(Calls) /\ Distinct(queue)
          /\ calls = Queued
      BY <1>1, <1>2, <1>5 DEF MayActivate, TypeOK, Sorted
    <2>2. /\ c \in Calls /\ c \in calls /\ Tail(queue) \in Seq(Calls)
          /\ Distinct(Tail(queue)) /\ Elements(Tail(queue)) = Queued \ {c}
      BY <2>1, TailElements DEF Queued
    <2>3. /\ tid[c] = -1 /\ c \notin senders \cup transmitted /\ senders = {}
          /\ c \in admitted
      BY <1>1, <1>2, <2>1, <2>2 DEF IInv, SentOnce, Sorted, Ledger, TypeOK
    <2> HIDE DEF c
    <2>4. CASE Skip(c)
      <3>1. /\ Finish(c, "error")
            /\ UNCHANGED <<mode, active, transaction, tid, worker, senders>>
        BY <2>4 DEF Skip
      <3>2. /\ Ledger' /\ SentOnce' /\ Untold' /\ calls' \subseteq Calls
            /\ queue' \in Seq(Calls)
            /\ replies' \in [Calls -> Nat] /\ inbox' \in [Calls -> Result]
        <4>1. \A i \in 1..Len(rx') : rx'[i].call \in transmitted
          BY <1>2 DEF IInv, SentOnce
        <4> QED BY <1>2, <2>2, <2>3, <3>1, <4>1, FinishKeeps DEF Result
      <3>3. TypeOK'
        BY <1>1, <1>2, <3>1, <3>2 DEF TypeOK
      <3>4. Sorted'
        <4>1. calls' = calls \ {c} /\ Elements(queue') = Queued \ {c} /\ Distinct(queue')
          BY <1>1, <2>1, <2>2, <3>1, FinishEffect DEF Result
        <4> QED BY <1>2, <2>1, <2>3, <3>1, <4>1, <1>1 DEF Sorted, Queued, TypeOK
      <3> QED BY <1>1, <1>3, <3>1, <3>2, <3>3, <3>4, TurnStays DEF IInv
    <2>5. CASE Activate(c)
      <3>1. /\ active' = c /\ queue' = Tail(queue) /\ worker' = c
            /\ tid' = [tid EXCEPT ![c] = transaction]
            /\ transaction' = NextTransaction(transaction)
            /\ senders' = senders \cup {c} /\ mode' = "loop"
            /\ UNCHANGED <<calls, inbox, replies>>
        BY <2>5 DEF Activate, replyVars
      <3>2. transaction' \in 0..(Transactions - 1)
        <4>1. transaction \in 0..(Transactions - 1) /\ Transactions \in Nat \ {0}
          BY <1>1, ConnectionAssumption DEF TypeOK
        <4>2. transaction' = IF transaction + 1 < Transactions THEN transaction + 1 ELSE 0
          BY <3>1, <4>1, NextNumber
        <4> QED BY <4>1, <4>2
      <3>3. /\ tid' \in [Calls -> -1..(Transactions - 1)] /\ tid'[c] # -1
            /\ \A d \in Calls \ {c} : tid'[d] = tid[d]
        BY <1>1, <2>2, <3>1 DEF TypeOK
      <3>4. TypeOK'
        BY <1>1, <1>2, <2>2, <3>1, <3>2, <3>3 DEF TypeOK
      <3>5. Sorted'
        BY <1>1, <1>2, <2>1, <2>2, <2>3, <3>1 DEF Sorted, Queued
      <3>6. Ledger'
        BY <1>2, <3>1 DEF IInv, Ledger
      <3>7. SentOnce'
        BY <1>2, <2>1, <2>2, <2>3, <3>1, <3>3, <1>1 DEF IInv, SentOnce
      <3>8. Untold'
        BY <1>2, <2>2, <3>1 DEF IInv, Untold
      <3>9. Turn'
        BY <1>1, <2>2, <2>3, <3>1, ActivateTurn
      <3> QED BY <1>3, <3>4, <3>5, <3>6, <3>7, <3>8, <3>9 DEF IInv
    <2> QED BY <1>5, <2>4, <2>5 DEF c
  <1> QED BY <1>4, <1>5 DEF NextCall

\* {:sent, ...} and the EXIT of a worker: the call goes on, or fails.
LEMMA SentKeeps == ASSUME IInv, NEW m \in smsgs, HandleSent(m) PROVE IInv'
  <1>1. TypeOK /\ Loop /\ smsgs' = smsgs \ {m}
    BY DEF IInv, HandleSent
  <1>2. UNCHANGED <<startVars, exitReason, mode, active, transaction, tid, senders, killed,
                    wireVars, callerVars, answeredBy>>
    BY DEF HandleSent
  <1> USE DEF startVars, wireVars, callerVars
  <1>3. worker' \in Calls \cup {NoCall}
    BY <1>1 DEF HandleSent, TypeOK
  <1>4. CASE UNCHANGED <<phase, calls, queue, replyVars>>
    <2>1. UNCHANGED <<inbox, replies>>
      BY <1>4 DEF replyVars
    <2>2. TypeOK'
      BY <1>1, <1>2, <1>3, <1>4, <2>1 DEF TypeOK
    <2>3. Unused' /\ Sorted' /\ Ledger' /\ SentOnce' /\ Untold' /\ Turn' /\ Attribution'
      BY <1>2, <1>4, <2>1, TurnStays
      DEF IInv, Unused, Sorted, Ledger, SentOnce, Untold, Attribution, Queued
    <2> QED BY <2>2, <2>3 DEF IInv
  <1>5. CASE Fail
    <2>1. \A i \in 1..Len(rx') : rx'[i].call \in transmitted
      BY <1>2 DEF IInv, SentOnce
    <2>2. /\ Unused' /\ Sorted' /\ Ledger' /\ SentOnce' /\ Untold' /\ Turn' /\ Attribution'
          /\ phase' = "terminate"
          /\ calls' \subseteq Calls /\ queue' \in Seq(Calls)
          /\ replies' \in [Calls -> Nat] /\ inbox' \in [Calls -> Result]
      BY <1>1, <1>2, <1>5, <2>1, FailKeeps
    <2>3. TypeOK'
      BY <1>1, <1>2, <1>3, <2>2 DEF TypeOK
    <2> QED BY <2>2, <2>3 DEF IInv
  <1> QED BY <1>4, <1>5 DEF HandleSent

\* complete/2: as identifiers differ, the response is the active call's own,
\* whose worker has ended, so that nobody is left to write.
LEMMA CompleteKeeps ==
  ASSUME IInv, Loop, rx # <<>>, Accepted(Head(rx)), Complete(Head(rx)), rx' = Tail(rx),
         UNCHANGED <<startVars, exitReason, transaction, tid, senders, smsgs, transmitted,
                     frames, callerVars>>
  PROVE  IInv'
  <1> DEFINE f == Head(rx)
             Frames == [call : Calls, status : {"ok", "exception", "invalid"}]
  <1>1. TypeOK /\ Turn /\ Attribution /\ Sorted /\ phase = "ready" /\ mode = "loop"
    BY DEF IInv, Loop
  <1>2. /\ f \in Frames /\ f.call \in Calls /\ f.call \in transmitted /\ rx' \in Seq(Frames)
        /\ \A i \in 1..Len(rx') : rx'[i].call \in transmitted
    <2>1. rx \in Seq(Frames) /\ \A i \in 1..Len(rx) : rx[i].call \in transmitted
      BY <1>1 DEF IInv, TypeOK, SentOnce
    <2>2. /\ Len(rx) \in Nat \ {0} /\ f = rx[1] /\ rx' \in Seq(Frames)
          /\ Len(rx') = Len(rx) - 1
          /\ \A i \in 1..Len(rx') : rx'[i] = rx[i + 1] /\ i + 1 \in 1..Len(rx)
      BY <2>1
    <2>3. 1 \in 1..Len(rx)
      BY <2>2
    <2>4. rx[1] \in Frames
      <3> HIDE DEF Frames
      <3> QED BY <2>1, <2>3
    <2> QED BY <2>1, <2>2, <2>3, <2>4
  <1>3. active \in Calls /\ active \in calls /\ active # NoCall
    BY <1>1 DEF Accepted, Sorted, TypeOK
  <1>4. f.call = active
    <2>1. tid[f.call] # -1
      BY <1>1, <1>2 DEF IInv, SentOnce
    <2>2. f.call \in Numbered /\ active \in Numbered /\ tid[f.call] = tid[active]
      BY <1>2, <1>3, <2>1 DEF Numbered, Accepted, Correlated
    <2> QED BY <1>1, <2>2 DEF Turn
  <1> HIDE DEF f
  <1>5. senders = {}
    <2>1. senders \subseteq {active} /\ active \notin senders
      BY <1>1, <1>2, <1>4 DEF IInv, Sorted, SentOnce
    <2> QED BY <2>1
  <1>6. PICK r \in Result : Finish(active, r) /\ (active \in Writes => r # "error")
    <2>1. \A c : Effect(c) \in Result /\ "ok" \in Result /\ (c \in Writes => Effect(c) # "error")
      BY DEF Effect, Result
    <2> QED BY <2>1 DEF Complete, f
  <1>7. /\ answeredBy' = [answeredBy EXCEPT ![active] = f.call]
        /\ active' = NoCall /\ worker' = NoCall
        /\ killed' = IF worker = NoCall THEN killed ELSE killed \cup {worker}
        /\ (mode' = "next" /\ phase' = phase) \/ (phase' = "terminate" /\ mode' = mode)
    BY DEF Complete, Stop, f
  <1> USE DEF startVars, callerVars
  <1>8. /\ Ledger' /\ SentOnce' /\ Untold' /\ calls' \subseteq Calls
        /\ queue' \in Seq(Calls)
        /\ replies' \in [Calls -> Nat] /\ inbox' \in [Calls -> Result]
    BY <1>1, <1>2, <1>3, <1>6, <1>7, FinishKeeps
  <1>9. killed' \subseteq Calls
    BY <1>1, <1>7 DEF TypeOK
  <1>10. TypeOK'
    BY <1>1, <1>2, <1>3, <1>4, <1>7, <1>8, <1>9 DEF TypeOK
  <1>11. Attribution' /\ Unused' /\ Turn'
    <2>1. answeredBy' \in [Calls -> Calls \cup {NoCall}] /\ answeredBy'[active] = active
          /\ \A c \in Calls \ {active} : answeredBy'[c] = answeredBy[c]
      BY <1>1, <1>3, <1>4, <1>7 DEF TypeOK
    <2> QED BY <1>1, <1>7, <2>1, TurnStays DEF Attribution, Unused
  <1>12. Sorted'
    <2>1. calls' = calls \ {active} /\ Elements(queue') = Queued \ {active} /\ Distinct(queue')
      BY <1>1, <1>3, <1>6, FinishEffect DEF Sorted
    <2>2. NoCall \notin Elements(queue')
      BY <1>1, <2>1, <1>8, ConnectionAssumption DEF Sorted
    <2> QED BY <1>1, <1>5, <1>7, <2>1, <2>2 DEF Sorted, Queued
  <1> QED BY <1>8, <1>10, <1>11, <1>12 DEF IInv

LEMMA BytesKeep == ASSUME IInv, HandleBytes PROVE IInv'
  <1> DEFINE Frames == [call : Calls, status : {"ok", "exception", "invalid"}]
  <1>1. /\ TypeOK /\ Loop /\ rx # <<>> /\ rx' = Tail(rx)
        /\ UNCHANGED <<startVars, exitReason, transaction, tid, senders, smsgs, transmitted,
                       frames, callerVars>>
    BY DEF IInv, HandleBytes
  <1>2. CASE Accepted(Head(rx)) /\ Complete(Head(rx))
    BY <1>1, <1>2, CompleteKeeps
  <1>3. CASE Fail /\ UNCHANGED <<mode, active, worker, killed, answeredBy>>
    <2>1. rx \in Seq(Frames) /\ \A i \in 1..Len(rx) : rx[i].call \in transmitted
      BY <1>1 DEF IInv, TypeOK, SentOnce
    <2>2. /\ rx' \in Seq(Frames) /\ Len(rx) \in Nat /\ Len(rx') = Len(rx) - 1
          /\ \A i \in 1..Len(rx') : rx'[i] = rx[i + 1] /\ i + 1 \in 1..Len(rx)
      BY <1>1, <2>1
    <2>3. \A i \in 1..Len(rx') : rx'[i].call \in transmitted
      BY <2>1, <2>2
    <2> USE DEF startVars, callerVars
    <2>4. /\ Unused' /\ Sorted' /\ Ledger' /\ SentOnce' /\ Untold' /\ Turn' /\ Attribution'
          /\ phase' = "terminate"
          /\ calls' \subseteq Calls /\ queue' \in Seq(Calls)
          /\ replies' \in [Calls -> Nat] /\ inbox' \in [Calls -> Result]
      BY <1>1, <1>3, <2>3, FailKeeps
    <2>5. TypeOK'
      BY <1>1, <1>3, <2>2, <2>4 DEF TypeOK
    <2> QED BY <2>4, <2>5 DEF IInv
  <1> QED BY <1>2, <1>3 DEF HandleBytes

\* Losses, deadlines and callers that died, of the active call and of others.
LEMMA LossKeeps ==
  ASSUME IInv, HandleSocketLost \/ \E c \in Calls : HandleDeadline(c) \/ HandleCallerDown(c)
  PROVE  IInv'
  <1>1. /\ TypeOK /\ Loop /\ phase = "ready" /\ mode = "loop" /\ NoCall \notin Calls
        /\ UNCHANGED <<startVars, exitReason, mode, active, transaction, tid, worker,
                       senderVars, wireVars, callerVars, answeredBy>>
    BY ConnectionAssumption
    DEF IInv, Loop, HandleSocketLost, HandleDeadline, HandleCallerDown
  <1> USE DEF startVars, senderVars, wireVars, callerVars
  <1>2. \A i \in 1..Len(rx') : rx'[i].call \in transmitted
    BY <1>1 DEF IInv, SentOnce
  <1>3. CASE Fail
    <2>1. /\ Unused' /\ Sorted' /\ Ledger' /\ SentOnce' /\ Untold' /\ Turn' /\ Attribution'
          /\ phase' = "terminate"
          /\ calls' \subseteq Calls /\ queue' \in Seq(Calls)
          /\ replies' \in [Calls -> Nat] /\ inbox' \in [Calls -> Result]
      BY <1>1, <1>2, <1>3, FailKeeps
    <2>2. TypeOK'
      BY <1>1, <2>1 DEF TypeOK
    <2> QED BY <2>1, <2>2 DEF IInv
  <1>4. CASE Stop /\ UNCHANGED <<calls, queue, replyVars>>
    <2>1. phase' = "terminate" /\ UNCHANGED <<calls, queue, inbox, replies>>
      BY <1>4 DEF Stop, replyVars
    <2>2. TypeOK'
      BY <1>1, <2>1 DEF TypeOK
    <2>3. Unused' /\ Sorted' /\ Ledger' /\ SentOnce' /\ Untold' /\ Turn' /\ Attribution'
      BY <1>1, <2>1, TurnStays
      DEF IInv, Unused, Sorted, Ledger, SentOnce, Untold, Attribution
    <2> QED BY <2>2, <2>3 DEF IInv
  <1>5. ASSUME NEW c \in calls, c # active, Finish(c, "error"), UNCHANGED phase PROVE IInv'
    <2>1. c \in Calls /\ c \notin senders \cup transmitted
      BY <1>1, <1>5 DEF IInv, SentOnce, TypeOK
    <2>2. /\ Ledger' /\ SentOnce' /\ Untold' /\ calls' \subseteq Calls
          /\ queue' \in Seq(Calls)
          /\ replies' \in [Calls -> Nat] /\ inbox' \in [Calls -> Result]
      BY <1>1, <1>2, <1>5, <2>1, FinishKeeps DEF Result
    <2>3. TypeOK'
      BY <1>1, <1>5, <2>2 DEF TypeOK
    <2>4. Unused' /\ Turn' /\ Attribution'
      BY <1>1, <1>5, TurnStays DEF IInv, Unused, Attribution
    <2>5. Sorted'
      <3>1. /\ calls' = calls \ {c} /\ Elements(queue') = Queued \ {c}
            /\ Distinct(queue) => Distinct(queue')
        BY <1>1, <1>5, <2>1, FinishEffect DEF Result
      <3>2. active = NoCall => queue' = <<>>
        BY <1>1, <2>2, <3>1, NoElements DEF IInv, Sorted, Queued, TypeOK
      <3> QED BY <1>1, <1>5, <3>1, <3>2 DEF IInv, Sorted, Queued
    <2> QED BY <2>2, <2>3, <2>4, <2>5 DEF IInv
  <1> QED BY <1>3, <1>4, <1>5 DEF HandleSocketLost, HandleDeadline, HandleCallerDown

LEMMA StopKeeps == ASSUME IInv, HandleStop \/ Terminate PROVE IInv'
  <1>1. TypeOK
    BY DEF IInv
  <1> USE DEF startVars, workVars, wireVars, callerVars, replyVars
  <1>2. /\ UNCHANGED <<startVars, exitReason, mode, workVars, senders, smsgs, wireVars,
                       callerVars, replyVars, answeredBy>>
        /\ phase # "dead" /\ phase' \in {"terminate", "closing"}
        /\ killed' \subseteq Calls
    BY <1>1 DEF HandleStop, Terminate, Stop, senderVars, TypeOK
  <1>3. TypeOK'
    BY <1>1, <1>2 DEF TypeOK
  <1>4. Unused' /\ Sorted' /\ Ledger' /\ SentOnce' /\ Untold' /\ Turn' /\ Attribution'
    BY <1>2, TurnStays DEF IInv, Unused, Sorted, Ledger, SentOnce, Untold, Attribution
  <1> QED BY <1>3, <1>4 DEF IInv

-----------------------------------------------------------------------------
LEMMA InitIInv == Init => IInv
  <1> SUFFICES ASSUME Init PROVE IInv
    OBVIOUS
  <1> USE ConnectionAssumption DEF Init
  <1>1. TypeOK
    <2>1. /\ starter \in {"calling", "ok", "error"} /\ readyCall \in BOOLEAN /\ readyFrom \in BOOLEAN
          /\ phase \in {"connecting", "ready", "failed", "terminate", "closing", "dead"}
          /\ exitReason \in {"none", "normal", "killed"} /\ mode \in {"loop", "next"}
      OBVIOUS
    <2>2. /\ transaction \in 0..(Transactions - 1)
          /\ tid \in [Calls -> -1..(Transactions - 1)]
      OBVIOUS
    <2>3. /\ calls \subseteq Calls /\ active \in Calls \cup {NoCall} /\ worker \in Calls \cup {NoCall}
          /\ senders \subseteq Calls /\ killed \subseteq Calls /\ transmitted \subseteq Calls
          /\ reqs \subseteq Calls /\ admitted \subseteq Calls
          /\ live \subseteq Calls /\ expired \subseteq Calls
      OBVIOUS
    <2>4. /\ queue \in Seq(Calls)
          /\ rx \in Seq([call : Calls, status : {"ok", "exception", "invalid"}])
          /\ smsgs \subseteq [call : Calls, kind : {"ok", "error", "exit"}]
      OBVIOUS
    <2>5. /\ cpc \in [Calls -> {"idle", "called", "done"}]
          /\ inbox \in [Calls -> Result] /\ got \in [Calls -> Result]
          /\ answeredBy \in [Calls -> Calls \cup {NoCall}]
      BY DEF Result
    <2>6. frames \in Nat /\ replies \in [Calls -> Nat]
      OBVIOUS
    <2> QED BY <2>1, <2>2, <2>3, <2>4, <2>5, <2>6 DEF TypeOK
  <1>2. Unused /\ Sorted /\ Ledger /\ SentOnce /\ Untold /\ Attribution
    BY DEF Unused, Sorted, Ledger, SentOnce, Untold, Attribution
  <1>3. Numbered = {}
    BY DEF Numbered
  <1>4. Turn
    BY <1>3, FS_EmptySet DEF Turn
  <1> QED BY <1>1, <1>2, <1>4 DEF IInv

LEMMA NextIInv == FewCalls /\ IInv /\ [Next]_vars => IInv'
  <1> SUFFICES ASSUME FewCalls, IInv, [Next]_vars PROVE IInv'
    OBVIOUS
  <1>1. CASE UNCHANGED vars
    <2> USE <1>1 DEF vars, startVars, workVars, senderVars, wireVars, callerVars, replyVars
    <2>1. TypeOK'
      BY DEF IInv, TypeOK
    <2>2. Unused' /\ Sorted' /\ Ledger' /\ SentOnce' /\ Untold' /\ Turn' /\ Attribution'
      BY TurnStays
      DEF IInv, Unused, Sorted, Ledger, SentOnce, Untold, Attribution, Queued
    <2> QED BY <2>1, <2>2 DEF IInv
  <1>2. CASE Server
    BY <1>2, RequestKeeps, LossKeeps, SentKeeps, NextCallKeeps, BytesKeep, StopKeeps,
       TerminatedKeeps, KillKeeps DEF Server
  <1> QED BY <1>1, <1>2, StartupKeeps, CallerKeeps, WireKeeps DEF Next

LEMMA IInvAlways == ASSUME FewCalls PROVE Spec => []IInv
  <1>1. Init => IInv
    BY InitIInv
  <1>2. IInv /\ [Next]_vars => IInv'
    BY NextIInv
  <1> QED BY <1>1, <1>2, PTL DEF Spec

\* For any set of calls not larger than the set of transaction identifiers and
\* any pending limit: between messages the calls of the state are the active
\* one and the queued ones, nobody but the active call's worker can write to
\* the socket, and no request on the wire but the active one lacks its answer.
THEOREM ExchangesSerialized == ASSUME FewCalls PROVE Spec => []Serialized
  <1>1. IInv => Serialized
    <2> SUFFICES ASSUME IInv PROVE Serialized
      OBVIOUS
    <2>1. TypeOK /\ Bookkeeping
      BY DEF IInv, Sorted, Bookkeeping, Loop
    <2>2. OneExchange
      <3> SUFFICES ASSUME phase = "ready", NEW c \in transmitted, c # active
                   PROVE  replies[c] = 1
        BY DEF IInv, Sorted, OneExchange
      <3>1. c \in Calls /\ c \in admitted /\ tid[c] # -1
        BY DEF IInv, SentOnce, TypeOK
      <3>2. c \notin calls /\ exitReason = "none"
        BY <3>1 DEF IInv, SentOnce, Ledger
      <3> QED BY <3>1, <3>2 DEF IInv, Ledger
    <2> QED BY <2>1, <2>2 DEF Serialized
  <1> QED BY <1>1, IInvAlways, PTL

\* For any such set of calls: a write whose caller was told it had no effect
\* was not transmitted and never will be, a call is completed by the response
\* to that very call, and it is answered once.
THEOREM AnswersHonest == ASSUME FewCalls PROVE Spec => []HonestAnswers
  <1>1. IInv => HonestAnswers
    <2> SUFFICES ASSUME IInv PROVE HonestAnswers
      OBVIOUS
    <2>1. EffectHonest /\ Attribution
      BY DEF IInv, Untold, EffectHonest
    <2>2. AnsweredOnce
      BY DEF IInv, Ledger, AnsweredOnce
    <2> QED BY <2>1, <2>2 DEF HonestAnswers
  <1> QED BY <1>1, IInvAlways, PTL

=============================================================================
