------------------------- MODULE RunLifecycleProofs -------------------------
(***************************************************************************)
(* Proofs about RunLifecycle, for any sets of runs and workers, any        *)
(* requests and any MaxTries.                                              *)
(***************************************************************************)
EXTENDS RunLifecycle, TLAPS

\* Before the first request, no row, job, lock or task exists: IInv holds.
LEMMA InitIInv == Init => IInv
  BY ReqAssumption, TriesAssumption, NamesAssumption DEF Init, IInv, TypeOK, RowInv,
     LockInv, OutcomeInv, ConsentInv

\* Consent records change: only history follows.
LEMMA ConsentStep ==
    ASSUME IInv, NEW p \in Purposes,
           Grant(p) \/ Revoke(p)
    PROVE  IInv'
  <1> USE ReqAssumption, TriesAssumption, NamesAssumption
      DEF IInv, dbVars, apiVars, arqVars, workerVars
  <1>1. CASE Grant(p)
    <2>1. TypeOK'
      BY <1>1 DEF TypeOK, Grant
    <2>2. RowInv'
      BY <1>1 DEF TypeOK, RowInv, Grant
    <2>3. LockInv'
      BY <1>1 DEF TypeOK, LockInv, Grant
    <2>4. OutcomeInv'
      BY <1>1 DEF TypeOK, OutcomeInv, Grant
    <2>5. ConsentInv'
      BY <1>1 DEF TypeOK, ConsentInv, Grant
    <2>6. QED BY <2>1, <2>2, <2>3, <2>4, <2>5
  <1>2. CASE Revoke(p)
    <2>1. TypeOK'
      BY <1>2 DEF TypeOK, Revoke
    <2>2. RowInv'
      BY <1>2 DEF TypeOK, RowInv, Revoke
    <2>3. LockInv'
      BY <1>2 DEF TypeOK, LockInv, Revoke
    <2>4. OutcomeInv'
      BY <1>2 DEF TypeOK, OutcomeInv, Revoke
    <2>5. ConsentInv'
      BY <1>2 DEF ConsentInv, Revoke
    <2>6. QED BY <2>1, <2>2, <2>3, <2>4, <2>5
  <1>3. QED BY <1>1, <1>2

\* The request that creates a run.
LEMMA PostStep ==
    ASSUME IInv, NEW r \in Runs,
           InsertRun(r) \/ Enqueue(r) \/ CommitPost(r) \/ AbortPost(r)
    PROVE  IInv'
  <1> USE ReqAssumption, TriesAssumption, NamesAssumption
      DEF IInv, dbVars, apiVars, arqVars, workerVars
  <1>1. CASE InsertRun(r)
    <2>1. TypeOK'
      BY <1>1 DEF TypeOK, InsertRun
    <2>2. RowInv'
      BY <1>1 DEF TypeOK, RowInv, InsertRun
    <2>3. LockInv'
      BY <1>1 DEF TypeOK, LockInv, InsertRun
    <2>4. OutcomeInv'
      BY <1>1 DEF TypeOK, OutcomeInv, InsertRun
    <2>5. ConsentInv'
      BY <1>1 DEF ConsentInv, InsertRun
    <2>6. QED BY <2>1, <2>2, <2>3, <2>4, <2>5
  <1>2. CASE Enqueue(r)
    <2>1. TypeOK'
      BY <1>2 DEF TypeOK, Enqueue
    <2>2. RowInv'
      BY <1>2 DEF TypeOK, RowInv, Enqueue
    <2>3. LockInv'
      BY <1>2 DEF TypeOK, LockInv, Enqueue
    <2>4. OutcomeInv'
      BY <1>2 DEF TypeOK, OutcomeInv, Enqueue
    <2>5. ConsentInv'
      BY <1>2 DEF ConsentInv, Enqueue
    <2>6. QED BY <2>1, <2>2, <2>3, <2>4, <2>5
  <1>3. CASE CommitPost(r)
    <2>1. TypeOK'
      BY <1>3 DEF TypeOK, CommitPost
    <2>2. RowInv'
      BY <1>3 DEF TypeOK, RowInv, CommitPost
    <2>3. LockInv'
      BY <1>3 DEF TypeOK, RowInv, LockInv, CommitPost
    <2>4. OutcomeInv'
      BY <1>3 DEF TypeOK, RowInv, OutcomeInv, CommitPost
    <2>5. ConsentInv'
      BY <1>3 DEF ConsentInv, CommitPost
    <2>6. QED BY <2>1, <2>2, <2>3, <2>4, <2>5
  <1>4. CASE AbortPost(r)
    <2>1. TypeOK'
      BY <1>4 DEF TypeOK, AbortPost
    <2>2. RowInv'
      BY <1>4 DEF TypeOK, RowInv, AbortPost
    <2>3. LockInv'
      BY <1>4 DEF TypeOK, LockInv, AbortPost
    <2>4. OutcomeInv'
      BY <1>4 DEF TypeOK, OutcomeInv, AbortPost
    <2>5. ConsentInv'
      BY <1>4 DEF ConsentInv, AbortPost
    <2>6. QED BY <2>1, <2>2, <2>3, <2>4, <2>5
  <1>5. QED BY <1>1, <1>2, <1>3, <1>4

\* The cancel request.
LEMMA CancelStep ==
    ASSUME IInv, NEW r \in Runs,
           RequestCancel(r) \/ BlockCancel(r) \/ UpdateCanceled(r) \/ CancelTooLate(r) \/ CommitCancel(r) \/ AbortCancel(r)
    PROVE  IInv'
  <1> USE ReqAssumption, TriesAssumption, NamesAssumption
      DEF IInv, dbVars, apiVars, arqVars, workerVars
  <1>1. CASE RequestCancel(r)
    <2>1. TypeOK'
      BY <1>1 DEF TypeOK, RequestCancel
    <2>2. RowInv'
      BY <1>1 DEF TypeOK, RowInv, RequestCancel
    <2>3. LockInv'
      BY <1>1 DEF TypeOK, LockInv, RequestCancel
    <2>4. OutcomeInv'
      BY <1>1 DEF TypeOK, OutcomeInv, RequestCancel
    <2>5. ConsentInv'
      BY <1>1 DEF ConsentInv, RequestCancel
    <2>6. QED BY <2>1, <2>2, <2>3, <2>4, <2>5
  <1>2. CASE BlockCancel(r)
    <2>1. TypeOK'
      BY <1>2 DEF TypeOK, BlockCancel
    <2>2. RowInv'
      BY <1>2 DEF TypeOK, RowInv, BlockCancel
    <2>3. LockInv'
      BY <1>2 DEF TypeOK, LockInv, BlockCancel
    <2>4. OutcomeInv'
      BY <1>2 DEF TypeOK, OutcomeInv, BlockCancel
    <2>5. ConsentInv'
      BY <1>2 DEF ConsentInv, BlockCancel
    <2>6. QED BY <2>1, <2>2, <2>3, <2>4, <2>5
  <1>3. CASE UpdateCanceled(r)
    <2>1. TypeOK'
      BY <1>3 DEF TypeOK, UpdateCanceled
    <2>2. RowInv'
      BY <1>3 DEF TypeOK, RowInv, LockInv, UpdateCanceled
    <2>3. LockInv'
      BY <1>3 DEF TypeOK, LockInv, OutcomeInv, UpdateCanceled
    <2>4. OutcomeInv'
      BY <1>3 DEF TypeOK, OutcomeInv, UpdateCanceled
    <2>5. ConsentInv'
      BY <1>3 DEF ConsentInv, UpdateCanceled
    <2>6. QED BY <2>1, <2>2, <2>3, <2>4, <2>5
  <1>4. CASE CancelTooLate(r)
    <2>1. TypeOK'
      BY <1>4 DEF TypeOK, CancelTooLate
    <2>2. RowInv'
      BY <1>4 DEF TypeOK, RowInv, CancelTooLate
    <2>3. LockInv'
      BY <1>4 DEF TypeOK, LockInv, CancelTooLate
    <2>4. OutcomeInv'
      BY <1>4 DEF TypeOK, OutcomeInv, CancelTooLate
    <2>5. ConsentInv'
      BY <1>4 DEF ConsentInv, CancelTooLate
    <2>6. QED BY <2>1, <2>2, <2>3, <2>4, <2>5
  <1>5. CASE CommitCancel(r)
    <2>1. TypeOK'
      BY <1>5 DEF TypeOK, CommitCancel, Terminal
    <2>2. RowInv'
      BY <1>5 DEF TypeOK, RowInv, LockInv, CommitCancel
    <2>3. LockInv'
      BY <1>5 DEF TypeOK, LockInv, CommitCancel
    <2>4. OutcomeInv'
      BY <1>5 DEF TypeOK, LockInv, OutcomeInv, CommitCancel
    <2>5. ConsentInv'
      BY <1>5 DEF ConsentInv, CommitCancel
    <2>6. QED BY <2>1, <2>2, <2>3, <2>4, <2>5
  <1>6. CASE AbortCancel(r)
    <2>1. TypeOK'
      BY <1>6 DEF TypeOK, AbortCancel
    <2>2. RowInv'
      BY <1>6 DEF TypeOK, RowInv, AbortCancel
    <2>3. LockInv'
      BY <1>6 DEF TypeOK, LockInv, AbortCancel
    <2>4. OutcomeInv'
      BY <1>6 DEF TypeOK, OutcomeInv, AbortCancel
    <2>5. ConsentInv'
      BY <1>6 DEF ConsentInv, AbortCancel
    <2>6. QED BY <2>1, <2>2, <2>3, <2>4, <2>5
  <1>7. QED BY <1>1, <1>2, <1>3, <1>4, <1>5, <1>6

\* The queue only moves jobs; a pickup starts a task at its first point.
LEMMA QueueStep ==
    ASSUME IInv, NEW r \in Runs, Queue(r)
    PROVE  IInv'
  <1> USE ReqAssumption, TriesAssumption, NamesAssumption
      DEF IInv, dbVars, apiVars, arqVars, workerVars
  <1>1. CASE Expire(r) \/ DeadLetter(r)
    BY <1>1 DEF Expire, DeadLetter, TypeOK, RowInv, LockInv, OutcomeInv, ConsentInv
  <1>2. ASSUME NEW w \in Workers, Pickup(w, r)
        PROVE  IInv'
    <2>1. TypeOK'
      BY <1>2 DEF TypeOK, Pickup, InWork, InMark
    <2>2. RowInv'
      BY <1>2 DEF RowInv, Pickup
    <2>3. LockInv'
      BY <1>2 DEF TypeOK, LockInv, Pickup
    <2>4. OutcomeInv'
      BY <1>2 DEF OutcomeInv, Pickup
    <2>5. ConsentInv'
      BY <1>2 DEF TypeOK, ConsentInv, Pickup
    <2>6. QED BY <2>1, <2>2, <2>3, <2>4, <2>5
  <1>3. QED BY <1>1, <1>2 DEF Queue

\* Leaving a task keeps the types of what it touches.
LEMMA LeaveTypes ==
    ASSUME TypeOK, NEW w \in Workers, NEW outcome \in {"none", "ready", "taken", "done", "dead"},
           Leave(w, outcome)
    PROVE  /\ jobs' \in [Runs -> {"none", "ready", "taken", "done", "dead"}]
           /\ tries' \in [Runs -> 0..MaxTries]
           /\ pc' \in [Workers -> {"idle"} \cup InWork \cup InMark]
           /\ run' \in [Workers -> Runs \cup {NoRun}]
           /\ art9' \in [Workers -> BOOLEAN]
           /\ decoy' \in [Workers -> BOOLEAN]
           /\ window' \in [Workers -> SUBSET Purposes]
  <1>1. jobs' \in [Runs -> {"none", "ready", "taken", "done", "dead"}]
    BY DEF TypeOK, Leave
  <1>2. QED BY <1>1 DEF TypeOK, Leave

\* A run writes only rows of the known kinds.
LEMMA WrittenOutputs ==
    ASSUME NEW w \in Workers, run[w] \in Runs, NEW rows \in Written(w)
    PROVE  rows \subseteq Outputs
  <1> DEFINE kinds == IF Req[run[w]].kind = "attack"
                      THEN {"plain"} \cup IF art9[w] THEN {"art9"} ELSE {}
                      ELSE {IF Req[run[w]].art9 THEN "art9" ELSE "plain"}
                             \cup IF decoy[w] THEN {"decoy"} ELSE {}
              full == {{"metrics"} \cup s: s \in SUBSET kinds}
  <1>1. kinds \subseteq Outputs
    BY DEF Outputs
  <1>2. \A s \in full: s \subseteq Outputs
    BY <1>1 DEF Outputs
  <1>3. Written(w) \subseteq full \cup {{}}
    <2>1. Req[run[w]] \in Request
      BY ReqAssumption
    <2>2. QED BY <2>1 DEF Written
  <1>4. QED BY <1>2, <1>3

\* The steps of a task before its work.
LEMMA GoingTask ==
    ASSUME IInv, NEW w \in Workers,
           ReadRun(w) \/ CheckConsent(w) \/ CheckArt9(w) \/ CheckDecoy(w) \/ Claim(w)
    PROVE  IInv'
  <1> USE ReqAssumption, TriesAssumption, NamesAssumption
      DEF IInv, dbVars, apiVars, arqVars, workerVars
  <1>1. CASE ReadRun(w)
    <2>1. TypeOK'
      <3>1. run[w] \in Runs
        BY <1>1 DEF LockInv, ReadRun
      <3>2. CASE Leave(w, "done") /\ UNCHANGED <<dbVars, apiVars>>
        BY <3>2, LeaveTypes DEF TypeOK
      <3>3. CASE Goto(w, "consent") /\ UNCHANGED <<dbVars, apiVars, arqVars, art9, decoy>>
        BY <1>1, <3>1, <3>3 DEF TypeOK, Goto, InWork, InMark
      <3>4. QED BY <1>1, <3>2, <3>3 DEF ReadRun
    <2>2. RowInv'
      BY <1>1 DEF TypeOK, RowInv, LockInv, ReadRun, Goto, Leave
    <2>3. LockInv'
      BY <1>1 DEF TypeOK, RowInv, LockInv, OutcomeInv, ReadRun, Goto, Leave, InWork, InMark
    <2>4. OutcomeInv'
      BY <1>1 DEF TypeOK, RowInv, LockInv, OutcomeInv, ReadRun, Goto, Leave
    <2>5. ConsentInv'
      BY <1>1 DEF TypeOK, LockInv, ConsentInv, ReadRun, Goto, Leave, InWork, InMark
    <2>6. QED BY <2>1, <2>2, <2>3, <2>4, <2>5
  <1>2. CASE CheckConsent(w)
    <2>1. TypeOK'
      BY <1>2 DEF TypeOK, CheckConsent, Goto, InWork, InMark, Terminal
    <2>2. RowInv'
      BY <1>2 DEF TypeOK, RowInv, CheckConsent
    <2>3. LockInv'
      BY <1>2 DEF TypeOK, RowInv, LockInv, OutcomeInv, CheckConsent, Goto, InWork, InMark
    <2>4. OutcomeInv'
      BY <1>2 DEF TypeOK, RowInv, LockInv, OutcomeInv, CheckConsent, Goto
    <2>5. ConsentInv'
      BY <1>2 DEF TypeOK, LockInv, ConsentInv, CheckConsent, Goto, InWork, InMark
    <2>6. QED BY <2>1, <2>2, <2>3, <2>4, <2>5
  <1>3. CASE CheckArt9(w)
    <2>1. TypeOK'
      BY <1>3 DEF TypeOK, CheckArt9, Goto, InWork, InMark, Terminal
    <2>2. RowInv'
      BY <1>3 DEF TypeOK, RowInv, CheckArt9
    <2>3. LockInv'
      BY <1>3 DEF TypeOK, RowInv, LockInv, OutcomeInv, CheckArt9, Goto, InWork, InMark
    <2>4. OutcomeInv'
      BY <1>3 DEF TypeOK, RowInv, LockInv, OutcomeInv, CheckArt9, Goto
    <2>5. ConsentInv'
      BY <1>3 DEF TypeOK, LockInv, ConsentInv, CheckArt9, Goto, InWork, InMark
    <2>6. QED BY <2>1, <2>2, <2>3, <2>4, <2>5
  <1>4. CASE CheckDecoy(w)
    <2>1. TypeOK'
      BY <1>4 DEF TypeOK, CheckDecoy, Goto, InWork, InMark, Terminal
    <2>2. RowInv'
      BY <1>4 DEF TypeOK, RowInv, CheckDecoy
    <2>3. LockInv'
      BY <1>4 DEF TypeOK, RowInv, LockInv, OutcomeInv, CheckDecoy, Goto, InWork, InMark
    <2>4. OutcomeInv'
      BY <1>4 DEF TypeOK, RowInv, LockInv, OutcomeInv, CheckDecoy, Goto
    <2>5. ConsentInv'
      BY <1>4 DEF TypeOK, LockInv, ConsentInv, CheckDecoy, Goto, InWork, InMark
    <2>6. QED BY <2>1, <2>2, <2>3, <2>4, <2>5
  <1>5. CASE Claim(w)
    <2>1. TypeOK'
      <3>1. run[w] \in Runs
        BY <1>5 DEF LockInv, Claim
      <3>2. CASE Leave(w, "done") /\ UNCHANGED <<dbVars, apiVars>>
        BY <3>2, LeaveTypes DEF TypeOK
      <3>3. CASE /\ lock' = [lock EXCEPT ![run[w]] = w]
               /\ Goto(w, "work")
               /\ UNCHANGED <<consent, status, results, apiVars, arqVars, art9, decoy>>
        BY <1>5, <3>1, <3>3 DEF TypeOK, Goto, InWork, InMark
      <3>4. QED BY <1>5, <3>2, <3>3 DEF Claim
    <2>2. RowInv'
      BY <1>5 DEF TypeOK, RowInv, LockInv, Claim, Goto, Leave
    <2>3. LockInv'
      BY <1>5 DEF TypeOK, RowInv, LockInv, OutcomeInv, Claim, Goto, Leave, InWork, InMark
    <2>4. OutcomeInv'
      BY <1>5 DEF TypeOK, RowInv, LockInv, OutcomeInv, Claim, Goto, Leave
    <2>5. ConsentInv'
      BY <1>5 DEF TypeOK, LockInv, ConsentInv, Claim, Goto, Leave, InWork, InMark
    <2>6. QED BY <2>1, <2>2, <2>3, <2>4, <2>5
  <1>6. QED BY <1>1, <1>2, <1>3, <1>4, <1>5

\* The steps that end the work transaction, or the task.
LEMMA EndingTask ==
    ASSUME IInv, NEW w \in Workers,
           Deny(w) \/ Succeed(w) \/ Raise(w) \/ MarkFailed(w) \/ MarkError(w) \/ Interrupt(w)
    PROVE  IInv'
  <1> USE ReqAssumption, TriesAssumption, NamesAssumption
      DEF IInv, dbVars, apiVars, arqVars, workerVars
  <1>1. CASE Deny(w)
    <2>1. TypeOK'
      BY <1>1 DEF TypeOK, Deny, Goto, Released, InMark
    <2>2. RowInv'
      BY <1>1 DEF TypeOK, RowInv, LockInv, Deny, Goto, Released
    <2>3. LockInv'
      BY <1>1 DEF TypeOK, RowInv, LockInv, OutcomeInv, Deny, Goto, Released, InWork, InMark
    <2>4. OutcomeInv'
      BY <1>1 DEF TypeOK, RowInv, LockInv, OutcomeInv, Deny, Goto, Released
    <2>5. ConsentInv'
      BY <1>1 DEF TypeOK, LockInv, ConsentInv, Deny, Goto
    <2>6. QED BY <2>1, <2>2, <2>3, <2>4, <2>5
  <1>2. CASE Succeed(w)
    <2>1. TypeOK'
      <3>1. run[w] \in Runs
        BY <1>2 DEF TypeOK, LockInv, Succeed, InWork, InMark
      <3>2. PICK outcome \in {"none", "ready", "taken", "done", "dead"}: Leave(w, outcome)
        BY <1>2, <3>1 DEF Succeed
      <3>3. /\ status' \in [Runs -> {"absent", "queued", "running"} \cup Terminal]
           /\ lock' \in [Runs -> {"free", "cancel"} \cup Workers]
           /\ results' \in [Runs -> SUBSET Outputs]
        BY <1>2, <3>1, WrittenOutputs DEF TypeOK, Succeed, Released, Terminal
      <3>4. QED BY <1>2, <3>2, <3>3, LeaveTypes DEF TypeOK, Succeed
    <2>2. RowInv'
      BY <1>2 DEF TypeOK, RowInv, LockInv, Succeed, Leave, Released
    <2>3. LockInv'
      BY <1>2 DEF TypeOK, RowInv, LockInv, OutcomeInv, Succeed, Leave, Released, InWork, InMark
    <2>4. OutcomeInv'
      BY <1>2 DEF TypeOK, RowInv, LockInv, OutcomeInv, Succeed, Leave, Released
    <2>5. ConsentInv'
      BY <1>2 DEF TypeOK, LockInv, ConsentInv, Succeed, Leave
    <2>6. QED BY <2>1, <2>2, <2>3, <2>4, <2>5
  <1>3. CASE Raise(w)
    <2>1. TypeOK'
      BY <1>3 DEF TypeOK, Raise, Goto, Released, InMark
    <2>2. RowInv'
      BY <1>3 DEF TypeOK, RowInv, LockInv, Raise, Goto, Released
    <2>3. LockInv'
      BY <1>3 DEF TypeOK, RowInv, LockInv, OutcomeInv, Raise, Goto, Released, InWork, InMark
    <2>4. OutcomeInv'
      BY <1>3 DEF TypeOK, RowInv, LockInv, OutcomeInv, Raise, Goto, Released
    <2>5. ConsentInv'
      BY <1>3 DEF TypeOK, LockInv, ConsentInv, Raise, Goto, InWork
    <2>6. QED BY <2>1, <2>2, <2>3, <2>4, <2>5
  <1>4. CASE MarkFailed(w)
    <2>1. TypeOK'
      <3>1. run[w] \in Runs
        BY <1>4 DEF TypeOK, LockInv, MarkFailed, InWork, InMark
      <3>2. PICK outcome \in {"none", "ready", "taken", "done", "dead"}: Leave(w, outcome)
        BY <1>4, <3>1 DEF MarkFailed, RaisedOutcome
      <3>3. status' \in [Runs -> {"absent", "queued", "running"} \cup Terminal]
        BY <1>4, <3>1 DEF TypeOK, MarkFailed, Terminal
      <3>4. QED BY <1>4, <3>2, <3>3, LeaveTypes DEF TypeOK, MarkFailed
    <2>2. RowInv'
      BY <1>4 DEF TypeOK, RowInv, MarkFailed
    <2>3. LockInv'
      BY <1>4 DEF TypeOK, RowInv, LockInv, OutcomeInv, MarkFailed, Leave, InWork, InMark
    <2>4. OutcomeInv'
      BY <1>4 DEF TypeOK, RowInv, LockInv, OutcomeInv, MarkFailed, Leave
    <2>5. ConsentInv'
      BY <1>4 DEF TypeOK, LockInv, ConsentInv, MarkFailed, Leave, InWork, InMark
    <2>6. QED BY <2>1, <2>2, <2>3, <2>4, <2>5
  <1>5. CASE MarkError(w)
    <2>1. TypeOK'
      <3>1. run[w] \in Runs
        BY <1>5 DEF TypeOK, LockInv, MarkError, InWork, InMark
      <3>2. PICK outcome \in {"none", "ready", "taken", "done", "dead"}: Leave(w, outcome)
        BY <1>5, <3>1 DEF MarkError, RaisedOutcome
      <3>3. status' \in [Runs -> {"absent", "queued", "running"} \cup Terminal]
        BY <1>5, <3>1 DEF TypeOK, MarkError, Terminal
      <3>4. QED BY <1>5, <3>2, <3>3, LeaveTypes DEF TypeOK, MarkError
    <2>2. RowInv'
      BY <1>5 DEF TypeOK, RowInv, MarkError
    <2>3. LockInv'
      BY <1>5 DEF TypeOK, RowInv, LockInv, OutcomeInv, MarkError, Leave, InWork, InMark
    <2>4. OutcomeInv'
      BY <1>5 DEF TypeOK, RowInv, LockInv, OutcomeInv, MarkError, Leave
    <2>5. ConsentInv'
      BY <1>5 DEF TypeOK, LockInv, ConsentInv, MarkError, Leave, InWork, InMark
    <2>6. QED BY <2>1, <2>2, <2>3, <2>4, <2>5
  <1>6. CASE Interrupt(w)
    <2>1. TypeOK'
      <3>1. run[w] \in Runs
        BY <1>6 DEF TypeOK, LockInv, Interrupt, InWork, InMark
      <3>2. PICK outcome \in {"none", "ready", "taken", "done", "dead"}: Leave(w, outcome)
        BY <1>6, <3>1 DEF TypeOK, Interrupt, RaisedOutcome
      <3>3. lock' \in [Runs -> {"free", "cancel"} \cup Workers]
        BY <1>6, <3>1 DEF TypeOK, Interrupt, Released, Terminal
      <3>4. QED BY <1>6, <3>2, <3>3, LeaveTypes DEF TypeOK, Interrupt
    <2>2. RowInv'
      BY <1>6 DEF TypeOK, RowInv, LockInv, Interrupt, Leave, Released
    <2>3. LockInv'
      BY <1>6 DEF TypeOK, RowInv, LockInv, OutcomeInv, Interrupt, Leave, Released, InWork, InMark
    <2>4. OutcomeInv'
      BY <1>6 DEF TypeOK, RowInv, LockInv, OutcomeInv, Interrupt, Leave, Released
    <2>5. ConsentInv'
      BY <1>6 DEF TypeOK, LockInv, ConsentInv, Interrupt, Leave
    <2>6. QED BY <2>1, <2>2, <2>3, <2>4, <2>5
  <1>7. QED BY <1>1, <1>2, <1>3, <1>4, <1>5, <1>6

\* Every step of a client, the queue or a worker preserves IInv.
LEMMA NextIInv == IInv /\ [Next]_vars => IInv'
  <1> SUFFICES ASSUME IInv, [Next]_vars PROVE IInv'
    OBVIOUS
  <1>1. CASE UNCHANGED vars
    BY <1>1 DEF vars, dbVars, apiVars, arqVars, workerVars, IInv, TypeOK, RowInv,
                LockInv, OutcomeInv, ConsentInv
  <1>2. ASSUME NEW p \in Purposes, Grant(p) \/ Revoke(p)
        PROVE  IInv'
    BY <1>2, ConsentStep
  <1>3. ASSUME NEW r \in Runs, Client(r)
        PROVE  IInv'
    BY <1>3, PostStep, CancelStep DEF Client
  <1>4. ASSUME NEW r \in Runs, Queue(r)
        PROVE  IInv'
    BY <1>4, QueueStep
  <1>5. ASSUME NEW w \in Workers, Task(w)
        PROVE  IInv'
    BY <1>5, GoingTask, EndingTask DEF Task, Progress
  <1>6. QED BY <1>1, <1>2, <1>3, <1>4, <1>5 DEF Next

\* The locks, the rows and the beliefs of the workers always agree: IInv is an
\* invariant, and every safety theorem below follows from it.
THEOREM Invariance == Spec => []IInv
  BY InitIInv, NextIInv, PTL DEF Spec

-----------------------------------------------------------------------------
\* Every variable keeps its type; in particular no job is handed out more than
\* max_tries times (WorkerSettings).
THEOREM TypeCorrect == Spec => []TypeOK
  <1>1. IInv => TypeOK
    BY DEF IInv
  <1>2. QED BY <1>1, Invariance, PTL

\* No run is ever executed by two workers at once.
THEOREM OneExecutorHolds == Spec => []OneExecutor
  <1>1. IInv => OneExecutor
    BY DEF IInv, LockInv, OneExecutor
  <1>2. QED BY <1>1, Invariance, PTL

\* A cancel that was committed is never undone, and leaves no output.
THEOREM AnsweredCancelIsFinal == Spec => []AnsweredCancelHolds
  <1>1. IInv => AnsweredCancelHolds
    BY DEF IInv, OutcomeInv, AnsweredCancelHolds
  <1>2. QED BY <1>1, Invariance, PTL

\* The rows of a success and the consent behind each kind of them.
LEMMA WrittenConsented ==
    ASSUME IInv, NEW w \in Workers, pc[w] = "work", NEW rows \in Written(w)
    PROVE  /\ "art9" \in rows => "art9_inference" \in window[w]
           /\ "decoy" \in rows => "decoy" \in window[w]
  <1>1. run[w] \in Runs /\ Req[run[w]] \in Request
    BY ReqAssumption DEF IInv, LockInv
  <1>2. "art9" \in rows => art9[w]
    BY <1>1 DEF Written, Denied, Request
  <1>3. "decoy" \in rows => decoy[w]
    BY <1>1 DEF Written, Denied, Request
  <1>4. QED BY <1>2, <1>3 DEF IInv, ConsentInv

\* Outputs are only ever committed under a consent seen since the pickup.
THEOREM ConsentIsRespected == Spec => ResultsWereConsented
  <1> DEFINE Step ==
        \A r \in Runs: status[r] # "succeeded" /\ status'[r] = "succeeded" =>
          \E w \in Workers:
            /\ run[w] = r
            /\ pc[w] = "work"
            /\ "self_audit" \in window[w]
            /\ "art9" \in results'[r] => "art9_inference" \in window[w]
            /\ "decoy" \in results'[r] => "decoy" \in window[w]
  <1>1. IInv /\ [Next]_vars => [Step]_vars
    <2> SUFFICES ASSUME IInv, Next, NEW r \in Runs,
                        status[r] # "succeeded", status'[r] = "succeeded"
                 PROVE  \E w \in Workers:
                          /\ run[w] = r
                          /\ pc[w] = "work"
                          /\ "self_audit" \in window[w]
                          /\ "art9" \in results'[r] => "art9_inference" \in window[w]
                          /\ "decoy" \in results'[r] => "decoy" \in window[w]
      OBVIOUS
    <2>1. PICK w \in Workers: Succeed(w) /\ run[w] = r
      <3>1. ~\E p \in Purposes: Grant(p) \/ Revoke(p)
        BY DEF Grant, Revoke
      <3>2. ~\E s \in Runs: Client(s) \/ Queue(s)
        BY DEF IInv, TypeOK, Client, Queue, InsertRun, Enqueue, CommitPost, AbortPost,
               RequestCancel, BlockCancel, UpdateCanceled, CancelTooLate, CommitCancel,
               AbortCancel, Pickup, Expire, DeadLetter, dbVars
      <3>3. PICK w \in Workers: Task(w)
        BY <3>1, <3>2 DEF Next
      <3>4. ~(Deny(w) \/ Raise(w) \/ MarkError(w) \/ Interrupt(w))
        BY DEF Deny, Raise, MarkError, Interrupt, dbVars
      <3>5. ~(ReadRun(w) \/ CheckConsent(w) \/ CheckArt9(w) \/ CheckDecoy(w) \/ Claim(w))
        BY DEF ReadRun, CheckConsent, CheckArt9, CheckDecoy, Claim, dbVars
      <3>6. ~MarkFailed(w)
        BY DEF MarkFailed, IInv, TypeOK
      <3>7. Succeed(w)
        BY <3>3, <3>4, <3>5, <3>6 DEF Task, Progress
      <3>8. run[w] = r
        BY <3>7 DEF Succeed, IInv, TypeOK
      <3>9. QED BY <3>7, <3>8
    <2>2. PICK rows \in Written(w): results'[r] = rows
      BY <2>1 DEF Succeed, IInv, TypeOK
    <2>3. pc[w] = "work" /\ "self_audit" \in window[w]
      BY <2>1 DEF Succeed, IInv, ConsentInv
    <2>4. QED BY <2>1, <2>2, <2>3, WrittenConsented
  <1>2. QED BY <1>1, Invariance, PTL DEF Spec, ResultsWereConsented

-----------------------------------------------------------------------------
\* A step that leaves the committed status and outputs alone maps to a stutter.
LEMMA ImplementsStep ==
    ASSUME IInv, [Next]_vars
    PROVE  [Contract!Next]_(Contract!vars)
  <1> USE DEF Contract!vars, Contract!Next
  <1>1. CASE UNCHANGED vars
    BY <1>1 DEF vars, dbVars
  <1>2. ASSUME NEW p \in Purposes, Grant(p) \/ Revoke(p)
        PROVE  UNCHANGED Contract!vars
    BY <1>2 DEF Grant, Revoke
  <1>3. ASSUME NEW r \in Runs, Client(r)
        PROVE  [Contract!Next]_(Contract!vars)
    <2>1. CASE CommitPost(r)
      <3>1. Contract!Submit(r)
        BY <2>1 DEF CommitPost, Contract!Submit, IInv, RowInv
      <3>2. QED BY <3>1
    <2>2. CASE CommitCancel(r)
      <3>1. Contract!GiveUp(r)
        BY <2>2 DEF CommitCancel, Contract!GiveUp, IInv, LockInv
      <3>2. QED BY <3>1
    <2>3. CASE \/ InsertRun(r) \/ Enqueue(r) \/ AbortPost(r) \/ RequestCancel(r)
               \/ BlockCancel(r) \/ UpdateCanceled(r) \/ CancelTooLate(r) \/ AbortCancel(r)
      BY <2>3 DEF InsertRun, Enqueue, AbortPost, RequestCancel, BlockCancel,
                  UpdateCanceled, CancelTooLate, AbortCancel, dbVars
    <2>4. QED BY <1>3, <2>1, <2>2, <2>3 DEF Client
  <1>4. ASSUME NEW r \in Runs, Queue(r)
        PROVE  UNCHANGED Contract!vars
    BY <1>4 DEF Queue, Pickup, Expire, DeadLetter, dbVars
  <1>5. ASSUME NEW w \in Workers, Task(w)
        PROVE  [Contract!Next]_(Contract!vars)
    <2>1. CASE Succeed(w)
      <3>1. run[w] \in Runs /\ status[run[w]] = "queued"
        BY <2>1, NamesAssumption DEF Succeed, IInv, LockInv
      <3>2. PICK rows \in Written(w): results' = [results EXCEPT ![run[w]] = rows]
        BY <2>1 DEF Succeed
      <3>3. rows \in SUBSET Outputs
        BY <3>1, WrittenOutputs
      <3>4. Contract!Succeed(run[w])
        BY <2>1, <3>1, <3>2, <3>3 DEF Succeed, Contract!Succeed
      <3>5. QED BY <3>1, <3>4
    <2>2. CASE MarkFailed(w)
      <3>1. run[w] \in Runs
        BY <2>2 DEF MarkFailed, IInv, LockInv, TypeOK, InMark
      <3>2. CASE status[run[w]] \in {"queued", "running"}
        <4>1. status[run[w]] = "queued"
          BY <3>1, <3>2 DEF IInv, OutcomeInv
        <4>2. Contract!GiveUp(run[w])
          BY <2>2, <3>2, <4>1 DEF MarkFailed, Contract!GiveUp
        <4>3. QED BY <3>1, <4>2
      <3>3. CASE status[run[w]] \notin {"queued", "running"}
        BY <2>2, <3>3 DEF MarkFailed
      <3>4. QED BY <3>2, <3>3
    <2>3. CASE \/ ReadRun(w) \/ CheckConsent(w) \/ CheckArt9(w) \/ CheckDecoy(w) \/ Claim(w)
               \/ Deny(w) \/ Raise(w) \/ MarkError(w) \/ Interrupt(w)
      BY <2>3 DEF ReadRun, CheckConsent, CheckArt9, CheckDecoy, Claim, Deny, Raise,
                  MarkError, Interrupt, dbVars
    <2>4. QED BY <1>5, <2>1, <2>2, <2>3 DEF Task, Progress
  <1>6. QED BY <1>1, <1>2, <1>3, <1>4, <1>5 DEF Next

\* Whatever workers, queue, retries and cancels do, a client sees the contract.
THEOREM LifecycleImplementsContract == Spec => ImplementsContract
  <1>1. Init => Contract!Init
    BY DEF Init, Contract!Init
  <1>2. IInv /\ [Next]_vars => [Contract!Next]_(Contract!vars)
    BY ImplementsStep
  <1>3. QED BY <1>1, <1>2, Invariance, PTL DEF Spec, Contract!Spec, ImplementsContract
=============================================================================
