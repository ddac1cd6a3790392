-------------------------- MODULE RunRequestsProofs --------------------------
(***************************************************************************)
(* Proofs about RunRequests, for any set of requests, callers and keys.    *)
(***************************************************************************)
EXTENDS RunRequests, TLAPS

\* Before the first request nothing is committed, inserted or answered.
LEMMA InitIInv == Init => IInv
  BY NoneAssumption DEF Init, IInv, TypeOK, KeyInv, ProfileInv, AnswersAreRuns, Holding,
     Running

\* Every variable keeps its type in every step of a request.
LEMMA StepTypes ==
  ASSUME TypeOK, NEW p \in Posts, Step(p) \/ Abort(p)
  PROVE  TypeOK'
  <1>1. CASE CheckRequest(p)
    BY <1>1 DEF TypeOK, CheckRequest, Goto, Fail, Running, Holding
  <1>2. CASE Lookup(p)
    BY <1>2 DEF TypeOK, Lookup, Goto, Running, Holding
  <1>3. CASE FindProfile(p) \/ InsertProfile(p)
    BY <1>3 DEF TypeOK, FindProfile, InsertProfile, Goto, Running, Holding
  <1>4. CASE RefuseRemediation(p) \/ InsertRun(p)
    BY <1>4 DEF TypeOK, RefuseRemediation, InsertRun, Goto, Fail, Running, Holding
  <1>5. CASE Enqueue(p) \/ Respond(p) \/ Commit(p) \/ Abort(p)
    BY <1>5 DEF TypeOK, Enqueue, Respond, Commit, Abort, Goto, Fail, Running, Holding
  <1>6. QED BY <1>1, <1>2, <1>3, <1>4, <1>5 DEF Step

\* The unique index: a key has one holder, and nobody commits without a job.
LEMMA StepKeys ==
  ASSUME TypeOK, KeyInv, NEW p \in Posts, Step(p) \/ Abort(p)
  PROVE  KeyInv'
  <1>1. CASE CheckRequest(p)
    BY <1>1 DEF TypeOK, KeyInv, CheckRequest, Goto, Fail, Holding, SameKey
  <1>2. CASE Lookup(p)
    BY <1>2 DEF TypeOK, KeyInv, Lookup, Goto, Holding, SameKey
  <1>3. CASE FindProfile(p) \/ InsertProfile(p)
    BY <1>3 DEF TypeOK, KeyInv, FindProfile, InsertProfile, Goto, Holding, SameKey
  <1>4. CASE RefuseRemediation(p)
    BY <1>4 DEF TypeOK, KeyInv, RefuseRemediation, Fail, Holding, SameKey
  <1>5. CASE InsertRun(p)
    BY <1>5 DEF TypeOK, KeyInv, InsertRun, Goto, Fail, Holding, SameKey
  <1>6. CASE Enqueue(p)
    BY <1>6 DEF TypeOK, KeyInv, Enqueue, Goto, Fail, Holding, SameKey
  <1>7. CASE Respond(p)
    BY <1>7 DEF TypeOK, KeyInv, Respond, Holding, SameKey
  <1>8. CASE Commit(p)
    BY <1>8 DEF TypeOK, KeyInv, Commit, Holding, SameKey
  <1>9. CASE Abort(p)
    BY <1>9 DEF TypeOK, KeyInv, Abort, Running, Holding, SameKey
  <1>10. QED BY <1>1, <1>2, <1>3, <1>4, <1>5, <1>6, <1>7, <1>8, <1>9 DEF Step

\* The profile a request uses is committed, or its own.
LEMMA StepProfiles ==
  ASSUME TypeOK, KeyInv, ProfileInv, NEW p \in Posts, Step(p) \/ Abort(p)
  PROVE  ProfileInv'
  <1>1. CASE CheckRequest(p)
    BY <1>1 DEF TypeOK, ProfileInv, CheckRequest, Goto, Fail, Holding
  <1>2. CASE Lookup(p)
    BY <1>2, KindAssumption DEF TypeOK, ProfileInv, Lookup, Goto, Holding
  <1>3. CASE FindProfile(p) \/ InsertProfile(p)
    BY <1>3 DEF TypeOK, KeyInv, ProfileInv, FindProfile, InsertProfile, Goto, Holding
  <1>4. CASE RefuseRemediation(p) \/ InsertRun(p)
    BY <1>4 DEF TypeOK, ProfileInv, RefuseRemediation, InsertRun, Goto, Fail, Holding
  <1>5. CASE Enqueue(p) \/ Respond(p) \/ Abort(p)
    BY <1>5 DEF TypeOK, ProfileInv, Enqueue, Respond, Abort, Goto, Fail, Holding
  <1>6. CASE Commit(p)
    BY <1>6 DEF TypeOK, ProfileInv, Commit, Holding
  <1>7. QED BY <1>1, <1>2, <1>3, <1>4, <1>5, <1>6 DEF Step

\* Answers name committed runs, which stay committed.
LEMMA StepAnswers ==
  ASSUME TypeOK, AnswersAreRuns, NEW p \in Posts, Step(p) \/ Abort(p)
  PROVE  AnswersAreRuns'
  <1>1. CASE CheckRequest(p) \/ FindProfile(p) \/ InsertProfile(p) \/ RefuseRemediation(p)
    BY <1>1 DEF TypeOK, AnswersAreRuns, CheckRequest, FindProfile, InsertProfile,
       RefuseRemediation, Goto, Fail, SameKey
  <1>2. CASE Lookup(p)
    BY <1>2 DEF TypeOK, AnswersAreRuns, Lookup, Goto, SameKey
  <1>3. CASE InsertRun(p) \/ Enqueue(p) \/ Respond(p) \/ Commit(p) \/ Abort(p)
    BY <1>3 DEF TypeOK, AnswersAreRuns, InsertRun, Enqueue, Respond, Commit, Abort, Goto,
       Fail, SameKey
  <1>4. QED BY <1>1, <1>2, <1>3 DEF Step

\* The four parts are inductive together.
THEOREM Invariance == Spec => []IInv
  <1>1. IInv /\ [Next]_vars => IInv'
    <2> SUFFICES ASSUME IInv, [Next]_vars
                 PROVE  IInv'
      OBVIOUS
    <2>1. CASE UNCHANGED vars
      BY <2>1 DEF IInv, vars, TypeOK, KeyInv, ProfileInv, AnswersAreRuns, SameKey
    <2>2. ASSUME NEW p \in Posts, Step(p) \/ Abort(p)
          PROVE  IInv'
      BY <2>2, StepTypes, StepKeys, StepProfiles, StepAnswers DEF IInv
    <2>3. QED BY <2>1, <2>2 DEF Next, Finished
  <1>2. QED BY <1>1, InitIInv, PTL DEF Spec

\* An Idempotency-Key has at most one run, however its requests interleave.
THEOREM KeysAreUnique == Spec => []OneRunPerKey
  <1>1. IInv => OneRunPerKey
    BY DEF IInv, KeyInv, OneRunPerKey
  <1>2. QED BY <1>1, Invariance, PTL

\* No run is committed without its job.
THEOREM RunsAreEnqueued == Spec => []EveryRunEnqueued
  <1>1. IInv => EveryRunEnqueued
    BY DEF IInv, KeyInv, EveryRunEnqueued
  <1>2. QED BY <1>1, Invariance, PTL

\* A retry, or a request that finds the key taken, is answered with a committed run of its
\* own caller.
THEOREM AnswersHold == Spec => []AnswersAreRuns
  <1>1. IInv => AnswersAreRuns
    BY DEF IInv
  <1>2. QED BY <1>1, Invariance, PTL

\* An attack run hangs on a committed profile of its caller.
THEOREM RunsKeepProfiles == Spec => []RunsHaveProfiles
  <1>1. IInv => RunsHaveProfiles
    BY DEF IInv, ProfileInv, RunsHaveProfiles
  <1>2. QED BY <1>1, Invariance, PTL
=============================================================================
