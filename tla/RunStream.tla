----------------------------- MODULE RunStream -----------------------------
(***************************************************************************)
(* GET /v1/runs/{id}/events (src/app/api/v1/runs.py): a client follows a   *)
(* run over server-sent events while the run lives its life.               *)
(*                                                                         *)
(* The run itself is RunContract, which the workers, the queue and the     *)
(* cancel request implement.  A stream reads the committed row on a        *)
(* connection of its own, once before the response and once per poll; the  *)
(* row may change, or be erased with its user, between that read and the   *)
(* event, and the client may go away at any await.                         *)
(***************************************************************************)
EXTENDS Naturals, Sequences, SequencesExt

CONSTANTS
    Runs,       \* run ids
    Outputs,    \* kinds of row a run can produce
    Streams,    \* requests for a stream, reconnections included
    Watch,      \* Watch[s]: the run it is for
    MaxPolls    \* polls that fit before the deadline (30 of one second)

ASSUME WatchAssumption == Watch \in [Streams -> Runs]
ASSUME PollsAssumption == MaxPolls \in Nat \ {0}

VARIABLES
    status,     \* committed runs.status
    results,    \* committed output rows
    erased,     \* runs whose user was deleted
    pc,         \* what each stream is about to do
    row,        \* the status it read last
    last,       \* last_status
    polls,      \* polls made
    sent,       \* the events sent
    \* --- history, read by properties only
    life,       \* the committed statuses of each run, in order
    earlier     \* the streams of the same run that had ended when it opened

runVars == <<status, results, erased, life>>
streamVars == <<pc, row, last, polls, sent, earlier>>
vars == <<runVars, streamVars>>

Contract == INSTANCE RunContract

\* Mutant: a run that no worker has started counts as finished.
TerminalIdle == {"queued", "succeeded", "failed", "canceled"}

\* Mutant: cancel came later and was forgotten here.
TerminalUncanceled == {"succeeded", "failed"}

Terminal == {"succeeded", "failed", "canceled"}

Ended == {"closed", "dropped"}

Init ==
    /\ Contract!Init
    /\ erased = {}
    /\ life = [r \in Runs |-> <<>>]
    /\ pc = [s \in Streams |-> "new"]
    /\ row = [s \in Streams |-> "absent"]
    /\ last = [s \in Streams |-> "absent"]
    /\ polls = [s \in Streams |-> 0]
    /\ sent = [s \in Streams |-> <<>>]
    /\ earlier = [s \in Streams |-> {}]

-----------------------------------------------------------------------------
(* The run *)

RunStep(r) ==
    /\ r \notin erased
    /\ Contract!Submit(r) \/ Contract!Succeed(r) \/ Contract!GiveUp(r)
    /\ life' = [life EXCEPT ![r] = Append(@, status'[r])]
    /\ UNCHANGED <<erased, streamVars>>

\* The user is deleted, and the run with it.
Erase(r) ==
    /\ status[r] # "absent"
    /\ erased' = erased \cup {r}
    /\ UNCHANGED <<status, results, life, streamVars>>

-----------------------------------------------------------------------------
(* The stream *)

\* _read_run_scoped finds a row.
Found(s) == status[Watch[s]] # "absent" /\ Watch[s] \notin erased

Goto(s, label) == pc' = [pc EXCEPT ![s] = label]

Send(s, event) ==
    sent' = [sent EXCEPT ![s] = Append(@, [event |-> event, status |-> row[s]])]

\* Mutant: a replica that lags behind is read.
RunEventsStale(s) ==
    /\ pc[s] = "new"
    /\ \/ /\ Found(s)
          /\ \E st \in {"queued", status[Watch[s]]}: row' = [row EXCEPT ![s] = st]
          /\ Goto(s, "first")
       \/ ~Found(s) /\ Goto(s, "dropped") /\ UNCHANGED row
    /\ earlier' = [earlier EXCEPT ![s] =
           {q \in Streams: pc[q] \in Ended /\ Watch[q] = Watch[s]}]
    /\ UNCHANGED <<runVars, last, polls, sent>>

\* run_events: the row the stream starts from, or 404.
RunEvents(s) ==
    /\ pc[s] = "new"
    /\ \/ Found(s) /\ Goto(s, "first") /\ row' = [row EXCEPT ![s] = status[Watch[s]]]
       \/ ~Found(s) /\ Goto(s, "dropped") /\ UNCHANGED row
    /\ earlier' = [earlier EXCEPT ![s] =
           {q \in Streams: pc[q] \in Ended /\ Watch[q] = Watch[s]}]
    /\ UNCHANGED <<runVars, last, polls, sent>>

\* The first event, and after it the end or the loop.
First(s) ==
    /\ pc[s] = "first"
    /\ Send(s, "status")
    /\ last' = [last EXCEPT ![s] = row[s]]
    /\ Goto(s, IF row[s] \in Terminal THEN "done" ELSE "poll")
    /\ UNCHANGED <<runVars, row, polls, earlier>>

\* Mutant: a terminal status is announced by "done" alone.
AfterReadSettled(s, st) ==
    IF st \in Terminal THEN "done" ELSE IF st # last[s] THEN "change" ELSE "poll"

\* What follows a read of status st.
AfterRead(s, st) ==
    IF st # last[s] THEN "change" ELSE IF st \in Terminal THEN "done" ELSE "poll"

\* _read_run_scoped within the loop; an erased run ends the stream.
Read(s) ==
    /\ \/ /\ Found(s)
          /\ row' = [row EXCEPT ![s] = status[Watch[s]]]
          /\ Goto(s, AfterRead(s, status[Watch[s]]))
       \/ ~Found(s) /\ Goto(s, "dropped") /\ UNCHANGED row
    /\ UNCHANGED <<runVars, last, sent, earlier>>

\* Mutant: the loop has no deadline.
PollForever(s) == pc[s] = "poll" /\ Read(s) /\ UNCHANGED polls

\* One turn of the loop: sleep, read, compare.
Poll(s) ==
    /\ pc[s] = "poll"
    /\ polls[s] < MaxPolls
    /\ polls' = [polls EXCEPT ![s] = @ + 1]
    /\ Read(s)

Change(s) ==
    /\ pc[s] = "change"
    /\ Send(s, "status")
    /\ last' = [last EXCEPT ![s] = row[s]]
    /\ Goto(s, IF row[s] \in Terminal THEN "done" ELSE "poll")
    /\ UNCHANGED <<runVars, row, polls, earlier>>

Done(s) ==
    /\ pc[s] = "done"
    /\ Send(s, "done")
    /\ Goto(s, "closed")
    /\ UNCHANGED <<runVars, row, last, polls, earlier>>

\* The loop's condition fails.  It holds at least once; slow reads may leave time
\* for fewer polls than MaxPolls.
Deadline(s) ==
    /\ pc[s] = "poll"
    /\ polls[s] > 0
    /\ Goto(s, "closed")
    /\ UNCHANGED <<runVars, row, last, polls, sent, earlier>>

\* The client disconnects, or the read raises.
Drop(s) ==
    /\ pc[s] \notin {"new"} \cup Ended
    /\ Goto(s, "dropped")
    /\ UNCHANGED <<runVars, row, last, polls, sent, earlier>>

Serve(s) == First(s) \/ Poll(s) \/ Change(s) \/ Done(s) \/ Deadline(s)

Next ==
    \/ \E r \in Runs: RunStep(r) \/ Erase(r)
    \/ \E s \in Streams: RunEvents(s) \/ Serve(s) \/ Drop(s)

Spec == Init /\ [][Next]_vars

\* The event loop keeps running the generator; nothing is assumed of the run.
FairSpec == Spec /\ \A s \in Streams: WF_vars(Serve(s))

-----------------------------------------------------------------------------
(* Properties *)

TypeOK ==
    /\ status \in [Runs -> {"absent", "queued"} \cup Terminal]
    /\ erased \subseteq Runs
    /\ pc \in [Streams -> {"new", "first", "poll", "change", "done"} \cup Ended]
    /\ row \in [Streams -> {"absent", "queued"} \cup Terminal]
    /\ last \in [Streams -> {"absent", "queued"} \cup Terminal]
    /\ polls \in [Streams -> 0..MaxPolls]
    /\ sent \in [Streams -> Seq([event: {"status", "done"}, status: {"queued"} \cup Terminal])]
    /\ earlier \in [Streams -> SUBSET Streams]

IsDone(s) == sent[s] # <<>> /\ Last(sent[s]).event = "done"

Shown(s) == {sent[s][i].status: i \in DOMAIN sent[s]}

\* A "done" event is the last one, and what it says stays true: the run ended that
\* way and keeps that status, though it may have changed between read and event.
DoneIsTrue ==
    \A s \in Streams: \A i \in DOMAIN sent[s]: sent[s][i].event = "done" =>
        /\ i = Len(sent[s])
        /\ sent[s][i].status \in {"succeeded", "failed", "canceled"}
        /\ sent[s][i].status = status[Watch[s]]

\* _run_event_stream: "emit a status event on each change and a final done event at
\* a terminal state".  Polling loses nothing: a stream that ends in "done" has sent,
\* once each and in order, every status the run had from the first one sent.
EveryChangeSent ==
    \A s \in Streams: IsDone(s) =>
        LET past == life[Watch[s]]  count == Len(sent[s]) - 1 IN
        \E k \in 0..Len(past):
            /\ Len(past) = k + count
            /\ \A i \in 1..count: sent[s][i] = [event |-> "status", status |-> past[k + i]]

\* A client that reconnects after its stream ended is never shown an older status
\* than it was shown before.
NeverBackwards ==
    \A s \in Streams: \A q \in earlier[s]:
        "queued" \in Shown(s) => Shown(q) \subseteq {"queued"}

\* A stream does not stay open for ever, whatever becomes of the run (_SSE_MAX_SECONDS).
StreamEnds == \A s \in Streams: pc[s] = "first" ~> pc[s] \in Ended

\* A stream that has not polled yet when its run ends reports it, unless the client
\* goes away or the run is erased.
EndIsReported ==
    \A s \in Streams:
        pc[s] = "poll" /\ polls[s] = 0 /\ status[Watch[s]] \in {"succeeded", "failed", "canceled"}
            ~> IsDone(s) \/ pc[s] = "dropped"

-----------------------------------------------------------------------------
(* The inductive invariant behind DoneIsTrue, NeverBackwards and EveryChangeSent. *)

\* A terminal status that was read or sent is the run's for good.
ReadInv ==
    \A s \in Streams:
        /\ row[s] = "absent" => pc[s] \in {"new", "dropped"}
        /\ pc[s] = "new" => row[s] = "absent" /\ sent[s] = <<>>
        /\ pc[s] = "done" => row[s] \in Terminal
        /\ \A st \in {row[s]} \cup Shown(s): st \in Terminal => st = status[Watch[s]]

\* Nothing follows "done".
DoneInv ==
    \A s \in Streams: \A i \in DOMAIN sent[s]: sent[s][i].event = "done" =>
        /\ i = Len(sent[s])
        /\ sent[s][i].status \in Terminal
        /\ pc[s] \in Ended

\* Once an earlier stream has shown the end, this one can read nothing else.
EarlierInv ==
    \A s \in Streams: \A q \in earlier[s]:
        /\ pc[q] \in Ended /\ Watch[q] = Watch[s]
        /\ pc[s] # "new"
        /\ Shown(q) \subseteq {"queued"} \/ "queued" \notin {row[s]} \cup Shown(s)

\* A run has lived through "queued", and through its end if it has one.
LifeInv ==
    life = [r \in Runs |->
               IF status[r] = "absent" THEN <<>>
               ELSE IF status[r] = "queued" THEN <<"queued">> ELSE <<"queued", status[r]>>]

StatusEvent(st) == [event |-> "status", status |-> st]
DoneEvent(st) == [event |-> "done", status |-> st]

\* What a stream has sent: nothing, then "queued" unless it opened after the end, then the
\* end, and "done".
SentInv ==
    \A s \in Streams:
        /\ pc[s] \in {"new", "first"} => sent[s] = <<>>
        /\ pc[s] \in {"poll", "change"} =>
               last[s] = "queued" /\ sent[s] = <<StatusEvent("queued")>>
        /\ pc[s] = "change" => row[s] \in Terminal
        /\ pc[s] = "done" => sent[s] \in {<<StatusEvent(row[s])>>,
                                         <<StatusEvent("queued"), StatusEvent(row[s])>>}
        /\ IsDone(s) =>
               /\ row[s] \in Terminal
               /\ sent[s] \in {<<StatusEvent(row[s]), DoneEvent(row[s])>>,
                              <<StatusEvent("queued"), StatusEvent(row[s]), DoneEvent(row[s])>>}

IInv == TypeOK /\ ReadInv /\ DoneInv /\ EarlierInv /\ LifeInv /\ SentInv
=============================================================================
