-------------------------- MODULE RunStreamProofs --------------------------
(* Theorems of RunStream: what a stream says of a run is true and never goes  *)
(* back, for any runs, any number of streams and any deadline.                *)
EXTENDS RunStream, TLAPS

USE WatchAssumption, PollsAssumption

Events == [event: {"status", "done"}, status: {"queued"} \cup Terminal]

-----------------------------------------------------------------------------
(* Sending *)

\* What one more event does to the events of a stream: one is added at the end,
\* and the stream has then shown the status it read last as well.
LEMMA Sent ==
    ASSUME TypeOK, NEW s \in Streams, NEW event \in {"status", "done"},
           row[s] # "absent", Send(s, event)
    PROVE /\ sent' \in [Streams -> Seq(Events)]
          /\ \A q \in Streams \ {s}: sent'[q] = sent[q]
          /\ Len(sent'[s]) = Len(sent[s]) + 1
          /\ DOMAIN sent'[s] = 1..Len(sent[s]) + 1
          /\ DOMAIN sent[s] = 1..Len(sent[s])
          /\ \A i \in DOMAIN sent[s]: sent'[s][i] = sent[s][i]
          /\ sent'[s][Len(sent[s]) + 1] = [event |-> event, status |-> row[s]]
          /\ Shown(s)' = Shown(s) \cup {row[s]}
          /\ \A q \in Streams \ {s}: Shown(q)' = Shown(q)
<1> DEFINE e == [event |-> event, status |-> row[s]]
<1>1. e \in Events
    BY DEF TypeOK, Events
<1>2. sent \in [Streams -> Seq(Events)]
    BY DEF TypeOK, Events
<1>3. sent' = [sent EXCEPT ![s] = Append(@, e)]
    BY DEF Send
<1> HIDE DEF e
<1>4. sent'[s] = Append(sent[s], e) /\ sent[s] \in Seq(Events)
    BY <1>2, <1>3
<1>5. Append(sent[s], e) \in Seq(Events)
    BY <1>1, <1>4
<1>6. sent' \in [Streams -> Seq(Events)] /\ \A q \in Streams \ {s}: sent'[q] = sent[q]
    BY <1>2, <1>3, <1>4, <1>5
<1>7. /\ Len(sent'[s]) = Len(sent[s]) + 1
      /\ DOMAIN sent'[s] = 1..Len(sent[s]) + 1
      /\ DOMAIN sent[s] = 1..Len(sent[s])
      /\ \A i \in DOMAIN sent[s]: sent'[s][i] = sent[s][i]
      /\ sent'[s][Len(sent[s]) + 1] = e
    BY <1>1, <1>4
<1>8. \A q \in Streams \ {s}: Shown(q)' = Shown(q)
    BY <1>6 DEF Shown
<1>9. Shown(s)' = Shown(s) \cup {row[s]}
    <2>1. Len(sent[s]) \in Nat
        BY <1>4
    <2>2. 1..Len(sent[s]) + 1 = (1..Len(sent[s])) \cup {Len(sent[s]) + 1}
        BY <2>1
    <2>3. /\ Shown(s)' = {sent'[s][i].status: i \in 1..Len(sent[s]) + 1}
          /\ Shown(s) = {sent[s][i].status: i \in 1..Len(sent[s])}
        BY <1>7 DEF Shown
    <2>4. sent'[s][Len(sent[s]) + 1].status = row[s]
        BY <1>7 DEF e
    <2>5. \A i \in 1..Len(sent[s]): sent'[s][i].status = sent[s][i].status
        BY <1>7
    <2> QED BY <2>2, <2>3, <2>4, <2>5
<1> QED BY <1>6, <1>7, <1>8, <1>9 DEF e


\* A stream shows only statuses of committed runs.
LEMMA ShownType ==
    ASSUME TypeOK, NEW s \in Streams
    PROVE Shown(s) \subseteq {"queued"} \cup Terminal
<1>1. sent[s] \in Seq(Events)
    BY DEF TypeOK, Events
<1>2. \A i \in DOMAIN sent[s]: sent[s][i] \in Events
    BY <1>1
<1> QED BY <1>2 DEF Shown, Events

\* Sending an event keeps the invariant when "done" is sent at a terminal status and
\* ends the stream.
LEMMA SendStep ==
    ASSUME IInv, NEW s \in Streams, NEW event \in {"status", "done"},
           NEW label \in {"poll", "done", "closed"},
           Send(s, event), Goto(s, label),
           pc[s] \in {"first", "change", "done"},
           label = "done" => row[s] \in Terminal,
           event = "done" => row[s] \in Terminal /\ label = "closed",
           UNCHANGED <<status, row, earlier>>
    PROVE ReadInv' /\ DoneInv' /\ EarlierInv'
<1>1. row[s] # "absent"
    BY DEF IInv, ReadInv
<1>2. /\ \A q \in Streams \ {s}: sent'[q] = sent[q] /\ Shown(q)' = Shown(q)
      /\ Len(sent'[s]) = Len(sent[s]) + 1
      /\ DOMAIN sent'[s] = 1..Len(sent[s]) + 1
      /\ DOMAIN sent[s] = 1..Len(sent[s])
      /\ \A i \in DOMAIN sent[s]: sent'[s][i] = sent[s][i]
      /\ sent'[s][Len(sent[s]) + 1] = [event |-> event, status |-> row[s]]
      /\ Shown(s)' = Shown(s) \cup {row[s]}
    BY <1>1, Sent DEF IInv
<1>3. pc'[s] = label /\ \A q \in Streams \ {s}: pc'[q] = pc[q]
    BY DEF Goto, IInv, TypeOK, Ended
<1>4. ReadInv'
    BY <1>1, <1>2, <1>3 DEF IInv, ReadInv
<1>5. DoneInv'
    <2> SUFFICES ASSUME NEW q \in Streams, NEW i \in DOMAIN sent'[q], sent'[q][i].event = "done"
                 PROVE /\ i = Len(sent'[q])
                       /\ sent'[q][i].status \in Terminal
                       /\ pc'[q] \in Ended
        BY DEF DoneInv
    <2>1. CASE q # s
        BY <1>2, <1>3, <2>1 DEF IInv, DoneInv
    <2>2. CASE q = s /\ i = Len(sent[s]) + 1
        BY <1>2, <1>3, <2>2 DEF Ended
    <2>3. CASE q = s /\ i # Len(sent[s]) + 1
        <3>1. i \in DOMAIN sent[s] /\ sent[s][i].event = "done"
            <4>1. Len(sent[s]) \in Nat
                BY DEF IInv, TypeOK
            <4> QED BY <1>2, <2>3, <4>1
        <3>2. pc[s] \in Ended
            BY <3>1 DEF IInv, DoneInv
        <3> QED BY <3>2 DEF Ended
    <2> QED BY <2>1, <2>2, <2>3
<1>6. EarlierInv'
    <2> SUFFICES ASSUME NEW t \in Streams, NEW q \in earlier[t]
                 PROVE /\ pc'[q] \in Ended /\ Watch[q] = Watch[t]
                       /\ pc'[t] # "new"
                       /\ Shown(q)' \subseteq {"queued"} \/ "queued" \notin {row[t]} \cup Shown(t)'
        BY DEF EarlierInv
    <2>1. /\ q \in Streams
          /\ pc[q] \in Ended /\ Watch[q] = Watch[t]
          /\ pc[t] # "new"
          /\ Shown(q) \subseteq {"queued"} \/ "queued" \notin {row[t]} \cup Shown(t)
        BY DEF IInv, EarlierInv, TypeOK
    <2>2. q # s
        BY <2>1 DEF Ended
    <2> QED BY <1>2, <1>3, <2>1, <2>2
<1> QED BY <1>4, <1>5, <1>6

\* Reading the run, ending or being dropped keeps it: what is read is either the
\* row as before or the committed status.
LEMMA ReadStep ==
    ASSUME IInv, NEW s \in Streams, NEW st,
           NEW label \in {"poll", "change", "done", "closed", "dropped"},
           Goto(s, label),
           row' = [row EXCEPT ![s] = st],
           \/ st = row[s]
           \/ st = status[Watch[s]] /\ st # "absent",
           pc[s] \notin {"new"} \cup Ended,
           label = "done" => st \in Terminal,
           UNCHANGED <<status, sent, earlier>>
    PROVE ReadInv' /\ DoneInv' /\ EarlierInv'
<1>1. /\ \A q \in Streams: Shown(q)' = Shown(q) /\ sent'[q] = sent[q]
      /\ row'[s] = st /\ \A q \in Streams \ {s}: row'[q] = row[q]
      /\ pc'[s] = label /\ \A q \in Streams \ {s}: pc'[q] = pc[q]
    BY DEF Shown, Goto, IInv, TypeOK
<1>2. ReadInv'
    BY <1>1 DEF IInv, ReadInv, Ended
<1>3. DoneInv'
    BY <1>1 DEF IInv, DoneInv
<1>4. EarlierInv'
    <2> SUFFICES ASSUME NEW t \in Streams, NEW q \in earlier[t]
                 PROVE /\ pc'[q] \in Ended /\ Watch[q] = Watch[t]
                       /\ pc'[t] # "new"
                       /\ Shown(q) \subseteq {"queued"} \/ "queued" \notin {row'[t]} \cup Shown(t)
        BY <1>1 DEF EarlierInv, IInv, TypeOK
    <2>1. /\ q \in Streams
          /\ pc[q] \in Ended /\ Watch[q] = Watch[t]
          /\ pc[t] # "new"
          /\ Shown(q) \subseteq {"queued"} \/ "queued" \notin {row[t]} \cup Shown(t)
        BY DEF IInv, EarlierInv, TypeOK
    <2>2. pc'[q] \in Ended /\ pc'[t] # "new"
        BY <1>1, <2>1 DEF Ended
    <2>3. ASSUME ~(Shown(q) \subseteq {"queued"}) PROVE row'[t] # "queued"
        <3>1. PICK x \in Shown(q): x \in Terminal
            <4>1. Shown(q) \subseteq {"queued"} \cup Terminal
                BY <2>1, ShownType DEF IInv
            <4> QED BY <2>3, <4>1
        <3>2. status[Watch[t]] = x
            BY <2>1, <3>1 DEF IInv, ReadInv
        <3> QED BY <1>1, <2>1, <2>3, <3>1, <3>2 DEF Terminal
    <2> QED BY <2>1, <2>2, <2>3
<1> QED BY <1>2, <1>3, <1>4

\* Every step keeps the types.
LEMMA TypesStep == IInv /\ [Next]_vars => TypeOK'
<1> SUFFICES ASSUME IInv, [Next]_vars PROVE TypeOK'
    OBVIOUS
<1> USE DEF IInv
<1>1. ASSUME NEW r \in Runs, RunStep(r) PROVE TypeOK'
    <2>1. status' \in [Runs -> {"absent", "queued"} \cup Terminal]
        BY <1>1 DEF RunStep, Contract!Submit, Contract!Succeed, Contract!GiveUp, TypeOK, Terminal
    <2> QED BY <1>1, <2>1 DEF RunStep, streamVars, TypeOK
<1>2. ASSUME NEW r \in Runs, Erase(r) PROVE TypeOK'
    BY <1>2 DEF Erase, streamVars, TypeOK
<1>3. ASSUME NEW s \in Streams, RunEvents(s) PROVE TypeOK'
    <2>1. /\ UNCHANGED <<runVars, last, polls, sent>>
          /\ earlier' \in [Streams -> SUBSET Streams]
        BY <1>3 DEF RunEvents, TypeOK
    <2>2. /\ pc' \in [Streams -> {"new", "first", "poll", "change", "done"} \cup Ended]
          /\ row' \in [Streams -> {"absent", "queued"} \cup Terminal]
        <3>1. CASE Found(s) /\ Goto(s, "first") /\ row' = [row EXCEPT ![s] = status[Watch[s]]]
            <4>1. Watch[s] \in Runs /\ status[Watch[s]] \in {"absent", "queued"} \cup Terminal
                BY WatchAssumption DEF TypeOK
            <4> QED BY <3>1, <4>1 DEF Goto, TypeOK
        <3>2. CASE Goto(s, "dropped") /\ UNCHANGED row
            BY <3>2 DEF Goto, TypeOK, Ended
        <3> QED BY <1>3, <3>1, <3>2 DEF RunEvents
    <2> QED BY <2>1, <2>2 DEF runVars, TypeOK
<1>4. ASSUME NEW s \in Streams, First(s) \/ Change(s) \/ Done(s) PROVE TypeOK'
    <2>1. PICK event \in {"status", "done"}: Send(s, event)
        BY <1>4 DEF First, Change, Done
    <2>2. row[s] # "absent"
        BY <1>4 DEF First, Change, Done, ReadInv
    <2>3. sent' \in [Streams -> Seq([event: {"status", "done"}, status: {"queued"} \cup Terminal])]
        BY <2>1, <2>2, Sent DEF Events
    <2> QED BY <1>4, <2>3 DEF First, Change, Done, runVars, Goto, TypeOK, Ended
<1>5. ASSUME NEW s \in Streams, Poll(s) PROVE TypeOK'
    <2>1. status[Watch[s]] \in {"absent", "queued"} \cup Terminal
        BY DEF TypeOK
    <2>2. row' \in [Streams -> {"absent", "queued"} \cup Terminal]
        BY <1>5, <2>1 DEF Poll, Read, TypeOK
    <2>3. pc' \in [Streams -> {"new", "first", "poll", "change", "done"} \cup Ended]
        BY <1>5 DEF Poll, Read, AfterRead, Goto, TypeOK, Ended
    <2>4. polls' \in [Streams -> 0..MaxPolls]
        <3>1. polls[s] + 1 \in 0..MaxPolls
            BY <1>5 DEF Poll, TypeOK
        <3> QED BY <1>5, <3>1 DEF Poll, TypeOK
    <2> QED BY <1>5, <2>2, <2>3, <2>4 DEF Poll, Read, runVars, TypeOK
<1>6. ASSUME NEW s \in Streams, Deadline(s) \/ Drop(s) PROVE TypeOK'
    BY <1>6 DEF Deadline, Drop, runVars, Goto, TypeOK, Ended
<1>7. CASE UNCHANGED vars
    BY <1>7 DEF vars, runVars, streamVars, TypeOK
<1> QED BY <1>1, <1>2, <1>3, <1>4, <1>5, <1>6, <1>7 DEF Next, Serve

\* A stream that opens reads the committed row, and nothing has been sent on it.
LEMMA OpenStep ==
    ASSUME IInv, NEW s \in Streams, RunEvents(s)
    PROVE ReadInv' /\ DoneInv' /\ EarlierInv'
<1>1. /\ \A q: Shown(q)' = Shown(q)
      /\ \A q \in Streams: sent'[q] = sent[q]
      /\ \A q \in Streams \ {s}: row'[q] = row[q] /\ pc'[q] = pc[q] /\ earlier'[q] = earlier[q]
      /\ earlier'[s] = {q \in Streams: pc[q] \in Ended /\ Watch[q] = Watch[s]}
      /\ \/ pc'[s] = "first" /\ row'[s] = status[Watch[s]] /\ row'[s] # "absent"
         \/ pc'[s] = "dropped" /\ row'[s] = row[s]
      /\ pc[s] = "new" /\ sent[s] = <<>> /\ Shown(s) = {}
      /\ status' = status
    BY DEF RunEvents, runVars, Found, Shown, Goto, IInv, TypeOK, ReadInv
<1>2. ReadInv'
    BY <1>1 DEF IInv, ReadInv
<1>3. DoneInv'
    BY <1>1 DEF IInv, DoneInv, Ended
<1>4. EarlierInv'
    <2> SUFFICES ASSUME NEW t \in Streams, NEW q \in earlier'[t]
                 PROVE /\ pc'[q] \in Ended /\ Watch[q] = Watch[t]
                       /\ pc'[t] # "new"
                       /\ Shown(q) \subseteq {"queued"} \/ "queued" \notin {row'[t]} \cup Shown(t)
        BY <1>1 DEF EarlierInv
    <2>1. CASE t # s
        <3>1. q \in earlier[t] /\ q \in Streams
            BY <1>1, <2>1 DEF IInv, TypeOK
        <3>2. /\ pc[q] \in Ended /\ Watch[q] = Watch[t]
              /\ pc[t] # "new"
              /\ Shown(q) \subseteq {"queued"} \/ "queued" \notin {row[t]} \cup Shown(t)
            BY <3>1 DEF EarlierInv, IInv
        <3> QED BY <1>1, <2>1, <3>1, <3>2 DEF Ended
    <2>2. CASE t = s
        <3>1. q \in Streams /\ pc[q] \in Ended /\ Watch[q] = Watch[t] /\ q # s
            BY <1>1, <2>2 DEF Ended
        <3>2. ASSUME ~(Shown(q) \subseteq {"queued"}) PROVE row'[s] # "queued"
            <4>1. PICK x \in Shown(q): x \in Terminal
                BY <3>1, <3>2, ShownType DEF IInv
            <4>2. status[Watch[s]] = x
                BY <2>2, <3>1, <4>1 DEF IInv, ReadInv
            <4>3. row[s] # "queued"
                BY <1>1 DEF IInv, ReadInv
            <4> QED BY <1>1, <4>1, <4>2, <4>3 DEF Terminal
        <3> QED BY <1>1, <2>2, <3>1, <3>2
    <2> QED BY <2>1, <2>2
<1> QED BY <1>2, <1>3, <1>4

\* The run changes at most once after it was created, so what streams know of its end
\* stays true.
LEMMA RunStepKeeps ==
    ASSUME IInv, NEW r \in Runs, RunStep(r) \/ Erase(r)
    PROVE ReadInv' /\ DoneInv' /\ EarlierInv'
<1>1. /\ UNCHANGED streamVars
      /\ \A q \in Runs: status[q] \in Terminal => status'[q] = status[q]
    BY DEF RunStep, Erase, Contract!Submit, Contract!Succeed, Contract!GiveUp, IInv, TypeOK, Terminal
<1>2. \A s: Shown(s)' = Shown(s)
    BY <1>1 DEF Shown, streamVars
<1> QED BY <1>1, <1>2 DEF streamVars, IInv, ReadInv, DoneInv, EarlierInv

-----------------------------------------------------------------------------
(* What the run went through, and what of it was sent. *)

\* Appending to short sequences.
LEMMA AppendShort ==
    ASSUME NEW x, NEW y, NEW z
    PROVE  /\ Append(<<>>, x) = <<x>>
           /\ Append(<<x>>, y) = <<x, y>>
           /\ Append(<<x, y>>, z) = <<x, y, z>>
<1>1. Append(<<>>, x) = <<x>>
    OBVIOUS
<1>2. Append(<<x>>, y) = <<x, y>>
    <2> DEFINE t == Append(<<x>>, y)
    <2>1. <<x>> \in Seq({x, y}) /\ y \in {x, y}
        OBVIOUS
    <2>2. t \in Seq({x, y}) /\ Len(t) = 2 /\ t[1] = x /\ t[2] = y
        BY <2>1
    <2> HIDE DEF t
    <2>3. t = <<x, y>>
        BY <2>2
    <2> QED BY <2>3 DEF t
<1>3. Append(<<x, y>>, z) = <<x, y, z>>
    <2> DEFINE t == Append(<<x, y>>, z)
    <2>1. <<x, y>> \in Seq({x, y, z}) /\ z \in {x, y, z}
        OBVIOUS
    <2>2. t \in Seq({x, y, z}) /\ Len(t) = 3 /\ t[1] = x /\ t[2] = y /\ t[3] = z
        BY <2>1
    <2> HIDE DEF t
    <2>3. t = <<x, y, z>>
        BY <2>2
    <2> QED BY <2>3 DEF t
<1> QED BY <1>1, <1>2, <1>3

\* A run's past grows with its status.
LEMMA LifeStep == IInv /\ [Next]_vars => LifeInv'
<1> SUFFICES ASSUME IInv, [Next]_vars PROVE LifeInv'
    OBVIOUS
<1>1. ASSUME NEW r \in Runs, RunStep(r) PROVE LifeInv'
    <2>1. life' = [life EXCEPT ![r] = Append(@, status'[r])]
        BY <1>1 DEF RunStep
    <2>2. \/ status[r] = "absent" /\ status' = [status EXCEPT ![r] = "queued"]
          \/ /\ status[r] = "queued"
             /\ \E st \in Terminal: status' = [status EXCEPT ![r] = st]
        BY <1>1 DEF RunStep, Contract!Submit, Contract!Succeed, Contract!GiveUp, Terminal
    <2>3. CASE status[r] = "absent" /\ status' = [status EXCEPT ![r] = "queued"]
        <3>1. life'[r] = <<"queued">> /\ status'[r] = "queued"
            BY <2>1, <2>3, AppendShort DEF IInv, TypeOK, LifeInv
        <3> QED BY <2>1, <2>3, <3>1 DEF IInv, TypeOK, LifeInv
    <2>4. ASSUME NEW st \in Terminal, status[r] = "queued", status' = [status EXCEPT ![r] = st]
          PROVE  LifeInv'
        <3>1. life[r] = <<"queued">> /\ status'[r] = st
            BY <2>4 DEF IInv, TypeOK, LifeInv
        <3>2. life'[r] = <<"queued", st>>
            BY <2>1, <3>1, AppendShort DEF IInv, LifeInv
        <3> QED BY <2>1, <2>4, <3>1, <3>2 DEF IInv, TypeOK, LifeInv, Terminal
    <2> QED BY <2>2, <2>3, <2>4
<1>2. CASE UNCHANGED <<status, life>>
    BY <1>2 DEF IInv, LifeInv
<1>3. UNCHANGED <<status, life>> \/ \E r \in Runs: RunStep(r)
    BY DEF Next, vars, runVars, Erase, RunEvents, Serve, First, Poll, Read, Change, Done,
       Deadline, Drop
<1> QED BY <1>1, <1>2, <1>3

\* The part of SentInv about one stream.
SentBy(s) ==
    /\ pc[s] \in {"new", "first"} => sent[s] = <<>>
    /\ pc[s] \in {"poll", "change"} =>
           last[s] = "queued" /\ sent[s] = <<StatusEvent("queued")>>
    /\ pc[s] = "change" => row[s] \in Terminal
    /\ pc[s] = "done" => sent[s] \in {<<StatusEvent(row[s])>>,
                                     <<StatusEvent("queued"), StatusEvent(row[s])>>}
    /\ IsDone(s) =>
           /\ row[s] \in Terminal
           /\ sent[s] \in {<<StatusEvent(row[s]), DoneEvent(row[s])>>,
                          <<StatusEvent("queued"), StatusEvent(row[s]), DoneEvent(row[s])>>}

\* A stream whose variables do not change has sent what it had.
LEMMA OthersSent ==
    ASSUME NEW s \in Streams, SentBy(s),
           pc'[s] = pc[s], sent'[s] = sent[s], last'[s] = last[s], row'[s] = row[s]
    PROVE  SentBy(s)'
BY DEF SentBy, IsDone

\* An open stream that stays open, or ends without "done", sends nothing and is not done.
LEMMA NotDone ==
    ASSUME TypeOK, DoneInv, NEW s \in Streams, pc[s] \notin Ended, IsDone(s)
    PROVE  FALSE
<1>1. Len(sent[s]) \in DOMAIN sent[s]
    BY DEF TypeOK, IsDone
<1> QED BY <1>1 DEF IsDone, Last, DoneInv

LEMMA SentStep == IInv /\ [Next]_vars => SentInv'
<1> SUFFICES ASSUME IInv, [Next]_vars, NEW s \in Streams PROVE SentBy(s)'
    BY DEF SentInv, SentBy
<1>1. SentBy(s)
    BY DEF IInv, SentInv, SentBy
<1>2. /\ row[s] \in {"absent", "queued"} \cup Terminal
      /\ status[Watch[s]] \in {"absent", "queued"} \cup Terminal
      /\ "queued" \notin Terminal /\ "absent" \notin Terminal
      /\ sent[s] \in Seq(Events)
      /\ IsDone(s) => pc[s] \in Ended
    BY NotDone DEF IInv, TypeOK, Terminal, Events
<1>3. ASSUME NEW q \in Streams, q # s, RunEvents(q) \/ Serve(q) \/ Drop(q) PROVE SentBy(s)'
    <2>1. pc'[s] = pc[s] /\ sent'[s] = sent[s] /\ last'[s] = last[s] /\ row'[s] = row[s]
        BY <1>3 DEF RunEvents, Serve, First, Poll, Read, Change, Done, Deadline, Drop, Send, Goto,
           IInv, TypeOK
    <2> QED BY <1>1, <2>1, OthersSent
<1>4. CASE RunEvents(s)
    <2>1. pc'[s] \in {"first", "dropped"} /\ sent'[s] = <<>>
        BY <1>1, <1>4 DEF RunEvents, Goto, IInv, TypeOK, SentBy
    <2> QED BY <2>1 DEF SentBy, IsDone
<1>5. CASE First(s) \/ Change(s)
    <2>1. /\ sent'[s] = Append(sent[s], StatusEvent(row[s]))
          /\ last'[s] = row[s] /\ row'[s] = row[s]
          /\ pc'[s] = IF row[s] \in Terminal THEN "done" ELSE "poll"
          /\ pc[s] \in {"first", "change"}
        BY <1>5 DEF First, Change, Send, Goto, StatusEvent, IInv, TypeOK
    <2>2. row[s] \in {"queued"} \cup Terminal
        BY <1>2, <2>1 DEF IInv, ReadInv
    <2>3. CASE pc[s] = "first"
        <3>1. sent'[s] = <<StatusEvent(row[s])>>
            BY <1>1, <2>1, <2>3, AppendShort DEF SentBy
        <3>2. ~IsDone(s)'
            BY <3>1 DEF IsDone, Last, StatusEvent
        <3> QED BY <1>2, <2>1, <2>2, <3>1, <3>2 DEF SentBy
    <2>4. CASE pc[s] = "change"
        <3>1. row[s] \in Terminal /\ sent'[s] = <<StatusEvent("queued"), StatusEvent(row[s])>>
            BY <1>1, <2>1, <2>4, AppendShort DEF SentBy
        <3>2. ~IsDone(s)'
            BY <3>1 DEF IsDone, Last, StatusEvent
        <3> QED BY <2>1, <3>1, <3>2 DEF SentBy
    <2> QED BY <2>1, <2>3, <2>4
<1>6. CASE Done(s)
    <2>1. /\ sent'[s] = Append(sent[s], DoneEvent(row[s]))
          /\ row'[s] = row[s] /\ pc[s] = "done" /\ pc'[s] = "closed"
        BY <1>6 DEF Done, Send, Goto, DoneEvent, IInv, TypeOK
    <2>2. row[s] \in Terminal
        BY <2>1 DEF IInv, ReadInv
    <2>3. sent'[s] \in {<<StatusEvent(row[s]), DoneEvent(row[s])>>,
                       <<StatusEvent("queued"), StatusEvent(row[s]), DoneEvent(row[s])>>}
        <3>1. sent[s] \in {<<StatusEvent(row[s])>>, <<StatusEvent("queued"), StatusEvent(row[s])>>}
            BY <1>1, <2>1 DEF SentBy
        <3>2. CASE sent[s] = <<StatusEvent(row[s])>>
            BY <2>1, <3>2, AppendShort
        <3>3. CASE sent[s] = <<StatusEvent("queued"), StatusEvent(row[s])>>
            <4>1. Append(<<StatusEvent("queued"), StatusEvent(row[s])>>, DoneEvent(row[s]))
                      = <<StatusEvent("queued"), StatusEvent(row[s]), DoneEvent(row[s])>>
                BY AppendShort, Zenon
            <4> QED BY <2>1, <3>3, <4>1
        <3> QED BY <3>1, <3>2, <3>3
    <2> QED BY <2>1, <2>2, <2>3 DEF SentBy
<1>7. CASE Poll(s)
    <2>1. /\ sent'[s] = sent[s] /\ last'[s] = last[s] /\ pc[s] = "poll" /\ ~IsDone(s)
          /\ \/ /\ status[Watch[s]] # "absent" /\ row'[s] = status[Watch[s]]
                /\ pc'[s] = AfterRead(s, status[Watch[s]])
             \/ pc'[s] = "dropped"
        <3>1. pc[s] = "poll" /\ ~IsDone(s)
            BY <1>2, <1>7 DEF Poll, Ended
        <3>2. sent' = sent /\ last' = last
            BY <1>7 DEF Poll, Read
        <3>3. \/ /\ status[Watch[s]] # "absent" /\ row'[s] = status[Watch[s]]
                 /\ pc'[s] = AfterRead(s, status[Watch[s]])
              \/ pc'[s] = "dropped"
            BY <1>7 DEF Poll, Read, Found, Goto, IInv, TypeOK
        <3> QED BY <3>1, <3>2, <3>3
    <2>2. last[s] = "queued" /\ sent[s] = <<StatusEvent("queued")>>
        BY <1>1, <2>1 DEF SentBy
    <2>3. ~IsDone(s)'
        BY <2>1 DEF IsDone
    <2>4. CASE pc'[s] = "dropped"
        BY <2>3, <2>4 DEF SentBy
    <2>5. CASE /\ status[Watch[s]] # "absent" /\ row'[s] = status[Watch[s]]
               /\ pc'[s] = AfterRead(s, status[Watch[s]])
        <3>1. \/ pc'[s] = "change" /\ row'[s] \in Terminal
              \/ pc'[s] = "poll"
            BY <1>2, <2>2, <2>5 DEF AfterRead
        <3> QED BY <2>1, <2>2, <2>3, <3>1 DEF SentBy
    <2> QED BY <2>1, <2>4, <2>5
<1>8. CASE Deadline(s) \/ Drop(s)
    <2>1. /\ sent'[s] = sent[s] /\ row'[s] = row[s] /\ pc'[s] \in Ended /\ pc[s] \notin Ended
        BY <1>8 DEF Deadline, Drop, Goto, Ended, IInv, TypeOK
    <2>2. ~IsDone(s)'
        BY <1>2, <2>1 DEF IsDone
    <2> QED BY <2>1, <2>2 DEF SentBy, Ended
<1>9. CASE UNCHANGED vars \/ \E r \in Runs: RunStep(r) \/ Erase(r)
    BY <1>1, <1>9, OthersSent DEF vars, streamVars, RunStep, Erase
<1> QED BY <1>3, <1>4, <1>5, <1>6, <1>7, <1>8, <1>9 DEF Next, Serve

-----------------------------------------------------------------------------
(* Theorems *)

\* The inductive invariant: what was read or sent of a run's end is true for good,
\* and an earlier stream that showed the end leaves a later one nothing else to read.
THEOREM Invariance == Spec => []IInv
<1>1. Init => IInv
    <2>1. Init => TypeOK /\ ReadInv /\ DoneInv /\ EarlierInv
        BY DEF Init, Contract!Init, TypeOK, ReadInv, DoneInv, EarlierInv, Shown, Terminal
    <2>2. Init => LifeInv /\ SentInv
        BY DEF Init, Contract!Init, LifeInv, SentInv, IsDone
    <2> QED BY <2>1, <2>2 DEF IInv
<1>2. IInv /\ [Next]_vars => IInv'
    <2> SUFFICES ASSUME IInv, [Next]_vars PROVE ReadInv' /\ DoneInv' /\ EarlierInv'
        BY TypesStep, LifeStep, SentStep DEF IInv
    <2>1. ASSUME NEW r \in Runs, RunStep(r) \/ Erase(r) PROVE ReadInv' /\ DoneInv' /\ EarlierInv'
        BY <2>1, RunStepKeeps
    <2>2. ASSUME NEW s \in Streams, RunEvents(s) PROVE ReadInv' /\ DoneInv' /\ EarlierInv'
        BY <2>2, OpenStep
    <2>3. ASSUME NEW s \in Streams, First(s) \/ Change(s)
          PROVE ReadInv' /\ DoneInv' /\ EarlierInv'
        <3> DEFINE label == IF row[s] \in Terminal THEN "done" ELSE "poll"
        <3>1. /\ Send(s, "status") /\ Goto(s, label)
              /\ pc[s] \in {"first", "change", "done"}
              /\ UNCHANGED <<status, row, earlier>>
            BY <2>3 DEF First, Change, runVars
        <3>2. label \in {"poll", "done", "closed"} /\ (label = "done" => row[s] \in Terminal)
            OBVIOUS
        <3> HIDE DEF label
        <3> QED BY <3>1, <3>2, SendStep
    <2>4. ASSUME NEW s \in Streams, Done(s) PROVE ReadInv' /\ DoneInv' /\ EarlierInv'
        <3>1. /\ Send(s, "done") /\ Goto(s, "closed")
              /\ pc[s] \in {"first", "change", "done"}
              /\ row[s] \in Terminal
              /\ UNCHANGED <<status, row, earlier>>
            BY <2>4 DEF Done, runVars, IInv, ReadInv
        <3> QED BY <3>1, SendStep
    <2>5. ASSUME NEW s \in Streams, Poll(s) PROVE ReadInv' /\ DoneInv' /\ EarlierInv'
        <3>1. UNCHANGED <<status, sent, earlier>> /\ pc[s] \notin {"new"} \cup Ended
            BY <2>5 DEF Poll, Read, runVars, Ended
        <3>2. CASE Found(s)
            <4> DEFINE label == AfterRead(s, status[Watch[s]])
            <4>1. Goto(s, label) /\ row' = [row EXCEPT ![s] = status[Watch[s]]]
                BY <2>5, <3>2 DEF Poll, Read
            <4>2. /\ label \in {"poll", "change", "done", "closed", "dropped"}
                  /\ label = "done" => status[Watch[s]] \in Terminal
                BY DEF AfterRead
            <4>3. status[Watch[s]] # "absent"
                BY <3>2 DEF Found
            <4> HIDE DEF label
            <4> QED BY <3>1, <4>1, <4>2, <4>3, ReadStep
        <3>3. CASE ~Found(s)
            <4>1. Goto(s, "dropped") /\ row' = row
                BY <2>5, <3>3 DEF Poll, Read
            <4>2. row' = [row EXCEPT ![s] = row[s]]
                BY <4>1 DEF IInv, TypeOK
            <4> QED BY <3>1, <4>1, <4>2, ReadStep
        <3> QED BY <3>2, <3>3
    <2>6. ASSUME NEW s \in Streams, Deadline(s) \/ Drop(s)
          PROVE ReadInv' /\ DoneInv' /\ EarlierInv'
        <3>1. /\ UNCHANGED <<status, row, sent, earlier>>
              /\ pc[s] \notin {"new"} \cup Ended
              /\ Goto(s, "closed") \/ Goto(s, "dropped")
            BY <2>6 DEF Deadline, Drop, runVars, Ended
        <3>2. row' = [row EXCEPT ![s] = row[s]]
            BY <3>1 DEF IInv, TypeOK
        <3> QED BY <3>1, <3>2, ReadStep
    <2>7. CASE UNCHANGED vars
        <3>1. \A s: Shown(s)' = Shown(s)
            BY <2>7 DEF vars, streamVars, Shown
        <3> QED BY <2>7, <3>1 DEF vars, runVars, streamVars, IInv, ReadInv, DoneInv, EarlierInv
    <2> QED BY <2>1, <2>2, <2>3, <2>4, <2>5, <2>6, <2>7 DEF Next, Serve
<1> QED BY <1>1, <1>2, PTL DEF Spec

\* A "done" event is the last one and tells how the run ended, for good.
THEOREM DoneEventsAreTrue == Spec => []DoneIsTrue
<1>1. IInv => DoneIsTrue
    <2> SUFFICES ASSUME IInv, NEW s \in Streams, NEW i \in DOMAIN sent[s],
                        sent[s][i].event = "done"
                 PROVE /\ i = Len(sent[s])
                       /\ sent[s][i].status \in Terminal
                       /\ sent[s][i].status = status[Watch[s]]
        BY DEF DoneIsTrue, Terminal
    <2>1. sent[s][i].status \in Shown(s)
        BY DEF Shown
    <2> QED BY <2>1 DEF IInv, DoneInv, ReadInv
<1> QED BY <1>1, Invariance, PTL

\* A client that reconnects is never shown an older status than before.
THEOREM StreamsNeverGoBack == Spec => []NeverBackwards
<1>1. IInv => NeverBackwards
    BY DEF IInv, EarlierInv, NeverBackwards
<1> QED BY <1>1, Invariance, PTL

\* A stream that ends in "done" has sent every status of its run from the first one it
\* sent, in order and once each, for any runs, streams and deadline.
THEOREM StreamsMissNothing == Spec => []EveryChangeSent
<1>1. IInv => EveryChangeSent
    <2> SUFFICES ASSUME IInv, NEW s \in Streams, IsDone(s)
                 PROVE \E k \in 0..Len(life[Watch[s]]):
                    /\ Len(life[Watch[s]]) = k + (Len(sent[s]) - 1)
                    /\ \A i \in 1..(Len(sent[s]) - 1): sent[s][i] = StatusEvent(life[Watch[s]][k + i])
        BY DEF EveryChangeSent, StatusEvent
    <2>1. /\ row[s] \in Terminal
          /\ sent[s] \in {<<StatusEvent(row[s]), DoneEvent(row[s])>>,
                         <<StatusEvent("queued"), StatusEvent(row[s]), DoneEvent(row[s])>>}
        BY DEF IInv, SentInv
    <2>2. life[Watch[s]] = <<"queued", row[s]>>
        <3>1. row[s] = status[Watch[s]]
            BY <2>1 DEF IInv, ReadInv
        <3> QED BY <2>1, <3>1 DEF IInv, LifeInv, Terminal
    <2>3. CASE sent[s] = <<StatusEvent(row[s]), DoneEvent(row[s])>>
        <3>1. /\ Len(life[Watch[s]]) = 2 /\ Len(sent[s]) = 2
              /\ life[Watch[s]][2] = row[s] /\ sent[s][1] = StatusEvent(row[s])
            BY <2>2, <2>3
        <3>2. \A i \in 1..(Len(sent[s]) - 1): sent[s][i] = StatusEvent(life[Watch[s]][1 + i])
            BY <3>1
        <3> QED BY <3>1, <3>2
    <2>4. CASE sent[s] = <<StatusEvent("queued"), StatusEvent(row[s]), DoneEvent(row[s])>>
        <3>1. /\ Len(life[Watch[s]]) = 2 /\ Len(sent[s]) = 3
              /\ life[Watch[s]][1] = "queued" /\ life[Watch[s]][2] = row[s]
              /\ sent[s][1] = StatusEvent("queued") /\ sent[s][2] = StatusEvent(row[s])
            BY <2>2, <2>4
        <3>2. \A i \in 1..(Len(sent[s]) - 1): sent[s][i] = StatusEvent(life[Watch[s]][0 + i])
            BY <3>1
        <3> QED BY <3>1, <3>2
    <2> QED BY <2>1, <2>3, <2>4
<1> QED BY <1>1, Invariance, PTL
=============================================================================
