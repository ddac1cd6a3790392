--------------------------- MODULE AccountsProofs ---------------------------
(***************************************************************************)
(* Proofs about Accounts, for any deliveries, imports, requests, workers,  *)
(* texts and ids.                                                          *)
(***************************************************************************)
EXTENDS Accounts, TLAPS

-----------------------------------------------------------------------------
(* Rows and sequences of rows *)

\* A row hangs from rows of the same user.
LEMMA ParentsOf ==
    ASSUME NEW r, NEW q \in Parents(r)
    PROVE  q.of = r.of
  BY DEF Parents, User, Profile, Run, Row

\* Every row hangs, directly or through others, from its user's.
LEMMA Reaches ==
    ASSUME NEW r \in Rows, r.table # "users"
    PROVE  \/ User(r.of) \in Parents(r)
           \/ Profile(r.of, r.profile) \in Parents(r)
  BY DEF Parents, Rows, Tables

\* A profile hangs from its user.
LEMMA ProfileReaches ==
    ASSUME NEW i, NEW p
    PROVE  /\ User(i) \in Parents(Profile(i, p))
           /\ Profile(i, p).of = i /\ Profile(i, p).table # "users"
           /\ User(i).of = i /\ User(i).table = "users"
  BY DEF Parents, User, Profile, Row

\* The constructors make rows.
LEMMA RowTypes ==
    ASSUME NEW i \in Ids
    PROVE  /\ User(i) \in Rows /\ Key(i) \in Rows
           /\ \A p \in Tasks: Profile(i, p) \in Rows
           /\ \A p \in Tasks: \A t \in Tasks: Source(i, p, t) \in Rows /\ Run(i, p, t) \in Rows
           /\ \A p \in Tasks: \A x \in Contents: Item(i, p, x) \in Rows
           /\ \A run \in Rows: Result(run) \in Rows
  BY DEF Rows, Tables, Row, User, Key, Profile, Source, Run, Item, Result

\* What is left of a sequence without its head.
LEMMA TailFacts ==
    ASSUME NEW S, NEW q \in Seq(S), q # <<>>
    PROVE  /\ Head(q) \in S /\ Tail(q) \in Seq(S)
           /\ 1 \in DOMAIN q /\ Head(q) = q[1]
           /\ \A k \in DOMAIN Tail(q): k + 1 \in DOMAIN q /\ Tail(q)[k] = q[k + 1]
           /\ \A k \in DOMAIN q: k = 1 \/ (k - 1 \in DOMAIN Tail(q) /\ Tail(q)[k - 1] = q[k])
  OBVIOUS

\* What follows a first element.
LEMMA PrependFacts ==
    ASSUME NEW S, NEW q \in Seq(S), NEW x \in S
    PROVE  /\ <<x>> \o q \in Seq(S)
           /\ \A k \in DOMAIN (<<x>> \o q):
                  \/ (<<x>> \o q)[k] = x
                  \/ \E j \in DOMAIN q: (<<x>> \o q)[k] = q[j]
           /\ \A j \in DOMAIN q: \E k \in DOMAIN (<<x>> \o q): (<<x>> \o q)[k] = q[j]
  <1> DEFINE p == <<x>> \o q
  <1>1. p \in Seq(S) /\ Len(p) = Len(q) + 1 /\ DOMAIN p = 1..Len(p) /\ DOMAIN q = 1..Len(q)
    OBVIOUS
  <1>2. \A k \in 1..Len(p): p[k] = IF k = 1 THEN x ELSE q[k - 1]
    OBVIOUS
  <1>3. ASSUME NEW k \in DOMAIN p PROVE p[k] = x \/ \E j \in DOMAIN q: p[k] = q[j]
    <2>1. CASE k = 1 BY <2>1, <1>1, <1>2
    <2>2. CASE k # 1
      <3>1. k - 1 \in DOMAIN q /\ p[k] = q[k - 1] BY <2>2, <1>1, <1>2
      <3>2. QED BY <3>1
    <2>3. QED BY <2>1, <2>2
  <1>4. ASSUME NEW j \in DOMAIN q PROVE \E k \in DOMAIN p: p[k] = q[j]
    <2>1. j + 1 \in DOMAIN p /\ p[j + 1] = q[j] BY <1>1, <1>2
    <2>2. QED BY <2>1
  <1>5. QED BY <1>1, <1>3, <1>4

\* The first element is the first.
LEMMA PrependFirst ==
    ASSUME NEW S, NEW q \in Seq(S), NEW x \in S
    PROVE  1 \in DOMAIN (<<x>> \o q) /\ (<<x>> \o q)[1] = x
  OBVIOUS

\* All that an import wants belongs to its user.
LEMMA WantedOf ==
    ASSUME NEW t, NEW i, NEW p, NEW r \in Wanted(t, i, p)
    PROVE  r.of = i
  BY DEF Wanted, Source, Item, Row

\* What a task inserts on a profile: rows of the user, and all that an import wants.
LEMMA ScriptFacts ==
    ASSUME NEW t \in Imports \cup Requests, NEW i \in Ids, NEW p \in Tasks
    PROVE  /\ Script(t, i, p) \in Seq(Rows)
           /\ \A k \in DOMAIN Script(t, i, p):
                  Script(t, i, p)[k].of = i /\ Script(t, i, p)[k].table # "users"
           /\ t \in Imports => \A r \in Wanted(t, i, p):
                  \E j \in DOMAIN Script(t, i, p): Script(t, i, p)[j] = r
  <1>1. CASE t \in Requests
    <2>1. Script(t, i, p) = <<Run(i, p, t)>> BY <1>1 DEF Script
    <2>2. Run(i, p, t) \in Rows BY <1>1, RowTypes DEF Tasks
    <2>3. Run(i, p, t).of = i /\ Run(i, p, t).table # "users" BY DEF Run, Row
    <2>4. t \notin Imports BY <1>1, AccountsAssumption
    <2>5. QED BY <2>1, <2>2, <2>3, <2>4
  <1>2. CASE t \in Imports
    <2> DEFINE items == [k \in DOMAIN Texts[t] |-> Item(i, p, Texts[t][k])]
    <2>1. Script(t, i, p) = <<Source(i, p, t)>> \o items
      BY <1>2, AccountsAssumption DEF Script
    <2>2. Texts[t] \in Seq(Contents) BY <1>2, AccountsAssumption
    <2>3. \A k \in DOMAIN Texts[t]: Item(i, p, Texts[t][k]) \in Rows
      <3>1. \A k \in DOMAIN Texts[t]: Texts[t][k] \in Contents BY <2>2
      <3>2. QED BY <3>1, RowTypes
    <2>4. items \in Seq(Rows)
      BY <2>2, <2>3
    <2>5. \A k \in DOMAIN Texts[t]:
              items[k].table = "items" /\ items[k].of = i /\ items[k] = Item(i, p, Texts[t][k])
      BY DEF Item, Row
    <2>6. Source(i, p, t) \in Rows /\ Source(i, p, t).of = i /\ Source(i, p, t).table # "users"
      BY <1>2, RowTypes DEF Tasks, Source, Row
    <2>7. DOMAIN items = DOMAIN Texts[t] OBVIOUS
    <2> HIDE DEF items
    <2>8. \A k \in DOMAIN Script(t, i, p):
              Script(t, i, p)[k] = Source(i, p, t) \/ \E j \in DOMAIN items: Script(t, i, p)[k] = items[j]
      BY <2>1, <2>4, <2>6, PrependFacts
    <2>9. \A j \in DOMAIN items: \E k \in DOMAIN Script(t, i, p): Script(t, i, p)[k] = items[j]
      BY <2>1, <2>4, <2>6, PrependFacts
    <2>10. \A k \in DOMAIN Script(t, i, p):
              Script(t, i, p)[k].of = i /\ Script(t, i, p)[k].table # "users"
      BY <2>5, <2>6, <2>7, <2>8
    <2>11. Script(t, i, p) \in Seq(Rows) BY <2>1, <2>4, <2>6, PrependFacts
    <2>12. ASSUME NEW r \in Wanted(t, i, p)
           PROVE  \E j \in DOMAIN Script(t, i, p): Script(t, i, p)[j] = r
      <3>1. CASE r = Source(i, p, t)
        <4>1. 1 \in DOMAIN Script(t, i, p) /\ Script(t, i, p)[1] = r
          BY <2>1, <2>4, <2>6, <3>1, PrependFirst
        <4>2. QED BY <4>1
      <3>2. CASE \E k \in DOMAIN Texts[t]: r = Item(i, p, Texts[t][k])
        BY <2>5, <2>7, <2>9, <3>2
      <3>3. QED BY <2>12, <3>1, <3>2 DEF Wanted
    <2>13. QED BY <2>10, <2>11, <2>12
  <1>3. QED BY <1>1, <1>2

-----------------------------------------------------------------------------
(* The invariant *)

\* An import that nothing changes for, except that its user's rows may move from its
\* script to its transaction and from there to what is stored.
LEMMA ImportStays ==
    ASSUME ImportInv,
           \A t \in Imports: pc'[t] \in {"open", "committed"} /\ me'[t] \in live' =>
               /\ pc[t] \in {"open", "committed"} /\ me[t] \in live /\ me'[t] = me[t]
               /\ \A r \in Brought(t): r.of = me[t] => r \in Brought(t)'
    PROVE  ImportInv'
  <1> SUFFICES ASSUME NEW t \in Imports, pc'[t] \in {"open", "committed"}, me'[t] \in live'
               PROVE  \E p \in Imports \cup Requests: Wanted(t, me'[t], p) \subseteq Brought(t)'
    BY DEF ImportInv
  <1>1. PICK p \in Imports \cup Requests: Wanted(t, me[t], p) \subseteq Brought(t)
    BY DEF ImportInv
  <1>2. \A r \in Wanted(t, me[t], p): r.of = me[t] BY WantedOf
  <1>3. QED BY <1>1, <1>2

\* Before the first event nothing is stored and nobody is at work.
LEMMA InitIInv == Init => IInv
  <1> SUFFICES ASSUME Init PROVE IInv OBVIOUS
  <1> USE AccountsAssumption DEF Init
  <1>1. TypeOK
    <2>1. <<>> \in Seq(Rows) OBVIOUS
    <2>2. todo \in [Tasks -> Seq(Rows)] BY <2>1
    <2>3. QED BY <2>2 DEF TypeOK
  <1>2. StoredInv BY DEF StoredInv
  <1>3. TaskInv
    <2>1. \A t \in Tasks: DOMAIN todo[t] = {} OBVIOUS
    <2>2. QED BY <2>1 DEF TaskInv, Tasks
  <1>4. ErasureInv BY DEF ErasureInv, Shared
  <1>5. ImportInv BY DEF ImportInv, Tasks
  <1>6. QED BY <1>1, <1>2, <1>3, <1>4, <1>5 DEF IInv

\* A delivery of user.created or user.updated.
LEMMA UpsertStep ==
    ASSUME IInv, NEW e \in Deliveries, Upsert(e)
    PROVE  IInv'
  <1> USE DEF IInv, taskVars
  <1>1. CASE UNCHANGED <<db, ids>>
    <2>1. TypeOK' BY <1>1 DEF TypeOK, Upsert
    <2>2. StoredInv' BY <1>1 DEF StoredInv
    <2>3. TaskInv' BY <1>1 DEF TaskInv, Upsert
    <2>4. ErasureInv' BY <1>1 DEF ErasureInv, Upsert, Shared
    <2>5. ImportInv' BY <1>1 DEF ImportInv, Brought, Upsert, live
    <2>6. QED BY <2>1, <2>2, <2>3, <2>4, <2>5
  <1>2. CASE \E i \in Ids: i \notin ids /\ db' = db \cup {User(i)} /\ ids' = ids \cup {i}
    <2>1. PICK i \in Ids: i \notin ids /\ db' = db \cup {User(i)} /\ ids' = ids \cup {i}
      BY <1>2
    <2>2. TypeOK' BY <2>1, RowTypes DEF TypeOK, Upsert
    <2>3. StoredInv'
      <3>1. Parents(User(i)) = {} BY DEF Parents, User, Row
      <3>2. \A j \in Ids: User(j) = User(i) => j = i BY DEF User, Row
      <3>3. QED BY <2>1, <3>1, <3>2 DEF StoredInv
    <2>4. TaskInv' BY <2>1 DEF TaskInv, Upsert
    <2>5. ErasureInv' BY <2>1 DEF ErasureInv, Upsert, Shared
    <2>6. ImportInv'
      <3>1. ASSUME NEW t \in Imports, me[t] \in live'
            PROVE  me[t] \in live
        <4>1. me[t] \in Ids /\ me[t] \in ids
          BY <3>1, AccountsAssumption DEF live, TaskInv
        <4>2. User(me[t]) # User(i) BY <2>1, <4>1 DEF User, Row
        <4>3. QED BY <2>1, <3>1, <4>1, <4>2 DEF live
      <3>2. QED BY <2>1, <3>1, ImportStays DEF Brought, Upsert
    <2>7. QED BY <2>2, <2>3, <2>4, <2>5, <2>6
  <1>3. QED
    <2>1. ASSUME NEW i \in Ids, \A j \in Ids: j \in ids <=> j < i PROVE i \notin ids
      BY <2>1, AccountsAssumption
    <2>2. QED BY <1>1, <1>2, <2>1 DEF Upsert

\* The first step of an erasure: nobody holds the user's row.
LEMMA DeleteStep ==
    ASSUME IInv, NEW e \in Deliveries, Delete(e)
    PROVE  IInv'
  <1> USE DEF IInv, taskVars
  <1>1. StoredInv' BY DEF StoredInv, Delete
  <1>2. TaskInv' BY DEF TaskInv, Delete
  <1>3. ImportInv' BY DEF ImportInv, Brought, Delete, live
  <1>4. CASE UNCHANGED gone
    <2>1. TypeOK' BY <1>4 DEF TypeOK, Delete
    <2>2. ErasureInv'
      <3>1. stage[e] = "pending" /\ stage'[e] \in {"answered", "erasing"}
            /\ \A d \in Deliveries: d # e => stage'[d] = stage[d]
        BY DEF Delete, TypeOK
      <3>2. CASE stage'[e] = "answered" BY <1>4, <3>1, <3>2 DEF ErasureInv, Delete, Shared
      <3>3. CASE stage'[e] = "erasing"
        <4>1. PICK i \in Ids: gone' = [gone EXCEPT ![e] = {User(i)}]
          BY <3>3 DEF Delete, TypeOK
        <4>2. gone[e] = {} BY <3>1 DEF ErasureInv
        <4>3. gone'[e] = {User(i)} BY <4>1 DEF TypeOK
        <4>4. QED BY <1>4, <4>2, <4>3
      <3>4. QED BY <3>1, <3>2, <3>3
    <2>3. QED BY <1>1, <1>2, <1>3, <2>1, <2>2
  <1>5. CASE \E i \in Ids: /\ User(i) \in db
                           /\ Holders(User(i), e) = {}
                           /\ stage' = [stage EXCEPT ![e] = "erasing"]
                           /\ gone' = [gone EXCEPT ![e] = {User(i)}]
    <2>1. PICK i \in Ids: /\ User(i) \in db
                          /\ Holders(User(i), e) = {}
                          /\ stage' = [stage EXCEPT ![e] = "erasing"]
                          /\ gone' = [gone EXCEPT ![e] = {User(i)}]
      BY <1>5
    <2>2. TypeOK' BY <2>1, RowTypes DEF TypeOK, Delete
    <2>3. ErasureInv'
      <3>1. gone'[e] = {User(i)} /\ stage'[e] = "erasing"
            /\ \A d \in Deliveries: d # e => gone'[d] = gone[d] /\ stage'[d] = stage[d]
        BY <2>1 DEF TypeOK
      <3>2. User(i).of = i BY DEF User, Row
      <3>3. /\ \A t \in Tasks: User(i) \notin Shared(t) \cup held[t]
            /\ \A d \in Deliveries: d # e => User(i) \notin gone[d]
        BY <2>1 DEF Holders
      <3>4. \A t \in Tasks: Shared(t)' = Shared(t) /\ held'[t] = held[t]
        BY DEF Delete, Shared
      <3>5. db' = db BY DEF Delete
      <3>6. QED BY <2>1, <3>1, <3>2, <3>3, <3>4, <3>5 DEF ErasureInv
    <2>4. QED BY <1>1, <1>2, <1>3, <2>2, <2>3
  <1>6. QED BY <1>4, <1>5 DEF Delete

\* A step of the cascade takes a row of the same user that nobody holds.
LEMMA CascadeStep ==
    ASSUME IInv, NEW e \in Deliveries, Cascade(e)
    PROVE  IInv'
  <1> USE DEF IInv, taskVars
  <1>1. PICK r \in Frontier(e): Holders(r, e) = {} /\ gone' = [gone EXCEPT ![e] = @ \cup {r}]
    BY DEF Cascade
  <1>2. r \in db /\ Parents(r) \cap gone[e] # {} BY <1>1 DEF Frontier
  <1>3. /\ gone'[e] = gone[e] \cup {r} /\ stage' = stage /\ stage[e] = "erasing"
        /\ \A d \in Deliveries: d # e => gone'[d] = gone[d]
    BY <1>1 DEF TypeOK, Cascade
  <1>4. TypeOK' BY <1>1, <1>2 DEF TypeOK, Cascade
  <1>5. StoredInv' BY DEF StoredInv, Cascade
  <1>6. TaskInv' BY DEF TaskInv, Cascade
  <1>7. ImportInv' BY DEF ImportInv, Brought, Cascade, live
  <1>8. ErasureInv'
    <2>1. PICK i \in Ids: User(i) \in gone[e] /\ \A x \in gone[e]: x.of = i
      BY <1>3 DEF ErasureInv
    <2>2. r.of = i BY <1>2, <2>1, ParentsOf
    <2>3. /\ \A t \in Tasks: r \notin Shared(t) \cup held[t]
          /\ \A d \in Deliveries: d # e => r \notin gone[d]
      BY <1>1 DEF Holders
    <2>4. \A t \in Tasks: Shared(t)' = Shared(t) /\ held'[t] = held[t]
      BY DEF Cascade, Shared
    <2>5. db' = db BY DEF Cascade
    <2>6. QED BY <1>2, <1>3, <2>1, <2>2, <2>3, <2>4, <2>5 DEF ErasureInv
  <1>9. QED BY <1>4, <1>5, <1>6, <1>7, <1>8

\* The commit of an erasure: what is left hangs from nothing that went.
LEMMA CommitEraseStep ==
    ASSUME IInv, NEW e \in Deliveries, CommitErase(e)
    PROVE  IInv'
  <1> USE DEF IInv, taskVars
  <1>1. PICK i \in Ids: User(i) \in gone[e] /\ \A x \in gone[e]: x.of = i
    BY DEF ErasureInv, CommitErase
  <1>2. /\ gone'[e] = {} /\ stage'[e] = "answered" /\ db' = db \ gone[e]
        /\ \A d \in Deliveries: d # e => gone'[d] = gone[d] /\ stage'[d] = stage[d]
    BY DEF TypeOK, CommitErase
  <1>3. TypeOK' BY DEF TypeOK, CommitErase
  <1>4. StoredInv'
    <2>1. ASSUME NEW r \in db, r \notin gone[e] PROVE Parents(r) \cap gone[e] = {}
      BY <2>1 DEF CommitErase, Frontier
    <2>2. QED BY <1>2, <2>1 DEF StoredInv, CommitErase
  <1>5. TaskInv'
    <2>1. ASSUME NEW t \in Tasks, NEW r \in new[t]
          PROVE  Parents(r) \subseteq (db \ gone[e]) \cup new[t]
      <3>1. Parents(r) \subseteq db \cup new[t] BY DEF TaskInv
      <3>2. Parents(r) \cap gone[e] = {} BY DEF ErasureInv, Shared
      <3>3. QED BY <3>1, <3>2
    <2>2. QED BY <1>2, <2>1 DEF TaskInv, CommitErase
  <1>6. ErasureInv'
    <2>1. \A t \in Tasks: Shared(t)' = Shared(t) /\ held'[t] = held[t]
      BY DEF CommitErase, Shared
    <2>2. QED BY <1>2, <2>1 DEF ErasureInv
  <1>7. ImportInv'
    <2>1. ASSUME NEW t \in Imports, me[t] \in live'
          PROVE  me[t] \in live /\ me[t] # i
      BY <1>1, <1>2, <2>1 DEF live
    <2>2. ASSUME NEW t \in Imports, me[t] # i, NEW r, r \in db, r.of = me[t]
          PROVE  r \in db'
      BY <1>1, <1>2, <2>2
    <2>3. UNCHANGED <<pc, me, todo, new>> BY DEF CommitErase
    <2>4. QED BY <2>1, <2>2, <2>3, ImportStays DEF Brought
  <1>8. QED BY <1>3, <1>4, <1>5, <1>6, <1>7

\* An erasure that is undone leaves everything as it was.
LEMMA UndoneStep ==
    ASSUME IInv, NEW e \in Deliveries, Undone(e), retries' \in 0..MaxRetries
    PROVE  IInv'
  <1> USE DEF IInv, taskVars
  <1>1. /\ gone'[e] = {} /\ stage'[e] = "pending"
        /\ \A d \in Deliveries: d # e => gone'[d] = gone[d] /\ stage'[d] = stage[d]
    BY DEF TypeOK, Undone
  <1>2. TypeOK' BY DEF TypeOK, Undone
  <1>3. StoredInv' BY DEF StoredInv, Undone
  <1>4. TaskInv' BY DEF TaskInv, Undone
  <1>5. ErasureInv'
    <2>1. \A t \in Tasks: Shared(t)' = Shared(t) /\ held'[t] = held[t]
      BY DEF Undone, Shared
    <2>2. db' = db BY DEF Undone
    <2>3. QED BY <1>1, <2>1, <2>2 DEF ErasureInv
  <1>6. ImportInv' BY DEF ImportInv, Brought, Undone, live
  <1>7. QED BY <1>2, <1>3, <1>4, <1>5, <1>6

\* A delivery that was answered comes again.
LEMMA RedeliverStep ==
    ASSUME IInv, NEW e \in Deliveries, Redeliver(e)
    PROVE  IInv'
  <1> USE DEF IInv, taskVars
  <1>1. TypeOK' BY AccountsAssumption DEF TypeOK, Redeliver
  <1>2. StoredInv' BY DEF StoredInv, Redeliver
  <1>3. TaskInv' BY DEF TaskInv, Redeliver
  <1>4. ErasureInv' BY DEF ErasureInv, Redeliver, Shared, TypeOK
  <1>5. ImportInv' BY DEF ImportInv, Brought, Redeliver, live
  <1>6. QED BY <1>1, <1>2, <1>3, <1>4, <1>5

\* A task learns its user, or that there is none.
LEMMA ResolveStep ==
    ASSUME IInv, NEW t \in Tasks, Resolve(t)
    PROVE  IInv'
  <1> USE DEF IInv, webVars
  <1>1. /\ pc[t] = "idle" /\ pc'[t] \in {"known", "failed"}
        /\ \A s \in Tasks: s # t => pc'[s] = pc[s] /\ me'[s] = me[s]
        /\ me'[t] = me[t] \/ (me'[t] \in Ids /\ User(me'[t]) \in db)
        /\ pc'[t] = "known" => t \notin Workers /\ me'[t] \in Ids
    BY DEF Resolve, TypeOK
  <1>2. TypeOK'
    <2>1. pc' \in [Tasks -> {"idle", "known", "open", "committed", "failed"}]
      BY DEF Resolve, TypeOK
    <2>2. me' \in [Tasks -> Ids \cup {NoId}] BY DEF Resolve, TypeOK
    <2>3. QED BY <2>1, <2>2 DEF Resolve, TypeOK
  <1>3. StoredInv' BY DEF StoredInv, Resolve
  <1>4. TaskInv'
    <2>1. todo[t] = <<>> /\ new[t] = {} /\ held[t] = {} BY <1>1 DEF TaskInv
    <2>2. DOMAIN todo[t] = {} BY <2>1
    <2>3. \A s \in Imports \cup Requests: me'[s] # NoId => me'[s] \in ids
      BY <1>1, AccountsAssumption DEF TaskInv, StoredInv, Tasks
    <2>4. UNCHANGED <<db, ids, todo, new, held>> BY DEF Resolve
    <2>5. QED BY <1>1, <2>1, <2>2, <2>3, <2>4 DEF TaskInv
  <1>5. ErasureInv' BY DEF ErasureInv, Resolve, Shared
  <1>6. ImportInv'
    <2>1. \A s \in Imports: pc'[s] \in {"open", "committed"} => pc'[s] = pc[s] /\ me'[s] = me[s]
      BY <1>1 DEF Tasks
    <2>2. QED BY <2>1, ImportStays DEF Resolve, live, Brought
  <1>7. QED BY <1>2, <1>3, <1>4, <1>5, <1>6

\* It opens its transaction and chooses a profile.
LEMMA FindProfileStep ==
    ASSUME IInv, NEW t \in Imports \cup Requests, FindProfile(t), me[t] \in Ids
    PROVE  IInv'
  <1> USE DEF IInv, webVars
  <1> DEFINE Fits(q) ==
        /\ q \in Seq(Rows)
        /\ \A k \in DOMAIN q: q[k].of = me[t] /\ q[k].table # "users"
        /\ t \in Imports => \E p \in Imports \cup Requests:
              \A r \in Wanted(t, me[t], p): \E j \in DOMAIN q: q[j] = r
  <1>0. t \in Tasks BY DEF Tasks
  <1>1. PICK q: Fits(q) /\ todo' = [todo EXCEPT ![t] = q]
    <2>1. CASE \E p \in Imports \cup Requests: todo' = [todo EXCEPT ![t] = Script(t, me[t], p)]
      <3>1. PICK p \in Imports \cup Requests: todo' = [todo EXCEPT ![t] = Script(t, me[t], p)]
        BY <2>1
      <3>2. p \in Tasks BY DEF Tasks
      <3>3. Fits(Script(t, me[t], p)) BY <3>2, ScriptFacts
      <3>4. QED BY <3>1, <3>3
    <2>2. CASE todo' = [todo EXCEPT ![t] = <<Profile(me[t], t)>> \o Script(t, me[t], t)]
      <3> DEFINE q == <<Profile(me[t], t)>> \o Script(t, me[t], t)
      <3>1. Fits(Script(t, me[t], t)) BY <1>0, ScriptFacts
      <3>2. Profile(me[t], t) \in Rows BY <1>0, RowTypes
      <3>3. Profile(me[t], t).of = me[t] /\ Profile(me[t], t).table # "users" BY ProfileReaches
      <3>4. /\ q \in Seq(Rows)
            /\ \A k \in DOMAIN q: q[k] = Profile(me[t], t)
                    \/ \E j \in DOMAIN Script(t, me[t], t): q[k] = Script(t, me[t], t)[j]
            /\ \A j \in DOMAIN Script(t, me[t], t): \E k \in DOMAIN q: q[k] = Script(t, me[t], t)[j]
        <4>1. Script(t, me[t], t) \in Seq(Rows) BY <3>1
        <4>2. QED BY <3>2, <4>1, PrependFacts
      <3> HIDE DEF q
      <3>5. Fits(q) BY <3>1, <3>3, <3>4
      <3>6. QED BY <2>2, <3>5 DEF q
    <2>3. QED BY <2>1, <2>2 DEF FindProfile
  <1>2. /\ todo'[t] = q /\ pc'[t] = "open" /\ pc[t] = "known"
        /\ \A s \in Tasks: s # t => todo'[s] = todo[s] /\ pc'[s] = pc[s]
    BY <1>0, <1>1 DEF TypeOK, FindProfile
  <1>3. TypeOK'
    <2>1. pc' \in [Tasks -> {"idle", "known", "open", "committed", "failed"}]
      BY DEF FindProfile, TypeOK
    <2>2. todo' \in [Tasks -> Seq(Rows)] BY <1>1, <1>2 DEF TypeOK, Insert
    <2>3. QED BY <2>1, <2>2 DEF FindProfile, TypeOK
  <1>4. StoredInv' BY DEF StoredInv, FindProfile
  <1>5. UNCHANGED <<db, ids, me, new, held>> BY DEF FindProfile
  <1>6. TaskInv'
    <2>1. \A s \in Tasks: \A k \in DOMAIN todo'[s]:
              todo'[s][k].of = me[s] /\ todo'[s][k].table # "users"
      BY <1>1, <1>2 DEF TaskInv
    <2>2. QED BY <1>2, <1>5, <2>1 DEF TaskInv
  <1>7. ErasureInv' BY DEF ErasureInv, FindProfile, Shared
  <1>8. ImportInv'
    <2>1. ASSUME NEW s \in Imports, s # t, pc[s] \in {"open", "committed"}, me[s] \in live
          PROVE  \E p \in Imports \cup Requests: Wanted(s, me[s], p) \subseteq Brought(s)'
      <3>1. s \in Tasks BY DEF Tasks
      <3>2. todo'[s] = todo[s] BY <1>2, <2>1, <3>1
      <3>3. Brought(s)' = Brought(s) BY <1>5, <3>2 DEF Brought
      <3>4. QED BY <2>1, <3>3 DEF ImportInv
    <2>2. ASSUME t \in Imports
          PROVE  \E p \in Imports \cup Requests: Wanted(t, me[t], p) \subseteq Brought(t)'
      <3>1. PICK p \in Imports \cup Requests:
                \A r \in Wanted(t, me[t], p): \E j \in DOMAIN q: q[j] = r
        BY <1>1, <2>2
      <3>2. QED BY <1>2, <3>1 DEF Brought
    <2>3. \A s \in Imports: s # t => pc'[s] = pc[s] BY <1>2 DEF Tasks
    <2>4. live' = live BY <1>5 DEF live
    <2>5. QED BY <1>5, <2>1, <2>2, <2>3, <2>4 DEF ImportInv
  <1>9. QED BY <1>3, <1>4, <1>6, <1>7, <1>8

\* A worker claims its run.
LEMMA ClaimStep ==
    ASSUME IInv, NEW t \in Workers, Claim(t)
    PROVE  IInv'
  <1> USE DEF IInv, webVars
  <1>0. t \in Tasks /\ t \notin Imports \cup Requests BY AccountsAssumption DEF Tasks
  <1>1. PICK run \in db:
           /\ \A e \in Deliveries: run \notin gone[e]
           /\ held' = [held EXCEPT ![t] = {run}]
           /\ todo' = [todo EXCEPT ![t] = <<Result(run)>>]
           /\ me' = [me EXCEPT ![t] = run.of]
    BY DEF Claim
  <1>2. /\ held'[t] = {run} /\ todo'[t] = <<Result(run)>> /\ me'[t] = run.of
        /\ pc'[t] = "open" /\ pc[t] = "idle"
        /\ \A s \in Tasks: s # t =>
               held'[s] = held[s] /\ todo'[s] = todo[s] /\ me'[s] = me[s] /\ pc'[s] = pc[s]
    BY <1>0, <1>1 DEF TypeOK, Claim
  <1>3. run \in Rows /\ run.of \in Ids BY DEF TypeOK, Rows
  <1>4. Result(run) \in Rows /\ Result(run).of = run.of /\ Result(run).table # "users"
    BY <1>3, RowTypes DEF Result, Row
  <1>5. UNCHANGED <<db, ids, new, stage, gone, retries>> BY DEF Claim
  <1>6. TypeOK'
    <2>1. pc' \in [Tasks -> {"idle", "known", "open", "committed", "failed"}]
      BY DEF Claim, TypeOK
    <2>2. <<Result(run)>> \in Seq(Rows) BY <1>4
    <2>3. todo' \in [Tasks -> Seq(Rows)] BY <1>1, <2>2 DEF TypeOK
    <2>4. me' \in [Tasks -> Ids \cup {NoId}] BY <1>1, <1>3 DEF TypeOK
    <2>5. held' \in [Tasks -> SUBSET Rows] BY <1>1, <1>3 DEF TypeOK
    <2>6. QED BY <1>5, <2>1, <2>3, <2>4, <2>5 DEF TypeOK
  <1>7. StoredInv' BY <1>5 DEF StoredInv
  <1>8. TaskInv'
    <2>1. new[t] = {} BY <1>0, <1>2 DEF TaskInv
    <2>2. \A k \in DOMAIN <<Result(run)>>: <<Result(run)>>[k] = Result(run) OBVIOUS
    <2>3. \A s \in Tasks: \A k \in DOMAIN todo'[s]:
              todo'[s][k].of = me'[s] /\ todo'[s][k].table # "users"
      BY <1>2, <1>4, <2>2 DEF TaskInv
    <2>4. \A s \in Imports \cup Requests: me'[s] = me[s] BY <1>0, <1>2 DEF Tasks
    <2>5. QED BY <1>2, <1>5, <2>1, <2>3, <2>4 DEF TaskInv
  <1>9. ErasureInv' BY <1>1, <1>2, <1>5 DEF ErasureInv, Shared
  <1>10. ImportInv'
    <2>1. \A s \in Imports: s \in Tasks /\ s # t BY <1>0 DEF Tasks
    <2>2. QED BY <1>2, <1>5, <2>1, ImportStays DEF Brought, live
  <1>11. QED BY <1>6, <1>7, <1>8, <1>9, <1>10

\* An insert that nobody blocks, on parents that are there.
LEMMA InsertStep ==
    ASSUME IInv, NEW t \in Tasks, Insert(t)
    PROVE  IInv'
  <1> USE DEF IInv, webVars
  <1> DEFINE r == Head(todo[t])
  <1>0. todo[t] \in Seq(Rows) /\ todo[t] # <<>> BY DEF TypeOK, Insert
  <1>1. /\ r \in Rows /\ Tail(todo[t]) \in Seq(Rows)
        /\ 1 \in DOMAIN todo[t] /\ r = todo[t][1]
        /\ \A k \in DOMAIN Tail(todo[t]): k + 1 \in DOMAIN todo[t] /\ Tail(todo[t])[k] = todo[t][k + 1]
        /\ \A k \in DOMAIN todo[t]:
               k = 1 \/ (k - 1 \in DOMAIN Tail(todo[t]) /\ Tail(todo[t])[k - 1] = todo[t][k])
    BY <1>0, TailFacts
  <1> HIDE DEF r
  <1>2. /\ new'[t] = new[t] \cup ({r} \ db) /\ todo'[t] = Tail(todo[t]) /\ pc[t] = "open"
        /\ \A s \in Tasks: s # t => new'[s] = new[s] /\ todo'[s] = todo[s]
    BY DEF TypeOK, Insert, r
  <1>3. r.of = me[t] /\ r.table # "users" BY <1>1 DEF TaskInv
  <1>4. Parents(r) \subseteq db \cup new[t] BY DEF Insert, Allowed, r
  <1>5. \A e \in Deliveries: gone[e] \cap (Parents(r) \cup {r}) = {}
    BY DEF Insert, InsertBlockers, r
  <1>6. UNCHANGED <<db, ids, stage, gone, retries, pc, me, held>> BY DEF Insert
  <1>7. TypeOK'
    <2>1. new' \in [Tasks -> SUBSET Rows] BY <1>1 DEF Insert, TypeOK, r
    <2>2. todo' \in [Tasks -> Seq(Rows)] BY <1>1, <1>2 DEF TypeOK, Insert
    <2>3. QED BY <1>6, <2>1, <2>2 DEF TypeOK
  <1>8. StoredInv' BY <1>6 DEF StoredInv
  <1>9. TaskInv'
    <2>1. ASSUME NEW s \in Tasks, NEW k \in DOMAIN todo'[s]
          PROVE  todo'[s][k].of = me[s] /\ todo'[s][k].table # "users"
      <3>1. CASE s # t BY <1>2, <3>1 DEF TaskInv
      <3>2. CASE s = t
        <4>1. k + 1 \in DOMAIN todo[t] /\ todo'[s][k] = todo[t][k + 1] BY <1>1, <1>2, <3>2
        <4>2. QED BY <3>2, <4>1 DEF TaskInv
      <3>3. QED BY <3>1, <3>2
    <2>2. \A s \in Tasks: \A x \in new'[s]:
             /\ x.of = me[s] /\ x.table # "users"
             /\ Parents(x) \subseteq db \cup new'[s]
      BY <1>2, <1>3, <1>4 DEF TaskInv
    <2>3. \A s \in Tasks: pc[s] # "open" => todo'[s] = <<>> /\ new'[s] = {} /\ held[s] = {}
      BY <1>2 DEF TaskInv
    <2>4. QED BY <1>6, <2>1, <2>2, <2>3 DEF TaskInv
  <1>10. ErasureInv'
    <2>1. \A s \in Tasks: s # t => Shared(s)' = Shared(s) BY <1>2 DEF Shared
    <2>2. Shared(t)' \subseteq Shared(t) \cup Parents(r) BY <1>2 DEF Shared
    <2>3. QED BY <1>5, <1>6, <2>1, <2>2 DEF ErasureInv
  <1>11. ImportInv'
    <2>1. ASSUME NEW s \in Imports, NEW x \in Brought(s) PROVE x \in Brought(s)'
      <3>1. s \in Tasks BY DEF Tasks
      <3>2. CASE s # t
        <4>1. new'[s] = new[s] /\ todo'[s] = todo[s] BY <1>2, <3>1, <3>2
        <4>2. QED BY <1>6, <2>1, <4>1 DEF Brought
      <3>3. CASE s = t
        <4>1. CASE x \in db \cup new[s] BY <1>2, <1>6, <3>3, <4>1 DEF Brought
        <4>2. CASE x \in {todo[s][j]: j \in DOMAIN todo[s]}
          <5>1. PICK j \in DOMAIN todo[t]: x = todo[t][j] BY <3>3, <4>2
          <5>2. CASE j = 1 BY <1>1, <1>2, <1>6, <3>3, <5>1, <5>2 DEF Brought
          <5>3. CASE j # 1
            <6>1. j - 1 \in DOMAIN todo'[s] /\ todo'[s][j - 1] = x
              BY <1>1, <1>2, <3>3, <5>1, <5>3
            <6>2. QED BY <6>1 DEF Brought
          <5>4. QED BY <5>2, <5>3
        <4>3. QED BY <2>1, <4>1, <4>2 DEF Brought
      <3>4. QED BY <3>2, <3>3
    <2>2. live' = live BY <1>6 DEF live
    <2>3. QED BY <1>6, <2>1, <2>2, ImportStays
  <1>12. QED BY <1>7, <1>8, <1>9, <1>10, <1>11

\* A commit: its rows bring their parents along, unless these are there.
LEMMA CommitStep ==
    ASSUME IInv, NEW t \in Tasks, Commit(t)
    PROVE  IInv'
  <1> USE DEF IInv, webVars
  <1>1. /\ new'[t] = {} /\ held'[t] = {} /\ pc'[t] = "committed" /\ todo[t] = <<>>
        /\ pc[t] = "open" /\ db' = db \cup new[t]
        /\ \A s \in Tasks: s # t => new'[s] = new[s] /\ held'[s] = held[s] /\ pc'[s] = pc[s]
    BY DEF TypeOK, Commit
  <1>2. UNCHANGED <<ids, stage, gone, retries, me, todo>> BY DEF Commit
  <1>3. TypeOK'
    <2>1. pc' \in [Tasks -> {"idle", "known", "open", "committed", "failed"}]
      BY DEF Commit, TypeOK
    <2>2. db' \subseteq Rows BY <1>1 DEF TypeOK
    <2>3. QED BY <1>2, <2>1, <2>2 DEF Commit, TypeOK
  <1>4. StoredInv'
    <2>1. \A r \in new[t]: Parents(r) \subseteq db \cup new[t] BY DEF TaskInv
    <2>2. \A i \in Ids: User(i) \notin new[t] BY ProfileReaches DEF TaskInv
    <2>3. QED BY <1>1, <1>2, <2>1, <2>2 DEF StoredInv
  <1>5. TaskInv' BY <1>1, <1>2 DEF TaskInv
  <1>6. ErasureInv'
    <2>1. \A s \in Tasks: s # t => Shared(s)' = Shared(s) BY <1>1 DEF Shared
    <2>2. Shared(t)' = {} BY <1>1 DEF Shared
    <2>3. QED BY <1>1, <1>2, <2>1, <2>2 DEF ErasureInv
  <1>7. ImportInv'
    <2>1. \A i \in Ids: User(i) \in db' => User(i) \in db
      BY <1>1, ProfileReaches DEF TaskInv
    <2>2. \A s \in Imports: s \in Tasks BY DEF Tasks
    <2>3. \A s \in Imports: db \cup new[s] \subseteq db' \cup new'[s] BY <1>1, <2>2
    <2>4. \A s \in Imports: pc'[s] \in {"open", "committed"} => pc[s] \in {"open", "committed"}
      BY <1>1, <2>2
    <2>5. live' \subseteq live BY <2>1 DEF live
    <2>6. \A s \in Imports: Brought(s) \subseteq Brought(s)' BY <1>2, <2>3 DEF Brought
    <2>7. QED BY <1>2, <2>4, <2>5, <2>6, ImportStays
  <1>8. QED BY <1>3, <1>4, <1>5, <1>6, <1>7

\* A transaction that fails leaves nothing.
LEMMA RollbackStep ==
    ASSUME IInv, NEW t \in Tasks, Rollback(t)
    PROVE  IInv'
  <1> USE DEF IInv, webVars
  <1>1. /\ new'[t] = {} /\ held'[t] = {} /\ pc'[t] = "failed" /\ todo'[t] = <<>>
        /\ \A s \in Tasks: s # t =>
               new'[s] = new[s] /\ held'[s] = held[s] /\ pc'[s] = pc[s] /\ todo'[s] = todo[s]
    BY DEF TypeOK, Rollback
  <1>2. UNCHANGED <<db, ids, stage, gone, retries, me>> BY DEF Rollback
  <1>3. TypeOK'
    <2>1. pc' \in [Tasks -> {"idle", "known", "open", "committed", "failed"}]
      BY DEF Rollback, TypeOK
    <2>2. <<>> \in Seq(Rows) OBVIOUS
    <2>3. todo' \in [Tasks -> Seq(Rows)] BY <2>2 DEF TypeOK, Rollback
    <2>4. QED BY <1>2, <2>1, <2>3 DEF Rollback, TypeOK
  <1>4. StoredInv' BY <1>2 DEF StoredInv
  <1>5. TaskInv'
    <2>1. DOMAIN <<>> = {} OBVIOUS
    <2>2. \A s \in Tasks: \A k \in DOMAIN todo'[s]:
              todo'[s][k].of = me[s] /\ todo'[s][k].table # "users"
      BY <1>1, <2>1 DEF TaskInv
    <2>3. QED BY <1>1, <1>2, <2>2 DEF TaskInv
  <1>6. ErasureInv'
    <2>1. \A s \in Tasks: s # t => Shared(s)' = Shared(s) BY <1>1 DEF Shared
    <2>2. Shared(t)' = {} BY <1>1 DEF Shared
    <2>3. QED BY <1>1, <1>2, <2>1, <2>2 DEF ErasureInv
  <1>7. ImportInv'
    <2>1. \A s \in Imports: s \in Tasks BY DEF Tasks
    <2>2. \A s \in Imports: s # t => Brought(s)' = Brought(s) BY <1>1, <1>2, <2>1 DEF Brought
    <2>3. live' = live BY <1>2 DEF live
    <2>4. \A s \in Imports: pc'[s] \in {"open", "committed"} => s # t /\ pc'[s] = pc[s]
      BY <1>1, <2>1
    <2>5. QED BY <1>2, <2>2, <2>3, <2>4, ImportStays
  <1>8. QED BY <1>3, <1>4, <1>5, <1>6, <1>7

\* A data key is provided.
LEMMA ProvisionStep ==
    ASSUME IInv, NEW i \in Ids, Provision(i)
    PROVE  IInv'
  <1> USE DEF IInv, webVars, taskVars
  <1>1. Key(i).of = i /\ Key(i).table # "users" /\ Parents(Key(i)) = {User(i)}
    BY DEF Key, Row, Parents
  <1>2. db' = db \cup {Key(i)} /\ User(i) \in db BY DEF Provision
  <1>3. UNCHANGED <<ids, stage, gone, retries, pc, me, todo, new, held>> BY DEF Provision
  <1>4. TypeOK' BY <1>2, <1>3, RowTypes DEF TypeOK
  <1>5. StoredInv'
    <2>1. \A j \in Ids: User(j) # Key(i) BY <1>1, ProfileReaches
    <2>2. QED BY <1>1, <1>2, <1>3, <2>1 DEF StoredInv
  <1>6. TaskInv' BY <1>2, <1>3 DEF TaskInv
  <1>7. ErasureInv' BY <1>2, <1>3 DEF ErasureInv, Shared
  <1>8. ImportInv'
    <2>1. \A j \in Ids: User(j) # Key(i) BY <1>1, ProfileReaches
    <2>2. live' = live BY <1>2, <2>1 DEF live
    <2>3. \A s \in Imports: Brought(s) \subseteq Brought(s)' BY <1>2, <1>3 DEF Brought
    <2>4. QED BY <1>3, <2>2, <2>3, ImportStays
  <1>9. QED BY <1>4, <1>5, <1>6, <1>7, <1>8

\* Every step keeps the invariant.
LEMMA NextIInv == IInv /\ [Next]_vars => IInv'
  <1> SUFFICES ASSUME IInv, [Next]_vars PROVE IInv' OBVIOUS
  <1>1. ASSUME NEW e \in Deliveries, Deliver(e) \/ Fault(e) \/ Redeliver(e) PROVE IInv'
    <2>1. CASE Upsert(e) BY <2>1, UpsertStep
    <2>2. CASE Delete(e) BY <2>2, DeleteStep
    <2>3. CASE Cascade(e) BY <2>3, CascadeStep
    <2>4. CASE CommitErase(e) BY <2>4, CommitEraseStep
    <2>5. CASE Fault(e)
      <3>1. Undone(e) BY <2>5 DEF Fault
      <3>2. retries' \in 0..MaxRetries BY <2>5, AccountsAssumption DEF Fault, IInv, TypeOK
      <3>3. QED BY <3>1, <3>2, UndoneStep
    <2>6. CASE Redeliver(e) BY <2>6, RedeliverStep
    <2>7. QED BY <1>1, <2>1, <2>2, <2>3, <2>4, <2>5, <2>6 DEF Deliver
  <1>2. ASSUME NEW t \in Tasks, Step(t) \/ Lose(t) PROVE IInv'
    <2>1. CASE Resolve(t) BY <2>1, ResolveStep
    <2>2. CASE FindProfile(t)
      <3>1. t \in Imports \cup Requests /\ me[t] \in Ids
        BY <2>2 DEF FindProfile, IInv, TaskInv, Tasks
      <3>2. QED BY <2>2, <3>1, FindProfileStep
    <2>3. CASE Claim(t)
      <3>1. t \in Workers BY <2>3 DEF Claim
      <3>2. QED BY <2>3, <3>1, ClaimStep
    <2>4. CASE Insert(t) BY <2>4, InsertStep
    <2>5. CASE Commit(t) BY <2>5, CommitStep
    <2>6. CASE Refuse(t) BY <2>6, RollbackStep DEF Refuse
    <2>7. CASE Lose(t) BY <2>7, RollbackStep DEF Lose
    <2>8. QED BY <1>2, <2>1, <2>2, <2>3, <2>4, <2>5, <2>6, <2>7 DEF Step
  <1>3. ASSUME NEW i \in Ids, Provision(i) PROVE IInv' BY <1>3, ProvisionStep
  <1>4. CASE Victim
    <2>1. ASSUME NEW t \in Tasks, Rollback(t) PROVE IInv' BY <2>1, RollbackStep
    <2>2. ASSUME NEW e \in Deliveries, Undone(e), UNCHANGED retries PROVE IInv'
      <3>1. retries' \in 0..MaxRetries BY <2>2 DEF IInv, TypeOK
      <3>2. QED BY <2>2, <3>1, UndoneStep
    <2>3. QED BY <1>4, <2>1, <2>2 DEF Victim
  <1>5. CASE UNCHANGED vars
    <2> USE <1>5 DEF vars, webVars, taskVars
    <2>1. TypeOK' BY DEF IInv, TypeOK
    <2>2. StoredInv' BY DEF IInv, StoredInv
    <2>3. TaskInv' BY DEF IInv, TaskInv
    <2>4. ErasureInv' BY DEF IInv, ErasureInv, Shared
    <2>5. ImportInv' BY DEF IInv, ImportInv, Brought, live
    <2>6. QED BY <2>1, <2>2, <2>3, <2>4, <2>5 DEF IInv
  <1>6. QED BY <1>1, <1>2, <1>3, <1>4, <1>5 DEF Next

\* The invariant holds in every behaviour.
THEOREM Invariance == Spec => []IInv
  BY InitIInv, NextIInv, PTL DEF Spec

\* Every variable keeps its type.
THEOREM TypeCorrect == Spec => []TypeOK
  <1>1. IInv => TypeOK BY DEF IInv
  <1>2. QED BY <1>1, Invariance, PTL

-----------------------------------------------------------------------------
(* What a user is promised *)

\* When the cascade has nothing left to delete, it has taken everything of the user.
LEMMA CascadeTakesAll ==
    ASSUME IInv, NEW e \in Deliveries, Frontier(e) = {},
           NEW i, User(i) \in gone[e], NEW r \in db, r.of = i, r.table # "users"
    PROVE  r \in gone[e]
  <1>1. r \in Rows /\ Parents(r) \subseteq db BY DEF IInv, TypeOK, StoredInv
  <1>2. ASSUME NEW x \in db, Parents(x) \cap gone[e] # {} PROVE x \in gone[e]
    BY <1>2 DEF Frontier
  <1>3. CASE User(i) \in Parents(r) BY <1>2, <1>3
  <1>4. CASE Profile(i, r.profile) \in Parents(r)
    <2>1. Profile(i, r.profile) \in gone[e] BY <1>1, <1>2, <1>4, ProfileReaches
    <2>2. QED BY <1>2, <1>4, <2>1
  <1>5. QED BY <1>1, <1>3, <1>4, Reaches

\* The rows of each id, as the contract sees them.
Data(i) == {r \in db: r.of = i /\ r.table # "users"}

\* Each step is a step of the contract, or changes nothing it shows.
LEMMA StepImplements ==
    ASSUME IInv, IInv', [Next]_vars
    PROVE  [Contract!Next]_(Contract!vars)
  <1> DEFINE same == UNCHANGED <<db, ids>>
  <1>1. ASSUME same PROVE UNCHANGED Contract!vars BY <1>1 DEF Contract!vars, live
  <1>2. ASSUME NEW e \in Deliveries, Upsert(e), ~same PROVE Contract!Next
    <2>1. PICK i \in Ids: /\ \A j \in Ids: j \in ids <=> j < i
                          /\ db' = db \cup {User(i)} /\ ids' = ids \cup {i}
      BY <1>2 DEF Upsert
    <2>2. i \notin ids BY <2>1, AccountsAssumption
    <2>3. i \notin live BY <2>2 DEF IInv, StoredInv, live
    <2>4. live' = live \cup {i}
      <3>1. \A j \in Ids: User(j) = User(i) => j = i BY DEF User, Row
      <3>2. QED BY <2>1, <3>1 DEF live
    <2>5. ids' \ live' = ids \ live BY <2>1, <2>2, <2>4
    <2>6. \A j \in Ids: Data(j)' = Data(j) BY <2>1, ProfileReaches DEF Data
    <2>7. Contract!Mirror(i)
      BY <2>2, <2>3, <2>4, <2>5, <2>6 DEF Contract!Mirror, Data
    <2>8. QED BY <2>7 DEF Contract!Next
  <1>3. ASSUME NEW e \in Deliveries, CommitErase(e) PROVE Contract!Next
    <2>1. PICK i \in Ids: User(i) \in gone[e] /\ \A x \in gone[e]: x.of = i
      BY <1>3 DEF IInv, ErasureInv, CommitErase
    <2>2. db' = db \ gone[e] /\ ids' = ids /\ gone[e] \subseteq db /\ Frontier(e) = {}
      BY <1>3 DEF CommitErase, IInv, ErasureInv
    <2>3. i \in live /\ i \in ids BY <2>1, <2>2 DEF live, IInv, StoredInv
    <2>4. live' = live \ {i}
      <3>1. \A j \in Ids: User(j) \in gone[e] <=> j = i BY <2>1, ProfileReaches
      <3>2. QED BY <2>2, <3>1 DEF live
    <2>5. ids' \ live' = (ids \ live) \cup {i} BY <2>2, <2>3, <2>4
    <2>6. Data(i)' = {}
      <3>1. \A r \in db: r.of = i /\ r.table # "users" => r \in gone[e]
        BY <2>1, <2>2, CascadeTakesAll
      <3>2. QED BY <2>2, <3>1 DEF Data
    <2>7. ASSUME NEW j \in Ids, j # i PROVE Data(j)' = Data(j)
      <3>1. \A r: r.of = j => r \notin gone[e] BY <2>1, <2>7
      <3>2. QED BY <2>2, <3>1 DEF Data
    <2>8. Contract!Erase(i)
      BY <2>3, <2>4, <2>5, <2>6, <2>7 DEF Contract!Erase, Data
    <2>9. QED BY <2>8 DEF Contract!Next
  <1>4. ASSUME NEW i \in Ids, NEW rows, User(i) \in db, ids' = ids, db' = db \cup rows,
               \A r \in rows: r.of = i /\ r.table # "users"
        PROVE  Contract!Next
    <2>1. live' = live BY <1>4, ProfileReaches DEF live
    <2>2. \A j \in Ids: j # i => Data(j)' = Data(j) BY <1>4 DEF Data
    <2>3. Data(i) \subseteq Data(i)' /\ Data(i)' \subseteq Rows
      BY <1>4 DEF Data, IInv, TypeOK
    <2>4. Contract!Store(i)
      BY <1>4, <2>1, <2>2, <2>3 DEF Contract!Store, Data, live
    <2>5. QED BY <2>4 DEF Contract!Next
  <1>5. ASSUME NEW t \in Tasks, Commit(t) PROVE same \/ Contract!Next
    <2>1. db' = db \cup new[t] /\ ids' = ids BY <1>5 DEF Commit
    <2>2. CASE new[t] = {} BY <2>1, <2>2
    <2>3. CASE new[t] # {}
      <3>1. PICK r \in new[t]: TRUE BY <2>3
      <3>2. r.of = me[t] /\ r.table # "users" /\ r \in db'
            /\ \A x \in new[t]: x.of = me[t] /\ x.table # "users"
        BY <2>1 DEF IInv, TaskInv
      <3>3. me[t] \in Ids /\ User(me[t]) \in db'
        <4>1. r \in Rows /\ r.of \in Ids /\ Parents(r) \subseteq db'
          BY <3>2 DEF IInv, TypeOK, StoredInv, Rows
        <4>2. CASE User(r.of) \in Parents(r) BY <3>2, <4>1, <4>2
        <4>3. CASE Profile(r.of, r.profile) \in Parents(r)
          BY <3>2, <4>1, <4>3, ProfileReaches DEF IInv, StoredInv
        <4>4. QED BY <3>2, <4>1, <4>2, <4>3, Reaches
      <3>4. User(me[t]) \in db BY <2>1, <3>2, <3>3, ProfileReaches
      <3>5. QED BY <1>4, <2>1, <3>2, <3>3, <3>4
    <2>4. QED BY <2>2, <2>3
  <1>6. ASSUME NEW i \in Ids, Provision(i) PROVE Contract!Next
    <2>1. Key(i).of = i /\ Key(i).table # "users" BY DEF Key, Row
    <2> DEFINE rows == {Key(i)}
    <2>2. User(i) \in db /\ ids' = ids /\ db' = db \cup rows BY <1>6 DEF Provision
    <2>3. \A r \in rows: r.of = i /\ r.table # "users" BY <2>1
    <2> HIDE DEF rows
    <2>4. QED BY <1>4, <2>2, <2>3
  <1>7. ASSUME ~same, Next PROVE Contract!Next
    <2> USE DEF webVars
    <2>1. ASSUME NEW e \in Deliveries, Deliver(e) \/ Fault(e) \/ Redeliver(e) PROVE Contract!Next
      BY <1>2, <1>3, <1>7, <2>1
         DEF Deliver, Delete, Cascade, Fault, Undone, Redeliver
    <2>2. ASSUME NEW t \in Tasks, Step(t) \/ Lose(t) PROVE Contract!Next
      BY <1>5, <1>7, <2>2 DEF Step, Lose, Resolve, FindProfile, Claim, Insert, Refuse, Rollback
    <2>3. ASSUME Victim PROVE FALSE BY <1>7, <2>3 DEF Victim, Rollback, Undone
    <2>4. QED BY <1>6, <1>7, <2>1, <2>2, <2>3 DEF Next
  <1>8. CASE UNCHANGED vars BY <1>1, <1>8 DEF vars
  <1>9. QED BY <1>1, <1>7, <1>8

\* Whatever is under way when a user is erased, and however events are repeated and
\* reordered: nothing is stored under an id that is gone, an erasure takes everything
\* at once, and an id is never used again (users.py: "FK cascades drop owned rows").
THEOREM AccountsImplementContract == Spec => ImplementsContract
  <1>1. Init => Contract!Init BY DEF Init, Contract!Init, live
  <1>2. IInv /\ IInv' /\ [Next]_vars => [Contract!Next]_(Contract!vars) BY StepImplements
  <1>3. QED BY <1>1, <1>2, Invariance, PTL DEF Spec, Contract!Spec, ImplementsContract

\* However imports of one user overlap, fail and deadlock: each text of an import that
\* committed is stored, under the profile it was imported to, until the user is erased.
THEOREM NoTextIsLost == Spec => []DedupeLosesNothing
  <1>1. IInv => DedupeLosesNothing
    <2> SUFFICES ASSUME IInv, NEW t \in Imports, pc[t] = "committed", me[t] \in live,
                        NEW k \in DOMAIN Texts[t]
                 PROVE  Texts[t][k] \in StoredTexts(t)
      BY DEF DedupeLosesNothing
    <2>1. t \in Tasks BY DEF Tasks
    <2>2. new[t] = {} /\ todo[t] = <<>> BY <2>1 DEF IInv, TaskInv
    <2>3. DOMAIN todo[t] = {} BY <2>2
    <2>4. Brought(t) = db BY <2>2, <2>3 DEF Brought
    <2>5. PICK p \in Imports \cup Requests: Wanted(t, me[t], p) \subseteq db
      BY <2>4 DEF IInv, ImportInv
    <2>6. Source(me[t], p, t) \in db /\ Item(me[t], p, Texts[t][k]) \in db BY <2>5 DEF Wanted
    <2>7. QED BY <2>6 DEF StoredTexts, Item, Row
  <1>2. QED BY <1>1, Invariance, PTL
=============================================================================
