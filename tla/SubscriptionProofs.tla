------------------------- MODULE SubscriptionProofs -------------------------
(***************************************************************************)
(* Proofs about Subscription: what a stream shows is on the file, its live *)
(* part follows the log, and it has no hole but where the cursor was moved *)
(* on.  Everything rests on the channel being a growing excerpt of the     *)
(* log, which in turn rests on the guard that a call holds while it sends. *)
(***************************************************************************)
EXTENDS Subscription, FileRepositoryProofs

-----------------------------------------------------------------------------
(* The inductive invariant *)

\* A call that has renamed still knows what it built on.
Carried(t) ==
    call[t].pc \in {"committed", "publishing"} =>
        /\ call[t].base = call[t].seen
        /\ Len(call[t].seen.log) <= Len(call[t].work)

\* A call sends the positions after all that has been sent before.
Sending(t) ==
    /\ announced[t] # 0 => Publishing(t)
    /\ call[t].pc \in {"committed", "publishing"} =>
          /\ announced[t] <= Len(Accepted(call[t]))
          /\ \A i \in DOMAIN sent : sent[i] <= Len(call[t].base.log) + announced[t]

\* The channel is an excerpt of the log, in its order.
Channel ==
    /\ sent \in Seq(Nat \ {0})
    /\ announced \in [Local -> Nat]
    /\ \A i \in DOMAIN sent : sent[i] <= Len(disk.log)
    /\ \A i, j \in DOMAIN sent : i < j => sent[i] < sent[j]
    /\ \A t \in Tasks : Carried(t)
    /\ \A t \in Local : Sending(t)

\* Where the receiver stands.
Placed(r) ==
    /\ r.since <= r.cursor
    /\ r.cursor <= Len(sent) + 1
    /\ r.anchor <= Len(disk.log)
    /\ r.phase = "loading" => r.since = r.cursor
    /\ r.phase \in {"none", "loading"} => r.stream = <<>> /\ r.history = <<>>
    /\ r.phase = "lagged" => r.cursor <= Len(sent) /\ Len(r.history) <= Len(r.stream)

\* The stream repeats the history, then part of the channel.
Shown(r) ==
    /\ \A h \in DOMAIN r.history : r.history[h] <= Len(disk.log)
    /\ \A k \in DOMAIN r.stream :
          IF k <= Len(r.history) THEN r.stream[k].at = r.history[k]
          ELSE \E i \in 1..(r.cursor - 1) : r.stream[k].at = sent[i]

\* The live part is in order.
Ordered(r) ==
    \A k, l \in DOMAIN r.stream :
        /\ k > Len(r.history) /\ r.stream[k].frame = "Event"
        /\ l > Len(r.history) /\ r.stream[l].frame = "Event"
        /\ k < l
        => r.stream[k].at < r.stream[l].at

\* History and channel join up.
Joined(r) ==
    r.phase \in {"open", "lagged"} =>
        /\ r.mode # "LiveOnly" =>
              \A i \in 1..(r.since - 1) :
                  sent[i] > r.anchor => \E h \in DOMAIN r.history : r.history[h] = sent[i]
        /\ \A i \in r.since..(r.cursor - 1) :
              sent[i] \in r.lost \/ \E k \in DOMAIN r.stream : r.stream[k].at = sent[i]

Right(r) == Placed(r) /\ Shown(r) /\ Ordered(r) /\ Joined(r)

SInv ==
    /\ IInv
    /\ Channel
    /\ sub \in [Subscribers -> Subscriber]
    /\ \A s \in Subscribers : Right(sub[s])

-----------------------------------------------------------------------------
(* The writers *)

\* A step of the repository changes the call of one task.
LEMMA OthersKeep ==
    ASSUME IInv, NEW t \in Tasks,
           Start(t) \/ Acquire(t) \/ LockFails(t) \/ Proceed(t) \/ Crash(t),
           NEW u \in Tasks, u # t
    PROVE  call'[u] = call[u]
<1>1. call \in [Tasks -> Call]
  BY DEF IInv, Inv, TypeOK
<1>2. CASE Start(t) \/ Acquire(t) \/ LockFails(t) \/ Crash(t)
  BY <1>1, <1>2 DEF Start, Acquire, LockFails, Crash, Return
<1>3. CASE Proceed(t)
  <2>1. CASE ReadCache(t) \/ Load(t) \/ Accept(t) \/ Reject(t)
    BY <1>1, <2>1 DEF ReadCache, Load, Accept, Reject
  <2>2. CASE Compare(t) \/ Retry(t) \/ Rename(t) \/ WriteCache(t)
    BY <1>1, <2>2 DEF Compare, Retry, Rename, WriteCache
  <2>3. CASE \/ SaltMismatch(t) \/ PreconditionFails(t) \/ Roll(t) \/ ReadFails(t)
             \/ GiveUp(t) \/ RenameUnsynced(t) \/ WriteFails(t) \/ Publish(t)
    BY <1>1, <2>3 DEF SaltMismatch, PreconditionFails, Roll, ReadFails, GiveUp,
       RenameUnsynced, WriteFails, Publish, Return
  <2>. QED
    BY <1>3, <2>1, <2>2, <2>3 DEF Proceed
<1>. QED
  BY <1>2, <1>3

\* A call gets past the rename by Rename and WriteCache only.
LEMMA PastTheRename ==
    ASSUME IInv, NEW t \in Tasks,
           Start(t) \/ Acquire(t) \/ LockFails(t) \/ Proceed(t) \/ Crash(t),
           ~Rename(t), ~WriteCache(t)
    PROVE  call'[t].pc \notin {"committed", "publishing"}
<1>1. call \in [Tasks -> Call] /\ call[t] \in Call
  BY DEF IInv, Inv, TypeOK
<1>2. IdleCall.pc = "idle"
  BY DEF IdleCall
<1>3. CASE Start(t) \/ Acquire(t) \/ LockFails(t) \/ Crash(t)
  <2>1. CASE Start(t)
    <3>1. PICK batch \in Batches, mode \in Modes, cached \in CacheUse :
             call' = [call EXCEPT ![t].pc = "waiting", ![t].batch = batch,
                                  ![t].mode = mode, ![t].cached = cached]
      BY <2>1 DEF Start
    <3>2. call'[t] = [call[t] EXCEPT !.pc = "waiting", !.batch = batch, !.mode = mode,
                                     !.cached = cached]
      BY <1>1, <3>1
    <3>3. call'[t].pc = "waiting"
      BY <1>1, <3>2 DEF Call
    <3>. QED
      BY <3>3
  <2>2. CASE Acquire(t)
    BY <1>1, <2>2 DEF Acquire, Call
  <2>3. CASE LockFails(t) \/ Crash(t)
    BY <1>1, <1>2, <2>3 DEF LockFails, Crash, Return
  <2>. QED
    BY <1>3, <2>1, <2>2, <2>3
<1>4. CASE Proceed(t)
  <2>1. CASE ReadCache(t) \/ Load(t) \/ Accept(t) \/ Reject(t)
    BY <1>1, <2>1 DEF ReadCache, Load, Accept, Reject, Call, Scanning, At
  <2>2. CASE Compare(t) \/ Retry(t)
    BY <1>1, <2>2 DEF Compare, Retry, Call
  <2>3. CASE \/ SaltMismatch(t) \/ PreconditionFails(t) \/ Roll(t) \/ ReadFails(t)
             \/ GiveUp(t) \/ RenameUnsynced(t) \/ WriteFails(t) \/ Publish(t)
    BY <1>1, <1>2, <2>3 DEF SaltMismatch, PreconditionFails, Roll, ReadFails, GiveUp,
       RenameUnsynced, WriteFails, Publish, Return
  <2>. QED
    BY <1>4, <2>1, <2>2, <2>3 DEF Proceed
<1>. QED
  BY <1>3, <1>4

\* Two calls are never past the lock together.
LEMMA Alone ==
    ASSUME IInv, NEW t \in Tasks, NEW u \in Tasks,
           call[t].pc \notin {"idle", "waiting"}, call[u].pc \notin {"idle", "waiting"}
    PROVE  t = u
BY SubscriptionAssumption DEF IInv, Inv, Guarded

\* A step of the repository keeps the channel, whoever takes it.
LEMMA RepositoryChannel ==
    ASSUME IInv, IInv', Channel, NEW t \in Tasks,
           Start(t) \/ Acquire(t) \/ LockFails(t) \/ Proceed(t) \/ Crash(t),
           sent' = sent,
           announced' \in [Local -> Nat],
           \A u \in Local : u # t => announced'[u] = announced[u],
           t \in Local => announced'[t] = 0,
           Len(disk.log) <= Len(disk'.log)
    PROVE  Channel'
<1>1. /\ call \in [Tasks -> Call] /\ call[t] \in Call
      /\ disk.log \in Seq(Event) /\ disk'.log \in Seq(Event)
  BY DEF IInv, Inv, TypeOK, File
<1>2. \A u \in Tasks : u # t => call'[u] = call[u]
  BY OthersKeep
<1>3. \A u \in Tasks : u # t => (Publishing(u) <=> Publishing(u)')
  BY <1>2 DEF Publishing, At
<1>4. CASE Rename(t)
  <2>1. /\ call[t].pc = "renaming" /\ call'[t].pc = "committed"
        /\ call'[t].base = call[t].base /\ call'[t].seen = call[t].seen
        /\ call'[t].work = call[t].work
    BY <1>1, <1>4 DEF Rename, At, Call
  <2>2. /\ call[t].base = disk /\ call[t].seen = disk
        /\ Len(disk.log) <= Len(call[t].work)
    BY <2>1, SubscriptionAssumption DEF IInv, Inv, UpToDate, IsPrefixOf
  <2>3. call[t].work \in Seq(Event)
    BY <1>1 DEF Call
  <2>4. Len(Accepted(call'[t])) \in Nat
    BY <1>1, <2>1, <2>2, <2>3 DEF Accepted
  <2>5. Carried(t)'
    BY <2>1, <2>2 DEF Carried
  <2>6. \A u \in Tasks : u # t => Carried(u)'
    BY <1>2 DEF Carried, Channel
  <2>7. t \in Local => Sending(t)'
    BY <1>1, <2>1, <2>2, <2>4 DEF Sending, Channel
  <2>8. \A u \in Local : u # t => Sending(u)'
    BY <1>2, <1>3, SubscriptionAssumption DEF Sending, Channel
  <2>. QED
    BY <1>1, <2>5, <2>6, <2>7, <2>8 DEF Channel
<1>5. CASE WriteCache(t)
  <2>1. /\ call[t].pc = "committed" /\ call[t].cached /\ call'[t].pc = "publishing"
        /\ call'[t].base = call[t].base /\ call'[t].seen = call[t].seen
        /\ call'[t].work = call[t].work
    BY <1>1, <1>5 DEF WriteCache, At, Call
  <2>2. t \in Local => announced[t] = 0
    BY <2>1, SubscriptionAssumption DEF Sending, Channel, Publishing, At
  <2>3. Carried(t)'
    BY <2>1 DEF Carried, Channel
  <2>4. \A u \in Tasks : u # t => Carried(u)'
    BY <1>2 DEF Carried, Channel
  <2>5. t \in Local => Sending(t)'
    BY <2>1, <2>2 DEF Sending, Channel, Accepted
  <2>6. \A u \in Local : u # t => Sending(u)'
    BY <1>2, <1>3, SubscriptionAssumption DEF Sending, Channel
  <2>. QED
    BY <1>1, <2>3, <2>4, <2>5, <2>6 DEF Channel
<1>6. CASE ~Rename(t) /\ ~WriteCache(t)
  <2>1. call'[t].pc \notin {"committed", "publishing"}
    BY <1>6, PastTheRename
  <2>2. Carried(t)' /\ \A u \in Tasks : u # t => Carried(u)'
    BY <1>2, <2>1 DEF Carried, Channel
  <2>3. t \in Local => Sending(t)'
    BY <2>1 DEF Sending
  <2>4. \A u \in Local : u # t => Sending(u)'
    BY <1>2, <1>3, SubscriptionAssumption DEF Sending, Channel
  <2>. QED
    BY <1>1, <2>2, <2>3, <2>4 DEF Channel
<1>. QED
  BY <1>4, <1>5, <1>6

\* A rename only adds to the log.
LEMMA LogGrows ==
    ASSUME IInv, [Next]_vars
    PROVE  Len(disk.log) <= Len(disk'.log)
<1>1. disk.log \in Seq(Event)
  BY DEF IInv, Inv, TypeOK, File
<1>2. CASE disk' = disk
  BY <1>1, <1>2
<1>3. CASE disk' # disk
  <2>1. PICK t \in Tasks : At(t, "renaming") /\ disk' = Combined(t)
    BY <1>3, NextIsCallStep, OnlyRenamesWrite DEF vars
  <2>2. IsPrefixOf(disk.log, disk'.log)
    BY <2>1, CombinedIsWork, SubscriptionAssumption DEF IInv
  <2>. QED
    BY <2>2 DEF IsPrefixOf
<1>. QED
  BY <1>2, <1>3

\* How many events a batch has added.
LEMMA RestLength ==
    ASSUME NEW w \in Seq(Event), NEW n \in 0..Len(w)
    PROVE  Len(SubSeq(w, n + 1, Len(w))) = Len(w) - n
<1>1. Len(w) \in Nat /\ n + 1 \in 1..(Len(w) + 1)
  OBVIOUS
<1>2. \A i \in (n + 1)..Len(w) : w[i] \in Event
  BY <1>1
<1>. QED
  BY <1>1, <1>2

\* What a call sends next is on the log, behind everything sent before.
LEMMA NextToSend ==
    ASSUME IInv, Channel, NEW t \in Local, Publishing(t), Unsent(t)
    PROVE  LET p == Positions(call[t])[announced[t] + 1]
           IN  /\ p \in Nat \ {0}
               /\ p = Len(call[t].base.log) + announced[t] + 1
               /\ p <= Len(disk.log)
               /\ \A i \in DOMAIN sent : sent[i] < p
<1>1. /\ t \in Tasks /\ call[t] \in Call /\ call[t].pc \in {"committed", "publishing"}
      /\ announced[t] \in Nat
  BY SubscriptionAssumption DEF IInv, Inv, TypeOK, Publishing, At, Channel
<1>2. /\ call[t].work = disk.log /\ call[t].base = call[t].seen
      /\ Len(call[t].seen.log) <= Len(call[t].work)
  BY <1>1, SubscriptionAssumption DEF IInv, Inv, UpToDate, Channel, Carried
<1>3. /\ call[t].work \in Seq(Event) /\ call[t].seen.log \in Seq(Event)
      /\ call[t].base.log \in Seq(Event)
  BY <1>1 DEF Call, File
<1>4. /\ Len(Accepted(call[t])) = Len(call[t].work) - Len(call[t].seen.log)
      /\ Len(Accepted(call[t])) \in Nat
  <2>1. Len(call[t].seen.log) \in 0..Len(call[t].work)
    BY <1>2, <1>3
  <2>2. Len(SubSeq(call[t].work, Len(call[t].seen.log) + 1, Len(call[t].work)))
          = Len(call[t].work) - Len(call[t].seen.log)
    BY <1>3, <2>1, RestLength
  <2>3. Accepted(call[t]) = SubSeq(call[t].work, Len(call[t].seen.log) + 1, Len(call[t].work))
    BY DEF Accepted
  <2>4. Len(call[t].work) - Len(call[t].seen.log) \in Nat
    BY <1>3, <2>1
  <2>. QED
    BY <2>2, <2>3, <2>4
<1>5. PICK a \in Nat : a = announced[t]
  BY <1>1, Zenon
<1>6. PICK m \in Nat : m = Len(Accepted(call[t]))
  BY <1>4, Zenon
<1>7. PICK b \in Nat : b = Len(call[t].base.log)
  <2>1. Len(call[t].base.log) \in Nat
    BY <1>3
  <2>. QED
    BY <2>1, Zenon
<1>8. a + 1 \in 1..m
  <2>1. a < m
    BY <1>5, <1>6, Zenon DEF Unsent
  <2>. QED
    BY <2>1
<1>9. Positions(call[t])[a + 1] = b + (a + 1)
  <2>1. \A i \in 1..m : Positions(call[t])[i] = b + i
    BY <1>6, <1>7 DEF Positions
  <2>. QED
    BY <1>8, <2>1, Zenon
<1>10. Len(disk.log) = b + m
  <2>1. Len(call[t].base.log) = Len(call[t].seen.log) /\ Len(call[t].work) = Len(disk.log)
    BY <1>2
  <2>2. PICK d \in Nat : d = Len(disk.log)
    <3>1. Len(call[t].work) \in Nat
      BY <1>3
    <3>. QED
      BY <2>1, <3>1, Zenon
  <2>3. m = d - b
    BY <1>4, <1>6, <1>7, <2>1, <2>2, Zenon
  <2>4. d = b + m
    BY <2>3
  <2>. QED
    BY <2>2, <2>4, Zenon
<1>11. \A i \in DOMAIN sent : sent[i] \in Nat /\ sent[i] <= b + a
  <2>1. \A i \in DOMAIN sent : sent[i] \in Nat
    BY DEF Channel
  <2>2. \A i \in DOMAIN sent : sent[i] <= Len(call[t].base.log) + announced[t]
    BY <1>1 DEF Channel, Sending
  <2>. QED
    BY <1>5, <1>7, <2>1, <2>2, Zenon
<1>12. /\ b + (a + 1) \in Nat \ {0} /\ b + (a + 1) = b + a + 1
       /\ b + (a + 1) <= b + m /\ \A n \in Nat : n <= b + a => n < b + (a + 1)
  BY <1>8
<1>13. \A i \in DOMAIN sent : sent[i] < b + (a + 1)
  BY <1>11, <1>12, Zenon
<1>. QED
  BY <1>5, <1>7, <1>9, <1>10, <1>12, <1>13, Zenon

\* Sending keeps the channel.
LEMMA SendChannel ==
    ASSUME IInv, Channel, NEW t \in Local, Send(t)
    PROVE  Channel'
<1> DEFINE p == Positions(call[t])[announced[t] + 1]
<1>1. /\ Publishing(t) /\ Unsent(t)
      /\ announced' = [announced EXCEPT ![t] = announced[t] + 1]
      /\ sent' = Append(sent, p)
      /\ UNCHANGED <<vars, sub>>
  BY DEF Send
<1>2. /\ p \in Nat \ {0} /\ p = Len(call[t].base.log) + announced[t] + 1
      /\ p <= Len(disk.log) /\ \A i \in DOMAIN sent : sent[i] < p
  BY <1>1, NextToSend
<1> HIDE DEF p
<1>3. disk' = disk /\ call' = call
  BY <1>1 DEF vars
<1>4. sent \in Seq(Nat \ {0}) /\ announced \in [Local -> Nat]
  BY DEF Channel
<1>5. /\ sent' \in Seq(Nat \ {0}) /\ Len(sent') = Len(sent) + 1
      /\ \A i \in DOMAIN sent' : IF i = Len(sent) + 1 THEN sent'[i] = p
                                 ELSE i \in DOMAIN sent /\ sent'[i] = sent[i]
  BY <1>1, <1>2, <1>4
<1>6. announced' \in [Local -> Nat] /\ announced'[t] = announced[t] + 1
      /\ \A u \in Local : u # t => announced'[u] = announced[u]
  BY <1>1, <1>4
<1>7. \A i \in DOMAIN sent' : sent'[i] <= Len(disk'.log)
  BY <1>2, <1>3, <1>5 DEF Channel
<1>8. \A i, j \in DOMAIN sent' : i < j => sent'[i] < sent'[j]
  <2> SUFFICES ASSUME NEW i \in DOMAIN sent', NEW j \in DOMAIN sent', i < j
               PROVE  sent'[i] < sent'[j]
    OBVIOUS
  <2>1. i \in DOMAIN sent /\ sent'[i] = sent[i]
    BY <1>4, <1>5
  <2>2. CASE j = Len(sent) + 1
    BY <1>2, <1>5, <2>1, <2>2
  <2>3. CASE j # Len(sent) + 1
    BY <1>5, <2>1, <2>3 DEF Channel
  <2>. QED
    BY <2>2, <2>3
<1>9. \A u \in Tasks : Carried(u)'
  BY <1>3 DEF Channel, Carried
<1>10. Sending(t)'
  <2>1. Publishing(t)'
    BY <1>1, <1>3 DEF Publishing, At
  <2>2. announced'[t] <= Len(Accepted(call'[t]))
    <3>1. call[t] \in Call
      BY SubscriptionAssumption DEF IInv, Inv, TypeOK
    <3>2. Len(Accepted(call[t])) \in Nat
      BY <3>1 DEF Call, File, Accepted
    <3>. QED
      BY <1>1, <1>3, <1>4, <1>6, <3>2 DEF Unsent
  <2>3. \A i \in DOMAIN sent' : sent'[i] <= p
    <3> SUFFICES ASSUME NEW i \in DOMAIN sent' PROVE sent'[i] <= p
      OBVIOUS
    <3>1. CASE i = Len(sent) + 1
      BY <1>2, <1>5, <3>1
    <3>2. CASE i # Len(sent) + 1
      <4>1. i \in DOMAIN sent /\ sent'[i] = sent[i] /\ sent[i] \in Nat
        BY <1>4, <1>5, <3>2
      <4>. QED
        BY <1>2, <4>1
    <3>. QED
      BY <3>1, <3>2
  <2>4. p = Len(call'[t].base.log) + announced'[t]
    <3>1. call[t] \in Call
      BY SubscriptionAssumption DEF IInv, Inv, TypeOK
    <3>2. Len(call[t].base.log) \in Nat /\ announced[t] \in Nat
      BY <1>4, <3>1 DEF Call, File
    <3>3. Len(call'[t].base.log) = Len(call[t].base.log)
      BY <1>3
    <3>. QED
      BY <1>2, <1>6, <3>2, <3>3
  <2>. QED
    BY <2>1, <2>2, <2>3, <2>4 DEF Sending
<1>11. \A u \in Local : u # t => Sending(u)'
  <2> SUFFICES ASSUME NEW u \in Local, u # t PROVE Sending(u)'
    OBVIOUS
  <2>1. call[t].pc \in {"committed", "publishing"}
    BY <1>1 DEF Publishing, At
  <2>2. call[u].pc \notin {"committed", "publishing"}
    BY <2>1, Alone, SubscriptionAssumption
  <2>3. announced'[u] = 0
    BY <1>6, <2>2 DEF Channel, Sending, Publishing, At
  <2>. QED
    BY <1>3, <2>2, <2>3 DEF Sending
<1>. QED
  BY <1>5, <1>6, <1>7, <1>8, <1>9, <1>10, <1>11 DEF Channel

-----------------------------------------------------------------------------
(* The subscribers *)

\* What is right of a subscriber stays right when the log grows and something
\* is sent after all that was sent before.
LEMMA RightStays ==
    ASSUME sent \in Seq(Nat \ {0}), sent' \in Seq(Nat \ {0}),
           Len(sent) <= Len(sent'), \A i \in DOMAIN sent : sent'[i] = sent[i],
           Len(disk.log) \in Nat, Len(disk'.log) \in Nat, Len(disk.log) <= Len(disk'.log),
           NEW CONSTANT r \in Subscriber, Right(r)
    PROVE  Right(r)'
<1>1. /\ r.since \in Nat \ {0} /\ r.cursor \in Nat \ {0} /\ r.anchor \in Nat
      /\ r.history \in Seq(Nat \ {0}) /\ r.stream \in Seq(Frame)
  BY DEF Subscriber
<1>2. \A i \in 1..(r.cursor - 1) : i \in DOMAIN sent /\ sent'[i] = sent[i]
  <2>1. r.cursor <= Len(sent) + 1 /\ DOMAIN sent = 1..Len(sent) /\ Len(sent) \in Nat
    BY DEF Right, Placed
  <2> SUFFICES ASSUME NEW i \in 1..(r.cursor - 1)
               PROVE  i \in DOMAIN sent /\ sent'[i] = sent[i]
    OBVIOUS
  <2>2. i \in 1..Len(sent)
    BY <1>1, <2>1
  <2>. QED
    BY <2>1, <2>2
<1>3. Placed(r)'
  BY <1>1 DEF Right, Placed
<1>4. Shown(r)'
  BY <1>1, <1>2 DEF Right, Shown
<1>5. Ordered(r)'
  BY DEF Right, Ordered
<1>6. Joined(r)'
  <2>1. \A i \in 1..(r.since - 1) : sent'[i] = sent[i]
    <3>1. r.since <= r.cursor
      BY DEF Right, Placed
    <3>. QED
      BY <1>1, <1>2, <3>1
  <2>2. \A i \in r.since..(r.cursor - 1) : sent'[i] = sent[i]
    BY <1>1, <1>2
  <2>. QED
    BY <2>1, <2>2 DEF Right, Joined
<1>. QED
  BY <1>3, <1>4, <1>5, <1>6 DEF Right

\* A step of one subscriber keeps the invariant if its new state is right.
LEMMA SubscriberStep ==
    ASSUME SInv, NEW s \in Subscribers, NEW CONSTANT n \in Subscriber, Right(n),
           sub' = [sub EXCEPT ![s] = n], UNCHANGED <<vars, sent, announced>>
    PROVE  SInv'
<1>1. disk' = disk /\ call' = call /\ sent' = sent /\ announced' = announced
  BY DEF vars
<1>2. IInv'
  BY IInvStep DEF SInv
<1>3. Channel'
  BY <1>1 DEF SInv, Channel, Carried, Sending, Publishing, At
<1>4. sub' \in [Subscribers -> Subscriber]
  BY DEF SInv
<1>5. \A u \in Subscribers : Right(sub[u])'
  <2> SUFFICES ASSUME NEW u \in Subscribers PROVE Right(sub[u])'
    OBVIOUS
  <2>1. PICK r \in Subscriber : r = sub'[u]
    BY <1>4, Zenon
  <2>2. r = n \/ r = sub[u]
    BY <2>1 DEF SInv
  <2>3. Right(r)
    BY <2>2 DEF SInv
  <2>4. Right(r)'
    BY <1>1, <2>3 DEF Right, Placed, Shown, Ordered, Joined
  <2>5. Placed(sub[u])'
    BY <2>1, <2>4 DEF Right, Placed
  <2>6. Shown(sub[u])'
    BY <2>1, <2>4 DEF Right, Shown
  <2>7. Ordered(sub[u])'
    BY <2>1, <2>4 DEF Right, Ordered
  <2>8. Joined(sub[u])'
    BY <2>1, <2>4 DEF Right, Joined
  <2>. QED
    BY <2>5, <2>6, <2>7, <2>8 DEF Right
<1>. QED
  BY <1>2, <1>3, <1>4, <1>5 DEF SInv

\* Nothing is wrong with a subscriber that is not there.
LEMMA NobodyIsRight ==
    ASSUME Len(sent) \in Nat, Len(disk.log) \in Nat
    PROVE  NoSubscriber \in Subscriber /\ Right(NoSubscriber)
<1>1. NoSubscriber \in Subscriber
  BY DEF NoSubscriber, Subscriber, SubscribeMode
<1>2. Right(NoSubscriber)
  BY DEF NoSubscriber, Right, Placed, Shown, Ordered, Joined
<1>. QED
  BY <1>1, <1>2

\* A receiver that has replayed its history yields what it finds at its cursor,
\* behind a notice or not.
LEMMA Deliver ==
    ASSUME Channel,
           NEW CONSTANT r \in Subscriber, Right(r),
           r.phase \in {"open", "lagged"},
           Len(r.history) <= Len(r.stream), r.cursor <= Len(sent),
           NEW CONSTANT n \in Subscriber,
           n.phase = "open", n.mode = r.mode, n.anchor = r.anchor, n.since = r.since,
           n.history = r.history, n.lost = r.lost, n.cursor = r.cursor + 1,
           Len(r.stream) < Len(n.stream),
           \A k \in 1..Len(r.stream) : n.stream[k] = r.stream[k],
           \A k \in (Len(r.stream) + 1)..Len(n.stream) :
              /\ n.stream[k].at = sent[r.cursor]
              /\ k < Len(n.stream) => n.stream[k].frame # "Event"
    PROVE  Right(n)
<1>1. /\ r.since \in Nat \ {0} /\ r.cursor \in Nat \ {0} /\ r.anchor \in Nat
      /\ r.history \in Seq(Nat \ {0}) /\ r.stream \in Seq(Frame) /\ n.stream \in Seq(Frame)
  BY DEF Subscriber
<1>2. sent \in Seq(Nat \ {0}) /\ Len(sent) \in Nat
  BY DEF Channel
<1>3. Placed(n)
  BY <1>1, <1>2 DEF Right, Placed
<1>4. ASSUME NEW k \in DOMAIN n.stream
      PROVE  \/ k \in DOMAIN r.stream /\ n.stream[k] = r.stream[k]
             \/ k \in (Len(r.stream) + 1)..Len(n.stream)
  <2>1. /\ Len(r.stream) \in Nat /\ DOMAIN r.stream = 1..Len(r.stream)
        /\ Len(n.stream) \in Nat /\ k \in 1..Len(n.stream)
    BY <1>1
  <2>2. k \in 1..Len(r.stream) \/ k \in (Len(r.stream) + 1)..Len(n.stream)
    BY <2>1
  <2>. QED
    BY <2>1, <2>2
<1>5. Shown(n)
  <2>1. \A h \in DOMAIN n.history : n.history[h] <= Len(disk.log)
    BY DEF Right, Shown
  <2>2. ASSUME NEW k \in DOMAIN n.stream
        PROVE  IF k <= Len(n.history) THEN n.stream[k].at = n.history[k]
               ELSE \E i \in 1..(n.cursor - 1) : n.stream[k].at = sent[i]
    <3>1. CASE k \in DOMAIN r.stream /\ n.stream[k] = r.stream[k]
      <4>1. IF k <= Len(r.history) THEN r.stream[k].at = r.history[k]
            ELSE \E i \in 1..(r.cursor - 1) : r.stream[k].at = sent[i]
        BY <3>1 DEF Right, Shown
      <4>2. 1..(r.cursor - 1) \subseteq 1..(n.cursor - 1)
        BY <1>1
      <4>. QED
        BY <3>1, <4>1, <4>2
    <3>2. CASE k \in (Len(r.stream) + 1)..Len(n.stream)
      <4>1. n.stream[k].at = sent[r.cursor] /\ r.cursor \in 1..(n.cursor - 1)
        BY <1>1, <3>2
      <4>2. ~(k <= Len(n.history))
        BY <1>1, <3>2
      <4>. QED
        BY <4>1, <4>2
    <3>. QED
      BY <1>4, <3>1, <3>2
  <2>. QED
    BY <2>1, <2>2 DEF Shown
<1>6. Ordered(n)
  <2> SUFFICES ASSUME NEW k \in DOMAIN n.stream, NEW l \in DOMAIN n.stream,
                      k > Len(r.history), n.stream[k].frame = "Event",
                      l > Len(r.history), n.stream[l].frame = "Event", k < l
               PROVE  n.stream[k].at < n.stream[l].at
    BY DEF Ordered
  <2>1. k \in DOMAIN r.stream /\ n.stream[k] = r.stream[k]
    BY <1>1, <1>4
  <2>2. CASE l \in DOMAIN r.stream /\ n.stream[l] = r.stream[l]
    BY <2>1, <2>2 DEF Right, Ordered
  <2>3. CASE l \in (Len(r.stream) + 1)..Len(n.stream)
    <3>1. PICK i \in 1..(r.cursor - 1) : r.stream[k].at = sent[i]
      <4>1. ~(k <= Len(r.history))
        BY <1>1
      <4>. QED
        BY <2>1, <4>1 DEF Right, Shown
    <3>2. i \in DOMAIN sent /\ r.cursor \in DOMAIN sent /\ i < r.cursor
      <4>1. DOMAIN sent = 1..Len(sent)
        BY <1>2
      <4>2. i \in 1..Len(sent) /\ r.cursor \in 1..Len(sent) /\ i < r.cursor
        <5>1. r.cursor \in Nat \ {0}
          BY <1>1
        <5>2. \A m, cursor \in Nat : cursor \in Nat \ {0} /\ cursor <= m =>
                 cursor \in 1..m /\ \A j \in 1..(cursor - 1) : j \in 1..m /\ j < cursor
          OBVIOUS
        <5>. QED
          BY <1>2, <5>1, <5>2, Zenon
      <4>. QED
        BY <4>1, <4>2
    <3>3. sent[i] < sent[r.cursor]
      BY <3>2 DEF Channel
    <3>. QED
      BY <2>1, <2>3, <3>1, <3>3
  <2>. QED
    BY <1>4, <2>2, <2>3
<1>7. Joined(n)
  <2>1. r.mode # "LiveOnly" =>
           \A i \in 1..(r.since - 1) :
              sent[i] > r.anchor => \E h \in DOMAIN r.history : r.history[h] = sent[i]
    BY DEF Right, Joined
  <2>2. ASSUME NEW i \in n.since..(n.cursor - 1)
        PROVE  sent[i] \in n.lost \/ \E k \in DOMAIN n.stream : n.stream[k].at = sent[i]
    <3>1. CASE i = r.cursor
      <4>1. Len(n.stream) \in DOMAIN n.stream /\ Len(n.stream) \in (Len(r.stream) + 1)..Len(n.stream)
        BY <1>1
      <4>. QED
        BY <3>1, <4>1
    <3>2. CASE i # r.cursor
      <4>1. i \in r.since..(r.cursor - 1)
        BY <1>1, <3>2
      <4>2. sent[i] \in r.lost \/ \E k \in DOMAIN r.stream : r.stream[k].at = sent[i]
        BY <4>1 DEF Right, Joined
      <4>3. \A k \in DOMAIN r.stream : k \in DOMAIN n.stream /\ n.stream[k] = r.stream[k]
        <5>1. DOMAIN r.stream = 1..Len(r.stream) /\ DOMAIN n.stream = 1..Len(n.stream)
          BY <1>1
        <5>2. Len(r.stream) \in Nat /\ Len(n.stream) \in Nat
          BY <1>1
        <5>. QED
          BY <5>1, <5>2
      <4>. QED
        BY <4>2, <4>3
    <3>. QED
      BY <3>1, <3>2
  <2>. QED
    BY <2>1, <2>2 DEF Joined
<1>. QED
  BY <1>3, <1>5, <1>6, <1>7 DEF Right

\* A receiver that has been overtaken is moved on, and the model remembers
\* past what.
LEMMA Moved ==
    ASSUME Channel,
           NEW CONSTANT r \in Subscriber, Right(r),
           r.phase \in {"open", "lagged"},
           Len(r.history) <= Len(r.stream), r.cursor < Oldest,
           NEW CONSTANT n \in Subscriber,
           n.phase \in {"open", "lagged"}, n.mode = r.mode, n.anchor = r.anchor,
           n.since = r.since, n.history = r.history, n.stream = r.stream, n.cursor = Oldest,
           n.lost = r.lost \cup {sent[i] : i \in r.cursor..(Oldest - 1)}
    PROVE  Right(n)
<1>1. /\ r.since \in Nat \ {0} /\ r.cursor \in Nat \ {0} /\ r.anchor \in Nat
      /\ r.history \in Seq(Nat \ {0}) /\ r.stream \in Seq(Frame)
  BY DEF Subscriber
<1>2. sent \in Seq(Nat \ {0}) /\ Len(sent) \in Nat
  BY DEF Channel
<1>3. Oldest \in Nat /\ Oldest <= Len(sent)
  BY <1>1, <1>2, SubscriptionAssumption DEF Oldest
<1>4. Placed(n)
  BY <1>1, <1>2, <1>3 DEF Right, Placed
<1>5. Shown(n)
  <2>1. 1..(r.cursor - 1) \subseteq 1..(n.cursor - 1)
    BY <1>1, <1>3
  <2>. QED
    BY <2>1 DEF Right, Shown
<1>6. Ordered(n)
  BY DEF Right, Ordered
<1>7. Joined(n)
  <2>1. r.mode # "LiveOnly" =>
           \A i \in 1..(r.since - 1) :
              sent[i] > r.anchor => \E h \in DOMAIN r.history : r.history[h] = sent[i]
    BY DEF Right, Joined
  <2>2. ASSUME NEW i \in n.since..(n.cursor - 1)
        PROVE  sent[i] \in n.lost \/ \E k \in DOMAIN n.stream : n.stream[k].at = sent[i]
    <3>1. CASE i < r.cursor
      <4>1. i \in r.since..(r.cursor - 1)
        BY <1>1, <1>3, <3>1
      <4>. QED
        BY <4>1 DEF Right, Joined
    <3>2. CASE ~(i < r.cursor)
      <4>1. i \in r.cursor..(Oldest - 1)
        BY <1>1, <1>3, <3>2
      <4>. QED
        BY <4>1
    <3>. QED
      BY <3>1, <3>2
  <2>. QED
    BY <2>1, <2>2 DEF Joined
<1>. QED
  BY <1>4, <1>5, <1>6, <1>7 DEF Right

\* What may be lost and still be a subscriber.
LEMMA LostIsNat ==
    ASSUME Channel, NEW a \in Nat \ {0}, Oldest <= Len(sent)
    PROVE  {sent[i] : i \in a..(Oldest - 1)} \in SUBSET (Nat \ {0})
<1>1. sent \in Seq(Nat \ {0}) /\ Len(sent) \in Nat /\ DOMAIN sent = 1..Len(sent)
  BY DEF Channel
<1>2. \A i \in DOMAIN sent : sent[i] \in Nat \ {0}
  BY <1>1
<1>3. Oldest \in Nat
  BY <1>1, SubscriptionAssumption DEF Oldest
<1>4. a..(Oldest - 1) \subseteq DOMAIN sent
  BY <1>1, <1>3
<1>. QED
  BY <1>2, <1>4

\* Where the channel begins, for a receiver it has overtaken.
LEMMA OldestIsThere ==
    ASSUME Channel, NEW a \in Nat \ {0}, a < Oldest
    PROVE  Oldest \in Nat \ {0} /\ Oldest <= Len(sent)
<1>1. Len(sent) \in Nat
  BY DEF Channel
<1>. QED
  BY <1>1, SubscriptionAssumption DEF Oldest

\* Attaching a receiver keeps the invariant.
LEMMA SubscribeInv ==
    ASSUME SInv, NEW s \in Subscribers, Subscribe(s)
    PROVE  SInv'
<1>1. PICK mode \in Replays, anchor \in Nat :
         /\ anchor <= Len(disk.log)
         /\ sub' = [sub EXCEPT ![s] =
                     [NoSubscriber EXCEPT
                        !.phase = IF mode = "LiveOnly" THEN "open" ELSE "loading",
                        !.mode = mode, !.anchor = anchor,
                        !.since = Len(sent) + 1, !.cursor = Len(sent) + 1]]
  <2>1. Len(disk.log) \in Nat
    BY DEF SInv, IInv, Inv, TypeOK, File
  <2>2. \A mode \in Replays :
          \A anchor \in IF mode = "FromEventId" THEN 0..Len(disk.log) ELSE {0} :
             anchor \in Nat /\ anchor <= Len(disk.log)
    BY <2>1
  <2>. QED
    BY <2>2 DEF Subscribe
<1>2. PICK n : n = [NoSubscriber EXCEPT
                        !.phase = IF mode = "LiveOnly" THEN "open" ELSE "loading",
                        !.mode = mode, !.anchor = anchor,
                        !.since = Len(sent) + 1, !.cursor = Len(sent) + 1]
  OBVIOUS
<1>3. Len(sent) \in Nat /\ Len(sent) + 1 \in Nat \ {0}
  BY DEF SInv, Channel
<1>4. n \in Subscriber
  <2>1. NoSubscriber \in Subscriber
    BY NobodyIsRight DEF SInv, Channel, IInv, Inv, TypeOK, File
  <2>2. mode \in SubscribeMode
    BY SubscriptionAssumption
  <2>3. PICK phase : phase = IF mode = "LiveOnly" THEN "open" ELSE "loading"
    OBVIOUS
  <2>4. phase \in {"none", "loading", "open", "lagged"}
    BY <2>3
  <2>5. n = [NoSubscriber EXCEPT !.phase = phase, !.mode = mode, !.anchor = anchor,
                                 !.since = Len(sent) + 1, !.cursor = Len(sent) + 1]
    BY <1>2, <2>3
  <2>. QED
    BY <1>3, <2>1, <2>2, <2>4, <2>5 DEF Subscriber
<1>5. /\ n.phase = (IF mode = "LiveOnly" THEN "open" ELSE "loading")
      /\ n.mode = mode /\ n.anchor = anchor
      /\ n.since = Len(sent) + 1 /\ n.cursor = Len(sent) + 1
      /\ n.history = <<>> /\ n.stream = <<>>
  BY <1>2 DEF NoSubscriber
<1>6. Right(n)
  BY <1>1, <1>3, <1>5 DEF Right, Placed, Shown, Ordered, Joined
<1>7. sub' = [sub EXCEPT ![s] = n] /\ UNCHANGED <<vars, sent, announced>>
  BY <1>1, <1>2 DEF Subscribe
<1>. QED
  BY <1>4, <1>6, <1>7, SubscriberStep

\* So does reading the history: all that has been sent is on the file by then.
LEMMA LoadHistoryInv ==
    ASSUME SInv, NEW s \in Subscribers, LoadHistory(s)
    PROVE  SInv'
<1>1. PICK r \in Subscriber : r = sub[s]
  BY Zenon DEF SInv
<1>2. PICK hist : hist = [i \in 1..(Len(disk.log) - r.anchor) |-> r.anchor + i]
  OBVIOUS
<1>3. PICK n : n = [r EXCEPT !.phase = "open", !.history = hist]
  OBVIOUS
<1>4. Right(r) /\ r.phase = "loading"
  BY <1>1 DEF SInv, LoadHistory
<1>5. /\ r.anchor \in Nat /\ Len(disk.log) \in Nat /\ r.anchor <= Len(disk.log)
      /\ r.cursor \in Nat \ {0} /\ r.since = r.cursor /\ r.stream = <<>>
  BY <1>4 DEF Right, Placed, Subscriber, SInv, IInv, Inv, TypeOK, File
<1>6. /\ hist \in Seq(Nat \ {0}) /\ Len(hist) = Len(disk.log) - r.anchor
      /\ \A h \in 1..(Len(disk.log) - r.anchor) : hist[h] = r.anchor + h
  <2>1. Len(disk.log) - r.anchor \in Nat
    BY <1>5
  <2>2. hist \in [1..(Len(disk.log) - r.anchor) -> Nat \ {0}]
    BY <1>2, <1>5
  <2>. QED
    BY <1>2, <2>1, <2>2
<1>7. n \in Subscriber
  BY <1>3, <1>6 DEF Subscriber
<1>8. /\ n.phase = "open" /\ n.mode = r.mode /\ n.anchor = r.anchor /\ n.since = r.since
      /\ n.cursor = r.cursor /\ n.history = hist /\ n.stream = <<>>
  BY <1>3, <1>5 DEF Subscriber
<1>9. Placed(n)
  BY <1>4, <1>8 DEF Right, Placed
<1>10. Shown(n) /\ Ordered(n)
  <2>1. \A h \in DOMAIN hist : hist[h] <= Len(disk.log)
    BY <1>5, <1>6
  <2>. QED
    BY <1>8, <2>1 DEF Shown, Ordered
<1>11. Joined(n)
  <2>1. ASSUME NEW i \in 1..(n.since - 1), sent[i] > n.anchor
        PROVE  \E h \in DOMAIN n.history : n.history[h] = sent[i]
    <3>1. i \in DOMAIN sent
      <4>1. DOMAIN sent = 1..Len(sent) /\ Len(sent) \in Nat
        BY DEF SInv, Channel
      <4>2. i \in 1..Len(sent)
        BY <1>4, <1>5, <1>8, <4>1 DEF Right, Placed
      <4>. QED
        BY <4>1, <4>2
    <3>2. sent[i] \in Nat /\ sent[i] <= Len(disk.log)
      BY <3>1 DEF SInv, Channel
    <3>3. sent[i] - r.anchor \in 1..(Len(disk.log) - r.anchor)
      BY <1>5, <1>8, <2>1, <3>2
    <3>4. hist[sent[i] - r.anchor] = sent[i] /\ sent[i] - r.anchor \in DOMAIN hist
      BY <1>5, <1>6, <3>2, <3>3
    <3>. QED
      BY <1>8, <3>4
  <2>2. n.since..(n.cursor - 1) = {}
    BY <1>5, <1>8
  <2>. QED
    BY <2>1, <2>2 DEF Joined
<1>12. sub' = [sub EXCEPT ![s] = n] /\ UNCHANGED <<vars, sent, announced>>
  <2>1. sub' = [sub EXCEPT ![s].phase = "open", ![s].history = hist]
    BY <1>1, <1>2 DEF LoadHistory
  <2>. QED
    BY <1>1, <1>3, <2>1 DEF LoadHistory, SInv
<1>. QED
  BY <1>7, <1>9, <1>10, <1>11, <1>12, SubscriberStep DEF Right

\* The subscription ends, with an error or because nobody listens any more.
LEMMA EndInv ==
    ASSUME SInv, NEW s \in Subscribers, SubscribeFails(s) \/ Unsubscribe(s)
    PROVE  SInv'
<1>1. NoSubscriber \in Subscriber /\ Right(NoSubscriber)
  BY NobodyIsRight DEF SInv, Channel, IInv, Inv, TypeOK, File
<1>2. PICK n \in Subscriber : n = NoSubscriber
  BY <1>1, Zenon
<1>3. Right(n)
  BY <1>1, <1>2, Zenon
<1>4. sub' = [sub EXCEPT ![s] = n] /\ UNCHANGED <<vars, sent, announced>>
  BY <1>2 DEF SubscribeFails, Unsubscribe
<1>. QED
  BY <1>3, <1>4, SubscriberStep

\* So does yielding the history.
LEMMA ReplayInv ==
    ASSUME SInv, NEW s \in Subscribers, Replay(s)
    PROVE  SInv'
<1>1. PICK r \in Subscriber : r = sub[s]
  BY Zenon DEF SInv
<1>2. /\ Right(r) /\ r.phase = "open" /\ Len(r.stream) < Len(r.history)
      /\ sub' = [sub EXCEPT ![s].stream =
                    Append(sub[s].stream, EventFrame(sub[s].history[Len(sub[s].stream) + 1]))]
  BY <1>1 DEF SInv, Replay, Replaying
<1>3. r.history \in Seq(Nat \ {0}) /\ r.stream \in Seq(Frame)
  BY DEF Subscriber
<1>4. PICK f : f = EventFrame(r.history[Len(r.stream) + 1])
  OBVIOUS
<1>5. f \in Frame /\ f.at = r.history[Len(r.stream) + 1]
  <2>1. Len(r.stream) + 1 \in 1..Len(r.history)
    BY <1>2, <1>3
  <2>2. r.history[Len(r.stream) + 1] \in Nat \ {0}
    BY <1>3, <2>1
  <2>. QED
    BY <1>4, <2>2 DEF EventFrame, Frame
<1>6. PICK stream \in Seq(Frame) : stream = Append(r.stream, f)
  <2>1. Append(r.stream, f) \in Seq(Frame)
    BY <1>3, <1>5
  <2>. QED
    BY <2>1, Zenon
<1>7. PICK n : n = [r EXCEPT !.stream = stream]
  OBVIOUS
<1>8. /\ n \in Subscriber
      /\ n.phase = r.phase /\ n.mode = r.mode /\ n.anchor = r.anchor /\ n.since = r.since
      /\ n.cursor = r.cursor /\ n.history = r.history /\ n.lost = r.lost
      /\ n.stream = stream
  BY <1>7 DEF Subscriber
<1>9. /\ n.stream \in Seq(Frame) /\ Len(n.stream) = Len(r.stream) + 1
      /\ \A k \in DOMAIN n.stream :
            IF k = Len(r.stream) + 1 THEN n.stream[k] = f
            ELSE k \in DOMAIN r.stream /\ n.stream[k] = r.stream[k]
      /\ \A k \in DOMAIN r.stream : k \in DOMAIN n.stream /\ n.stream[k] = r.stream[k]
  BY <1>3, <1>5, <1>6, <1>8
<1>10. \A k \in DOMAIN n.stream : k <= Len(n.history)
  BY <1>2, <1>3, <1>8, <1>9
<1>11. Placed(n)
  BY <1>2, <1>8 DEF Right, Placed
<1>12. Shown(n)
  <2>1. \A k \in DOMAIN n.stream : n.stream[k].at = n.history[k]
    BY <1>2, <1>5, <1>8, <1>9, <1>10 DEF Right, Shown
  <2>2. \A h \in DOMAIN n.history : n.history[h] <= Len(disk.log)
    BY <1>2, <1>8 DEF Right, Shown
  <2>. QED
    BY <1>10, <2>1, <2>2 DEF Shown
<1>13. Ordered(n)
  <2>1. \A k \in DOMAIN n.stream : ~(k > Len(n.history))
    BY <1>3, <1>8, <1>9, <1>10
  <2>. QED
    BY <2>1 DEF Ordered
<1>14. Joined(n)
  BY <1>2, <1>8, <1>9 DEF Right, Joined
<1>15. sub' = [sub EXCEPT ![s] = n] /\ UNCHANGED <<vars, sent, announced>>
  BY <1>1, <1>2, <1>4, <1>6, <1>7 DEF Replay, SInv
<1>. QED
  BY <1>8, <1>11, <1>12, <1>13, <1>14, <1>15, SubscriberStep DEF Right

\* An event of the channel as a frame.
LEMMA SentIsFrame ==
    ASSUME Channel, NEW i \in Nat \ {0}, i <= Len(sent), NEW n \in Nat
    PROVE  EventFrame(sent[i]) \in Frame /\ LaggedFrame(n, sent[i]) \in Frame
<1>1. sent \in Seq(Nat \ {0}) /\ i \in 1..Len(sent)
  BY DEF Channel
<1>2. sent[i] \in Nat \ {0}
  BY <1>1
<1>. QED
  BY <1>2 DEF EventFrame, LaggedFrame, Frame

\* So does yielding an event of the channel.
LEMMA ReceiveInv ==
    ASSUME SInv, NEW s \in Subscribers, Receive(s)
    PROVE  SInv'
<1>1. PICK r \in Subscriber : r = sub[s]
  BY Zenon DEF SInv
<1>2. /\ Right(r) /\ r.phase = "open" /\ ~(Len(r.stream) < Len(r.history))
      /\ r.cursor <= Len(sent)
      /\ sub' = [sub EXCEPT ![s].stream = Append(sub[s].stream, EventFrame(sent[sub[s].cursor])),
                            ![s].cursor = sub[s].cursor + 1]
  <2>1. r.stream \in Seq(Frame) /\ r.history \in Seq(Nat \ {0})
    BY DEF Subscriber
  <2>. QED
    BY <1>1, <2>1 DEF SInv, Receive, Listening
<1>3. /\ r.cursor \in Nat \ {0} /\ r.cursor + 1 \in Nat \ {0}
      /\ r.history \in Seq(Nat \ {0}) /\ r.stream \in Seq(Frame)
      /\ Len(r.history) <= Len(r.stream)
  <2>1. r.cursor \in Nat \ {0} /\ r.history \in Seq(Nat \ {0}) /\ r.stream \in Seq(Frame)
    BY DEF Subscriber
  <2>. QED
    BY <1>2, <2>1
<1>4. PICK f \in Frame : f = EventFrame(sent[r.cursor])
  BY <1>2, <1>3, SentIsFrame, Zenon DEF SInv
<1>5. PICK stream \in Seq(Frame) : stream = Append(r.stream, f)
  <2>1. Append(r.stream, f) \in Seq(Frame)
    BY <1>3
  <2>. QED
    BY <2>1, Zenon
<1>6. PICK cursor \in Nat \ {0} : cursor = r.cursor + 1
  BY <1>3
<1>7. PICK n : n = [r EXCEPT !.stream = stream, !.cursor = cursor]
  OBVIOUS
<1>8. /\ n \in Subscriber
      /\ n.phase = "open" /\ n.mode = r.mode /\ n.anchor = r.anchor /\ n.since = r.since
      /\ n.history = r.history /\ n.lost = r.lost
      /\ n.cursor = cursor /\ n.stream = stream
  BY <1>2, <1>7 DEF Subscriber
<1>9. /\ Len(stream) = Len(r.stream) + 1
      /\ \A k \in 1..Len(r.stream) : stream[k] = r.stream[k]
      /\ \A k \in (Len(r.stream) + 1)..Len(stream) : stream[k] = f /\ ~(k < Len(stream))
  BY <1>3, <1>5
<1>10. f.at = sent[r.cursor]
  BY <1>4 DEF EventFrame
<1>11. /\ Len(r.stream) < Len(n.stream) /\ n.cursor = r.cursor + 1
       /\ \A k \in 1..Len(r.stream) : n.stream[k] = r.stream[k]
       /\ \A k \in (Len(r.stream) + 1)..Len(n.stream) :
             /\ n.stream[k].at = sent[r.cursor]
             /\ k < Len(n.stream) => n.stream[k].frame # "Event"
  BY <1>3, <1>6, <1>8, <1>9, <1>10
<1>12. Right(n)
  BY <1>2, <1>3, <1>8, <1>11, Deliver DEF SInv
<1>13. sub' = [sub EXCEPT ![s] = n] /\ UNCHANGED <<vars, sent, announced>>
  BY <1>1, <1>2, <1>4, <1>5, <1>6, <1>7 DEF Receive, SInv
<1>. QED
  BY <1>8, <1>12, <1>13, SubscriberStep

\* So does yielding a notice and the event behind it.
LEMMA ReceiveAfterLagInv ==
    ASSUME SInv, NEW s \in Subscribers, ReceiveAfterLag(s)
    PROVE  SInv'
<1>1. PICK r \in Subscriber : r = sub[s]
  BY Zenon DEF SInv
<1>2. /\ Right(r) /\ r.phase = "lagged"
      /\ r.cursor <= Len(sent) /\ Len(r.history) <= Len(r.stream)
      /\ sub' = [sub EXCEPT ![s].phase = "open", ![s].cursor = sub[s].cursor + 1,
                            ![s].skipped = 0,
                            ![s].stream = sub[s].stream \o
                               <<LaggedFrame(sub[s].skipped, sent[sub[s].cursor]),
                                 EventFrame(sent[sub[s].cursor])>>]
  <2>1. Right(r) /\ r.phase = "lagged"
    BY <1>1 DEF SInv, ReceiveAfterLag
  <2>2. r.cursor <= Len(sent) /\ Len(r.history) <= Len(r.stream)
    BY <2>1 DEF Right, Placed
  <2>. QED
    BY <2>1, <2>2 DEF ReceiveAfterLag
<1>3. /\ r.cursor \in Nat \ {0} /\ r.cursor + 1 \in Nat \ {0} /\ r.skipped \in Nat
      /\ r.history \in Seq(Nat \ {0}) /\ r.stream \in Seq(Frame)
  BY DEF Subscriber
<1>4. PICK f \in Frame : f = EventFrame(sent[r.cursor])
  BY <1>2, <1>3, SentIsFrame, Zenon DEF SInv
<1>5. PICK g \in Frame : g = LaggedFrame(r.skipped, sent[r.cursor])
  BY <1>2, <1>3, SentIsFrame, Zenon DEF SInv
<1>6. PICK stream \in Seq(Frame) : stream = r.stream \o <<g, f>>
  <2>1. r.stream \o <<g, f>> \in Seq(Frame)
    BY <1>3
  <2>. QED
    BY <2>1, Zenon
<1>7. PICK cursor \in Nat \ {0} : cursor = r.cursor + 1
  BY <1>3
<1>8. PICK n : n = [r EXCEPT !.phase = "open", !.cursor = cursor, !.skipped = 0,
                             !.stream = stream]
  OBVIOUS
<1>9. /\ n \in Subscriber
      /\ n.phase = "open" /\ n.mode = r.mode /\ n.anchor = r.anchor /\ n.since = r.since
      /\ n.history = r.history /\ n.lost = r.lost
      /\ n.cursor = cursor /\ n.stream = stream
  BY <1>8 DEF Subscriber
<1>10. /\ Len(stream) = Len(r.stream) + 2
       /\ \A k \in 1..Len(r.stream) : stream[k] = r.stream[k]
       /\ stream[Len(r.stream) + 1] = g /\ stream[Len(r.stream) + 2] = f
  BY <1>3, <1>6
<1>11. f.at = sent[r.cursor] /\ g.at = sent[r.cursor] /\ g.frame # "Event"
  BY <1>4, <1>5 DEF EventFrame, LaggedFrame
<1>12. \A k \in (Len(r.stream) + 1)..Len(stream) :
          /\ stream[k].at = sent[r.cursor]
          /\ k < Len(stream) => stream[k].frame # "Event"
  <2> SUFFICES ASSUME NEW k \in (Len(r.stream) + 1)..Len(stream)
               PROVE  /\ stream[k].at = sent[r.cursor]
                      /\ k < Len(stream) => stream[k].frame # "Event"
    OBVIOUS
  <2>1. \/ k = Len(r.stream) + 1
        \/ k = Len(r.stream) + 2 /\ ~(k < Len(stream))
    BY <1>3, <1>10
  <2>. QED
    BY <1>10, <1>11, <2>1
<1>13. Len(r.stream) < Len(n.stream) /\ n.cursor = r.cursor + 1
  BY <1>3, <1>7, <1>9, <1>10
<1>14. Right(n)
  BY <1>2, <1>9, <1>10, <1>12, <1>13, Deliver DEF SInv
<1>15. sub' = [sub EXCEPT ![s] = n] /\ UNCHANGED <<vars, sent, announced>>
  BY <1>1, <1>2, <1>4, <1>5, <1>6, <1>7, <1>8 DEF ReceiveAfterLag, SInv
<1>. QED
  BY <1>9, <1>14, <1>15, SubscriberStep

\* recv finds the receiver overtaken, for the first time or again.
LEMMA OvertakenInv ==
    ASSUME SInv, NEW s \in Subscribers, Lag(s) \/ LagAgain(s)
    PROVE  SInv'
<1>1. PICK r \in Subscriber : r = sub[s]
  BY Zenon DEF SInv
<1>2. Right(r) /\ r.cursor < Oldest
  BY <1>1 DEF SInv, Lag, LagAgain, Overtaken
<1>3. /\ r.cursor \in Nat \ {0} /\ r.lost \in SUBSET (Nat \ {0})
      /\ r.history \in Seq(Nat \ {0}) /\ r.stream \in Seq(Frame)
  BY DEF Subscriber
<1>4. r.phase \in {"open", "lagged"} /\ Len(r.history) <= Len(r.stream)
  <2>1. CASE Lag(s)
    BY <1>1, <1>3, <2>1 DEF Lag, Listening
  <2>2. CASE LagAgain(s)
    BY <1>1, <1>2, <2>2 DEF LagAgain, Right, Placed
  <2>. QED
    BY <2>1, <2>2
<1>5. Oldest \in Nat \ {0} /\ Oldest <= Len(sent)
  BY <1>2, <1>3, OldestIsThere DEF SInv
<1>6. PICK past \in SUBSET (Nat \ {0}) : past = {sent[i] : i \in r.cursor..(Oldest - 1)}
  BY <1>3, <1>5, LostIsNat, Zenon DEF SInv
<1>7. PICK phase \in {"open", "lagged"}, skipped \in Nat :
         sub' = [sub EXCEPT ![s] = [[r EXCEPT !.cursor = Oldest, !.lost = r.lost \cup past]
                                      EXCEPT !.phase = phase, !.skipped = skipped]]
  <2>1. Skip(s) = [r EXCEPT !.cursor = Oldest, !.lost = r.lost \cup past]
    BY <1>1, <1>6 DEF Skip
  <2>2. CASE Lag(s)
    <3>1. Oldest - r.cursor \in Nat
      BY <1>2, <1>3, <1>5
    <3>. QED
      BY <1>1, <2>1, <2>2, <3>1 DEF Lag
  <2>3. CASE LagAgain(s)
    BY <2>1, <2>3 DEF LagAgain
  <2>. QED
    BY <2>2, <2>3
<1>8. PICK oldest \in Nat \ {0} : oldest = Oldest
  BY <1>5, Zenon
<1>9. PICK lost \in SUBSET (Nat \ {0}) : lost = r.lost \cup past
  BY <1>3
<1>10. PICK n : n = [[r EXCEPT !.cursor = oldest, !.lost = lost]
                        EXCEPT !.phase = phase, !.skipped = skipped]
  OBVIOUS
<1>11. /\ n \in Subscriber
       /\ n.phase = phase /\ n.mode = r.mode /\ n.anchor = r.anchor /\ n.since = r.since
       /\ n.history = r.history /\ n.stream = r.stream
       /\ n.cursor = oldest /\ n.lost = lost
  BY <1>10 DEF Subscriber
<1>12. Right(n)
  BY <1>2, <1>4, <1>6, <1>8, <1>9, <1>11, Moved DEF SInv
<1>13. sub' = [sub EXCEPT ![s] = n] /\ UNCHANGED <<vars, sent, announced>>
  BY <1>7, <1>8, <1>9, <1>10 DEF Lag, LagAgain
<1>. QED
  BY <1>11, <1>12, <1>13, SubscriberStep

-----------------------------------------------------------------------------
(* Every step *)

\* A step that only moves the log and the channel on keeps the subscribers
\* right.
LEMMA OthersStayRight ==
    ASSUME SInv, IInv', Channel', sub' = sub,
           Len(disk.log) <= Len(disk'.log),
           Len(sent) <= Len(sent'), \A i \in DOMAIN sent : sent'[i] = sent[i]
    PROVE  SInv'
<1>1. /\ sent \in Seq(Nat \ {0}) /\ sent' \in Seq(Nat \ {0})
      /\ Len(disk.log) \in Nat /\ Len(disk'.log) \in Nat
  BY DEF SInv, Channel, IInv, Inv, TypeOK, File
<1>2. ASSUME NEW s \in Subscribers
      PROVE  Right(sub[s])'
  <2>1. PICK r \in Subscriber : r = sub[s]
    BY Zenon DEF SInv
  <2>2. Right(r)
    BY <2>1 DEF SInv
  <2>3. Right(r)'
    BY <1>1, <2>2, RightStays
  <2>4. Placed(sub[s])'
    BY <2>1, <2>3 DEF Right, Placed
  <2>5. Shown(sub[s])'
    BY <2>1, <2>3 DEF Right, Shown
  <2>6. Ordered(sub[s])'
    BY <2>1, <2>3 DEF Right, Ordered
  <2>7. Joined(sub[s])'
    BY <2>1, <2>3 DEF Right, Joined
  <2>. QED
    BY <2>4, <2>5, <2>6, <2>7 DEF Right
<1>. QED
  BY <1>2 DEF SInv

\* The calls of this process and of others.
LEMMA RepositoryInv ==
    ASSUME SInv, NEW t \in Tasks, Repository(t) \/ ForeignCrash(t)
    PROVE  SInv'
<1>1. /\ \/ Start(t) \/ Acquire(t) \/ LockFails(t)
         \/ t \in holders /\ Proceed(t)
         \/ Crash(t)
      /\ sent' = sent /\ sub' = sub
  BY DEF Repository, Write, ForeignCrash, subVars
<1>2. Next
  BY <1>1 DEF Next
<1>3. IInv' /\ Len(disk.log) <= Len(disk'.log)
  BY <1>2, IInvStep, LogGrows DEF SInv
<1>4. announced \in [Local -> Nat]
  BY DEF SInv, Channel
<1>5. /\ announced' \in [Local -> Nat]
      /\ \A u \in Local : u # t => announced'[u] = announced[u]
      /\ t \in Local => announced'[t] = 0
  <2>1. CASE Write(t)
    BY <1>4, <2>1 DEF Write
  <2>2. CASE (Start(t) \/ Acquire(t) \/ LockFails(t)) /\ UNCHANGED announced
    <3>1. t \in Local => announced[t] = 0
      BY <2>2 DEF SInv, Channel, Sending, Publishing, At, Start, Acquire, LockFails
    <3>. QED
      BY <1>4, <2>2, <3>1
  <2>3. CASE ForeignCrash(t)
    BY <1>4, <2>3 DEF ForeignCrash, subVars
  <2>. QED
    BY <2>1, <2>2, <2>3 DEF Repository
<1>6. Channel'
  BY <1>1, <1>3, <1>5, RepositoryChannel DEF SInv
<1>7. Len(sent) <= Len(sent')
  BY <1>1 DEF SInv, Channel
<1>. QED
  BY <1>1, <1>3, <1>6, <1>7, OthersStayRight

\* The channel grows by what has just become part of the log.
LEMMA SendInv ==
    ASSUME SInv, NEW t \in Local, Send(t)
    PROVE  SInv'
<1>1. disk' = disk /\ call' = call /\ sub' = sub /\ UNCHANGED vars
  BY DEF Send, vars
<1>2. IInv' /\ Channel'
  BY <1>1, IInvStep, SendChannel DEF SInv
<1>3. Len(disk.log) <= Len(disk'.log)
  BY <1>1 DEF SInv, IInv, Inv, TypeOK, File
<1>4. Len(sent) <= Len(sent') /\ \A i \in DOMAIN sent : sent'[i] = sent[i]
  <2>1. PICK p : sent' = Append(sent, p)
    BY DEF Send
  <2>2. sent \in Seq(Nat \ {0})
    BY DEF SInv, Channel
  <2>. QED
    BY <2>1, <2>2
<1>. QED
  BY <1>1, <1>2, <1>3, <1>4, OthersStayRight

\* Nothing is left of the process but the file and the cache.
LEMMA LocalCrashInv ==
    ASSUME SInv, LocalCrash
    PROVE  SInv'
<1>1. /\ \A u \in Tasks : call'[u] = IF u \in Local THEN IdleCall ELSE call[u]
      /\ call' \in [Tasks -> Call]
      /\ holders' = holders \ Local /\ disk' = disk /\ cache' = cache
      /\ sent' = <<>> /\ announced' = [u \in Local |-> 0]
      /\ sub' = [s \in Subscribers |-> NoSubscriber]
  BY IdleIsCall DEF LocalCrash, SInv, IInv, Inv, TypeOK
<1>2. IdleCall.pc = "idle"
  BY DEF IdleCall
<1>3. IInv'
  <2>1. CallsEnd(Local)
    BY DEF LocalCrash, CallsEnd
  <2>. QED
    BY <2>1, SubscriptionAssumption, DeathInv DEF SInv, IInv
<1>4. Channel'
  <2>1. \A u \in Tasks : Carried(u)'
    BY <1>1, <1>2 DEF SInv, Channel, Carried
  <2>2. \A u \in Local : Sending(u)'
    BY <1>1, <1>2, SubscriptionAssumption DEF Sending
  <2>. QED
    BY <1>1, <2>1, <2>2 DEF Channel
<1>5. sub' \in [Subscribers -> Subscriber] /\ \A s \in Subscribers : Right(sub[s])'
  <2>1. Len(sent') \in Nat /\ Len(disk'.log) \in Nat
    BY <1>1 DEF SInv, IInv, Inv, TypeOK, File
  <2>2. NoSubscriber \in Subscriber /\ Right(NoSubscriber)'
    <3>1. NoSubscriber \in Subscriber
      BY NobodyIsRight DEF SInv, Channel, IInv, Inv, TypeOK, File
    <3>2. Right(NoSubscriber)'
      BY <2>1 DEF NoSubscriber, Right, Placed, Shown, Ordered, Joined
    <3>. QED
      BY <3>1, <3>2
  <2>3. \A s \in Subscribers : sub'[s] = NoSubscriber
    BY <1>1
  <2>. QED
    BY <1>1, <2>2, <2>3 DEF Right, Placed, Shown, Ordered, Joined
<1>. QED
  BY <1>3, <1>4, <1>5 DEF SInv

\* Nobody has written or subscribed yet.
LEMMA InitSInv == InitSub => SInv
<1> SUFFICES ASSUME InitSub PROVE SInv
  OBVIOUS
<1>1. IInv
  BY SubscriptionAssumption, InitInv DEF InitSub, IInv
<1>2. /\ \A t \in Tasks : call[t] = IdleCall
      /\ IdleCall.pc = "idle"
  BY DEF InitSub, Init, IdleCall
<1>3. Channel
  BY <1>2, SubscriptionAssumption DEF InitSub, Channel, Carried, Sending
<1>4. NoSubscriber \in Subscriber /\ Right(NoSubscriber)
  BY <1>1, <1>3, NobodyIsRight DEF Channel, IInv, Inv, TypeOK, File
<1>. QED
  BY <1>1, <1>3, <1>4 DEF InitSub, SInv

\* Every step keeps the invariant.
LEMMA StepSInv ==
    ASSUME SInv, [NextSub]_<<vars, subVars>>
    PROVE  SInv'
<1>1. CASE UNCHANGED <<vars, subVars>>
  <2>1. UNCHANGED vars /\ UNCHANGED <<disk, call, sent, announced, sub>>
    BY <1>1 DEF vars, subVars
  <2>2. IInv'
    BY <2>1, IInvStep DEF SInv
  <2>3. Channel'
    BY <2>1 DEF SInv, Channel, Carried, Sending, Publishing, At
  <2>4. Len(disk.log) <= Len(disk'.log) /\ Len(sent) <= Len(sent')
    BY <2>1 DEF SInv, Channel, IInv, Inv, TypeOK, File
  <2>. QED
    BY <2>1, <2>2, <2>3, <2>4, OthersStayRight
<1>2. CASE NextSub
  <2>1. CASE \E t \in Tasks : Repository(t) \/ ForeignCrash(t)
    BY <2>1, RepositoryInv
  <2>2. CASE \E t \in Local : Send(t)
    BY <2>2, SendInv
  <2>3. CASE LocalCrash
    BY <2>3, LocalCrashInv
  <2>4. ASSUME NEW s \in Subscribers,
               \/ Subscribe(s) \/ LoadHistory(s) \/ SubscribeFails(s) \/ Replay(s)
               \/ Receive(s) \/ Lag(s) \/ ReceiveAfterLag(s) \/ LagAgain(s) \/ Unsubscribe(s)
        PROVE  SInv'
    BY <2>4, SubscribeInv, LoadHistoryInv, EndInv, ReplayInv, ReceiveInv, OvertakenInv,
       ReceiveAfterLagInv
  <2>. QED
    BY <1>2, <2>1, <2>2, <2>3, <2>4 DEF NextSub
<1>. QED
  BY <1>1, <1>2

-----------------------------------------------------------------------------
(* What the invariant says of a stream *)

\* What a stream shows is history or channel, and both are on the file.
LEMMA InvOnFile == SInv => StreamIsOnFile
<1> SUFFICES ASSUME SInv, NEW s \in Subscribers, NEW k \in DOMAIN sub[s].stream
             PROVE  sub[s].stream[k].at \in DOMAIN disk.log
  BY DEF StreamIsOnFile, Yielded, Frames, ToSet
<1>1. PICK r \in Subscriber : r = sub[s]
  BY Zenon DEF SInv
<1>2. Right(r) /\ k \in DOMAIN r.stream
  BY <1>1 DEF SInv
<1>3. /\ r.history \in Seq(Nat \ {0}) /\ r.stream \in Seq(Frame) /\ r.cursor \in Nat \ {0}
      /\ k \in Nat \ {0}
  BY <1>2 DEF Subscriber
<1>4. disk.log \in Seq(Event) /\ Len(disk.log) \in Nat /\ DOMAIN disk.log = 1..Len(disk.log)
  BY DEF SInv, IInv, Inv, TypeOK, File
<1>5. r.stream[k].at \in Nat \ {0}
  <2>1. r.stream[k] \in Frame
    BY <1>2, <1>3
  <2>. QED
    BY <2>1 DEF Frame
<1>6. r.stream[k].at <= Len(disk.log)
  <2>1. CASE k <= Len(r.history)
    <3>1. k \in DOMAIN r.history
      BY <1>3, <2>1
    <3>. QED
      BY <1>2, <2>1, <3>1 DEF Right, Shown
  <2>2. CASE ~(k <= Len(r.history))
    <3>1. PICK i \in 1..(r.cursor - 1) : r.stream[k].at = sent[i]
      BY <1>2, <2>2 DEF Right, Shown
    <3>2. i \in DOMAIN sent
      <4>1. Len(sent) \in Nat /\ DOMAIN sent = 1..Len(sent)
        BY DEF SInv, Channel
      <4>2. i \in 1..Len(sent)
        BY <1>2, <1>3, <4>1 DEF Right, Placed
      <4>. QED
        BY <4>1, <4>2
    <3>. QED
      BY <3>1, <3>2 DEF SInv, Channel
  <2>. QED
    BY <2>1, <2>2
<1>. QED
  BY <1>1, <1>4, <1>5, <1>6

\* The order of the live part is a part of the invariant.
LEMMA InvInOrder == SInv => LiveInOrder
<1> SUFFICES ASSUME SInv, NEW s \in Subscribers,
                    NEW k \in DOMAIN sub[s].stream, NEW l \in DOMAIN sub[s].stream,
                    k > Len(sub[s].history), sub[s].stream[k].frame = "Event",
                    l > Len(sub[s].history), sub[s].stream[l].frame = "Event",
                    k < l
             PROVE  sub[s].stream[k].at < sub[s].stream[l].at
  BY DEF LiveInOrder
<1>1. Ordered(sub[s])
  BY DEF SInv, Right
<1>. QED
  BY <1>1 DEF Ordered

\* An event that was sent is in the history or met by the cursor.
LEMMA InvNoHole == SInv => NoHole
<1> SUFFICES ASSUME SInv, NEW s \in Subscribers, Listening(s),
                    NEW i \in 1..(sub[s].cursor - 1),
                    ~(sub[s].mode = "LiveOnly" /\ i < sub[s].since),
                    ~(sent[i] <= sub[s].anchor), sent[i] \notin sub[s].lost
             PROVE  \E k \in DOMAIN sub[s].stream : sub[s].stream[k].at = sent[i]
  BY DEF NoHole, Yielded, Frames, ToSet
<1>1. PICK r \in Subscriber : r = sub[s]
  BY Zenon DEF SInv
<1>2. Right(r) /\ r.phase = "open" /\ Len(r.stream) >= Len(r.history)
  BY <1>1 DEF SInv, Listening
<1>3. /\ r.history \in Seq(Nat \ {0}) /\ r.stream \in Seq(Frame)
      /\ r.cursor \in Nat \ {0} /\ r.since \in Nat \ {0} /\ r.anchor \in Nat
  BY DEF Subscriber
<1>4. sent[i] \in Nat
  <2>1. /\ sent \in Seq(Nat \ {0}) /\ Len(sent) \in Nat /\ DOMAIN sent = 1..Len(sent)
        /\ r.cursor <= Len(sent) + 1
    BY <1>2 DEF SInv, Channel, Right, Placed
  <2>2. i \in 1..Len(sent)
    BY <1>1, <1>3, <2>1
  <2>. QED
    BY <2>1, <2>2
<1>5. CASE i < r.since
  <2>1. i \in 1..(r.since - 1) /\ r.mode # "LiveOnly" /\ sent[i] > r.anchor
    BY <1>1, <1>3, <1>4, <1>5
  <2>2. PICK h \in DOMAIN r.history : r.history[h] = sent[i]
    BY <1>2, <2>1 DEF Right, Joined
  <2>3. h \in DOMAIN r.stream /\ h <= Len(r.history)
    BY <1>2, <1>3
  <2>4. r.stream[h].at = r.history[h]
    BY <1>2, <2>3 DEF Right, Shown
  <2>. QED
    BY <1>1, <2>2, <2>3, <2>4
<1>6. CASE ~(i < r.since)
  <2>1. i \in r.since..(r.cursor - 1)
    BY <1>1, <1>3, <1>6
  <2>. QED
    BY <1>1, <1>2, <2>1 DEF Right, Joined
<1>. QED
  BY <1>5, <1>6

-----------------------------------------------------------------------------
(* The theorems *)

\* The invariant of the streams holds throughout.
THEOREM InductiveSub == SpecSub => []SInv
<1>. QED
  BY InitSInv, StepSInv, PTL DEF SpecSub

\* A cursor never points behind the place where the next event will be sent:
\* the types of Subscription hold throughout.
THEOREM SubscriptionTypes == SpecSub => []TypeOKSub
<1>1. SInv => TypeOKSub
  BY DEF SInv, Channel, Right, Placed, TypeOKSub
<1>. QED
  BY <1>1, InductiveSub, PTL

\* FileRepository::append sends after the rename and before it drops the
\* guard: what a stream shows is on the file, for any number of writers,
\* subscribers and crashes, and any capacity.
THEOREM StreamsShowTheFile == SpecSub => []StreamIsOnFile
<1>. QED
  BY InductiveSub, InvOnFile, PTL

\* The guard orders the sends of different calls: the live part of a stream
\* follows the log.
THEOREM StreamsFollowTheLog == SpecSub => []LiveInOrder
<1>. QED
  BY InductiveSub, InvInOrder, PTL

\* Both: the fan-out of append is neither too early nor too late.
THEOREM StreamsFollowTheFile == SpecSub => []StreamFollowsFile
<1>1. StreamIsOnFile /\ LiveInOrder => StreamFollowsFile
  BY DEF StreamFollowsFile
<1>. QED
  BY <1>1, StreamsShowTheFile, StreamsFollowTheLog, PTL

\* FileRepository::subscribe attaches the receiver before it reads the file:
\* a stream that replays has no hole, but for what recv moved it past.
THEOREM StreamsHaveNoHole == SpecSub => []NoHole
<1>. QED
  BY InductiveSub, InvNoHole, PTL
=============================================================================
