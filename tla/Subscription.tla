---------------------------- MODULE Subscription ----------------------------
(***************************************************************************)
(* knotch-storage: FileRepository::subscribe.  A process keeps one bounded *)
(* broadcast channel per unit; append and with_cache send the events they  *)
(* committed while they still hold the guard, and each subscriber has a    *)
(* cursor into the channel.  A stream is the history that subscribe read   *)
(* from the file, followed by what the cursor meets.                       *)
(*                                                                         *)
(* Events are named by their position on the log.  The channel is          *)
(* tokio::sync::broadcast: a cursor that the writers have overtaken by     *)
(* more than Capacity is moved to the oldest event still there.            *)
(***************************************************************************)
EXTENDS FileRepository, SequencesExt

CONSTANTS
    Local,       \* the tasks of the process whose streams are modelled
    Subscribers,
    Replays,     \* the SubscribeModes used
    Capacity     \* BROADCAST_CAPACITY

SubscribeMode == {"LiveOnly", "FromBeginning", "FromEventId"}

ASSUME SubscriptionAssumption ==
    /\ Local \subseteq Tasks
    /\ \A t, u \in Local : SaltOf[t] = SaltOf[u]
    /\ Replays \subseteq SubscribeMode
    /\ Capacity \in Nat \ {0}
    /\ Exclusive

VARIABLES
    sent,       \* what Local has sent through the channel, oldest first
    announced,  \* how many of its accepted events a call has sent
    sub         \* the subscribers

subVars == <<sent, announced, sub>>

\* A frame of the stream.
EventFrame(p) == [frame |-> "Event", at |-> p, skipped |-> 0]
LaggedFrame(n, p) == [frame |-> "Lagged", at |-> p, skipped |-> n]
Frame == [frame : {"Event", "Lagged"}, at : Nat \ {0}, skipped : Nat]

Subscriber ==
    [phase: {"none", "loading", "open", "lagged"},
     mode: SubscribeMode,
     anchor: Nat,            \* the event to replay after; 0 is none, or one not on the log
     since: Nat \ {0},       \* where the receiver was attached
     cursor: Nat \ {0},      \* the next place of the channel to read
     history: Seq(Nat \ {0}),
     skipped: Nat,           \* what recv said when the receiver had lagged
     stream: Seq(Frame),     \* everything yielded so far
     lost: SUBSET (Nat \ {0})]   \* history variable: what the cursor was moved past

NoSubscriber ==
    [phase |-> "none", mode |-> "LiveOnly", anchor |-> 0, since |-> 1, cursor |-> 1,
     history |-> <<>>, skipped |-> 0, stream |-> <<>>, lost |-> {}]

InitSub ==
    /\ Init
    /\ sent = <<>>
    /\ announced = [t \in Local |-> 0]
    /\ sub = [s \in Subscribers |-> NoSubscriber]

-----------------------------------------------------------------------------
(* The writers *)

Positions(c) == [i \in 1..Len(Accepted(c)) |-> Len(c.base.log) + i]

Unsent(t) == announced[t] < Len(Accepted(call[t]))

\* Mutant: the events are sent when they are about to be written.
SendEarly(t) ==
    /\ At(t, "renaming") \/ Publishing(t)
    /\ Unsent(t)
    /\ announced' = [announced EXCEPT ![t] = @ + 1]
    /\ sent' = Append(sent, Positions(call[t])[announced[t] + 1])
    /\ UNCHANGED <<vars, sub>>

\* for event in &accepted { tx.send(event.clone()) }
Send(t) ==
    /\ Publishing(t)
    /\ Unsent(t)
    /\ announced' = [announced EXCEPT ![t] = @ + 1]
    /\ sent' = Append(sent, Positions(call[t])[announced[t] + 1])
    /\ UNCHANGED <<vars, sub>>

\* Mutant: the guard is dropped before the events are sent.
DropGuardThenSend(t) ==
    IF t \in Local /\ Publishing(t) /\ Unsent(t)
    THEN /\ holders' = holders \ {t}
         /\ UNCHANGED <<disk, cache, call, announced>>
    ELSE /\ t \in holders \/ Publishing(t)
         /\ Proceed(t)
         /\ announced' = [u \in Local |-> IF u = t THEN 0 ELSE announced[u]]

\* Any other step of a call.  A call of this process returns when it has sent
\* everything; the calls of others have no subscriber here.
Write(t) ==
    /\ t \in holders
    /\ Proceed(t)
    /\ ~(t \in Local /\ Publishing(t) /\ Unsent(t))
    /\ announced' = [u \in Local |-> IF u = t THEN 0 ELSE announced[u]]

Repository(t) ==
    /\ \/ (Start(t) \/ Acquire(t) \/ LockFails(t)) /\ UNCHANGED announced
       \/ Write(t)
    /\ UNCHANGED <<sent, sub>>

\* The process of the subscribers dies, and its calls, channel and streams
\* with it.
LocalCrash ==
    /\ call' = [t \in Tasks |-> IF t \in Local THEN IdleCall ELSE call[t]]
    /\ holders' = holders \ Local
    /\ sent' = <<>>
    /\ announced' = [t \in Local |-> 0]
    /\ sub' = [s \in Subscribers |-> NoSubscriber]
    /\ UNCHANGED <<disk, cache>>

ForeignCrash(t) == t \notin Local /\ Crash(t) /\ UNCHANGED subVars

-----------------------------------------------------------------------------
(* The subscribers *)

\* Mutant: the cursor starts behind the next event.
SubscribePastNext(s) ==
    /\ sub[s].phase = "none"
    /\ sub' = [sub EXCEPT ![s] = [NoSubscriber EXCEPT !.phase = "open",
                                                    !.since = Len(sent) + 1,
                                                    !.cursor = Len(sent) + 2]]
    /\ UNCHANGED <<vars, sent, announced>>

\* tx.subscribe(), before anything is read from the file.
Subscribe(s) ==
    /\ sub[s].phase = "none"
    /\ \E mode \in Replays :
       \E anchor \in IF mode = "FromEventId" THEN 0..Len(disk.log) ELSE {0} :
          sub' = [sub EXCEPT ![s] =
                    [NoSubscriber EXCEPT
                        !.phase = IF mode = "LiveOnly" THEN "open" ELSE "loading",
                        !.mode = mode, !.anchor = anchor,
                        !.since = Len(sent) + 1, !.cursor = Len(sent) + 1]]
    /\ UNCHANGED <<vars, sent, announced>>

LocalSalts == {SaltOf[t] : t \in Local}

\* The events after the anchor; an anchor that is not on the log stands for
\* the whole of it.
LoadHistory(s) ==
    /\ sub[s].phase = "loading"
    /\ disk.salt \in {None} \cup LocalSalts
    /\ sub' = [sub EXCEPT
                 ![s].phase = "open",
                 ![s].history = [i \in 1..(Len(disk.log) - sub[s].anchor) |-> sub[s].anchor + i]]
    /\ UNCHANGED <<vars, sent, announced>>

\* The file cannot be read or carries another salt: subscribe returns an error.
SubscribeFails(s) ==
    /\ sub[s].phase = "loading"
    /\ sub' = [sub EXCEPT ![s] = NoSubscriber]
    /\ UNCHANGED <<vars, sent, announced>>

Replaying(s) == sub[s].phase = "open" /\ Len(sub[s].stream) < Len(sub[s].history)
Listening(s) == sub[s].phase = "open" /\ Len(sub[s].stream) >= Len(sub[s].history)

\* Mutant: the receiver is attached when the stream has replayed the history.
ReplayThenAttach(s) ==
    /\ Replaying(s)
    /\ sub' = [sub EXCEPT ![s].stream = Append(@, EventFrame(sub[s].history[Len(@) + 1])),
                          ![s].cursor = Len(sent) + 1]
    /\ UNCHANGED <<vars, sent, announced>>

\* for evt in history { yield ... }
Replay(s) ==
    /\ Replaying(s)
    /\ sub' = [sub EXCEPT ![s].stream = Append(@, EventFrame(sub[s].history[Len(@) + 1]))]
    /\ UNCHANGED <<vars, sent, announced>>

\* The first place of the channel that has not been overwritten.
Oldest == IF Len(sent) < Capacity THEN 1 ELSE Len(sent) - Capacity + 1
Overtaken(s) == sub[s].cursor < Oldest

\* recv finds an event, at the top of the loop.
Receive(s) ==
    /\ Listening(s)
    /\ ~Overtaken(s)
    /\ sub[s].cursor <= Len(sent)
    /\ sub' = [sub EXCEPT ![s].stream = Append(@, EventFrame(sent[sub[s].cursor])),
                          ![s].cursor = @ + 1]
    /\ UNCHANGED <<vars, sent, announced>>

\* recv moves an overtaken cursor and says by how much.
Skip(s) ==
    [sub[s] EXCEPT !.cursor = Oldest,
                   !.lost = @ \cup {sent[i] : i \in sub[s].cursor..(Oldest - 1)}]

\* Lagged(skipped) at the top of the loop.
Lag(s) ==
    /\ Listening(s)
    /\ Overtaken(s)
    /\ sub' = [sub EXCEPT ![s] = [Skip(s) EXCEPT !.phase = "lagged",
                                                 !.skipped = Oldest - sub[s].cursor]]
    /\ UNCHANGED <<vars, sent, announced>>

\* The recv that follows at once finds an event: a notice, then the event.
ReceiveAfterLag(s) ==
    /\ sub[s].phase = "lagged"
    /\ ~Overtaken(s)
    /\ LET next == sent[sub[s].cursor]
       IN  sub' = [sub EXCEPT ![s].phase = "open", ![s].cursor = @ + 1, ![s].skipped = 0,
                              ![s].stream = @ \o <<LaggedFrame(sub[s].skipped, next),
                                                   EventFrame(next)>>]
    /\ UNCHANGED <<vars, sent, announced>>

\* It finds itself overtaken again: `Lagged(_) => continue'.
LagAgain(s) ==
    /\ sub[s].phase = "lagged"
    /\ Overtaken(s)
    /\ sub' = [sub EXCEPT ![s] = [Skip(s) EXCEPT !.phase = "open", !.skipped = 0]]
    /\ UNCHANGED <<vars, sent, announced>>

\* The consumer drops the stream, or the call to subscribe.
Unsubscribe(s) ==
    /\ sub[s].phase # "none"
    /\ sub' = [sub EXCEPT ![s] = NoSubscriber]
    /\ UNCHANGED <<vars, sent, announced>>

NextSub ==
    \/ \E t \in Tasks : Repository(t) \/ ForeignCrash(t)
    \/ \E t \in Local : Send(t)
    \/ LocalCrash
    \/ \E s \in Subscribers :
          \/ Subscribe(s)
          \/ LoadHistory(s)
          \/ SubscribeFails(s)
          \/ Replay(s)
          \/ Receive(s)
          \/ Lag(s)
          \/ ReceiveAfterLag(s)
          \/ LagAgain(s)
          \/ Unsubscribe(s)

SpecSub == InitSub /\ [][NextSub]_<<vars, subVars>>

-----------------------------------------------------------------------------
(* Properties *)

TypeOKSub ==
    /\ sent \in Seq(Nat \ {0})
    /\ announced \in [Local -> Nat]
    /\ sub \in [Subscribers -> Subscriber]
    /\ \A s \in Subscribers : sub[s].cursor <= Len(sent) + 1

Frames(s) == ToSet(sub[s].stream)
Yielded(s) == {f.at : f \in Frames(s)}

\* What a stream shows is on the file: a subscriber never acts on an event
\* whose write then fails.
StreamIsOnFile == \A s \in Subscribers : Yielded(s) \subseteq DOMAIN disk.log

\* The live part of a stream follows the log: no event twice, none after a
\* later one, although each call sends its events on its own.
LiveInOrder ==
    \A s \in Subscribers :
        LET stream == sub[s].stream
            live == {k \in DOMAIN stream : k > Len(sub[s].history) /\ stream[k].frame = "Event"}
        IN  \A k, l \in live : k < l => stream[k].at < stream[l].at

\* Sent before the rename an event shows too early, sent after the guard it
\* shows out of order; the fan-out sits between the two.
StreamFollowsFile == StreamIsOnFile /\ LiveInOrder

\* A stream that replays has no hole between its history and its live part:
\* what this process has sent up to the cursor, before or after the receiver
\* was attached, has been yielded unless it precedes the anchor or the cursor
\* was moved past it.
NoHole ==
    \A s \in Subscribers : Listening(s) =>
        \A i \in 1..(sub[s].cursor - 1) :
            \/ sub[s].mode = "LiveOnly" /\ i < sub[s].since
            \/ sent[i] <= sub[s].anchor
            \/ sent[i] \in Yielded(s) \cup sub[s].lost
=============================================================================
