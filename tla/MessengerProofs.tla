----------------------------- MODULE MessengerProofs -----------------------------
(***************************************************************************)
(* Theorems about Messenger, for every set of owners, subscriptions and    *)
(* requests and every buffer size.                                         *)
(***************************************************************************)
EXTENDS Messenger, TLAPS

USE DEF chanVars, ownerVars, reqVars

-----------------------------------------------------------------------------
(* The registry and the owners: the inductive invariant and its proof. *)

\* A channel is registered or closed only once it is made, a request that has not
\* begun has none; an owner is known or dead from its registration on, and nothing
\* claims it earlier or brings it back after its release.
ChannelsMade ==
    /\ registered \subseteq made /\ closed \subseteq made
    /\ \A r \in Requesters : pc[r] = "idle" => r \notin made
OwnersTracked ==
    /\ \A o \in Owners : opc[o] # "free" => o \in known \cup dead
    /\ \A o \in Owners : opc[o] \in {"release", "gone"} \/ o \in claimed \cup sweep
                            => opc[o] \notin {"free", "register"}
    /\ \A o \in Owners : opc[o] = "gone" => o \in dead
    /\ opc \in [Owners -> {"free", "register", "live", "release", "gone"}]
    /\ pc \in [Requesters -> {"idle", "publish", "wait", "refused", "done"}]
    /\ claimed \subseteq Owners /\ sweep \subseteq Owners
RegistryInv == ChannelsMade /\ OwnersTracked /\ NoSendOnClosed /\ DeadOwnersSilent

LEMMA RegistryInit == Init => RegistryInv
  BY DEF Init, RegistryInv, ChannelsMade, OwnersTracked, NoSendOnClosed,
         DeadOwnersSilent

\* Closing the channels of some owners and forgetting them keeps the registry sound.
LEMMA CloseOwnersKeeps ==
  ASSUME NEW S, RegistryInv, CloseOwners(S)
  PROVE  /\ registered' \subseteq made' /\ closed' \subseteq made'
         /\ NoSendOnClosed' /\ DeadOwnersSilent'
         /\ made' = made /\ known \cup dead \subseteq known' \cup dead'
         /\ S \cap (known \cup dead) \subseteq dead'
  BY DEF RegistryInv, ChannelsMade, NoSendOnClosed, DeadOwnersSilent, CloseOwners,
         Retire, Forget

\* A live view's new channel is in the registry and open.
LEMMA AddChannelKeeps ==
  ASSUME NEW c, RegistryInv, AddChannel(c), c \notin made, MaySubscribe(owner[c]),
         UNCHANGED dead
  PROVE  /\ registered' \subseteq made' /\ closed' \subseteq made'
         /\ NoSendOnClosed' /\ DeadOwnersSilent' /\ made' = made \cup {c}
  BY DEF RegistryInv, ChannelsMade, NoSendOnClosed, DeadOwnersSilent, AddChannel,
         MaySubscribe

LEMMA RegistryStep == RegistryInv /\ [Next]_vars => RegistryInv'
  <1> SUFFICES ASSUME RegistryInv, [Next]_vars PROVE RegistryInv'
    OBVIOUS
  <1> USE DEF RegistryInv, ChannelsMade, OwnersTracked
  <1>1. CASE UNCHANGED vars
    BY <1>1 DEF vars, NoSendOnClosed, DeadOwnersSilent
  <1>2. ASSUME NEW c \in Subs, Subscribe(c) PROVE RegistryInv'
    BY <1>2, AddChannelKeeps, MessengerAssumption DEF Subscribe, AddChannel
  <1>3. ASSUME NEW c \in Subs, SubscribeDead(c) PROVE RegistryInv'
    BY <1>3, MessengerAssumption DEF SubscribeDead, NoSendOnClosed, DeadOwnersSilent
  <1>4. ASSUME NEW c \in Subs, Unsubscribe(c) PROVE RegistryInv'
    BY <1>4 DEF Unsubscribe, NoSendOnClosed, DeadOwnersSilent
  <1>5. ASSUME NEW c \in Subs, Serve(c) PROVE RegistryInv'
    BY <1>5 DEF Serve, NoSendOnClosed, DeadOwnersSilent
  <1>6. ASSUME NEW targets, Publish(targets) PROVE RegistryInv'
    BY <1>6 DEF Publish, NoSendOnClosed, DeadOwnersSilent
  <1>7. ASSUME NEW r \in Requesters, BeginRequest(r) PROVE RegistryInv'
    BY <1>7, AddChannelKeeps DEF BeginRequest, AddChannel
  <1>8. ASSUME NEW r \in Requesters, RefuseRequest(r) PROVE RegistryInv'
    BY <1>8 DEF RefuseRequest, NoSendOnClosed, DeadOwnersSilent
  <1>9. ASSUME NEW r \in Requesters, Expire(r) PROVE RegistryInv'
    BY <1>9 DEF Expire, NoSendOnClosed, DeadOwnersSilent
  <1>10. ASSUME NEW r \in Requesters, RequestStep(r) PROVE RegistryInv'
    BY <1>10 DEF RequestStep, PublishRequest, RequestReplied, RequestExpired,
                 NoSendOnClosed, DeadOwnersSilent
  <1>11. ASSUME NEW r \in Requesters, ForwardStep(r) PROVE RegistryInv'
    BY <1>11 DEF ForwardStep, ForwardTake, ForwardExpired, ForwardSend, ForwardUnsub,
                 NoSendOnClosed, DeadOwnersSilent
  <1>12. ASSUME NEW o \in Owners, RegisterOwner(o) PROVE RegistryInv'
    BY <1>12 DEF RegisterOwner, Announce, NoSendOnClosed, DeadOwnersSilent
  <1>13. ASSUME NEW o \in Owners, ClaimOwner(o) PROVE RegistryInv'
    BY <1>13 DEF ClaimOwner, NoSendOnClosed, DeadOwnersSilent
  <1>14. ASSUME NEW o \in Owners, RemoveOwner(o) PROVE RegistryInv'
    BY <1>14 DEF RemoveOwner, NoSendOnClosed, DeadOwnersSilent
  <1>15. ASSUME NEW o \in Owners, ReleaseOwner(o) PROVE RegistryInv'
    <2>1. CloseOwners({o}) /\ opc' = [opc EXCEPT ![o] = "gone"] /\ opc[o] = "release"
          /\ UNCHANGED <<claimed, sweep, reqVars>>
      BY <1>15 DEF ReleaseOwner
    <2>2. /\ registered' \subseteq made' /\ closed' \subseteq made'
          /\ NoSendOnClosed' /\ DeadOwnersSilent'
          /\ made' = made /\ known \cup dead \subseteq known' \cup dead'
          /\ {o} \cap (known \cup dead) \subseteq dead' /\ dead \subseteq dead'
      BY <2>1, CloseOwnersKeeps DEF CloseOwners, Retire
    <2>. QED  BY <2>1, <2>2
  <1>16. ASSUME NEW o \in Owners, SweepOwner(o) PROVE RegistryInv'
    <2>1. CloseOwners({o}) /\ UNCHANGED <<claimed, opc, reqVars>> /\ sweep' = sweep \ {o}
      BY <1>16 DEF SweepOwner
    <2>2. /\ registered' \subseteq made' /\ closed' \subseteq made'
          /\ NoSendOnClosed' /\ DeadOwnersSilent'
          /\ made' = made /\ known \cup dead \subseteq known' \cup dead'
          /\ dead \subseteq dead'
      BY <2>1, CloseOwnersKeeps DEF CloseOwners, Retire
    <2>. QED  BY <2>1, <2>2
  <1>17. CASE TakeOwners
    BY <1>17 DEF TakeOwners, NoSendOnClosed, DeadOwnersSilent
  <1>18. CASE Drain
    <2>1. CloseOwners(known \cup Views) /\ UNCHANGED <<claimed, opc, sweep, reqVars>>
      BY <1>18 DEF Drain
    <2>2. /\ registered' \subseteq made' /\ closed' \subseteq made'
          /\ NoSendOnClosed' /\ DeadOwnersSilent'
          /\ made' = made /\ known \cup dead \subseteq known' \cup dead'
          /\ dead \subseteq dead'
      BY <2>1, CloseOwnersKeeps DEF CloseOwners, Retire
    <2>. QED  BY <2>1, <2>2
  <1>. QED
    BY <1>1, <1>2, <1>3, <1>4, <1>5, <1>6, <1>7, <1>8, <1>9, <1>10, <1>11, <1>12,
       <1>13, <1>14, <1>15, <1>16, <1>17, <1>18 DEF Next

LEMMA RegistryAlways == Spec => []RegistryInv
  BY RegistryInit, RegistryStep, PTL DEF Spec

\* However drains, subscriptions and publications interleave, no Publish meets a
\* closed channel and no channel is closed twice (closeSubs, Publish).
THEOREM ChannelsSafe == Spec => []NoSendOnClosed
  BY RegistryAlways, PTL DEF RegistryInv

\* An owner that was drained, by its release, a teardown or the shutdown, never has a
\* subscription again (subscribe, drainOwner).
THEOREM DrainedForGood == Spec => []DeadOwnersSilent
  BY RegistryAlways, PTL DEF RegistryInv

\* A released owner is dead and leaves nothing in the registry (releaseOwner).
THEOREM ReleaseCorrect == Spec => []ReleaseIsFinal
  <1>1. RegistryInv => ReleaseIsFinal
    BY DEF RegistryInv, OwnersTracked, DeadOwnersSilent, ReleaseIsFinal
  <1>. QED  BY <1>1, RegistryAlways, PTL

\* No claim of an entry ever names an owner the root has yet to register, so the
\* sweep of a teardown retires every one it takes (newOwner, drainService).
THEOREM ClaimsCorrect == Spec => []ClaimsCanBeDrained
  <1>1. RegistryInv => ClaimsCanBeDrained
    BY DEF RegistryInv, OwnersTracked, ClaimsCanBeDrained
  <1>. QED  BY <1>1, RegistryAlways, PTL

-----------------------------------------------------------------------------
(* Messages: types, bounded buffers, and replies that reach their request. *)

\* What a request may receive: anything but a reply to another request.  A message in
\* a reply channel, in the hand of the forwarding goroutine, on its way to the caller
\* or returned is of that kind.
Mine(r) == {m \in Messages : m.kind = "reply" => m.id = r}
BuffersTyped ==
    /\ buf \in [Chans -> Seq(Messages)]
    /\ \A c \in Chans : Len(buf[c]) <= Capacity
RepliesMine ==
    /\ \A r \in Requesters : buf[r] \in Seq(Mine(r))
    /\ held \in [Requesters -> Messages] /\ \A r \in Requesters : held[r] \in Mine(r)
    /\ out \in [Requesters -> Seq(Messages)]
    /\ \A r \in Requesters : out[r] \in Seq(Mine(r))
    /\ result \in [Requesters -> Messages]
    /\ \A r \in Requesters : result[r] \in Mine(r)
RestTyped ==
    /\ made \subseteq Chans /\ known \subseteq Owners /\ dead \subseteq Owners
    /\ expired \subseteq Requesters
    /\ fwd \in [Requesters -> {"none", "select", "send", "unsub", "done"}]
MessageInv == RegistryInv /\ BuffersTyped /\ RepliesMine /\ RestTyped

\* Taking the head of a sequence of messages, or appending one, stays in the set.
LEMMA SeqSteps ==
  ASSUME NEW S, NEW s \in Seq(S)
  PROVE  /\ \A m \in S : Append(s, m) \in Seq(S) /\ Len(Append(s, m)) = Len(s) + 1
         /\ s # <<>> => /\ Head(s) \in S /\ Tail(s) \in Seq(S)
                        /\ \A k \in Nat : Len(s) <= k => Len(Tail(s)) <= k
  OBVIOUS

LEMMA MessageKinds ==
  /\ Plain \in Messages /\ Nil \in Messages /\ CtxError \in Messages
  /\ \A r \in Requesters : /\ Request(r) \in Messages /\ Reply(r) \in Messages
                           /\ Plain \in Mine(r) /\ Nil \in Mine(r)
                           /\ CtxError \in Mine(r) /\ Reply(r) \in Mine(r)
                           /\ \A q \in Requesters : Request(q) \in Mine(r)
  BY DEF Plain, Nil, CtxError, Request, Reply, Messages, Mine

\* Publishing to channels that may receive the message keeps every buffer right.
LEMMA OfferKeeps ==
  ASSUME BuffersTyped, RepliesMine, NEW m \in Messages, NEW targets, NEW c \in Chans,
         c \in Requesters /\ c \in targets => m \in Mine(c)
  PROVE  /\ Offer(c, m, targets) \in Seq(Messages)
         /\ Len(Offer(c, m, targets)) <= Capacity
         /\ c \in Requesters => Offer(c, m, targets) \in Seq(Mine(c))
  <1>1. buf[c] \in Seq(Messages) /\ Len(buf[c]) \in Nat /\ Len(buf[c]) <= Capacity
    BY DEF BuffersTyped
  <1>2. CASE c \in targets /\ HasRoom(c)
    <2>1. Offer(c, m, targets) = Append(buf[c], m)
      BY <1>2 DEF Offer
    <2>2. Len(Append(buf[c], m)) <= Capacity
      BY <1>1, <1>2, SeqSteps, MessengerAssumption DEF HasRoom
    <2>3. c \in Requesters => Append(buf[c], m) \in Seq(Mine(c))
      BY <1>2, SeqSteps DEF RepliesMine
    <2>. QED  BY <1>1, <2>1, <2>2, <2>3, SeqSteps
  <1>3. CASE ~(c \in targets /\ HasRoom(c))
    BY <1>1, <1>3 DEF Offer, RepliesMine
  <1>. QED  BY <1>2, <1>3

\* A request or a plain message may reach any channel.
LEMMA DeliverKeeps ==
  ASSUME BuffersTyped, RepliesMine, NEW m \in Messages, m.kind # "reply", NEW targets,
         Deliver(m, targets)
  PROVE  /\ BuffersTyped'
         /\ \A r \in Requesters : buf'[r] \in Seq(Mine(r))
  <1>1. \A r \in Requesters : m \in Mine(r)
    BY DEF Mine
  <1>2. \A c \in Chans : /\ buf'[c] = Offer(c, m, targets)
                         /\ Offer(c, m, targets) \in Seq(Messages)
                         /\ Len(Offer(c, m, targets)) <= Capacity
                         /\ c \in Requesters => Offer(c, m, targets) \in Seq(Mine(c))
    BY <1>1, OfferKeeps DEF Deliver
  <1>3. buf' \in [Chans -> Seq(Messages)]
    BY <1>2 DEF Deliver
  <1>. QED  BY <1>2, <1>3 DEF BuffersTyped, Chans

LEMMA ServeKeeps ==
  ASSUME MessageInv, NEW c \in Subs, Serve(c)
  PROVE  BuffersTyped' /\ RepliesMine'
  <1> DEFINE m == Head(buf[c])
             reply == IF m.kind = "request" THEN On(ReplyTopic(m.id)) ELSE {}
  <1>1. /\ c \in Chans /\ c \notin Requesters /\ buf[c] # <<>>
        /\ buf' = [d \in Chans |-> IF d = c THEN Tail(buf[c])
                                   ELSE Offer(d, Reply(m.id), reply)]
        /\ UNCHANGED reqVars
    BY MessengerAssumption DEF Serve, Chans
  <1>2. m \in Messages /\ Tail(buf[c]) \in Seq(Messages) /\ Len(Tail(buf[c])) <= Capacity
    <2>1. buf[c] \in Seq(Messages) /\ Len(buf[c]) <= Capacity /\ Capacity \in Nat
      BY <1>1, MessengerAssumption DEF MessageInv, BuffersTyped
    <2>. QED  BY <1>1, <2>1, SeqSteps
  <1>3. Reply(m.id) \in Messages
    BY <1>2 DEF Messages, Reply
  <1>4. \A d \in Requesters : d \in reply => Reply(m.id) \in Mine(d)
    <2>1. \A d \in Requesters : d \in reply => d = m.id
      BY MessengerAssumption DEF On, Topic, ReplyTopic
    <2>. QED  BY <1>3, <2>1 DEF Mine, Reply
  <1>5. \A d \in Chans : /\ Offer(d, Reply(m.id), reply) \in Seq(Messages)
                         /\ Len(Offer(d, Reply(m.id), reply)) <= Capacity
                         /\ d \in Requesters
                               => Offer(d, Reply(m.id), reply) \in Seq(Mine(d))
    <2> HIDE DEF m, reply
    <2>. QED  BY <1>3, <1>4, OfferKeeps DEF MessageInv
  <1>6. BuffersTyped'
    <2> HIDE DEF m, reply
    <2>. QED  BY <1>1, <1>2, <1>5 DEF BuffersTyped
  <1>7. \A r \in Requesters : buf'[r] \in Seq(Mine(r))
    <2> HIDE DEF m, reply
    <2>. QED  BY <1>1, <1>5 DEF Chans
  <1>. QED  BY <1>1, <1>6, <1>7 DEF RepliesMine, MessageInv

LEMMA MessageInit == Init => MessageInv
  <1>1. \A S : <<>> \in Seq(S) /\ Len(<<>>) = 0
    OBVIOUS
  <1>. QED
    BY <1>1, RegistryInit, MessageKinds, MessengerAssumption
    DEF Init, MessageInv, BuffersTyped, RepliesMine, RestTyped, Chans

LEMMA ForwardKeeps ==
  ASSUME MessageInv, NEW r \in Requesters, ForwardStep(r)
  PROVE  BuffersTyped' /\ RepliesMine' /\ RestTyped'
  <1> USE DEF MessageInv, RestTyped
  <1>1. r \in Chans
    BY DEF Chans
  <1>2. /\ buf[r] \in Seq(Messages) /\ buf[r] \in Seq(Mine(r)) /\ Len(buf[r]) \in Nat
        /\ Len(buf[r]) <= Capacity
    BY <1>1 DEF BuffersTyped, RepliesMine
  <1>3. CASE ForwardTake(r)
    <2>1. CASE buf[r] # <<>> /\ held' = [held EXCEPT ![r] = Head(buf[r])]
               /\ buf' = [buf EXCEPT ![r] = Tail(@)]
      <3>1. /\ Head(buf[r]) \in Mine(r) /\ Head(buf[r]) \in Messages
            /\ Tail(buf[r]) \in Seq(Mine(r)) /\ Tail(buf[r]) \in Seq(Messages)
            /\ Len(Tail(buf[r])) <= Capacity
        BY <1>2, <2>1, SeqSteps, MessengerAssumption
      <3>. QED  BY <1>1, <1>3, <2>1, <3>1 DEF ForwardTake, BuffersTyped, RepliesMine
    <2>2. CASE held' = [held EXCEPT ![r] = Nil] /\ UNCHANGED buf
      BY <1>3, <2>2, MessageKinds DEF ForwardTake, BuffersTyped, RepliesMine
    <2>. QED  BY <1>3, <2>1, <2>2 DEF ForwardTake
  <1>4. CASE ForwardExpired(r)
    BY <1>4 DEF ForwardExpired, BuffersTyped, RepliesMine
  <1>5. CASE ForwardSend(r)
    <2>1. Append(out[r], held[r]) \in Seq(Mine(r)) /\ Append(out[r], held[r]) \in Seq(Messages)
      BY SeqSteps DEF RepliesMine
    <2>. QED  BY <1>5, <2>1, MessageKinds DEF ForwardSend, BuffersTyped, RepliesMine
  <1>6. CASE ForwardUnsub(r)
    <2>1. \A S : <<>> \in Seq(S) /\ Len(<<>>) = 0
      OBVIOUS
    <2>. QED
      BY <1>6, <1>1, <2>1, MessengerAssumption DEF ForwardUnsub, BuffersTyped, RepliesMine
  <1>. QED  BY <1>3, <1>4, <1>5, <1>6 DEF ForwardStep

LEMMA RequestKeeps ==
  ASSUME MessageInv, NEW r \in Requesters, RequestStep(r)
  PROVE  BuffersTyped' /\ RepliesMine' /\ RestTyped'
  <1> USE DEF MessageInv, RestTyped
  <1>1. CASE PublishRequest(r)
    <2>1. Request(r) \in Messages /\ Request(r).kind # "reply"
      BY MessageKinds DEF Request
    <2>2. BuffersTyped' /\ \A q \in Requesters : buf'[q] \in Seq(Mine(q))
      BY <1>1, <2>1, DeliverKeeps DEF PublishRequest
    <2>. QED  BY <1>1, <2>2 DEF PublishRequest, RepliesMine
  <1>2. CASE RequestReplied(r)
    <2>1. /\ Head(out[r]) \in Mine(r) /\ Head(out[r]) \in Messages
          /\ Tail(out[r]) \in Seq(Mine(r)) /\ Tail(out[r]) \in Seq(Messages)
      BY <1>2, SeqSteps DEF RequestReplied, RepliesMine
    <2>. QED  BY <1>2, <2>1 DEF RequestReplied, BuffersTyped, RepliesMine
  <1>3. CASE RequestExpired(r)
    BY <1>3, MessageKinds DEF RequestExpired, BuffersTyped, RepliesMine
  <1>. QED  BY <1>1, <1>2, <1>3 DEF RequestStep

LEMMA MessageStep == MessageInv /\ [Next]_vars => MessageInv'
  <1> SUFFICES ASSUME MessageInv, [Next]_vars PROVE MessageInv'
    OBVIOUS
  <1>1. RegistryInv'
    BY RegistryStep DEF MessageInv
  <1>2. BuffersTyped' /\ RepliesMine' /\ RestTyped'
    <2> USE DEF MessageInv, RestTyped
    <2>1. CASE UNCHANGED vars
      BY <2>1 DEF vars, BuffersTyped, RepliesMine
    <2>2. ASSUME NEW c \in Subs, Subscribe(c) \/ SubscribeDead(c) \/ Unsubscribe(c)
          PROVE  BuffersTyped' /\ RepliesMine' /\ RestTyped'
      BY <2>2 DEF Subscribe, AddChannel, SubscribeDead, Unsubscribe, BuffersTyped,
                  RepliesMine, Chans
    <2>3. ASSUME NEW c \in Subs, Serve(c)
          PROVE  BuffersTyped' /\ RepliesMine' /\ RestTyped'
      BY <2>3, ServeKeeps DEF Serve
    <2>4. ASSUME NEW targets, Publish(targets)
          PROVE  BuffersTyped' /\ RepliesMine' /\ RestTyped'
      <3>1. Plain \in Messages /\ Plain.kind # "reply"
        BY MessageKinds DEF Plain
      <3>2. BuffersTyped' /\ \A q \in Requesters : buf'[q] \in Seq(Mine(q))
        BY <2>4, <3>1, DeliverKeeps DEF Publish
      <3>. QED  BY <2>4, <3>2 DEF Publish, RepliesMine
    <2>5. ASSUME NEW r \in Requesters, BeginRequest(r) \/ RefuseRequest(r) \/ Expire(r)
          PROVE  BuffersTyped' /\ RepliesMine' /\ RestTyped'
      BY <2>5 DEF BeginRequest, AddChannel, RefuseRequest, Expire, BuffersTyped,
                  RepliesMine, Chans
    <2>6. ASSUME NEW r \in Requesters, RequestStep(r)
          PROVE  BuffersTyped' /\ RepliesMine' /\ RestTyped'
      BY <2>6, RequestKeeps
    <2>7. ASSUME NEW r \in Requesters, ForwardStep(r)
          PROVE  BuffersTyped' /\ RepliesMine' /\ RestTyped'
      BY <2>7, ForwardKeeps
    <2>8. ASSUME NEW o \in Owners, RegisterOwner(o) \/ ClaimOwner(o) \/ RemoveOwner(o)
                                   \/ ReleaseOwner(o) \/ SweepOwner(o)
          PROVE  BuffersTyped' /\ RepliesMine' /\ RestTyped'
      BY <2>8 DEF RegisterOwner, Announce, ClaimOwner, RemoveOwner, ReleaseOwner,
                  SweepOwner, CloseOwners, Retire, BuffersTyped, RepliesMine
    <2>9. CASE TakeOwners \/ Drain
      BY <2>9 DEF TakeOwners, Drain, CloseOwners, Retire, BuffersTyped, RepliesMine
    <2>. QED  BY <2>1, <2>2, <2>3, <2>4, <2>5, <2>6, <2>7, <2>8, <2>9 DEF Next
  <1>. QED  BY <1>1, <1>2 DEF MessageInv

LEMMA MessageAlways == Spec => []MessageInv
  BY MessageInit, MessageStep, PTL DEF Spec

\* The state keeps its shape and no buffer outgrows its capacity: Publish drops what a
\* full channel cannot take.
THEOREM MessengerTypeCorrect == Spec => []TypeOK
  <1>1. MessageInv => TypeOK
    BY DEF MessageInv, RegistryInv, ChannelsMade, OwnersTracked, BuffersTyped,
           RepliesMine, RestTyped, TypeOK
  <1>. QED  BY <1>1, MessageAlways, PTL

\* A reply a Request returns is a reply to that request (requestMessage).
THEOREM RepliesCorrect == Spec => []RepliesComeHome
  <1>1. MessageInv => RepliesComeHome
    BY DEF MessageInv, RepliesMine, Mine, RepliesComeHome
  <1>. QED  BY <1>1, MessageAlways, PTL
=============================================================================
