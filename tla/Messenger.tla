------------------------------- MODULE Messenger -------------------------------
(***************************************************************************)
(* The topic registry every service shares, the owners that scope its      *)
(* subscriptions, and Request over a reply topic.                          *)
(*                                                                         *)
(* The root lock makes subscribe, unsubscribe, Publish and the drains      *)
(* atomic; channels are buffered queues that a drain may close.  A channel *)
(* of a service on the one topic services use is a member of Subs, the     *)
(* reply channel of a request is the requester itself, and so is its reply *)
(* topic.                                                                  *)
(***************************************************************************)
EXTENDS Sequences, Integers

CONSTANTS
    Owners,      \* owner ids, one per instance or tick; never used twice
    Subs,        \* subscriptions services make
    Requesters,  \* goroutines in Request, one request each
    Capacity,    \* buffer size of every channel (16 in the code)
    Root,        \* the unowned view, owner id 0
    owner        \* the view each subscriber and requester holds

ASSUME MessengerAssumption ==
    /\ Capacity \in Nat \ {0}
    /\ Root \notin Owners
    /\ Subs \cap Requesters = {}
    /\ "topic" \notin Requesters
    /\ owner \in [Subs \cup Requesters -> Owners \cup {Root}]

VARIABLES
    \* channels: made, in the registry, closed; the buffer of each
    made, registered, closed, buf,
    \* owners: known to the root registry, marked dead, claimed by the entry,
    \* program counter of newOwner and releaseOwner, swept by drainService
    known, dead, claimed, opc, sweep,
    \* Request: program counter, result, expired contexts; the forwarding
    \* goroutine with its local variable and the channel to the caller
    pc, result, expired, fwd, held, out

chanVars  == <<made, registered, closed, buf>>
ownerVars == <<known, dead, claimed, opc, sweep>>
reqVars   == <<pc, result, expired, fwd, held, out>>
vars      == <<chanVars, ownerVars, reqVars>>

Chans  == Subs \cup Requesters
Views  == Owners \cup {Root}
Nobody == "nobody"

\* A request and a reply carry the request they belong to; what a receive from a
\* closed channel yields is the nil message; an expired context is an error.
Request(r) == [kind |-> "request", id |-> r]
Reply(r)   == [kind |-> "reply", id |-> r]
Plain      == [kind |-> "plain", id |-> Nobody]
Nil        == [kind |-> "nil", id |-> Nobody]
CtxError   == [kind |-> "ctx", id |-> Nobody]
Messages   == [kind : {"request", "reply", "plain", "nil", "ctx"},
               id : Requesters \cup {Nobody}]

\* The reply topic of a request is unique.
SharedTopic(r) == CHOOSE t \in Requesters : TRUE   \* mutation: no unique part
ReplyTopic(r)  == r

-----------------------------------------------------------------------------
(* The registry. *)

\* Publish never blocks: a full channel misses the message.
Overfills(c)         == TRUE                       \* mutation: no full channel
HasRoom(c)           == Len(buf[c]) < Capacity
Offer(c, m, targets) == IF c \in targets /\ HasRoom(c)
                        THEN Append(buf[c], m) ELSE buf[c]
Deliver(m, targets)  == buf' = [c \in Chans |-> Offer(c, m, targets)]
Topic(c) == IF c \in Subs THEN "topic" ELSE ReplyTopic(c)
On(t)    == {c \in registered : Topic(c) = t}

\* subscribe: a view whose owner was drained gets a closed channel.
SubscribesAlways(o) == TRUE                        \* mutation: dead owner revived
MaySubscribe(o)     == o \notin dead
AddChannel(c) ==
    /\ made' = made \cup {c} /\ registered' = registered \cup {c}
    /\ UNCHANGED <<closed, buf>>

\* drainOwner: close and forget every subscription, mark the owner dead.
KeepsAlive(S)  == dead                             \* mutation: not marked dead
Retire(S)      == dead \cup (S \cap known)
KeepsOthers(S) == registered                       \* mutation: closed, not removed
Forget(S)      == {c \in registered : owner[c] \notin S}
CloseOwners(S) ==
    /\ dead' = Retire(S) /\ known' = known \ S
    /\ closed' = closed \cup {c \in registered : owner[c] \in S}
    /\ registered' = Forget(S)
    /\ UNCHANGED <<made, buf>>

\* An owner has a view from the moment newOwner returns; goroutines of a service
\* may keep it after the owner was released.
Usable(o) == o = Root \/ (o \in Owners /\ opc[o] \notin {"free", "register"})

-----------------------------------------------------------------------------
(* Services. *)

Subscribe(c) ==
    /\ c \in Subs \ made /\ Usable(owner[c])
    /\ MaySubscribe(owner[c]) /\ AddChannel(c)
    /\ UNCHANGED <<ownerVars, reqVars>>

SubscribeDead(c) ==
    /\ c \in Subs \ made /\ Usable(owner[c]) /\ ~MaySubscribe(owner[c])
    /\ made' = made \cup {c} /\ closed' = closed \cup {c}
    /\ UNCHANGED <<registered, buf, ownerVars, reqVars>>

\* The channel is removed, not closed.
Unsubscribe(c) ==
    /\ c \in Subs \cap registered
    /\ registered' = registered \ {c}
    /\ UNCHANGED <<made, closed, buf, ownerVars, reqVars>>

\* Publish without a topic reaches every channel, reply channels included.
Publish(targets) ==
    /\ Deliver(Plain, targets)
    /\ UNCHANGED <<made, registered, closed, ownerVars, reqVars>>

\* A service takes one message and answers a request with TypedRespond on its
\* reply topic, which may be gone by then; how long it works shows as the time the
\* request stays in the buffer.
Serve(c) ==
    /\ c \in Subs /\ buf[c] # <<>>
    /\ LET m == Head(buf[c])
           reply == IF m.kind = "request" THEN On(ReplyTopic(m.id)) ELSE {}
       IN  buf' = [d \in Chans |->
                     IF d = c THEN Tail(buf[c]) ELSE Offer(d, Reply(m.id), reply)]
    /\ UNCHANGED <<made, registered, closed, ownerVars, reqVars>>

-----------------------------------------------------------------------------
(* Request. *)

\* requestMessage subscribes before it publishes, so no reply is missed.
BeginRequest(r) ==
    /\ pc[r] = "idle" /\ Usable(owner[r])
    /\ MaySubscribe(owner[r]) /\ AddChannel(r)
    /\ pc' = [pc EXCEPT ![r] = "publish"]
    /\ UNCHANGED <<ownerVars, result, expired, fwd, held, out>>

RefuseRequest(r) ==
    /\ pc[r] = "idle" /\ Usable(owner[r]) /\ ~MaySubscribe(owner[r])
    /\ made' = made \cup {r} /\ closed' = closed \cup {r}
    /\ pc' = [pc EXCEPT ![r] = "refused"]
    /\ UNCHANGED <<registered, buf, ownerVars, result, expired, fwd, held,
                   out>>

PublishRequest(r) ==
    /\ pc[r] = "publish"
    /\ Deliver(Request(r), On("topic"))
    /\ pc' = [pc EXCEPT ![r] = "wait"] /\ fwd' = [fwd EXCEPT ![r] = "select"]
    /\ UNCHANGED <<made, registered, closed, ownerVars, result, expired,
                   held, out>>

\* External: the context expires; only the two selects look at it.
Expire(r) ==
    /\ r \notin expired /\ pc[r] = "wait"
    /\ expired' = expired \cup {r}
    /\ UNCHANGED <<chanVars, ownerVars, pc, result, fwd, held, out>>

\* The forwarding goroutine takes the first message, or the nil of a closed
\* channel ...
ForwardTake(r) ==
    /\ fwd[r] = "select"
    /\ \/ /\ buf[r] # <<>>
          /\ held' = [held EXCEPT ![r] = Head(buf[r])]
          /\ buf' = [buf EXCEPT ![r] = Tail(@)]
       \/ /\ buf[r] = <<>> /\ r \in closed
          /\ held' = [held EXCEPT ![r] = Nil]
          /\ UNCHANGED buf
    /\ fwd' = [fwd EXCEPT ![r] = "send"]
    /\ UNCHANGED <<made, registered, closed, ownerVars, pc,
                   result, expired, out>>

\* ... or gives up with the context.
ForwardExpired(r) ==
    /\ fwd[r] = "select" /\ r \in expired
    /\ fwd' = [fwd EXCEPT ![r] = "unsub"]
    /\ UNCHANGED <<chanVars, ownerVars, pc, result, expired, held, out>>

\* The channel to the caller has room for the one value.
Unbuffered(r) == pc[r] = "wait"                    \* mutation: out not buffered
CanSend(r)    == Len(out[r]) < 1
ForwardSend(r) ==
    /\ fwd[r] = "send" /\ CanSend(r)
    /\ out' = [out EXCEPT ![r] = Append(@, held[r])]
    /\ held' = [held EXCEPT ![r] = Plain] /\ fwd' = [fwd EXCEPT ![r] = "unsub"]
    /\ UNCHANGED <<chanVars, ownerVars, pc, result, expired>>

\* The deferred unsubscribe; what is left in the channel is garbage.
ForwardUnsub(r) ==
    /\ fwd[r] = "unsub"
    /\ registered' = registered \ {r} /\ buf' = [buf EXCEPT ![r] = <<>>]
    /\ fwd' = [fwd EXCEPT ![r] = "done"]
    /\ UNCHANGED <<made, closed, ownerVars, pc, result,
                   expired, held, out>>

\* The caller takes what comes first; with a reply its context no longer matters.
RequestReplied(r) ==
    /\ pc[r] = "wait" /\ out[r] # <<>>
    /\ result' = [result EXCEPT ![r] = Head(out[r])]
    /\ out' = [out EXCEPT ![r] = Tail(@)]
    /\ pc' = [pc EXCEPT ![r] = "done"] /\ expired' = expired \ {r}
    /\ UNCHANGED <<chanVars, ownerVars, fwd, held>>

RequestExpired(r) ==
    /\ pc[r] = "wait" /\ r \in expired
    /\ result' = [result EXCEPT ![r] = CtxError]
    /\ pc' = [pc EXCEPT ![r] = "done"]
    /\ UNCHANGED <<chanVars, ownerVars, expired, fwd, held, out>>

-----------------------------------------------------------------------------
(* Owners of one entry: newOwner, releaseOwner, drainService; Drain. *)

\* newOwner registers the id with the root, then the entry claims it.
LazyToken(o) == known                              \* mutation: no token yet
Announce(o)  == known \cup {o}
RegisterOwner(o) ==
    /\ opc[o] = "free"
    /\ known' = Announce(o) /\ opc' = [opc EXCEPT ![o] = "register"]
    /\ UNCHANGED <<chanVars, dead, claimed, sweep, reqVars>>

ClaimOwner(o) ==
    /\ opc[o] = "register"
    /\ claimed' = claimed \cup {o} /\ opc' = [opc EXCEPT ![o] = "live"]
    /\ UNCHANGED <<chanVars, known, dead, sweep, reqVars>>

\* releaseOwner, when the instance or tick ends: the entry forgets the id, then
\* the root drains it.
RemoveOwner(o) ==
    /\ opc[o] = "live"
    /\ claimed' = claimed \ {o} /\ opc' = [opc EXCEPT ![o] = "release"]
    /\ UNCHANGED <<chanVars, known, dead, sweep, reqVars>>

ReleaseOwner(o) ==
    /\ opc[o] = "release"
    /\ CloseOwners({o}) /\ opc' = [opc EXCEPT ![o] = "gone"]
    /\ UNCHANGED <<claimed, sweep, reqVars>>

\* drainService of a teardown takes what is still claimed and drains each.
TakeOwners ==
    /\ sweep = {} /\ claimed # {}
    /\ sweep' = claimed /\ claimed' = {}
    /\ UNCHANGED <<chanVars, known, dead, opc, reqVars>>

SweepOwner(o) ==
    /\ o \in sweep
    /\ CloseOwners({o}) /\ sweep' = sweep \ {o}
    /\ UNCHANGED <<claimed, opc, reqVars>>

\* Drain, at the shutdown: every subscription, the unowned ones too.
Drain ==
    /\ CloseOwners(known \cup Views)
    /\ UNCHANGED <<claimed, opc, sweep, reqVars>>

-----------------------------------------------------------------------------
Init ==
    /\ made = {} /\ registered = {} /\ closed = {}
    /\ buf = [c \in Chans |-> <<>>]
    /\ known = {} /\ dead = {} /\ claimed = {} /\ sweep = {}
    /\ opc = [o \in Owners |-> "free"]
    /\ pc = [r \in Requesters |-> "idle"] /\ expired = {}
    /\ result = [r \in Requesters |-> Plain]
    /\ fwd = [r \in Requesters |-> "none"] /\ held = [r \in Requesters |-> Plain]
    /\ out = [r \in Requesters |-> <<>>]

RequestStep(r) == PublishRequest(r) \/ RequestReplied(r) \/ RequestExpired(r)
ForwardStep(r) ==
    ForwardTake(r) \/ ForwardExpired(r) \/ ForwardSend(r) \/ ForwardUnsub(r)

Next ==
    \/ \E c \in Subs :
          \/ Subscribe(c) \/ SubscribeDead(c)
          \/ Unsubscribe(c) \/ Serve(c)
    \/ Publish(On("topic")) \/ Publish(registered)
    \/ \E r \in Requesters :
          \/ BeginRequest(r) \/ RefuseRequest(r)
          \/ Expire(r) \/ RequestStep(r) \/ ForwardStep(r)
    \/ \E o \in Owners :
          \/ RegisterOwner(o) \/ ClaimOwner(o)
          \/ RemoveOwner(o) \/ ReleaseOwner(o) \/ SweepOwner(o)
    \/ TakeOwners \/ Drain

Spec == Init /\ [][Next]_vars

\* The scheduler never stops running the goroutines of requests that can run.  Each
\* takes finitely many steps, so this is weaker than fairness to each of them.
Fairness == WF_vars(\E r \in Requesters : RequestStep(r) \/ ForwardStep(r))

FairSpec == Spec /\ Fairness

-----------------------------------------------------------------------------
(* Properties. *)

\* Shape of the state: channels outside the registry and closed ones are made,
\* a buffer never exceeds its capacity.
TypeOK ==
    /\ made \subseteq Chans /\ registered \subseteq made /\ closed \subseteq made
    /\ buf \in [Chans -> Seq(Messages)]
    /\ \A c \in Chans : Len(buf[c]) <= Capacity
    /\ known \subseteq Owners /\ dead \subseteq Owners
    /\ claimed \subseteq Owners /\ sweep \subseteq Owners
    /\ opc \in [Owners -> {"free", "register", "live", "release", "gone"}]
    /\ pc \in [Requesters -> {"idle", "publish", "wait", "refused", "done"}]
    /\ result \in [Requesters -> Messages] /\ expired \subseteq Requesters
    /\ fwd \in [Requesters -> {"none", "select", "send", "unsub", "done"}]
    /\ held \in [Requesters -> Messages]
    /\ out \in [Requesters -> Seq(Messages)]

\* No Publish sends on a closed channel and no drain closes a channel twice, both
\* of which panic: Publish and the drains only reach registered channels
\* (Publish, closeSubs).
NoSendOnClosed == registered \cap closed = {}

\* A drained owner cannot subscribe again through a view that outlived it: no
\* channel in the registry belongs to it (subscribe, drainOwner, Drain).
DeadOwnersSilent == \A c \in registered : owner[c] \notin dead

\* When an instance or tick has released its owner, nothing it subscribed stays in
\* the registry and nothing can come back under that id, also when the shutdown
\* drained everything in between (releaseOwner, drainOwner).
ReleaseIsFinal ==
    \A o \in Owners : opc[o] = "gone" =>
        o \in dead /\ \A c \in registered : owner[c] # o

\* Every id an entry claims, or a teardown took and has yet to drain, is known to
\* the root or dead already: draining it never leaves a live view behind (newOwner,
\* takeOwners).
ClaimsCanBeDrained == claimed \cup sweep \subseteq known \cup dead

\* A reply that Request returns answers that request and no other in flight
\* (requestMessage, TypedRespond).
RepliesComeHome ==
    \A r \in Requesters : result[r].kind = "reply" => result[r].id = r

\* The README's promise that a Request whose owner ended returns an error instead
\* of a nil reply.
NoNilReply ==
    \A r \in Requesters : owner[r] \in dead => result[r].kind # "nil"

\* Whatever the responders and the drains do, a Request whose context expired or
\* that was answered comes to its end: it has returned, its forwarding goroutine has
\* exited and its reply topic has left the registry (Request, RequestAsync).
Ended(r)    == pc[r] = "done" /\ fwd[r] = "done" /\ r \notin registered
RequestEnds ==
    <>[](\A r \in Requesters : (r \in expired \/ pc[r] = "done") => Ended(r))
=============================================================================
