--------------------------- MODULE RelayChannels ---------------------------
(***************************************************************************)
(* The enrollment channels of the relay (byo-relay/src/channel.rs): two    *)
(* devices that scanned the same QR code meet in a channel object; each    *)
(* session forwards what its socket sends to the other slot.               *)
(*                                                                         *)
(* The registry maps a channel id to an object.  A session keeps its own   *)
(* reference to the object it joined, so an object that was swept from the *)
(* registry lives on while another one takes its id; leave() goes through  *)
(* the registry again.                                                     *)
(***************************************************************************)
EXTENDS Naturals, Sequences, FiniteSets, Maps

CONSTANTS
    Ids,                \* channel ids
    Objs,               \* channel objects, allocated in any order
    Sessions,           \* WebSocket sessions, each opened once
    MsgSizes,           \* lengths of a message
    MaxMessage,         \* MAX_MESSAGE_BYTES
    MaxChannel,         \* MAX_CHANNEL_BYTES
    IdleTtl,            \* CHANNEL_IDLE_TTL
    ChanTime            \* bound on the clock

ASSUME ChanAssumption ==
    /\ MsgSizes \subseteq Nat \ {0} /\ {MaxMessage, MaxChannel, IdleTtl, ChanTime} \subseteq Nat
    /\ None \notin Sessions \cup Objs /\ IsFiniteSet(Sessions)

VARIABLES
    cNow,
    registry,           \* ChannelRegistry.channels: id -> object
    obj,                \* object -> [slots, last, bytes]; its domain is what was allocated
    sess,               \* session -> [pc, id, obj, slot, inbox, out, seen]
    \* History.
    forwarded,          \* object -> bytes queued for a peer
    raced               \* ids of which an object was swept under a session

chanVars == <<cNow, registry, obj, sess, forwarded, raced>>

Slots == {0, 1}
NewChannel == [slots |-> [k \in Slots |-> None], last |-> cNow, bytes |-> 0]
Unopened == [pc |-> "new", id |-> None, obj |-> None, slot |-> 0,
             inbox |-> <<>>, out |-> 0, seen |-> 0]

ChanInit ==
    /\ cNow = 0 /\ registry = EmptyMap /\ obj = EmptyMap
    /\ sess = [s \in Sessions |-> Unopened]
    /\ forwarded = EmptyMap /\ raced = {}

Live(s) == sess[s].pc \in {"relay", "forward"}
\* rx.recv() returns None: the sender of the session was dropped from its slot.
CutOff(s) == obj[sess[s].obj].slots[sess[s].slot] # s
-----------------------------------------------------------------------------
\* Sockets are interchangeable until they are opened.
Opens(s) == sess[s].pc = "new" /\ s = CHOOSE x \in Sessions : sess[x].pc = "new"
\* join() of an object: the first empty slot.
Enter(s, id, o, chan) ==
    LET k == IF chan.slots[0] = None THEN 0 ELSE 1 IN
    /\ obj' = Put(obj, o, [chan EXCEPT !.slots[k] = s, !.last = cNow])
    /\ sess' = [sess EXCEPT ![s] = [@ EXCEPT !.pc = "relay", !.id = id, !.obj = o,
                                             !.slot = k, !.seen = cNow]]

\* handle_enrollment_ws(): a channel that does not exist is created; a session
\* that finds no empty slot is closed at once and never becomes live.
JoinNew(s, id) ==
    LET o == CHOOSE o \in Objs : o \notin DOMAIN obj IN
    /\ Opens(s) /\ id \notin DOMAIN registry /\ DOMAIN obj # Objs
    /\ registry' = Put(registry, id, o)
    /\ Enter(s, id, o, NewChannel)
    /\ forwarded' = Put(forwarded, o, 0)
    /\ UNCHANGED <<cNow, raced>>

HasRoomAlways(o) == TRUE
HasRoom(o) == \E k \in Slots : obj[o].slots[k] = None
Join(s, id) ==
    /\ Opens(s) /\ id \in DOMAIN registry
    /\ HasRoom(registry[id])
    /\ Enter(s, id, registry[id], obj[registry[id]])
    /\ UNCHANGED <<cNow, registry, forwarded, raced>>

\* relay_loop(), a message from the socket: the cap is counted under one lock ...
CapExceededLate(o, n) == obj[o].bytes > MaxChannel
CapExceeded(o, n) == obj[o].bytes + n > MaxChannel
TooLargeNever(n) == FALSE
TooLarge(n) == n > MaxMessage
Receive(s, n) ==
    LET o == sess[s].obj IN
    /\ sess[s].pc = "relay"
    /\ IF TooLarge(n)
         THEN sess' = [sess EXCEPT ![s].pc = "leave"] /\ UNCHANGED obj
         ELSE /\ obj' = [obj EXCEPT ![o].bytes = @ + n, ![o].last = cNow]
              /\ sess' = [sess EXCEPT ![s] =
                   IF CapExceeded(o, n) THEN [@ EXCEPT !.pc = "leave"]
                   ELSE [@ EXCEPT !.pc = "forward", !.out = n, !.seen = cNow]]
    /\ UNCHANGED <<cNow, registry, forwarded, raced>>

\* ... and the peer is looked up under the next.  Without one the message is gone.
PeerByName(s) ==
    LET i == sess[s].id IN
    IF i \in DOMAIN registry THEN obj[registry[i]].slots[1 - sess[s].slot] ELSE None
Peer(s) == obj[sess[s].obj].slots[1 - sess[s].slot]
Forward(s) ==
    LET o == sess[s].obj
        peer == Peer(s) IN
    /\ sess[s].pc = "forward"
    /\ IF peer = None
         THEN sess' = [sess EXCEPT ![s] = [@ EXCEPT !.pc = "relay", !.out = 0]]
              /\ UNCHANGED forwarded
         ELSE /\ sess' = [sess EXCEPT ![s] = [@ EXCEPT !.pc = "relay", !.out = 0],
                                      ![peer].inbox = Append(@, s)]
              /\ forwarded' = [forwarded EXCEPT ![o] = @ + sess[s].out]
    /\ UNCHANGED <<cNow, registry, obj, raced>>

\* A message from the peer; the socket may be gone.
Deliver(s, ok) ==
    /\ sess[s].pc = "relay" /\ sess[s].inbox # <<>>
    /\ sess' = [sess EXCEPT ![s].inbox = Tail(@), ![s].seen = cNow,
                            ![s].pc = IF ok THEN "relay" ELSE "leave"]
    /\ obj' = IF ok THEN [obj EXCEPT ![sess[s].obj].last = cNow] ELSE obj
    /\ UNCHANGED <<cNow, registry, forwarded, raced>>

\* A ping restarts the timer of the session and not that of the channel.
Ping(s) ==
    /\ sess[s].pc = "relay" /\ sess[s].seen < cNow
    /\ sess' = [sess EXCEPT ![s].seen = cNow]
    /\ UNCHANGED <<cNow, registry, obj, forwarded, raced>>

\* The socket closes, the session idles out, or its sender was dropped.
Break(s) ==
    /\ sess[s].pc = "relay"
    /\ sess' = [sess EXCEPT ![s].pc = "leave"]
    /\ UNCHANGED <<cNow, registry, obj, forwarded, raced>>

\* leave(): the slot number is cleared in whatever object has the id now.
SlotOfOwnOnly(s) == {}
LeftObj(s) == {registry[i] : i \in {sess[s].id} \cap DOMAIN registry}
Leave(s) ==
    /\ sess[s].pc = "leave"
    /\ obj' = [o \in DOMAIN obj |-> IF o \in LeftObj(s)
                                      THEN [obj[o] EXCEPT !.slots[sess[s].slot] = None]
                                      ELSE obj[o]]
    /\ registry' = IF \E o \in LeftObj(s) : obj'[o].slots = NewChannel.slots
                     THEN Drop(registry, sess[s].id) ELSE registry
    /\ sess' = [sess EXCEPT ![s] = [Unopened EXCEPT !.pc = "gone", !.id = sess[s].id,
                                                    !.obj = sess[s].obj]]
    /\ UNCHANGED <<cNow, forwarded, raced>>

\* sweep_expired()
IdleExpired(o) == cNow - obj[o].last > IdleTtl
Swept == {i \in DOMAIN registry : IdleExpired(registry[i])}
Sweep ==
    /\ Swept # {}
    /\ registry' = Keep(registry, DOMAIN registry \ Swept)
    /\ raced' = raced \cup {i \in Swept : \E s \in Sessions : sess[s].obj = registry[i]
                                                            /\ sess[s].pc # "gone"}
    /\ UNCHANGED <<cNow, obj, sess, forwarded>>

ChanTick ==
    /\ cNow < ChanTime
    \* tokio::time::sleep(idle_timeout): no session outlives its timer.
    /\ \A s \in Sessions : Live(s) => cNow - sess[s].seen <= IdleTtl
    /\ cNow' = cNow + 1
    /\ UNCHANGED <<registry, obj, sess, forwarded, raced>>

ChanStep(s) ==
    \/ Forward(s) \/ Ping(s) \/ Break(s) \/ Leave(s)
    \/ \E n \in MsgSizes : Receive(s, n)
    \/ \E ok \in BOOLEAN : Deliver(s, ok)
    \/ \E i \in Ids : Join(s, i) \/ JoinNew(s, i)
ChanNext == Sweep \/ ChanTick \/ \E s \in Sessions : ChanStep(s)
ChanSpec == ChanInit /\ [][ChanNext]_chanVars
-----------------------------------------------------------------------------
\* The registry and the sessions: a message that is being forwarded is within the size limit.
ChanTypeOK ==
    /\ cNow \in 0..ChanTime
    /\ \A i \in DOMAIN registry : i \in Ids /\ registry[i] \in DOMAIN obj
    /\ \A s \in Sessions : Live(s) =>
         sess[s].obj \in DOMAIN obj /\ sess[s].slot \in Slots /\ sess[s].out \in 0..MaxMessage
    /\ \A o \in DOMAIN obj : obj[o].bytes \in Nat /\ obj[o].last \in 0..cNow

\* A channel never forwards more than its cap, although each session counts under
\* one lock and forwards under another (Channel::add_bytes, relay_loop).
ForwardedWithinCap == \A o \in DOMAIN obj : forwarded[o] <= MaxChannel

\* A slot of a registered channel belongs to a session of that channel that has
\* still to leave: whatever was swept, rejoined or cleared by somebody else, no
\* slot stays taken by a session that is gone (ChannelRegistry::leave).
NoGhostSlot ==
    \A i \in DOMAIN registry : \A k \in Slots :
      LET s == obj[registry[i]].slots[k] IN
        s # None => /\ sess[s].pc \in {"relay", "forward", "leave"}
                         /\ sess[s].obj = registry[i] /\ sess[s].slot = k

\* Unless the sweeper took a channel from under its sessions, an object has at
\* most two sessions, each in its own slot, and is the registered one.
PairExclusive ==
    \A s \in Sessions : (Live(s) /\ sess[s].id \notin raced) =>
      /\ ~CutOff(s)
      /\ sess[s].id \in DOMAIN registry /\ registry[sess[s].id] = sess[s].obj

\* A session hears only from sessions that joined the same object.
SamePair ==
    \A s \in Sessions : \A n \in DOMAIN sess[s].inbox :
      sess[sess[s].inbox[n]].obj = sess[s].obj

\* What channel.rs promises a pair of devices, sweeps and rejoins included: the byte cap, no
\* slot left by a session that is gone, two holders at most, and frames from the peer only.
ChanInv == ChanTypeOK /\ ForwardedWithinCap /\ NoGhostSlot /\ PairExclusive /\ SamePair
=============================================================================
