------------------------------ MODULE MCParts ------------------------------
(* The parts under the sockets for TLC: the frame rings (FrameRing), the   *)
(* frames of one AF_XDP queue (Frames), the buffers (Skb), fragmentation    *)
(* (IpFrag), timers (Timers) and the mirror of the kernel's tables (Links). *)
(* They share no state at the level of these models; a behaviour is one of  *)
(* a single part, and the variables of the others are Off.                  *)
EXTENDS Integers, Sequences

VARIABLES part,                                     \* the one that runs
          ring, user,                               \* of FrameRing
          mem, ix, skb, inbox, left,                \* of Frames
          buf, want, sendq, rtxq, snd, writes,      \* of Skb
          net, queues, out, ids, clock, plan,       \* of IpFrag
          coarse, thr, tk, deadline, rest,          \* of Timers
          kern, nl, ifs, trie, ndp, started, turns  \* of Links

-----------------------------------------------------------------------------
(* Two threads, two or four frames, and rings so short that they wrap       *)
(* around.                                                                  *)
R == INSTANCE FrameRing WITH Threads <- {1, 2}, PoolSizes <- {2, 4},
                             CacheSize <- 2, Batch <- 2, Ops <- 3, thr <- user

(* A peer's worker and the queue's own; the rings hold two frames of three, *)
(* so that each of them runs full and empty.                                *)
FrameScenarios == {[made |-> 2, packets |-> 1, stops |-> 0],
                   [made |-> 1, packets |-> 1, stops |-> 1],
                   [made |-> 2, packets |-> 0, stops |-> 1]}
F == INSTANCE Frames WITH Workers <- {1, 2}, Owner <- 1, NFrames <- 3, NSkbs <- 2,
                          Limit <- 2, Low <- 1, Shared <- 1, FqSize <- 2, TxSize <- 2,
                          PendingLimit <- 1, KickThreshold <- 2, Scenarios <- FrameScenarios

(* Segments of two bytes, a chain of at most three slots, and fewer slots   *)
(* than the operations ask for.                                             *)
SkbPlans == {[bytes |-> 3, dgram |-> 0, ops |-> 1], [bytes |-> 0, dgram |-> 3, ops |-> 4],
             [bytes |-> 2, dgram |-> 6, ops |-> 0]}
B == INSTANCE Skb WITH NSkbs <- 4, NSlots <- 4, Hdr <- 1, Mss <- 2, Third <- 1, MaxNum <- 3,
                       Plans <- SkbPlans, plan <- writes

(* IPv4 cut twice on the way; two senders, one datagram too old; IPv6 cut   *)
(* again by a router; an IPv6 queue that times out; two equal               *)
(* identifications of different senders.                                    *)
Dgram(n, v, src, len, df) == [name |-> n, v |-> v, src |-> src, len |-> len, df |-> df]
FragScenarios ==
  {[dgrams |-> <<Dgram(1, 4, 1, 7, FALSE)>>, hostMtu |-> 4, routerMtu |-> 2, hops |-> 2,
    ticks |-> 0, start |-> 0, dups |-> 2, fails |-> {}],
   [dgrams |-> <<Dgram(2, 4, 1, 5, FALSE), Dgram(3, 4, 2, 4, TRUE)>>, hostMtu |-> 3,
    routerMtu |-> 2, hops |-> 0, ticks |-> 7, start |-> 1, dups |-> 2,
    fails |-> {"queue", "copy"}],
   [dgrams |-> <<Dgram(5, 6, 1, 7, FALSE), Dgram(6, 6, 1, 6, FALSE)>>, hostMtu |-> 6,
    routerMtu |-> 4, hops |-> 1, ticks |-> 0, start |-> 0, dups |-> 0, fails |-> {"copy"}],
   [dgrams |-> <<Dgram(7, 6, 1, 5, FALSE)>>, hostMtu |-> 4, routerMtu |-> 4, hops |-> 0,
    ticks |-> 6, start |-> 0, dups |-> 1, fails |-> {"queue", "copy"}],
   [dgrams |-> <<Dgram(8, 4, 1, 3, FALSE), Dgram(9, 4, 2, 3, FALSE)>>, hostMtu |-> 2,
    routerMtu |-> 2, hops |-> 0, ticks |-> 0, start |-> 2, dups |-> 1,
    fails |-> {"queue", "copy"}]}
I == INSTANCE IpFrag WITH Unit <- 2, MaxNum <- 3, MaxLen <- 8, MinMtu6 <- 4, DefaultTtl <- 2,
                          IdSize <- 8, Timeout <- 3, Interval <- 2, ClockSize <- 7,
                          Scenarios <- FragScenarios

(* Wheels of three slots: delays of 1, 4 and 7 lie in the first wheel, in   *)
(* the second, and in its last slot.  One connection with two deadlines;    *)
(* one that moves; two that share slots; a move between two changes.        *)
TimerScenarios ==
  {[threads |-> {1}, tasks |-> {1}, kinds |-> {1, 2}, home |-> 1, ticks |-> 9, sets |-> 4,
    moves |-> 0, delays |-> {1, 4, 7}],
   [threads |-> {1, 2}, tasks |-> {1}, kinds |-> {1}, home |-> 1, ticks |-> 7, sets |-> 1,
    moves |-> 1, delays |-> {1, 4}],
   [threads |-> {1}, tasks |-> {1, 2}, kinds |-> {1}, home |-> 1, ticks |-> 7, sets |-> 3,
    moves |-> 0, delays |-> {1, 4}],
   [threads |-> {1, 2}, tasks |-> {1}, kinds |-> {1, 2}, home |-> 1, ticks |-> 2, sets |-> 3,
    moves |-> 2, delays |-> {1}]}
T == INSTANCE Timers WITH Threads <- {1, 2}, Tasks <- {1, 2}, Kinds <- {1, 2}, Size0 <- 3,
                          Size1 <- 3, MaxLag <- 2, Scenarios <- TimerScenarios,
                          clock <- coarse, left <- rest

(* IPv4 with a link that comes and goes, routes of nested prefixes, one of  *)
(* them replaced; IPv6 with lookups bound to an interface; a link that is   *)
(* not configured and one of an unknown type; a buffer that overruns.       *)
Route(dst, gw, ifx, metric, mtu) ==
  [dst |-> dst, gw |-> gw, ifx |-> ifx, metric |-> metric, mtu |-> mtu]
LinkScenarios ==
  {[v |-> 4, have |-> {1}, more |-> {2}, tun |-> {}, open |-> {1, 2}, fails |-> {}, room |-> 9,
    lens |-> {}, macs |-> {}, changes |-> 4, routes |-> {Route(<<>>, 1, 1, 1, 0)},
    may |-> {Route(<<>>, 1, 1, 1, 1), Route(<<>>, 1, 2, 1, 0), Route(<<0, 1>>, 2, 1, 1, 0)}],
   [v |-> 6, have |-> {1, 2}, more |-> {}, tun |-> {}, open |-> {1, 2}, fails |-> {}, room |-> 9,
    lens |-> {}, macs |-> {}, changes |-> 3, routes |-> {Route(<<0>>, 1, 1, 1, 0)},
    may |-> {Route(<<0>>, 1, 2, 2, 0), Route(<<>>, 0, 2, 1, 0)}],
   [v |-> 4, have |-> {1, 2, 3}, more |-> {}, tun |-> {3}, open |-> {1, 3}, fails |-> {},
    room |-> 9, lens |-> {1, 2}, macs |-> {1, 2}, changes |-> 2, may |-> {},
    routes |-> {Route(<<>>, 1, 3, 1, 0), Route(<<>>, 1, 2, 2, 0)}],
   [v |-> 6, have |-> {1}, more |-> {}, tun |-> {}, open |-> {1}, fails |-> {"failed"},
    room |-> 2, lens |-> {1}, macs |-> {1}, changes |-> 3, routes |-> {},
    may |-> {Route(<<>>, 1, 1, 1, 0)}]}
L == INSTANCE Links WITH Workers <- {1, 2}, Main <- 1, Bits <- 2, Scenarios <- LinkScenarios,
                         left <- turns

-----------------------------------------------------------------------------
vars == <<part, ring, user, mem, ix, skb, inbox, left, buf, want, sendq, rtxq, snd, writes,
          net, queues, out, ids, clock, plan, coarse, thr, tk, deadline, rest,
          kern, nl, ifs, trie, ndp, started, turns>>

Off == "off"
RingOff == ring = Off /\ user = Off
FramesOff == mem = Off /\ ix = Off /\ skb = Off /\ inbox = Off /\ left = Off
SkbOff == buf = Off /\ want = Off /\ sendq = Off /\ rtxq = Off /\ snd = Off /\ writes = Off
FragOff == net = Off /\ queues = Off /\ out = Off /\ ids = Off /\ clock = Off /\ plan = Off
TimersOff == coarse = Off /\ thr = Off /\ tk = Off /\ deadline = Off /\ rest = Off
LinksOff == /\ kern = Off /\ nl = Off /\ ifs = Off /\ trie = Off /\ ndp = Off
            /\ started = Off /\ turns = Off

Init ==
  \/ part = "ring" /\ R!Init /\ FramesOff /\ SkbOff /\ FragOff /\ TimersOff /\ LinksOff
  \/ part = "frames" /\ RingOff /\ F!Init /\ SkbOff /\ FragOff /\ TimersOff /\ LinksOff
  \/ part = "skb" /\ RingOff /\ FramesOff /\ B!Init /\ FragOff /\ TimersOff /\ LinksOff
  \/ part = "frag" /\ RingOff /\ FramesOff /\ SkbOff /\ I!Init /\ TimersOff /\ LinksOff
  \/ part = "timers" /\ RingOff /\ FramesOff /\ SkbOff /\ FragOff /\ T!Init /\ LinksOff
  \/ part = "links" /\ RingOff /\ FramesOff /\ SkbOff /\ FragOff /\ TimersOff /\ L!Init

RingSame == UNCHANGED <<ring, user>>
FramesSame == UNCHANGED <<mem, ix, skb, inbox, left>>
SkbSame == UNCHANGED <<buf, want, sendq, rtxq, snd, writes>>
FragSame == UNCHANGED <<net, queues, out, ids, clock, plan>>
TimersSame == UNCHANGED <<coarse, thr, tk, deadline, rest>>
LinksSame == UNCHANGED <<kern, nl, ifs, trie, ndp, started, turns>>

Next ==
  \/ /\ part = "ring" /\ UNCHANGED part
     /\ R!Next /\ FramesSame /\ SkbSame /\ FragSame /\ TimersSame /\ LinksSame
  \/ /\ part = "frames" /\ UNCHANGED part
     /\ RingSame /\ F!Next /\ SkbSame /\ FragSame /\ TimersSame /\ LinksSame
  \/ /\ part = "skb" /\ UNCHANGED part
     /\ RingSame /\ FramesSame /\ B!Next /\ FragSame /\ TimersSame /\ LinksSame
  \/ /\ part = "frag" /\ UNCHANGED part
     /\ RingSame /\ FramesSame /\ SkbSame /\ I!Next /\ TimersSame /\ LinksSame
  \/ /\ part = "timers" /\ UNCHANGED part
     /\ RingSame /\ FramesSame /\ SkbSame /\ FragSame /\ T!Next /\ LinksSame
  \/ /\ part = "links" /\ UNCHANGED part
     /\ RingSame /\ FramesSame /\ SkbSame /\ FragSame /\ TimersSame /\ L!Next

Spec == Init /\ [][Next]_vars

-----------------------------------------------------------------------------
(* FrameRing: each frame is in one ring or with one thread, however threads *)
(* overlap in the batch operations of the global cache and the pool.        *)
FrameInOnePlace == part = "ring" => R!FrameInOnePlace

(* Frames: references, caches, descriptors and the pool account for every   *)
(* frame of the UMEM.                                                       *)
FramesAccounted == part = "frames" => F!FramesAccounted

(* Frames: what xdp_tx_enqueue() accepted is watched for, or a kick is due. *)
TxNotForgotten == part = "frames" => F!TxNotForgotten

(* Skb: data_num, data_total_len and the slots' references agree with the   *)
(* chains, and a queued segment has room for its header.                    *)
ChainsExact == part = "skb" => B!ChainsExact

(* Skb: clones, splits and retransmissions do not change what is sent.      *)
BytesIntact == part = "skb" => B!BytesIntact

(* IpFrag: transport protocols are handed whole payloads only.              *)
ReassembledWhole == part = "frag" => I!ReassembledWhole

(* IpFrag: a reassembly queue counts what it holds and does not outlive its *)
(* time-out.                                                                *)
QueuesCurrent == part = "frag" => I!QueuesCurrent

(* Timers: a connection with a deadline is in its owner's wheels, in time.  *)
DeadlinesCovered == part = "timers" => T!DeadlinesCovered

(* Timers: after a pass no deadline of the thread's connections is overdue. *)
NoneOverdue == part = "timers" => T!NoneOverdue

(* Links: once all events are read the tables are the kernel's, and the     *)
(* workers' queues follow the interfaces.                                   *)
MirrorFollows == part = "links" => L!MirrorFollows
=============================================================================
