------------------------------- MODULE IpFrag -------------------------------
(***************************************************************************)
(* Fragmentation and reassembly of IPv4 (main/ip_frag.c, main/ip.c) and of *)
(* IPv6 (main/ipv6_ext.c, main/ipv6.c).  A host sends datagrams, a router  *)
(* on the way forwards or not, and another host reassembles; all run this  *)
(* code.  The network loses, reorders and duplicates.                      *)
(*                                                                         *)
(* A byte is <<"b", datagram, place>>, eight bytes are Unit, and an MTU is *)
(* what it leaves for the payload.  A fragment header inside an IPv6       *)
(* payload is Unit places <<"h", offset, place>>.  The fragments of a      *)
(* datagram all go to one worker (get_frag_worker), so one is modelled; a  *)
(* failed allocation while cutting sends nothing, as a loss does.          *)
(***************************************************************************)
EXTENDS Integers, Sequences, FiniteSets, SequencesExt

CONSTANTS Unit,               \* the 8 bytes that offsets count
          MaxNum,             \* SKB_DATA_MAX_NUM
          MaxLen,             \* UINT16_MAX: the largest IPv6 payload
          MinMtu6,            \* 1280, under which ipv6_frag refuses
          DefaultTtl,
          IdSize,             \* 2^16: bound on identifications
          Timeout, Interval,  \* IPQ_TIMEOUT, IPQ_TIMER_INTERVAL
          ClockSize,          \* 2^32: last_update_time is a uint32_t
          Scenarios           \* the datagrams, the MTUs, the ticks, the duplicates

VARIABLES net,                \* packets on their way
          queues,             \* ipq_hash and ipq6_hash
          out,                \* what was handed to the transport protocols
          ids,                \* ip_id, and next_frag_id of the sender and the router
          clock,              \* get_current_time_ms(), and when the timers are due
          plan                \* the scenario, as far as it is still to come

vars == <<net, queues, out, ids, clock, plan>>

Payload(d, n) == [i \in 1..n |-> <<"b", d, i>>]
Slice(s, a, n) == SubSeq(s, a + 1, IF a + n > Len(s) THEN Len(s) ELSE a + n)
Ceil(a, b) == (a + b - 1) \div b

Init ==
  \E s \in Scenarios :
     /\ plan = s
     /\ clock = [now |-> s.start, due |-> s.start + Interval, due6 |-> s.start + Interval]
     /\ net = {} /\ queues = {} /\ out = {}
     /\ ids = [ip |-> 1, host |-> 1, router |-> 1]

-----------------------------------------------------------------------------
(* Cutting.  A packet: the family, src and ttl; df; the fragment header as  *)
(* fragged, id, off and mf; nh, whether the payload starts with another     *)
(* fragment header; cut, whether a router cut it; and the payload.          *)
ipv4_is_frag(p) == p.off # 0 \/ p.mf

ipv4_frag(p, mtu) ==
  LET size == (mtu \div Unit) * Unit
      n == Ceil(Len(p.data), size)
      Piece(k) == [p EXCEPT !.off = p.off + ((k - 1) * size) \div Unit,
                            !.mf = k < n \/ p.mf,
                            !.data = Slice(p.data, (k - 1) * size, size)]
  IN  IF Len(p.data) <= mtu THEN {p}
      ELSE IF p.df THEN {}
      ELSE {Piece(k) : k \in 1..n}

(* The payload of an IPv6 packet, its fragment header included. *)
Body(p) == IF p.fragged THEN [i \in 1..Unit |-> <<"h", p.off, i>>] \o p.data ELSE p.data

(* push_frag_headers() on every piece: a new header in front of the body. *)
ipv6_frag(p, mtu, id, cut) ==
  LET size == ((mtu - Unit) \div Unit) * Unit
      n == Ceil(Len(Body(p)), size)
      Piece(k) == [p EXCEPT !.fragged = TRUE, !.id = id, !.nh = IF p.fragged THEN "frag" ELSE "l4",
                            !.off = ((k - 1) * size) \div Unit, !.mf = k < n, !.cut = cut,
                            !.data = Slice(Body(p), (k - 1) * size, size)]
  IN  IF mtu < MinMtu6 THEN {}
      ELSE {Piece(k) : k \in 1..n}

(* The output path: what goes out on an interface, and the counter that     *)
(* ipv6_frag takes an identification from.                                  *)
Output(p, mtu, node, i) ==
  CASE p.v = 4 -> net' = net \cup ipv4_frag(p, mtu) /\ ids' = i
    [] p.v = 6 /\ Len(Body(p)) <= mtu -> net' = net \cup {p} /\ ids' = i
    [] p.v = 6 /\ Len(Body(p)) > mtu ->
         /\ net' = net \cup ipv6_frag(p, mtu, i[node], node = "router")
         /\ ids' = [i EXCEPT ![node] = @ + 1]

(* ipv4_output() and ipv6_output() for a datagram of the host itself. *)
ip_output ==
  /\ plan.dgrams # <<>>
  /\ LET d == Head(plan.dgrams)
         p == [v |-> d.v, src |-> d.src, ttl |-> DefaultTtl, df |-> d.df, nh |-> "l4",
               id |-> IF d.v = 4 THEN ids.ip % IdSize ELSE 0, fragged |-> FALSE,
               off |-> 0, mf |-> FALSE, cut |-> FALSE, data |-> Payload(d.name, d.len)]
     IN  Output(p, plan.hostMtu, "host", IF d.v = 4 THEN [ids EXCEPT !.ip = @ + 1] ELSE ids)
  /\ plan' = [plan EXCEPT !.dgrams = Tail(@)]
  /\ UNCHANGED <<queues, out, clock>>

(* ipv4_forward() and ipv6_forward() on the router; a copy may go another way. *)
ip_forward(p) ==
  /\ p.ttl > 1 /\ plan.hops > 0
  /\ Output([p EXCEPT !.ttl = @ - 1], plan.routerMtu, "router", ids)
  /\ plan' = [plan EXCEPT !.hops = @ - 1]
  /\ UNCHANGED <<queues, out, clock>>

-----------------------------------------------------------------------------
(* The reassembly queues, one for each key. *)
Key(p) == <<p.v, p.src, p.id>>
search_ipq(p) == {q \in queues : q.key = Key(p)}

create_ipq(p) ==
  [key |-> Key(p), total |-> 0, recv |-> 0, first |-> FALSE, last |-> FALSE,
   at |-> clock.now % ClockSize, since |-> clock.now, nh |-> p.nh, frags |-> <<>>]

(* add_list_node_compare() with skb_offset_cmp or frag6_offset_cmp. *)
Insert(frags, p) ==
  LET n == Cardinality({i \in DOMAIN frags : frags[i].off < p.off})
  IN  SubSeq(frags, 1, n) \o <<p>> \o SubSeq(frags, n + 1, Len(frags))

Start(p) == p.off * Unit
End(p) == p.off * Unit + Len(p.data)

(* What a fragment that is accepted does to its queue. *)
Add(q, p) ==
  [q EXCEPT !.frags = Insert(@, p), !.recv = @ + Len(p.data),
            !.total = IF p.mf THEN @ ELSE End(p),
            !.last = @ \/ ~p.mf, !.first = @ \/ p.off = 0]
Complete(q) == q.first /\ q.last /\ q.recv >= q.total

(* The walk over the list: each fragment must start where the one before    *)
(* ended, and all must fit in one skb.                                      *)
Contiguous_unchecked(frags) == TRUE
Contiguous(frags) ==
  \A i \in 2..Len(frags) :
     frags[i].off = FoldLeft(LAMBDA n, p : n + Len(p.data) \div Unit, 0, SubSeq(frags, 1, i - 1))
Assembled(frags) == FoldLeft(LAMBDA s, p : s \o p.data, <<>>, frags)

(* ipv6_skip_exthdrs() passes over a fragment header that is inside. *)
ipv6_skip_exthdrs(data) == SelectSeq(data, LAMBDA e : e[1] = "b")
Handed(frags) == [data |-> ipv6_skip_exthdrs(Assembled(frags)), v |-> frags[1].v,
                  cut |-> \E i \in DOMAIN frags : frags[i].cut]

(* A result: the queue that takes the place of the old one, and what is     *)
(* handed up.  A full queue is destroyed whether or not it could be         *)
(* assembled.  mem: the allocation that fails, for a queue or for the copy. *)
Finish(q, mem) ==
  IF ~Complete(q) THEN [q |-> {q}, up |-> {}]
  ELSE IF q.recv # q.total \/ ~Contiguous(q.frags) \/ Len(q.frags) > MaxNum \/ mem = "copy"
       THEN [q |-> {}, up |-> {}]
  ELSE [q |-> {}, up |-> {Handed(q.frags)}]

(* Mutation: a fragment that comes again keeps an incomplete queue alive. *)
ipv4_defrag_refreshes(p, mem) ==
  LET old == search_ipq(p)
      q == IF old = {} THEN create_ipq(p)
           ELSE [CHOOSE x \in old : TRUE EXCEPT !.at = clock.now % ClockSize]
  IN  IF \E i \in DOMAIN q.frags : q.frags[i].off = p.off THEN [q |-> {q}, up |-> {}]
      ELSE Finish(Add(q, p), mem)

ipv4_defrag(p, mem) ==
  LET old == search_ipq(p)
      q == IF old = {} THEN create_ipq(p) ELSE CHOOSE x \in old : TRUE
  IN  IF (p.mf /\ Len(p.data) % Unit # 0) \/ p.df \/ (old = {} /\ mem = "queue") THEN [q |-> old, up |-> {}]
      ELSE IF \E i \in DOMAIN q.frags : q.frags[i].off = p.off THEN [q |-> old, up |-> {}]
      ELSE Finish(Add(q, p), mem)

Overlaps(p, f) == Start(p) < End(f) /\ Start(f) < End(p)

(* Where a fragment and the queue disagree about where the payload ends. *)
InconsistentEnd(q, p) ==
  \/ q.last /\ End(p) > q.total
  \/ ~p.mf /\ \E i \in DOMAIN q.frags : End(q.frags[i]) > End(p)
  \/ ~p.mf /\ q.last /\ q.total # End(p)

ipv6_defrag(p, mem) ==
  LET old == search_ipq(p)
      q == IF old = {} THEN create_ipq(p)
           ELSE [CHOOSE x \in old : TRUE EXCEPT !.at = clock.now % ClockSize, !.since = clock.now]
  IN  IF p.off = 0 /\ ~p.mf THEN [q |-> old, up |-> {Handed(<<p>>)}]
      ELSE IF Len(p.data) = 0 \/ End(p) > MaxLen \/ (p.mf /\ Len(p.data) % Unit # 0) \/ mem = "queue"
           THEN [q |-> old, up |-> {}]
      ELSE IF q.nh # p.nh THEN [q |-> {}, up |-> {}]
      ELSE IF \E i \in DOMAIN q.frags : Overlaps(p, q.frags[i]) THEN [q |-> {q}, up |-> {}]
      ELSE IF InconsistentEnd(q, p) THEN [q |-> {}, up |-> {}]
      ELSE Finish(Add(q, p), mem)

(* ipv4_recv() and ipv6_recv() on the receiving host, with or without memory. *)
ip_recv(p, mem) ==
  LET res == CASE p.v = 4 /\ ipv4_is_frag(p) -> ipv4_defrag(p, mem)
               [] p.v = 6 /\ p.fragged -> ipv6_defrag(p, mem)
               [] OTHER -> [q |-> search_ipq(p), up |-> {Handed(<<p>>)}]
  IN  /\ queues' = (queues \ search_ipq(p)) \cup res.q
      /\ out' = out \cup res.up

(* A packet arrives; the network may have kept a copy. *)
arrive(p) ==
  /\ \/ net' = net \ {p} /\ UNCHANGED plan
     \/ plan.dups > 0 /\ plan' = [plan EXCEPT !.dups = @ - 1] /\ UNCHANGED net
  /\ \E mem \in plan.fails \cup {"none"} : ip_recv(p, mem)
  /\ UNCHANGED <<ids, clock>>

-----------------------------------------------------------------------------
(* Time, and the timers of the queues, which the wheel runs as long as they *)
(* are due.  ipq6_timer() keeps the time in 32 bits: once it has wrapped,   *)
(* the timer is due again at once and the worker does nothing else.         *)
tick ==
  /\ plan.ticks > 0 /\ clock.due > clock.now /\ clock.due6 > clock.now
  /\ clock' = [clock EXCEPT !.now = @ + 1]
  /\ plan' = [plan EXCEPT !.ticks = @ - 1]
  /\ UNCHANGED <<net, queues, out, ids>>

Expired(q) == (clock.now - q.at) % ClockSize > Timeout
Alive(v) == {q \in queues : q.key[1] = v => ~Expired(q)}

ipq_timer ==
  /\ clock.due <= clock.now
  /\ queues' = Alive(4)
  /\ clock' = [clock EXCEPT !.due = clock.now + Interval]
  /\ UNCHANGED <<net, out, ids, plan>>

ipq6_timer ==
  /\ clock.due6 <= clock.now
  /\ queues' = Alive(6)
  /\ clock' = [clock EXCEPT !.due6 = (clock.now % ClockSize) + Interval]
  /\ UNCHANGED <<net, out, ids, plan>>

Next ==
  \/ ip_output
  \/ \E p \in net : ip_forward(p) \/ arrive(p)
  \/ tick
  \/ ipq_timer \/ ipq6_timer

Spec == Init /\ [][Next]_vars

-----------------------------------------------------------------------------
(* Whatever fragments arrive, in whatever order, twice, or cut again on the *)
(* way, a transport protocol is only handed whole payloads: all the bytes   *)
(* of one datagram, in order (ipv4_defrag, ipv6_defrag).  What an IPv6      *)
(* router cut is excepted: it uses identifications of its own counter for   *)
(* the sender's address, and ipv6_recv skips the header inside.             *)
ReassembledWhole ==
  \A u \in out : u.cut \/ \E s \in Scenarios : \E i \in DOMAIN s.dgrams :
     /\ u.data = Payload(s.dgrams[i].name, s.dgrams[i].len)
     /\ u.v = s.dgrams[i].v

(* A queue counts what it holds, in order, and is not complete; none is     *)
(* older than the time-out and one interval of the timer: an IPv4 queue     *)
(* since its first fragment, an IPv6 queue since its last (ipq_timer,       *)
(* ipq6_timer).                                                             *)
QueuesCurrent ==
  \A q \in queues :
     /\ q.recv = FoldLeft(LAMBDA n, p : n + Len(p.data), 0, q.frags)
     /\ \A i \in 2..Len(q.frags) : q.frags[i - 1].off < q.frags[i].off
     /\ ~Complete(q)
     /\ clock.now - q.since <= Timeout + Interval
=============================================================================
