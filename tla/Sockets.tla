------------------------------- MODULE Sockets -------------------------------
(***************************************************************************)
(* Sockets and their workers: the fd table (main/fd_entry.c), the requests *)
(* of the socket calls and their routing (main/req_socket.c,               *)
(* main/stack.c), the bind table and the tuple table that all workers      *)
(* share (main/socket.c), and UDP (main/udp.c), whose connect and sendto   *)
(* move a socket to the worker of its tuple.                               *)
(*                                                                         *)
(* A worker runs one handler at a time.  A handler is cut where it touches *)
(* a shared table: the compare-exchange of the port counters, the one of   *)
(* the slot counter, and the locked sections of the tuple table.           *)
(***************************************************************************)
EXTENDS Integers, FiniteSets, FiniteSetsExt, Sequences, Functions

CONSTANTS Socks,            \* slots of the fd table, and the sockets in them
          Workers,
          Homes,            \* the random workers of the first sockets
          Peers,            \* remote (address, port) pairs
          Ports, Ephemeral, \* local ports, those socket_auto_bind() tries
          Steer(_),         \* select_worker_by_tuple(): the worker of a tuple
          RcvMax,           \* datagrams that fit a receive buffer
          Threads,          \* application threads, each in one call at a time
          Uses,             \* the calls that they make
          Calls,            \* bound on the calls of the application
          Packets           \* bound on the datagrams between two workers

AnyAddr == "any"              \* INADDR_ANY
LocalAddr == "local"            \* the address of the interface
NoPeer == "none"
NoKey == <<>>

Addrs == {AnyAddr, LocalAddr}
BindKeys == Addrs \X Ports
Counters == {"any", "specific"}
TupleKeys == Addrs \X Ports \X (Peers \cup {NoPeer})

(* The calls and their arguments; port 0 is "any port". *)
Ops == ({"bind"} \X Addrs \X (Ports \cup {0})) \cup ({"connect"} \X Peers \X {0})
         \cup ({"send"} \X (Peers \cup {NoPeer}) \X {0})
         \cup {<<"opt", "port", 0>>, <<"opt", "addr", 0>>, <<"recv", "-", 0>>,
               <<"close", "-", 0>>}

ASSUME SocketsAssumption ==
  /\ IsFiniteSet(Socks) /\ IsFiniteSet(Workers) /\ Socks \cap Workers = {}
  /\ Homes \subseteq [Socks -> Workers]
  /\ Ephemeral \subseteq Ports /\ NoPeer \notin Peers
  /\ Uses \subseteq Ops /\ Threads \in Nat
  /\ RcvMax \in Nat /\ Calls \in Nat /\ Packets \in Nat
  /\ \A k \in TupleKeys : Steer(k) \in Workers

VARIABLES
  free,   \* the stack of free slots
  sk,     \* each socket: st (open: the entry holds it; closed: only callers
          \* hold the entry; none: the slot is free), owner, opts, sip, sport,
          \* peer, conn, resv (bind_reservation), excl (reserved without
          \* reuse), key (of its tuple_entry), rx, err
  ports,  \* the counters of each port: wildcard and specific binds
  slots,  \* the counter of each (address, port)
  tuples, \* each tuple's sockets, from the head of its list
  inbox,  \* each worker's requests
  pkts,   \* each worker's datagrams handed over by transmit_skb_2_worker()
  loc,    \* each worker's handler: where it is and its locals
  calls

vars == <<free, sk, ports, slots, tuples, inbox, pkts, loc, calls>>

NoSock == [st |-> "none", owner |-> CHOOSE w \in Workers : TRUE, opts |-> {}, sip |-> AnyAddr,
           sport |-> 0, peer |-> NoPeer, conn |-> FALSE, resv |-> NoKey, excl |-> FALSE,
           key |-> NoKey, rx |-> 0, err |-> FALSE]
Idle == [pc |-> "idle", s |-> "-", op |-> "-", arg |-> "-", addr |-> AnyAddr, reuse |-> FALSE,
         try |-> {}, key |-> NoKey, old |-> NoKey, hops |-> 0,
         to |-> "-"]

(* Every slot has been handed out once, and the sockets may have asked for *)
(* SO_REUSEPORT.                                                           *)
Init ==
  /\ free = <<>>
  /\ \E home \in Homes, opts \in {{}, {"port"}} :
       sk = [s \in Socks |-> [NoSock EXCEPT !.st = "open", !.owner = home[s], !.opts = opts]]
  /\ ports = [p \in Ports |-> [c \in Counters |-> 0]]
  /\ slots = [k \in BindKeys |-> 0]
  /\ tuples = [k \in TupleKeys |-> <<>>]
  /\ inbox = [w \in Workers |-> <<>>]
  /\ pkts = [w \in Workers |-> <<>>]
  /\ loc = [w \in Workers |-> Idle]
  /\ calls = 0

Bound(s) == sk[s].resv # NoKey
Hashed(s) == sk[s].key # NoKey

-----------------------------------------------------------------------------
(* The calls of the application.                                           *)

Requests == UNION {Range(inbox[w]) : w \in Workers}

(* The calls that have not returned. *)
Pending == FoldSet(LAMBDA w, n : n + Len(inbox[w]) + (IF loc[w].pc = "idle" THEN 0 ELSE 1), 0,
                   Workers)

(* A request holds the entry, so the slot is free only when none is left. *)
Held(s) == \/ \E r \in Requests : r.s = s
           \/ \E w \in Workers : loc[w].pc # "idle" /\ loc[w].s = s

(* destroy_fd_entry(): the last reference is put. *)
FreeSlot(s) ==
  /\ sk[s].st = "closed" /\ ~ Held(s)
  /\ sk' = [sk EXCEPT ![s] = NoSock]
  /\ free' = <<s>> \o free
  /\ UNCHANGED <<ports, slots, tuples, inbox, pkts, loc, calls>>

(* socket_req(): random_worker() creates the socket (_socket(),            *)
(* create_socket()) and its entry in a free slot.                          *)
_socket(w) ==
  /\ free # <<>>
  /\ sk' = [sk EXCEPT ![Head(free)] = [NoSock EXCEPT !.st = "open", !.owner = w]]
  /\ free' = Tail(free)
  /\ UNCHANGED <<ports, slots, tuples, inbox, pkts, loc, calls>>

(* A socket call: hold_fd_entry(), then the request goes to the worker that *)
(* the entry names.                                                        *)
Call(s, o) ==
  /\ sk[s].st = "open" /\ calls < Calls /\ Pending < Threads
  /\ inbox' = [inbox EXCEPT ![sk[s].owner] = Append(@, [s |-> s, op |-> o[1], arg |-> o[2],
                                                        port |-> o[3], hops |-> 0])]
  /\ calls' = calls + 1
  /\ UNCHANGED <<free, sk, ports, slots, tuples, pkts, loc>>

-----------------------------------------------------------------------------
(* process_request().                                                      *)

Next1(w) == Head(inbox[w])
Pop(w) == inbox' = [inbox EXCEPT ![w] = Tail(@)]
Taken(w, op) ==
  /\ loc[w].pc = "idle" /\ inbox[w] # <<>> /\ Next1(w).op = op
  /\ sk[Next1(w).s].st = "open" /\ sk[Next1(w).s].owner = w

(* EBADF: the socket was closed while the request was queued. *)
ProcessBadf(w) ==
  /\ loc[w].pc = "idle" /\ inbox[w] # <<>> /\ sk[Next1(w).s].st # "open"
  /\ Pop(w)
  /\ UNCHANGED <<free, sk, ports, slots, tuples, pkts, loc, calls>>

(* change_req_worker(): the socket moved while the request was queued. *)
ProcessElsewhere(w) ==
  LET r == Next1(w) IN
  /\ loc[w].pc = "idle" /\ inbox[w] # <<>>
  /\ sk[r.s].st = "open" /\ sk[r.s].owner # w
  /\ inbox' = [inbox EXCEPT ![w] = Tail(@), ![sk[r.s].owner] = Append(@, [r EXCEPT !.hops = @ + 1])]
  /\ UNCHANGED <<free, sk, ports, slots, tuples, pkts, loc, calls>>

(* The handler goes on at pc; it ends when pc is "idle". *)
Goto(w, pc) == loc' = [loc EXCEPT ![w] = IF pc = "idle" THEN Idle ELSE [@ EXCEPT !.pc = pc]]
Enter(w, pc, addr, reuse, try) ==
  loc' = [loc EXCEPT ![w] = [pc |-> pc, s |-> Next1(w).s, op |-> Next1(w).op, arg |-> Next1(w).arg,
                             addr |-> addr, reuse |-> reuse, try |-> try, key |-> NoKey,
                             old |-> NoKey, hops |-> Next1(w).hops, to |-> "-"]]

(* socket_setsockopt(): SO_REUSEADDR or SO_REUSEPORT is set or cleared. *)
socket_setsockopt(opts, o) == IF o \in opts THEN opts \ {o} ELSE opts \cup {o}

_setsockopt(w) ==
  LET r == Next1(w) IN
  /\ Taken(w, "opt") /\ Pop(w)
  /\ sk' = [sk EXCEPT ![r.s].opts = socket_setsockopt(@, r.arg)]
  /\ UNCHANGED <<free, ports, slots, tuples, pkts, loc, calls>>

(* udp_recvfrom() without waiting: ENOTCONN, a datagram, the pending error, *)
(* or EAGAIN.                                                              *)
udp_recvfrom(w) ==
  LET s == Next1(w).s IN
  /\ Taken(w, "recv") /\ Pop(w)
  /\ sk' = CASE ~ (Bound(s) /\ Hashed(s)) -> sk
             [] Bound(s) /\ Hashed(s) /\ sk[s].rx > 0 -> [sk EXCEPT ![s].rx = @ - 1]
             [] OTHER -> [sk EXCEPT ![s].err = FALSE]
  /\ UNCHANGED <<free, ports, slots, tuples, pkts, loc, calls>>

-----------------------------------------------------------------------------
(* Binding.                                                                *)

(* bind_saddr(): either option allows the address to be shared. *)
MayReuse(s) == sk[s].opts # {}

(* udp_bind(): EINVAL when bound; port 0 asks for any ephemeral port,      *)
(* without reuse (socket_auto_bind()).                                     *)
socket_bind_local(w) ==
  LET r == Next1(w) IN
  /\ Taken(w, "bind") /\ Pop(w)
  /\ IF Bound(r.s) THEN UNCHANGED loc
     ELSE IF r.port = 0 THEN Enter(w, "port", r.arg, FALSE, Ephemeral)
     ELSE Enter(w, "port", r.arg, MayReuse(r.s), {r.port})
  /\ UNCHANGED <<free, sk, ports, slots, tuples, pkts, calls>>

(* The ports that socket_auto_bind() may take when the peer is known. *)
PortsFor(w, peer) == {p \in Ephemeral : Steer(<<LocalAddr, p, peer>>) = w}

(* Mutation: a specific bind does not look at the wildcard binds. *)
PortRefusedAnyOnly(addr, p, reuse) ==
  ~ reuse /\ addr = AnyAddr /\ ports[p]["any"] + ports[p]["specific"] # 0

(* bind_port_reserve(): a wildcard bind conflicts with every bind of the   *)
(* port, a specific one with the wildcard binds.                           *)
PortRefused(addr, p, reuse) ==
  ~ reuse /\ (IF addr = AnyAddr THEN ports[p]["any"] + ports[p]["specific"] # 0
              ELSE ports[p]["any"] # 0)

Counter(addr) == IF addr = AnyAddr THEN "any" ELSE "specific"

(* bind_reserve(): the compare-exchange of the port's counters.  A refused *)
(* port is given up; when none is left the call fails with EADDRINUSE.     *)
bind_port_reserve(w, p) ==
  LET l == loc[w] IN
  /\ l.pc = "port" /\ p \in l.try
  /\ IF PortRefused(l.addr, p, l.reuse)
       THEN UNCHANGED ports /\ loc' = [loc EXCEPT ![w].try = @ \ {p}]
       ELSE /\ ports' = [ports EXCEPT ![p][Counter(l.addr)] = @ + 1]
            /\ loc' = [loc EXCEPT ![w].try = @ \ {p}, ![w].key = <<l.addr, p>>, ![w].pc = "slot"]
  /\ UNCHANGED <<free, sk, slots, tuples, inbox, pkts, calls>>

AddrInUse(w) ==
  /\ loc[w].pc = "port" /\ loc[w].try = {}
  /\ Goto(w, "idle")
  /\ UNCHANGED <<free, sk, ports, slots, tuples, inbox, pkts, calls>>

(* Where the caller of bind_saddr() or socket_auto_bind() goes on. *)
AfterBind(op) == CASE op = "bind" -> "install" [] op = "connect" -> "peer" [] op = "send" -> "send"

(* socket_set_bind_reservation() *)
Reserved(so, key, reuse) ==
  [so EXCEPT !.resv = key, !.excl = ~ reuse, !.sip = key[1], !.sport = key[2]]

(* bind_reserve(): the compare-exchange of the slot's counter; a slot that *)
(* is not there yet counts 0.  The socket takes the address over           *)
(* (socket_set_bind_reservation()), or the port is released again.         *)
bind_reserve(w) ==
  LET l == loc[w] IN
  /\ l.pc = "slot"
  /\ IF slots[l.key] # 0 /\ ~ l.reuse
       THEN UNCHANGED <<slots, sk>> /\ Goto(w, "unport")
       ELSE /\ slots' = [slots EXCEPT ![l.key] = @ + 1]
            /\ sk' = [sk EXCEPT ![l.s] = Reserved(@, l.key, l.reuse)]
            /\ Goto(w, AfterBind(l.op))
  /\ UNCHANGED <<free, ports, tuples, inbox, pkts, calls>>

(* unbind_saddr() *)
Unreserved(so) == [so EXCEPT !.resv = NoKey, !.excl = FALSE, !.sip = AnyAddr, !.sport = 0]

(* unbind_saddr(): bind_release() counts the slot down ... *)
bind_release(w) ==
  LET l == loc[w] IN
  /\ l.pc = "unslot"
  /\ slots' = [slots EXCEPT ![sk[l.s].resv] = @ - 1]
  /\ loc' = [loc EXCEPT ![w].pc = "unport", ![w].key = sk[l.s].resv, ![w].try = {}]
  /\ sk' = [sk EXCEPT ![l.s] = Unreserved(@)]
  /\ UNCHANGED <<free, ports, tuples, inbox, pkts, calls>>

(* ... and bind_port_release() the port; after a refused slot the next     *)
(* port is tried, otherwise the handler ends.                              *)
bind_port_release(w) ==
  LET l == loc[w] IN
  /\ l.pc = "unport"
  /\ ports' = [ports EXCEPT ![l.key[2]][Counter(l.key[1])] = @ - 1]
  /\ Goto(w, IF l.try = {} THEN "idle" ELSE "port")
  /\ UNCHANGED <<free, sk, slots, tuples, inbox, pkts, calls>>

-----------------------------------------------------------------------------
(* The tuple table.                                                        *)

(* tuple_key_from_socket() *)
TupleKey(so) == <<so.sip, so.sport, so.peer>>

(* install_tuple() under the bucket's lock: a tuple with a peer has one    *)
(* socket; others are shared when every member asked for SO_REUSEPORT.     *)
Installable(s, key) ==
  \/ tuples[key] = <<>>
  \/ /\ key[3] = NoPeer /\ "port" \in sk[s].opts
     /\ \A m \in Range(tuples[key]) : "port" \in sk[m].opts

Installed(s, key) ==
  [tuples EXCEPT ![key] = IF @ = <<>> THEN <<s>> ELSE <<Head(@), s>> \o Tail(@)]

(* uninstall_tuple() goes by the entry that the socket is in, and takes its *)
(* node out of the list.                                                   *)
Unlisted(q, s) ==
  LET k == CHOOSE i \in 1..Len(q) : q[i] = s
  IN SubSeq(q, 1, k - 1) \o SubSeq(q, k + 1, Len(q))
Uninstalled(s) == [tuples EXCEPT ![sk[s].key] = Unlisted(@, s)]

(* udp_bind(): the tuple is installed, or the bind is undone. *)
InstallBind(w) ==
  LET s == loc[w].s
      key == TupleKey(sk[s])
  IN
  /\ loc[w].pc = "install" /\ loc[w].op = "bind"
  /\ IF Installable(s, key)
       THEN /\ tuples' = Installed(s, key)
            /\ sk' = [sk EXCEPT ![s].key = key]
            /\ Goto(w, "idle")
       ELSE Goto(w, "unslot") /\ UNCHANGED <<tuples, sk>>
  /\ UNCHANGED <<free, ports, slots, inbox, pkts, calls>>

-----------------------------------------------------------------------------
(* udp_connect().                                                          *)

udp_connect(w) ==
  LET r == Next1(w) IN
  /\ Taken(w, "connect") /\ Pop(w)
  /\ IF Bound(r.s) THEN Enter(w, "peer", AnyAddr, FALSE, {})
     ELSE Enter(w, "port", LocalAddr, MayReuse(r.s), PortsFor(w, r.arg))
  /\ UNCHANGED <<free, sk, ports, slots, tuples, pkts, calls>>

(* Mutation: the entry keeps naming the old worker. *)
MigrateReqOnly(w, v, so) ==
  /\ sk' = [sk EXCEPT ![loc[w].s] = so]
  /\ loc' = [loc EXCEPT ![w].pc = "handoff", ![w].to = v]

(* set_socket_worker(): the socket goes to worker v ... *)
Migrate(w, v, so) ==
  /\ sk' = [sk EXCEPT ![loc[w].s] = [so EXCEPT !.owner = v]]
  /\ loc' = [loc EXCEPT ![w].pc = "handoff", ![w].to = v]

(* ... and change_req_worker() the request, to start over there.  Calls    *)
(* that come between the two are ahead of it.                              *)
change_req_worker(w) ==
  LET l == loc[w] IN
  /\ l.pc = "handoff"
  /\ inbox' = [inbox EXCEPT ![l.to] = Append(@, [s |-> l.s, op |-> l.op, arg |-> l.arg,
                                                port |-> 0, hops |-> l.hops + 1])]
  /\ Goto(w, "idle")
  /\ UNCHANGED <<free, sk, ports, slots, tuples, pkts, calls>>

(* The old tuple is removed before the peer is overwritten; if the new     *)
(* tuple belongs to another worker the socket migrates.                    *)
ConnectPeer(w) ==
  LET l == loc[w]
      so == [sk[l.s] EXCEPT !.peer = l.arg, !.key = NoKey]
      v == Steer(TupleKey(so))
  IN
  /\ l.pc = "peer"
  /\ tuples' = IF Hashed(l.s) THEN Uninstalled(l.s) ELSE tuples
  /\ IF v # w THEN Migrate(w, v, so)
     ELSE /\ sk' = [sk EXCEPT ![l.s] = so]
          /\ loc' = [loc EXCEPT ![w].pc = "install", ![w].old = <<sk[l.s].peer, Hashed(l.s)>>]
  /\ UNCHANGED <<free, ports, slots, inbox, pkts, calls>>

(* install_tuple(): connected, or the old peer comes back ... *)
InstallConnect(w) ==
  LET l == loc[w]
      key == TupleKey(sk[l.s])
  IN
  /\ l.pc = "install" /\ l.op = "connect"
  /\ IF Installable(l.s, key)
       THEN /\ tuples' = Installed(l.s, key)
            /\ sk' = [sk EXCEPT ![l.s].key = key, ![l.s].conn = TRUE]
            /\ Goto(w, "idle")
       ELSE /\ sk' = [sk EXCEPT ![l.s].peer = l.old[1]]
            /\ Goto(w, IF l.old[2] THEN "restore" ELSE "idle")
            /\ UNCHANGED tuples
  /\ UNCHANGED <<free, ports, slots, inbox, pkts, calls>>

(* ... and so does the old tuple, unless someone else took it meanwhile. *)
RestoreConnect(w) ==
  LET l == loc[w]
      key == TupleKey(sk[l.s])
  IN
  /\ l.pc = "restore"
  /\ IF Installable(l.s, key)
       THEN tuples' = Installed(l.s, key) /\ sk' = [sk EXCEPT ![l.s].key = key]
       ELSE UNCHANGED <<tuples, sk>>
  /\ Goto(w, "idle")
  /\ UNCHANGED <<free, ports, slots, inbox, pkts, calls>>

-----------------------------------------------------------------------------
(* udp_sendto().                                                           *)

(* _sendto(): an unconnected socket needs a destination (EDESTADDRREQ). *)
_sendto(so, arg) == so.conn \/ arg # NoPeer

(* A connected socket sends to its peer only (EISCONN); the pending error  *)
(* is returned instead; an unbound socket binds itself.                    *)
udp_sendto(w) ==
  LET r == Next1(w)
      so == sk[r.s]
      dest == IF so.conn THEN so.peer ELSE r.arg
  IN
  /\ Taken(w, "send") /\ Pop(w)
  /\ IF ~ _sendto(so, r.arg) \/ (so.conn /\ r.arg \notin {NoPeer, so.peer})
       THEN UNCHANGED <<sk, loc>>
     ELSE IF so.err
       THEN sk' = [sk EXCEPT ![r.s].err = FALSE] /\ UNCHANGED loc
     ELSE /\ IF Bound(r.s) THEN Enter(w, "send", AnyAddr, FALSE, {})
             ELSE Enter(w, "port", LocalAddr, MayReuse(r.s), PortsFor(w, dest))
          /\ UNCHANGED sk
  /\ UNCHANGED <<free, ports, slots, tuples, pkts, calls>>

bind_exist(key) == slots[key] # 0

(* A wildcard source becomes the interface's address, unless that is bound *)
(* by someone (bind_exist()).  The peer and the source are put back after  *)
(* the output, but not when the socket migrates.                           *)
SendOut(w) ==
  LET l == loc[w]
      so == sk[l.s]
      dest == IF so.conn THEN so.peer ELSE l.arg
      out == [so EXCEPT !.sip = LocalAddr, !.peer = dest]
      v == Steer(TupleKey(out))
  IN
  /\ l.pc = "send"
  /\ IF (so.sip = AnyAddr /\ bind_exist(<<LocalAddr, so.sport>>)) \/ v = w
       THEN Goto(w, "idle") /\ UNCHANGED sk
       ELSE Migrate(w, v, out)
  /\ UNCHANGED <<free, ports, slots, tuples, inbox, pkts, calls>>

-----------------------------------------------------------------------------
(* Closing.                                                                *)

(* Mutation: a hashed socket is destroyed with its node in the list. *)
CloseKeepsTuple(w) ==
  LET s == Next1(w).s IN
  /\ Taken(w, "close") /\ Pop(w)
  /\ sk' = [sk EXCEPT ![s].st = "closed"]
  /\ IF Bound(s) THEN Enter(w, "unslot", AnyAddr, FALSE, {}) ELSE UNCHANGED loc
  /\ UNCHANGED <<free, ports, slots, tuples, pkts, calls>>

(* _close(): the entry lets go of the socket (socket_detach_with_fd_entry) *)
(* and udp_release() destroys it: the tuple, then the bind.                *)
_close(w) ==
  LET s == Next1(w).s IN
  /\ Taken(w, "close") /\ Pop(w)
  /\ sk' = [sk EXCEPT ![s].st = "closed"]
  /\ IF Hashed(s) THEN Enter(w, "untuple", AnyAddr, FALSE, {})
     ELSE IF Bound(s) THEN Enter(w, "unslot", AnyAddr, FALSE, {})
     ELSE UNCHANGED loc
  /\ UNCHANGED <<free, ports, slots, tuples, pkts, calls>>

destroy_socket(w) ==
  LET s == loc[w].s IN
  /\ loc[w].pc = "untuple"
  /\ tuples' = Uninstalled(s)
  /\ sk' = [sk EXCEPT ![s].key = NoKey]
  /\ Goto(w, IF Bound(s) THEN "unslot" ELSE "idle")
  /\ UNCHANGED <<free, ports, slots, inbox, pkts, calls>>

-----------------------------------------------------------------------------
(* Datagrams.                                                              *)

(* udp_lookup_recv_socket(): the connected socket, the one bound to the    *)
(* address, the one bound to the wildcard address.                         *)
udp_lookup_recv_socket(port, src) ==
  LET keys == <<<<LocalAddr, port, src>>, <<LocalAddr, port, NoPeer>>, <<AnyAddr, port, NoPeer>>>>
      hits == {i \in 1..3 : tuples[keys[i]] # <<>>}
  IN IF hits = {} THEN <<>> ELSE tuples[keys[CHOOSE i \in hits : \A j \in hits : i <= j]]

(* socket_recv_skb(): a datagram that does not fit is dropped. *)
socket_recv_skb(so) == [so EXCEPT !.rx = IF @ < RcvMax THEN @ + 1 ELSE @]

(* udp_recv_(): the datagram goes to the worker of the first socket of the *)
(* group; there socket_select() picks a member by the sender's hash.  With *)
(* nobody bound, an ICMP message is all that follows.                      *)
udp_recv_(w, d, rest) ==
  LET group == udp_lookup_recv_socket(d.port, d.src) IN
  /\ loc[w].pc = "idle"
  /\ \/ /\ group # <<>> /\ sk[Head(group)].owner # w
        /\ pkts' = [pkts EXCEPT ![w] = rest, ![sk[Head(group)].owner] = Append(@, d)]
        /\ UNCHANGED sk
     \/ /\ group # <<>> /\ sk[Head(group)].owner = w
        /\ \E s \in Range(group) : sk' = [sk EXCEPT ![s] = socket_recv_skb(@)]
        /\ pkts' = [pkts EXCEPT ![w] = rest]
     \/ group = <<>> /\ pkts' = [pkts EXCEPT ![w] = rest] /\ UNCHANGED sk
  /\ UNCHANGED <<free, ports, slots, tuples, inbox, loc, calls>>

(* A datagram from the wire (udp_recv()), to any local port. *)
Arrive(w, p, src) ==
  /\ FoldSet(LAMBDA v, n : n + Len(pkts[v]), 0, Workers) < Packets
  /\ udp_recv_(w, [port |-> p, src |-> src], pkts[w])

(* pkt_task_cb(): a datagram from another worker is looked up again. *)
Handed(w) ==
  /\ pkts[w] # <<>>
  /\ udp_recv_(w, Head(pkts[w]), Tail(pkts[w]))

(* udp_icmp_process(): an ICMP error for a connected socket. *)
udp_icmp_process(s) ==
  /\ loc[sk[s].owner].pc = "idle" /\ sk[s].st = "open"
  /\ Bound(s) /\ sk[s].conn
  /\ sk' = [sk EXCEPT ![s].err = TRUE]
  /\ UNCHANGED <<free, ports, slots, tuples, inbox, pkts, loc, calls>>

-----------------------------------------------------------------------------
WorkerStep(w) ==
  \/ ProcessBadf(w) \/ ProcessElsewhere(w) \/ _setsockopt(w) \/ udp_recvfrom(w)
  \/ socket_bind_local(w) \/ AddrInUse(w) \/ bind_reserve(w) \/ bind_release(w) \/ bind_port_release(w)
  \/ (\E p \in Ports : bind_port_reserve(w, p))
  \/ InstallBind(w) \/ udp_connect(w) \/ ConnectPeer(w) \/ InstallConnect(w) \/ RestoreConnect(w)
  \/ change_req_worker(w) \/ udp_sendto(w) \/ SendOut(w) \/ _close(w) \/ destroy_socket(w) \/ Handed(w)

Next ==
  \/ \E w \in Workers : WorkerStep(w) \/ _socket(w)
  \/ \E s \in Socks : FreeSlot(s) \/ udp_icmp_process(s)
  \/ \E s \in Socks, o \in Uses : Call(s, o)
  \/ \E w \in Workers, p \in Ports, src \in Peers : Arrive(w, p, src)

Spec == Init /\ [][Next]_vars

-----------------------------------------------------------------------------
(* The socket of a reservation, or the handler that has yet to give the    *)
(* port back (pc "slot": reserved and not checked; "unport": refused, or   *)
(* released).                                                              *)
HoldsPort(so, p, c) == so.resv # NoKey /\ so.resv[2] = p /\ Counter(so.resv[1]) = c
OwesPort(l, p, c) == l.pc \in {"slot", "unport"} /\ l.key[2] = p /\ Counter(l.key[1]) = c
Reserving(p, c) ==
  {s \in Socks : HoldsPort(sk[s], p, c)} \cup {w \in Workers : OwesPort(loc[w], p, c)}

(* The sockets that hold an address. *)
Holders(k) == {s \in Socks : sk[s].resv = k}

(* The shared counters are exact: each port's wildcard and specific counts *)
(* are the reservations that exist or are being taken or given up, and     *)
(* each slot's count is the sockets that hold it.  The assertions of       *)
(* bind_port_release() and bind_release() cannot fail, and a port that     *)
(* everybody has left is free again.                                       *)
BindCountsExact ==
  /\ \A p \in Ports, c \in Counters : ports[p][c] = Cardinality(Reserving(p, c))
  /\ \A k \in BindKeys : slots[k] = Cardinality(Holders(k))

(* Two addresses of one port that a single datagram may match. *)
Conflict(k, l) == k[2] = l[2] /\ (k[1] = l[1] \/ AnyAddr \in {k[1], l[1]})

(* Without SO_REUSEADDR and SO_REUSEPORT an address is exclusive against   *)
(* every other such bind, however the two compare-exchanges of             *)
(* bind_reserve() on different workers interleave, and the counters it     *)
(* rests on are exact.                                                     *)
BindExclusive ==
  /\ BindCountsExact
  /\ \A s, t \in Socks :
       (s # t /\ sk[s].excl /\ sk[t].excl) => ~ Conflict(sk[s].resv, sk[t].resv)

(* The tuple table is exact: a socket is in the list of its own entry and  *)
(* in no other, a listed socket is alive (open, or still being destroyed   *)
(* by its owner), and a tuple with a peer has one socket.  A lookup by any *)
(* worker never meets a freed socket (install_tuple(), uninstall_tuple(),  *)
(* udp_connect(), destroy_socket()).                                       *)
TupleTableExact ==
  /\ \A k \in TupleKeys :
       /\ IsInjective(tuples[k])
       /\ \A s \in Range(tuples[k]) :
            /\ sk[s].key = k
            /\ \/ sk[s].st = "open"
               \/ loc[sk[s].owner].pc = "untuple" /\ loc[sk[s].owner].s = s
       /\ k[3] # NoPeer => Len(tuples[k]) <= 1
  /\ \A s \in Socks : Hashed(s) => s \in Range(tuples[sk[s].key]) /\ Bound(s)

(* A request that is chasing its socket runs in the end: connect and       *)
(* sendto move the socket and the request follows it, and calls that come  *)
(* between set_socket_worker() and change_req_worker() may move the socket *)
(* away again, but each of them makes a request hop at most twice          *)
(* (process_request()).                                                    *)
ChaseEnds == \A r \in Requests : r.hops <= 2 * Calls
=============================================================================
