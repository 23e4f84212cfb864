-------------------------- MODULE SocketsInvariant --------------------------
(***************************************************************************)
(* The inductive invariant behind the proofs about Sockets: who works on a *)
(* socket, what the port and slot counters count, which exclusive binds    *)
(* may stand side by side, and what the tuple table lists.                 *)
(***************************************************************************)
EXTENDS Sockets

-----------------------------------------------------------------------------
(* Types.                                                                  *)

AnyPeer == Peers \cup {NoPeer}
AnyPort == Ports \cup {0}
BindOps == {"bind", "connect", "send"}
OpNames == {"bind", "connect", "send", "opt", "recv", "close"}
Args == Addrs \cup AnyPeer \cup {"port", "addr", "-"}
PCs == {"idle", "port", "slot", "unslot", "unport", "install", "peer", "restore", "send",
        "handoff", "untuple"}

SockRecs == [st : {"open", "closed", "none"}, owner : Workers, opts : SUBSET Args, sip : Addrs,
             sport : AnyPort, peer : AnyPeer, conn : BOOLEAN, resv : BindKeys \cup {NoKey},
             excl : BOOLEAN, key : TupleKeys \cup {NoKey}, rx : Int, err : BOOLEAN]
Handlers == [pc : PCs, s : Socks \cup {"-"}, op : OpNames \cup {"-"}, arg : Args, addr : Addrs,
             reuse : BOOLEAN, try : SUBSET Ports, key : BindKeys \cup {NoKey},
             old : (AnyPeer \X BOOLEAN) \cup {NoKey}, hops : Int, to : Workers \cup {"-"}]

(* The argument is one of the call's. *)
Fits(op, arg) ==
  /\ op = "bind" => arg \in Addrs
  /\ op = "connect" => arg \in Peers
  /\ op = "send" => arg \in AnyPeer
Reqs == {r \in [s : Socks, op : OpNames, arg : Args, port : AnyPort, hops : Int] :
           Fits(r.op, r.arg)}

Types ==
  /\ sk \in [Socks -> SockRecs] /\ loc \in [Workers -> Handlers]
  /\ inbox \in [Workers -> Seq(Reqs)]
Tables ==
  /\ free \in Seq(Socks) /\ tuples \in [TupleKeys -> Seq(Socks)]
  /\ ports \in [Ports -> [Counters -> Int]] /\ slots \in [BindKeys -> Int]

-----------------------------------------------------------------------------
(* Who works on a socket.                                                  *)

(* A handler works on a socket of its own worker, unless it has handed it  *)
(* over; the reservation and the tuple entry are as its place requires.    *)
HandlerOk(w, l, so) ==
  l.pc # "idle" =>
    /\ l.s \in Socks /\ Fits(l.op, l.arg) /\ so.st # "none"
    /\ l.pc # "handoff" => so.owner = w
    /\ l.pc = "handoff" => l.to \in Workers /\ l.op \in {"connect", "send"}
    /\ l.pc \in {"port", "slot", "install", "peer", "send", "restore"} => so.st = "open"
    /\ l.pc \in {"port", "slot", "unport"} => so.resv = NoKey
    /\ l.pc \in {"unslot", "install", "peer", "send", "restore"} => so.resv # NoKey
    /\ l.pc \in {"install", "restore", "unslot"} => so.key = NoKey
    /\ l.pc = "untuple" => so.key # NoKey /\ so.st = "closed"
    /\ l.pc \in {"slot", "unport"} => l.key \in BindKeys
    /\ l.pc \in {"port", "slot"} => l.op \in BindOps
    /\ l.pc = "unport" => l.try = {} \/ (so.st = "open" /\ l.op \in BindOps)
    /\ l.pc \in {"peer", "restore"} => l.op = "connect"
    /\ l.pc = "send" => l.op = "send"
    /\ l.pc = "install" => l.op \in {"bind", "connect"}
    /\ l.pc = "install" /\ l.op = "connect" => l.old # NoKey
HandlerAt(w) == HandlerOk(w, loc[w], sk[loc[w].s])

(* A socket is hashed only while it is bound, and exclusive too; a closed  *)
(* one still is only while its worker destroys it.                         *)
SockOk(s, so, l) ==
  /\ so.resv # NoKey => so.sport = so.resv[2]
  /\ so.excl \/ so.key # NoKey => so.resv # NoKey
  /\ so.st = "none" => so.resv = NoKey
  /\ so.st = "closed" /\ so.resv # NoKey => l.pc \in {"untuple", "unslot"} /\ l.s = s
  /\ so.st = "closed" /\ so.key # NoKey => l.pc = "untuple"
SockAt(s) == SockOk(s, sk[s], loc[sk[s].owner])

Once(q) == \A i, j \in 1..Len(q) : q[i] = q[j] => i = j
FreeSlots == Once(free) /\ \A i \in 1..Len(free) : sk[free[i]].st = "none"

(* What a step of worker w does to the handlers. *)
Moves(w, pc) ==
  /\ loc' \in [Workers -> Handlers] /\ loc'[w].pc = pc
  /\ \A u \in Workers : u # w => loc'[u] = loc[u]
Continues(w) ==
  /\ loc'[w].s = loc[w].s /\ loc'[w].op = loc[w].op /\ loc'[w].arg = loc[w].arg
  /\ loc'[w].addr = loc[w].addr /\ loc'[w].reuse = loc[w].reuse /\ loc'[w].try = loc[w].try
  /\ loc'[w].key = loc[w].key /\ loc'[w].old = loc[w].old
Enters(w, pc, addr, reuse, try) ==
  /\ Moves(w, pc)
  /\ loc'[w].s = Next1(w).s /\ loc'[w].op = Next1(w).op /\ loc'[w].arg = Next1(w).arg
  /\ loc'[w].addr = addr /\ loc'[w].reuse = reuse /\ loc'[w].try = try

(* What a step on socket s does to the sockets. *)
Sets(s) == sk' \in [Socks -> SockRecs] /\ \A x \in Socks : x # s => sk'[x] = sk[x]

(* What a step on counter c of port p does to the counters. *)
SetsPort(p, c, n) ==
  /\ ports' \in [Ports -> [Counters -> Int]] /\ ports'[p][c] = n
  /\ \A q \in Ports, d \in Counters : q # p \/ d # c => ports'[q][d] = ports[q][d]

(* A step of worker w on a socket of its own, the one its handler works on. *)
At(w, s) ==
  /\ w \in Workers /\ s \in Socks /\ sk[s].owner = w /\ sk[s].st # "none"
  /\ loc[w].pc = "idle" \/ loc[w].s = s

Owned ==
  /\ Types /\ Tables /\ FreeSlots
  /\ \A w \in Workers : HandlerAt(w)
  /\ \A s \in Socks : SockAt(s)

-----------------------------------------------------------------------------
(* Exclusive binds.                                                        *)

(* Sockets that are bound without reuse, and handlers that have passed the *)
(* compare-exchange of the port and not yet the one of the slot.           *)
Claims(x) == IF x \in Socks THEN sk[x].excl ELSE loc[x].pc = "slot" /\ ~ loc[x].reuse
ClaimKey(x) == IF x \in Socks THEN sk[x].resv ELSE loc[x].key

(* Two of them on one port have both given a specific address, which the   *)
(* sockets do not share.                                                   *)
Apart ==
  /\ \A x, y \in Socks \cup Workers :
       (x # y /\ Claims(x) /\ Claims(y) /\ ClaimKey(x)[2] = ClaimKey(y)[2]) =>
         ClaimKey(x)[1] # AnyAddr
  /\ \A s, t \in Socks : (s # t /\ sk[s].excl /\ sk[t].excl) => sk[s].resv # sk[t].resv

(* Sockets and handlers are finitely many: sets of them can be counted.    *)
Counted ==
  \A S \in SUBSET (Socks \cup Workers) :
    /\ Cardinality(S) \in Nat /\ (Cardinality(S) = 0 <=> S = {})
    /\ \A x \in Socks \cup Workers : x \notin S => Cardinality(S \cup {x}) = Cardinality(S) + 1
    /\ \A x \in S : Cardinality(S \ {x}) = Cardinality(S) - 1

Exclusive == Counted /\ BindCountsExact /\ Apart

-----------------------------------------------------------------------------
(* The tuple table.                                                        *)

ListOk(k, q, S) == Once(q) /\ Range(q) = S /\ (k[3] # NoPeer => Len(q) <= 1)
Members(k) == {s \in Socks : sk[s].key = k}
TupleAt(k) == ListOk(k, tuples[k], Members(k))

Listed == \A k \in TupleKeys : TupleAt(k)

Sound == Owned /\ Exclusive /\ Listed

(* A socket whose binding, place in the tables and owner do not change. *)
Alike(x, y) ==
  /\ x.st = y.st /\ x.owner = y.owner /\ x.sport = y.sport
  /\ x.resv = y.resv /\ x.excl = y.excl /\ x.key = y.key
=============================================================================
