---------------------------- MODULE SocketsProofs ----------------------------
(***************************************************************************)
(* For any number of sockets, workers, ports and peers: exclusive binds    *)
(* never conflict, the counters they rest on are exact, and so is the      *)
(* tuple table. First the steps that reserve and release nothing keep the  *)
(* invariant; then comes what the others do to the lists of the tuple      *)
(* table and to the counters of the reservations, then those themselves.   *)
(***************************************************************************)
EXTENDS SocketsInvariant, TLAPS

USE Zenon, SMT

(* A key is never the absence of one. *)
LEMMA KeysApart == NoKey \notin BindKeys /\ NoKey \notin TupleKeys
BY SMT DEF NoKey, BindKeys, TupleKeys

(* Nor is a pair. *)
LEMMA PairsApart == \A A, B : NoKey \notin A \X B
BY SMT DEF NoKey

(* What a handler is when it ends. *)
LEMMA IdleIs == Idle \in Handlers /\ Idle.pc = "idle"
<1>1. AnyAddr \in Addrs /\ "-" \in Args /\ "idle" \in PCs /\ 0 \in Int
  BY SMT DEF Addrs, Args, PCs
<1> QED BY <1>1 DEF Idle, Handlers

(* The handler of one worker goes on at pc, or ends. *)
LEMMA GotoIs ==
  ASSUME Types, NEW w \in Workers, NEW pc \in PCs, Goto(w, pc)
  PROVE  Moves(w, pc) /\ (pc # "idle" => Continues(w))
<1>1. loc \in [Workers -> Handlers] /\ loc[w] \in Handlers
  BY DEF Types
<1>2. CASE pc = "idle"
  <2>1. loc' = [loc EXCEPT ![w] = Idle]
    BY <1>2 DEF Goto
  <2> QED BY <1>1, <1>2, <2>1, IdleIs DEF Moves
<1>3. CASE pc # "idle"
  <2>1. loc' = [loc EXCEPT ![w] = [loc[w] EXCEPT !.pc = pc]]
    BY <1>3 DEF Goto
  <2>2. [loc[w] EXCEPT !.pc = pc] \in Handlers
    BY <1>1 DEF Handlers
  <2> DEFINE l == [loc[w] EXCEPT !.pc = pc]
  <2>3. /\ l.pc = pc /\ l.s = loc[w].s /\ l.op = loc[w].op /\ l.arg = loc[w].arg
        /\ l.addr = loc[w].addr /\ l.reuse = loc[w].reuse /\ l.try = loc[w].try
        /\ l.key = loc[w].key /\ l.old = loc[w].old
    BY <1>1 DEF Handlers
  <2> HIDE DEF l
  <2>4. loc'[w] = l /\ Moves(w, pc)
    BY <1>1, <2>1, <2>2, <2>3 DEF Moves, l
  <2> QED BY <2>3, <2>4 DEF Continues
<1> QED BY <1>2, <1>3

(* The request that a worker takes from its inbox. *)
LEMMA NextIs ==
  ASSUME Types, NEW w \in Workers, inbox[w] # <<>>
  PROVE  /\ Next1(w) \in Reqs /\ Next1(w).s \in Socks /\ Next1(w).op \in OpNames
         /\ Next1(w).arg \in Args /\ Next1(w).port \in AnyPort /\ Next1(w).hops \in Int
         /\ Fits(Next1(w).op, Next1(w).arg)
         /\ (Pop(w) => inbox' \in [Workers -> Seq(Reqs)])
<1>1. inbox[w] \in Seq(Reqs) /\ inbox \in [Workers -> Seq(Reqs)]
  BY DEF Types
<1>2. Next1(w) \in Reqs /\ Tail(inbox[w]) \in Seq(Reqs)
  BY <1>1, SMT DEF Next1
<1>3. Pop(w) => inbox' \in [Workers -> Seq(Reqs)]
  BY <1>1, <1>2 DEF Pop
<1> QED BY <1>2, <1>3 DEF Reqs

(* The handler of a request starts. *)
LEMMA EnterIs ==
  ASSUME Types, NEW w \in Workers, inbox[w] # <<>>, NEW pc \in PCs, NEW addr \in Addrs,
         NEW reuse \in BOOLEAN, NEW try \in SUBSET Ports, Enter(w, pc, addr, reuse, try)
  PROVE  Enters(w, pc, addr, reuse, try)
<1> DEFINE l == [pc |-> pc, s |-> Next1(w).s, op |-> Next1(w).op, arg |-> Next1(w).arg,
                 addr |-> addr, reuse |-> reuse, try |-> try, key |-> NoKey, old |-> NoKey,
                 hops |-> Next1(w).hops, to |-> "-"]
<1>1. /\ Next1(w).s \in Socks \cup {"-"} /\ Next1(w).op \in OpNames \cup {"-"}
      /\ Next1(w).arg \in Args /\ Next1(w).hops \in Int
  BY NextIs
<1>2. l \in Handlers
  BY <1>1 DEF Handlers
<1>3. loc' = [loc EXCEPT ![w] = l]
  BY DEF Enter
<1>4. loc'[w] = l /\ Moves(w, pc)
  BY <1>2, <1>3 DEF Types, Moves
<1>5. /\ loc'[w].s = Next1(w).s /\ loc'[w].op = Next1(w).op /\ loc'[w].arg = Next1(w).arg
      /\ loc'[w].addr = addr /\ loc'[w].reuse = reuse /\ loc'[w].try = try
  BY <1>4, SMT
<1> QED BY <1>4, <1>5 DEF Enters

(* A socket changes. *)
LEMMA SetsIs ==
  ASSUME Types, NEW s \in Socks, NEW so \in SockRecs, sk' = [sk EXCEPT ![s] = so]
  PROVE  Sets(s) /\ sk'[s] = so
BY DEF Types, Sets

-----------------------------------------------------------------------------
(* One worker at a time works on a socket. *)

(* A step of a worker on its own socket: what holds of the other handlers   *)
(* and of the other sockets is not touched.                                 *)
LEMMA StepOwned ==
  ASSUME Owned, Types', Tables', NEW w, NEW s, At(w, s), NEW pc, Moves(w, pc), Sets(s),
         free' = free, sk'[s].st # "none", HandlerAt(w)', SockAt(s)'
  PROVE  Owned'
<1>1. ASSUME NEW u \in Workers, u # w PROVE HandlerAt(u)'
  <2>1. loc'[u] = loc[u] /\ HandlerAt(u)
    BY <1>1 DEF Moves, Owned
  <2>2. CASE loc[u].pc = "idle"
    BY <2>1, <2>2 DEF HandlerAt, HandlerOk
  <2>3. CASE loc[u].pc # "idle" /\ loc[u].s # s
    <3>1. loc[u].s \in Socks
      BY <2>1, <2>3 DEF HandlerAt, HandlerOk
    <3>2. sk'[loc[u].s] = sk[loc[u].s]
      BY <2>3, <3>1 DEF Sets
    <3> QED BY <2>1, <3>2 DEF HandlerAt
  <2>4. CASE loc[u].pc # "idle" /\ loc[u].s = s
    <3>1. loc[u].pc = "handoff"
      BY <1>1, <2>1, <2>4 DEF HandlerAt, HandlerOk, At
    <3> QED BY <2>1, <2>4, <3>1 DEF HandlerAt, HandlerOk
  <2> QED BY <2>2, <2>3, <2>4
<1>2. ASSUME NEW x \in Socks, x # s PROVE SockAt(x)'
  <2>1. sk'[x] = sk[x] /\ SockAt(x) /\ sk[x].owner \in Workers
    BY <1>2 DEF Sets, Owned, Types, SockRecs
  <2>2. CASE sk[x].owner # w
    BY <2>1, <2>2 DEF Moves, SockAt
  <2>3. CASE sk[x].owner = w
    <3>1. loc[w].pc = "idle" \/ loc[w].s # x
      BY <1>2 DEF At
    <3> QED BY <2>1, <2>3, <3>1 DEF SockAt, SockOk
  <2> QED BY <2>2, <2>3
<1>3. FreeSlots'
  <2>1. ASSUME NEW i \in 1..Len(free) PROVE sk'[free[i]].st = "none"
    <3>1. sk[free[i]].st = "none" /\ free[i] \in Socks
      BY SMT DEF Owned, FreeSlots, Tables
    <3>2. free[i] # s
      BY <3>1 DEF At
    <3> QED BY <3>1, <3>2 DEF Sets
  <2> QED BY <2>1 DEF FreeSlots, Owned, Once
<1> QED BY <1>1, <1>2, <1>3 DEF Owned, At

(* The number of sockets and handlers does not change. *)
LEMMA StillCounted == Exclusive => Counted'
BY DEF Exclusive, Counted

(* Nobody takes or gives up a reservation. *)
LEMMA QuietExclusive ==
  ASSUME Exclusive, UNCHANGED <<ports, slots>>,
         \A s \in Socks : sk'[s].resv = sk[s].resv /\ sk'[s].excl = sk[s].excl,
         \A w \in Workers :
           \/ loc'[w] = loc[w]
           \/ loc[w].pc \notin {"slot", "unport"} /\ loc'[w].pc \notin {"slot", "unport"}
           \/ loc[w].pc = "slot" /\ loc'[w].pc = "unport" /\ loc'[w].key = loc[w].key
  PROVE  Exclusive'
<1>1. \A p, c : Reserving(p, c)' = Reserving(p, c)
  BY SMT DEF Reserving, HoldsPort, OwesPort
<1>2. \A k : Holders(k)' = Holders(k)
  BY DEF Holders
<1>3. BindCountsExact'
  BY <1>1, <1>2 DEF Exclusive, BindCountsExact
<1>4. \A x \in Socks \cup Workers : Claims(x)' => Claims(x) /\ ClaimKey(x)' = ClaimKey(x)
  BY DEF Claims, ClaimKey
<1>5. Apart'
  <2>1. ASSUME NEW x \in Socks \cup Workers, NEW y \in Socks \cup Workers, x # y,
               Claims(x)', Claims(y)', ClaimKey(x)'[2] = ClaimKey(y)'[2]
        PROVE  ClaimKey(x)'[1] # AnyAddr
    <3>1. Claims(x) /\ Claims(y) /\ ClaimKey(x)' = ClaimKey(x) /\ ClaimKey(y)' = ClaimKey(y)
      BY <1>4, <2>1
    <3>2. ClaimKey(x)[2] = ClaimKey(y)[2]
      BY <2>1, <3>1
    <3>3. ClaimKey(x)[1] # AnyAddr
      BY <2>1, <3>1, <3>2 DEF Exclusive, Apart
    <3> QED BY <3>1, <3>3
  <2>2. ASSUME NEW s \in Socks, NEW t \in Socks, s # t, sk'[s].excl, sk'[t].excl
        PROVE  sk'[s].resv # sk'[t].resv
    <3>1. sk[s].excl /\ sk[t].excl
      BY <2>2
    <3>2. sk[s].resv # sk[t].resv
      BY <2>2, <3>1 DEF Exclusive, Apart
    <3> QED BY <3>2
  <2> QED BY <2>1, <2>2 DEF Apart
<1> QED BY <1>3, <1>5, StillCounted DEF Exclusive

(* The tuple table is left alone. *)
LEMMA QuietListed ==
  ASSUME Listed, tuples' = tuples, \A s \in Socks : sk'[s].key = sk[s].key
  PROVE  Listed'
<1>1. \A k : Members(k)' = Members(k)
  BY DEF Members
<1> QED BY <1>1 DEF Listed, TupleAt

-----------------------------------------------------------------------------
(* Steps that leave the handlers, the bindings and the tables alone. *)

(* Only requests, options, datagrams or errors change. *)
LEMMA AlikeSound ==
  ASSUME Sound, Types', UNCHANGED <<loc, free, tuples, ports, slots>>,
         \A x \in Socks : Alike(sk'[x], sk[x])
  PROVE  Sound'
<1>1. Exclusive'
  BY QuietExclusive DEF Sound, Alike
<1>2. Listed'
  BY QuietListed DEF Sound, Alike
<1>3. \A w \in Workers : HandlerAt(w)'
  <2> SUFFICES ASSUME NEW w \in Workers, loc[w].pc # "idle" PROVE HandlerAt(w)'
    BY DEF HandlerAt, HandlerOk
  <2>1. HandlerAt(w) /\ loc[w].s \in Socks
    BY DEF Sound, Owned, HandlerAt, HandlerOk
  <2>2. Alike(sk'[loc[w].s], sk[loc[w].s])
    BY <2>1
  <2> QED BY <2>1, <2>2 DEF HandlerAt, HandlerOk, Alike
<1>4. \A s \in Socks : SockAt(s)'
  <2> SUFFICES ASSUME NEW s \in Socks PROVE SockAt(s)'
    OBVIOUS
  <2>1. SockAt(s) /\ Alike(sk'[s], sk[s])
    BY DEF Sound, Owned
  <2> QED BY <2>1 DEF SockAt, SockOk, Alike
<1>5. FreeSlots'
  BY SMT DEF Sound, Owned, FreeSlots, Tables, Alike, Once
<1>6. Tables'
  BY DEF Sound, Owned, Tables
<1> QED BY <1>1, <1>2, <1>3, <1>4, <1>5, <1>6 DEF Sound, Owned

(* A record that differs in what nobody compares. *)
LEMMA AlikeIs ==
  ASSUME Types, NEW s, NEW so, s \in Socks => so \in SockRecs /\ Alike(so, sk[s]),
         sk' = [sk EXCEPT ![s] = so]
  PROVE  sk' \in [Socks -> SockRecs] /\ \A x \in Socks : Alike(sk'[x], sk[x])
BY DEF Types, Alike

(* The calls of the application are requests. *)
LEMMA UsesFit ==
  ASSUME NEW o \in Uses
  PROVE  o[1] \in OpNames /\ o[2] \in Args /\ o[3] \in AnyPort /\ Fits(o[1], o[2])
<1>1. o \in Ops
  BY SocketsAssumption
<1> QED BY <1>1, SMT DEF Ops, OpNames, Args, AnyPort, AnyPeer, Fits, Addrs

(* A request is queued. *)
LEMMA QueueIs ==
  ASSUME Types, NEW f \in [Workers -> Seq(Reqs)], NEW w \in Workers, NEW r \in Reqs,
         inbox' = [f EXCEPT ![w] = Append(@, r)]
  PROVE  inbox' \in [Workers -> Seq(Reqs)]
<1>1. Append(f[w], r) \in Seq(Reqs)
  BY SMT
<1> QED BY <1>1

(* A call of the application keeps everything. *)
LEMMA CallSound ==
  ASSUME Sound, NEW s \in Socks, NEW o \in Uses, Call(s, o)
  PROVE  Sound'
<1> DEFINE r == [s |-> s, op |-> o[1], arg |-> o[2], port |-> o[3], hops |-> 0]
<1>1. Types /\ sk[s].owner \in Workers
  BY DEF Sound, Owned, Types, SockRecs
<1>2. r \in Reqs
  BY UsesFit, SMT DEF Reqs
<1>3. inbox' = [inbox EXCEPT ![sk[s].owner] = Append(@, r)] /\ inbox \in [Workers -> Seq(Reqs)]
  BY <1>1 DEF Call, Types
<1> HIDE DEF r
<1>4. inbox' \in [Workers -> Seq(Reqs)]
  BY <1>1, <1>2, <1>3, QueueIs
<1>5. UNCHANGED <<sk, loc, free, tuples, ports, slots>>
  BY DEF Call
<1>6. Types' /\ \A x \in Socks : Alike(sk'[x], sk[x])
  BY <1>1, <1>4, <1>5 DEF Types, Alike
<1> QED BY <1>5, <1>6, AlikeSound

(* A request is refused, or follows its socket. *)
LEMMA ProcessSound ==
  ASSUME Sound, NEW w \in Workers, ProcessBadf(w) \/ ProcessElsewhere(w)
  PROVE  Sound'
<1>1. Types /\ inbox[w] # <<>> /\ UNCHANGED <<sk, loc, free, tuples, ports, slots>>
  BY DEF Sound, Owned, ProcessBadf, ProcessElsewhere
<1>2. inbox' \in [Workers -> Seq(Reqs)]
  <2>1. CASE ProcessBadf(w)
    BY <1>1, <2>1, NextIs DEF ProcessBadf
  <2>2. CASE ProcessElsewhere(w)
    <3> DEFINE n == Next1(w)
               r == [n EXCEPT !.hops = n.hops + 1]
               f == [inbox EXCEPT ![w] = Tail(inbox[w])]
    <3>1. n \in Reqs /\ n.s \in Socks /\ n.hops + 1 \in Int
      BY <1>1, NextIs, SMTT(30)
    <3>2. sk[n.s].owner \in Workers /\ sk[n.s].owner # w
      BY <1>1, <2>2, <3>1 DEF Types, SockRecs, ProcessElsewhere
    <3>3. r \in Reqs
      BY <3>1 DEF Reqs
    <3>4. f \in [Workers -> Seq(Reqs)]
      <4>1. Tail(inbox[w]) \in Seq(Reqs)
        BY <1>1, SMT DEF Types
      <4> QED BY <1>1, <4>1 DEF Types
    <3>5. inbox' = [f EXCEPT ![sk[n.s].owner] = Append(@, r)]
      BY <2>2 DEF ProcessElsewhere
    <3> HIDE DEF n, r, f
    <3> QED BY <1>1, <3>2, <3>3, <3>4, <3>5, QueueIs
  <2> QED BY <2>1, <2>2
<1>3. Types' /\ \A x \in Socks : Alike(sk'[x], sk[x])
  BY <1>1, <1>2 DEF Types, Alike
<1> QED BY <1>1, <1>3, AlikeSound, SMTT(30)

(* The request that is taken is for an open socket of the worker. *)
LEMMA TakenIs ==
  ASSUME Types, NEW w \in Workers, NEW op, Taken(w, op)
  PROVE  /\ inbox[w] # <<>> /\ Next1(w).op = op /\ At(w, Next1(w).s) /\ loc[w].pc = "idle"
         /\ Next1(w).s \in Socks /\ sk[Next1(w).s].st = "open" /\ sk[Next1(w).s] \in SockRecs
<1>1. inbox[w] # <<>> /\ Next1(w).op = op /\ loc[w].pc = "idle"
      /\ sk[Next1(w).s].st = "open" /\ sk[Next1(w).s].owner = w
  BY DEF Taken
<1>2. Next1(w).s \in Socks
  BY <1>1, NextIs
<1> QED BY <1>1, <1>2 DEF At, Types

(* setsockopt() and recvfrom() run in one step. *)
LEMMA OptionSound ==
  ASSUME Sound, NEW w \in Workers, _setsockopt(w) \/ udp_recvfrom(w)
  PROVE  Sound'
<1> DEFINE s == Next1(w).s
<1>1. Types /\ UNCHANGED <<loc, free, tuples, ports, slots>> /\ Pop(w)
      /\ (Taken(w, "opt") \/ Taken(w, "recv"))
  BY DEF Sound, Owned, _setsockopt, udp_recvfrom
<1>2. s \in Socks /\ sk[s] \in SockRecs /\ inbox[w] # <<>>
  BY <1>1, TakenIs
<1>3. inbox' \in [Workers -> Seq(Reqs)] /\ Next1(w).arg \in Args
  BY <1>1, <1>2, NextIs
<1>4. sk' \in [Socks -> SockRecs] /\ \A x \in Socks : Alike(sk'[x], sk[x])
  <2>1. CASE _setsockopt(w)
    <3> DEFINE o == socket_setsockopt(sk[s].opts, Next1(w).arg)
               so == [sk[s] EXCEPT !.opts = o]
    <3>1. o \in SUBSET Args
      BY <1>2, <1>3 DEF socket_setsockopt, SockRecs
    <3> HIDE DEF o
    <3>2. so \in SockRecs /\ Alike(so, sk[s])
      BY <1>2, <3>1 DEF SockRecs, Alike
    <3>3. sk' = [sk EXCEPT ![s] = so]
      BY <2>1 DEF _setsockopt, o
    <3> HIDE DEF so, s
    <3> QED BY <1>1, <3>2, <3>3, AlikeIs
  <2>2. CASE udp_recvfrom(w)
    <3>1. sk[s].rx - 1 \in Int
      BY <1>2, SMT DEF SockRecs
    <3>2. CASE sk' = sk
      BY <1>1, <3>2 DEF Types, Alike
    <3>3. CASE sk' = [sk EXCEPT ![s].rx = @ - 1]
      <4> DEFINE so == [sk[s] EXCEPT !.rx = sk[s].rx - 1]
      <4>1. so \in SockRecs /\ Alike(so, sk[s])
        BY <1>2, <3>1 DEF SockRecs, Alike
      <4>2. sk' = [sk EXCEPT ![s] = so]
        BY <3>3
      <4> HIDE DEF so, s
      <4> QED BY <1>1, <4>1, <4>2, AlikeIs
    <3>4. CASE sk' = [sk EXCEPT ![s].err = FALSE]
      <4> DEFINE so == [sk[s] EXCEPT !.err = FALSE]
      <4>1. so \in SockRecs /\ Alike(so, sk[s])
        BY <1>2 DEF SockRecs, Alike
      <4>2. sk' = [sk EXCEPT ![s] = so]
        BY <3>4
      <4> HIDE DEF so, s
      <4> QED BY <1>1, <4>1, <4>2, AlikeIs
    <3> QED BY <2>2, <3>2, <3>3, <3>4 DEF udp_recvfrom
  <2> QED BY <1>1, <2>1, <2>2
<1>5. Types'
  BY <1>1, <1>3, <1>4 DEF Types
<1> QED BY <1>1, <1>4, <1>5, AlikeSound

(* A datagram fills a receive buffer or goes to another worker, and an ICMP *)
(* message leaves an error.                                                 *)
LEMMA DatagramSound ==
  ASSUME Sound,
         \/ \E w, d, rest : udp_recv_(w, d, rest)
         \/ \E s \in Socks : udp_icmp_process(s)
  PROVE  Sound'
<1>1. Types /\ UNCHANGED <<loc, free, tuples, ports, slots, inbox>>
  BY DEF Sound, Owned, udp_recv_, udp_icmp_process
<1>2. \/ sk' = sk \/ (\E s : sk' = [sk EXCEPT ![s] = socket_recv_skb(sk[s])])
      \/ (\E s \in Socks : sk' = [sk EXCEPT ![s] = [sk[s] EXCEPT !.err = TRUE]])
  <2>1. ASSUME NEW w, NEW d, NEW rest, udp_recv_(w, d, rest)
        PROVE  sk' = sk \/ \E s : sk' = [sk EXCEPT ![s] = socket_recv_skb(sk[s])]
    BY <2>1 DEF udp_recv_
  <2>2. ASSUME NEW s \in Socks, udp_icmp_process(s)
        PROVE  sk' = [sk EXCEPT ![s] = [sk[s] EXCEPT !.err = TRUE]]
    BY <2>2 DEF udp_icmp_process
  <2> QED BY <2>1, <2>2
<1>3. ASSUME NEW s \in Socks
      PROVE  socket_recv_skb(sk[s]) \in SockRecs /\ Alike(socket_recv_skb(sk[s]), sk[s])
  <2> DEFINE n == IF sk[s].rx < RcvMax THEN sk[s].rx + 1 ELSE sk[s].rx
  <2>1. sk[s] \in SockRecs /\ n \in Int
    BY <1>1, SMT DEF Types, SockRecs
  <2>2. socket_recv_skb(sk[s]) = [sk[s] EXCEPT !.rx = n]
    BY DEF socket_recv_skb
  <2> HIDE DEF n
  <2> QED BY <2>1, <2>2 DEF SockRecs, Alike
<1>4. ASSUME NEW s \in Socks
      PROVE  [sk[s] EXCEPT !.err = TRUE] \in SockRecs /\ Alike([sk[s] EXCEPT !.err = TRUE], sk[s])
  <2>1. sk[s] \in SockRecs
    BY <1>1 DEF Types
  <2> QED BY <2>1 DEF SockRecs, Alike
<1>5. sk' \in [Socks -> SockRecs] /\ \A x \in Socks : Alike(sk'[x], sk[x])
  <2>1. CASE sk' = sk
    BY <1>1, <2>1 DEF Types, Alike
  <2>2. ASSUME NEW s, sk' = [sk EXCEPT ![s] = socket_recv_skb(sk[s])]
        PROVE  sk' \in [Socks -> SockRecs] /\ \A x \in Socks : Alike(sk'[x], sk[x])
    BY <1>1, <1>3, <2>2, AlikeIs
  <2>3. ASSUME NEW s \in Socks, sk' = [sk EXCEPT ![s] = [sk[s] EXCEPT !.err = TRUE]]
        PROVE  sk' \in [Socks -> SockRecs] /\ \A x \in Socks : Alike(sk'[x], sk[x])
    BY <1>1, <1>4, <2>3, AlikeIs
  <2> QED BY <1>2, <2>1, <2>2, <2>3
<1>6. Types'
  BY <1>1, <1>5 DEF Types
<1> QED BY <1>1, <1>5, <1>6, AlikeSound

-----------------------------------------------------------------------------
(* Handlers start and end. *)

(* What is known of a handler under way, and of its socket. *)
LEMMA WorkingIs ==
  ASSUME Sound, NEW w \in Workers, loc[w].pc \notin {"idle", "handoff"}
  PROVE  /\ At(w, loc[w].s) /\ loc[w].s \in Socks /\ sk[loc[w].s] \in SockRecs
         /\ loc[w] \in Handlers /\ HandlerOk(w, loc[w], sk[loc[w].s])
         /\ SockOk(loc[w].s, sk[loc[w].s], loc[w]) /\ Types
<1>1. Types /\ HandlerAt(w) /\ \A s \in Socks : SockAt(s)
  BY DEF Sound, Owned
<1>2. HandlerOk(w, loc[w], sk[loc[w].s])
  BY <1>1 DEF HandlerAt
<1>3. loc[w].s \in Socks /\ sk[loc[w].s].owner = w /\ sk[loc[w].s].st # "none"
  BY <1>2 DEF HandlerOk
<1>4. SockAt(loc[w].s)
  BY <1>1, <1>3
<1> QED BY <1>1, <1>2, <1>3, <1>4 DEF At, Types, SockAt

(* A step of a worker on its socket, from its parts. *)
LEMMA StepSound ==
  ASSUME Sound, Types', Tables', NEW w, NEW s, At(w, s), NEW pc, Moves(w, pc), Sets(s),
         free' = free, sk'[s].st # "none", pc # "idle" => loc'[w].s = s,
         HandlerOk(w, loc'[w], sk'[s]), SockOk(s, sk'[s], loc'[sk'[s].owner]),
         Exclusive', Listed'
  PROVE  Sound'
<1>1. HandlerAt(w)'
  <2>1. loc'[w].pc = pc
    BY DEF Moves
  <2>2. CASE pc = "idle"
    BY <2>1, <2>2 DEF HandlerAt, HandlerOk
  <2>3. CASE pc # "idle"
    BY <2>3 DEF HandlerAt
  <2> QED BY <2>2, <2>3
<1>2. SockAt(s)'
  BY DEF SockAt
<1> QED BY <1>1, <1>2, StepOwned DEF Sound

(* A handler starts on an open socket, with or without a reservation. *)
LEMMA StartSound ==
  ASSUME Sound, NEW w \in Workers, NEW op \in BindOps, Taken(w, op), Pop(w),
         NEW pc \in {"port", "peer", "send"}, NEW addr \in Addrs, NEW reuse \in BOOLEAN,
         NEW try \in SUBSET Ports, Enter(w, pc, addr, reuse, try),
         UNCHANGED <<free, sk, ports, slots, tuples>>,
         pc = "port" <=> ~ Bound(Next1(w).s),
         pc = "peer" => op = "connect", pc = "send" => op = "send"
  PROVE  Sound'
<1>1. Types /\ Tables /\ Exclusive /\ Listed /\ \A x \in Socks : SockAt(x)
  BY DEF Sound, Owned
<1>2. PICK s \in Socks : s = Next1(w).s
  BY <1>1, TakenIs
<1>3. /\ inbox[w] # <<>> /\ Next1(w).op = op /\ At(w, s) /\ loc[w].pc = "idle"
      /\ sk[s].st = "open" /\ sk[s].owner = w
  BY <1>1, <1>2, TakenIs DEF At
<1>4. Enters(w, pc, addr, reuse, try)
  BY <1>1, <1>3, EnterIs, SMT DEF PCs
<1>5. Moves(w, pc) /\ loc'[w].s = s /\ loc'[w].op = op /\ loc'[w].arg = Next1(w).arg
  BY <1>2, <1>3, <1>4 DEF Enters
<1>6. inbox' \in [Workers -> Seq(Reqs)] /\ Fits(op, Next1(w).arg)
  BY <1>1, <1>3, NextIs
<1>7. Types' /\ Tables'
  BY <1>1, <1>5, <1>6 DEF Types, Tables, Moves
<1>8. Sets(s) /\ sk'[s] = sk[s]
  BY <1>1 DEF Types, Sets
<1>9. HandlerOk(w, loc'[w], sk'[s])
  BY <1>2, <1>3, <1>5, <1>6, <1>8 DEF HandlerOk, Bound, Moves
<1>10. SockOk(s, sk'[s], loc'[sk'[s].owner])
  <2>1. SockOk(s, sk[s], loc[w])
    BY <1>1, <1>3 DEF SockAt
  <2> QED BY <1>3, <1>8, <2>1 DEF SockOk
<1>11. Exclusive'
  BY <1>1, <1>3, <1>5, QuietExclusive DEF Moves
<1>12. Listed'
  BY <1>1, QuietListed
<1> QED BY <1>3, <1>5, <1>7, <1>8, <1>9, <1>10, <1>11, <1>12, StepSound

(* A request that is refused at once. *)
LEMMA RefusedSound ==
  ASSUME Sound, NEW w \in Workers, NEW op, Taken(w, op), Pop(w),
         UNCHANGED <<loc, free, sk, ports, slots, tuples>>
  PROVE  Sound'
<1>1. Types /\ inbox[w] # <<>>
  BY DEF Sound, Owned, Taken
<1>2. inbox' \in [Workers -> Seq(Reqs)]
  BY <1>1, NextIs
<1>3. Types' /\ \A x \in Socks : Alike(sk'[x], sk[x])
  BY <1>1, <1>2 DEF Types, Alike
<1> QED BY <1>3, AlikeSound

(* udp_bind() starts. *)
LEMMA BindSound ==
  ASSUME Sound, NEW w \in Workers, socket_bind_local(w)
  PROVE  Sound'
<1> DEFINE s == Next1(w).s
<1>1. /\ Taken(w, "bind") /\ Pop(w) /\ UNCHANGED <<free, sk, ports, slots, tuples>> /\ Types
      /\ inbox[w] # <<>> /\ Next1(w).op = "bind"
  BY DEF socket_bind_local, Sound, Owned, Taken
<1>2. Next1(w).arg \in Addrs /\ Next1(w).port \in AnyPort /\ Fits("bind", Next1(w).arg)
  BY <1>1, NextIs DEF Fits
<1>3. CASE Bound(s)
  <2>1. loc' = loc
    BY <1>3 DEF socket_bind_local
  <2> QED BY <1>1, <2>1, RefusedSound
<1>4. ASSUME NEW try, try = Ephemeral \/ (try = {Next1(w).port} /\ Next1(w).port # 0),
             NEW reuse \in BOOLEAN, Enter(w, "port", Next1(w).arg, reuse, try), ~ Bound(s)
      PROVE  Sound'
  <2>1. try \in SUBSET Ports
    BY <1>2, <1>4, SocketsAssumption, SMT DEF AnyPort
  <2> QED BY <1>1, <1>2, <1>4, <2>1, StartSound DEF BindOps
<1>5. CASE ~ Bound(s)
  <2>1. \/ Enter(w, "port", Next1(w).arg, FALSE, Ephemeral)
        \/ Next1(w).port # 0 /\ Enter(w, "port", Next1(w).arg, MayReuse(s), {Next1(w).port})
    BY <1>5 DEF socket_bind_local
  <2>2. MayReuse(s) \in BOOLEAN
    BY DEF MayReuse
  <2> QED BY <1>4, <1>5, <2>1, <2>2
<1> QED BY <1>3, <1>5

(* The ports for a peer are ports. *)
LEMMA PortsForIs == \A w, peer : PortsFor(w, peer) \in SUBSET Ports
BY SocketsAssumption DEF PortsFor

(* udp_connect() starts. *)
LEMMA ConnectSound ==
  ASSUME Sound, NEW w \in Workers, udp_connect(w)
  PROVE  Sound'
<1> DEFINE s == Next1(w).s
<1>1. Taken(w, "connect") /\ Pop(w) /\ UNCHANGED <<free, sk, ports, slots, tuples>>
  BY DEF udp_connect
<1>2. AnyAddr \in Addrs /\ LocalAddr \in Addrs /\ MayReuse(s) \in BOOLEAN /\ {} \in SUBSET Ports
  BY DEF Addrs, MayReuse
<1>3. CASE Bound(s)
  <2>1. Enter(w, "peer", AnyAddr, FALSE, {})
    BY <1>3 DEF udp_connect
  <2> QED BY <1>1, <1>2, <1>3, <2>1, StartSound DEF BindOps
<1>4. CASE ~ Bound(s)
  <2>1. Enter(w, "port", LocalAddr, MayReuse(s), PortsFor(w, Next1(w).arg))
    BY <1>4 DEF udp_connect
  <2> QED BY <1>1, <1>2, <1>4, <2>1, StartSound, PortsForIs, SMT DEF BindOps
<1> QED BY <1>3, <1>4

(* udp_sendto() starts, or fails. *)
LEMMA SendtoSound ==
  ASSUME Sound, NEW w \in Workers, udp_sendto(w)
  PROVE  Sound'
<1> DEFINE s == Next1(w).s
           dest == IF sk[s].conn THEN sk[s].peer ELSE Next1(w).arg
<1>1. Taken(w, "send") /\ Pop(w) /\ UNCHANGED <<free, ports, slots, tuples>>
  BY DEF udp_sendto
<1>2. AnyAddr \in Addrs /\ LocalAddr \in Addrs /\ MayReuse(s) \in BOOLEAN /\ {} \in SUBSET Ports
  BY DEF Addrs, MayReuse
<1>3. CASE UNCHANGED <<sk, loc>>
  BY <1>1, <1>3, RefusedSound
<1>4. CASE sk' = [sk EXCEPT ![s].err = FALSE] /\ loc' = loc
  <2>1. Types /\ inbox[w] # <<>> /\ s \in Socks /\ sk[s] \in SockRecs
    BY <1>1, TakenIs DEF Sound, Owned
  <2>2. inbox' \in [Workers -> Seq(Reqs)]
    BY <1>1, <2>1, NextIs
  <2> DEFINE so == [sk[s] EXCEPT !.err = FALSE]
  <2>3. so \in SockRecs /\ Alike(so, sk[s])
    BY <2>1 DEF SockRecs, Alike
  <2>4. sk' = [sk EXCEPT ![s] = so]
    BY <1>4
  <2> HIDE DEF so, s
  <2>5. sk' \in [Socks -> SockRecs] /\ \A x \in Socks : Alike(sk'[x], sk[x])
    BY <2>1, <2>3, <2>4, AlikeIs
  <2>6. Types'
    BY <1>4, <2>1, <2>2, <2>5 DEF Types
  <2> QED BY <1>1, <1>4, <2>5, <2>6, AlikeSound
<1>5. CASE Bound(s) /\ Enter(w, "send", AnyAddr, FALSE, {}) /\ sk' = sk
  BY <1>1, <1>2, <1>5, StartSound DEF BindOps
<1>6. CASE ~ Bound(s) /\ Enter(w, "port", LocalAddr, MayReuse(s), PortsFor(w, dest)) /\ sk' = sk
  <2> HIDE DEF dest
  <2> QED BY <1>1, <1>2, <1>6, StartSound, PortsForIs, SMT DEF BindOps
<1> QED BY <1>3, <1>4, <1>5, <1>6 DEF udp_sendto

(* No port is left. *)
LEMMA AddrInUseSound ==
  ASSUME Sound, NEW w \in Workers, AddrInUse(w)
  PROVE  Sound'
<1>1. loc[w].pc = "port" /\ Goto(w, "idle")
      /\ UNCHANGED <<free, sk, ports, slots, tuples, inbox>>
  BY DEF AddrInUse
<1>2. PICK s \in Socks : s = loc[w].s
  BY <1>1, WorkingIs
<1>3. At(w, s) /\ HandlerOk(w, loc[w], sk[s]) /\ SockOk(s, sk[s], loc[w]) /\ Types
  BY <1>1, <1>2, WorkingIs
<1>4. Moves(w, "idle")
  BY <1>1, <1>3, GotoIs DEF PCs
<1>5. Types' /\ Tables'
  BY <1>1, <1>3, <1>4 DEF Types, Tables, Sound, Owned, Moves
<1>6. Sets(s) /\ sk'[s] = sk[s] /\ sk[s].st = "open" /\ sk[s].owner = w
  BY <1>1, <1>2, <1>3 DEF Types, Sets, HandlerOk
<1>7. HandlerOk(w, loc'[w], sk'[s])
  BY <1>4 DEF HandlerOk, Moves
<1>8. SockOk(s, sk'[s], loc'[sk'[s].owner])
  BY <1>3, <1>6 DEF SockOk
<1>9. Exclusive' /\ Listed'
  BY <1>1, <1>4, QuietExclusive, QuietListed DEF Moves, Sound
<1> QED BY <1>1, <1>3, <1>4, <1>5, <1>6, <1>7, <1>8, <1>9, StepSound

-----------------------------------------------------------------------------
(* The lists of the tuple table. *)

(* The members of a list are the elements at its places. *)
LEMMA RangeIs ==
  ASSUME NEW q \in Seq(Socks)
  PROVE  /\ Len(q) \in Nat /\ \A i \in 1..Len(q) : q[i] \in Socks /\ q[i] \in Range(q)
         /\ \A x : x \in Range(q) <=> \E i \in 1..Len(q) : q[i] = x
<1>1. DOMAIN q = 1..Len(q) /\ Len(q) \in Nat /\ \A i \in 1..Len(q) : q[i] \in Socks
  BY SMT
<1> QED BY <1>1 DEF Range

(* install_tuple() puts a socket that is not in the list behind its head. *)
LEMMA InsertIs ==
  ASSUME NEW q \in Seq(Socks), Once(q), NEW s \in Socks, s \notin Range(q), NEW r,
         r = IF q = <<>> THEN <<s>> ELSE <<Head(q), s>> \o Tail(q)
  PROVE  /\ r \in Seq(Socks) /\ Once(r) /\ (q = <<>> => Len(r) = 1)
         /\ Range(r) = Range(q) \cup {s}
<1>1. CASE q = <<>>
  <2>1. r = <<s>> /\ r \in Seq(Socks) /\ Len(r) = 1 /\ r[1] = s /\ Len(q) = 0
    BY <1>1, SMT
  <2>2. Once(r)
    BY <2>1, SMT DEF Once
  <2>3. ASSUME NEW x PROVE x \in Range(r) <=> x = s \/ x \in Range(q)
    <3>1. x \in Range(r) <=> x = s
      <4>1. x \in Range(r) <=> \E i \in 1..1 : r[i] = x
        BY <2>1, RangeIs
      <4> QED BY <2>1, <4>1, SMT
    <3>2. x \notin Range(q)
      <4>1. x \in Range(q) <=> \E i \in 1..0 : q[i] = x
        BY <2>1, RangeIs
      <4> QED BY <4>1, SMT
    <3> QED BY <3>1, <3>2
  <2>4. Range(r) = Range(q) \cup {s}
    BY <2>3
  <2> QED BY <2>1, <2>2, <2>4
<1>2. CASE q # <<>>
  <2> DEFINE n == Len(q)
  <2>1. n \in Nat /\ n > 0 /\ \A i \in 1..n : q[i] \in Socks /\ q[i] # s
    BY <1>2, RangeIs, SMT
  <2>2. /\ r \in Seq(Socks) /\ Len(r) = n + 1 /\ r[1] = q[1] /\ r[2] = s
        /\ \A i \in 3..n + 1 : r[i] = q[i - 1]
    <3>1. /\ Head(q) = q[1] /\ Tail(q) \in Seq(Socks) /\ Len(Tail(q)) = n - 1
          /\ \A i \in 1..n - 1 : Tail(q)[i] = q[i + 1]
      BY <1>2, SMT
    <3>2. <<Head(q), s>> \in Seq(Socks) /\ Len(<<Head(q), s>>) = 2
      BY <2>1, <3>1, SMT
    <3>3. r = <<Head(q), s>> \o Tail(q)
      BY <1>2
    <3> HIDE DEF n
    <3>4. /\ r \in Seq(Socks) /\ Len(r) = 2 + Len(Tail(q)) /\ r[1] = Head(q) /\ r[2] = s
          /\ \A i \in 3..2 + Len(Tail(q)) : r[i] = Tail(q)[i - 2]
      BY <3>1, <3>2, <3>3, SMT
    <3>5. ASSUME NEW i \in 3..n + 1 PROVE r[i] = q[i - 1]
      <4>1. i - 2 \in 1..n - 1 /\ i \in 3..2 + Len(Tail(q)) /\ i - 2 + 1 = i - 1
        BY <2>1, <3>1, SMT
      <4> QED BY <3>1, <3>4, <4>1
    <3> QED BY <2>1, <3>1, <3>4, <3>5, SMT
  <2> HIDE DEF n
  <2> DEFINE f(i) == IF i = 1 THEN 1 ELSE i - 1
  <2>3. \A i \in 1..n + 1 : i # 2 => f(i) \in 1..n /\ r[i] = q[f(i)]
    BY <2>1, <2>2, SMT
  <2>4. Once(r)
    <3> SUFFICES ASSUME NEW i \in 1..n + 1, NEW j \in 1..n + 1, r[i] = r[j] PROVE i = j
      BY <2>2, SMT DEF Once
    <3>1. CASE i = 2 \/ j = 2
      BY <2>1, <2>2, <2>3, <3>1, SMT
    <3>2. CASE i # 2 /\ j # 2
      <4>1. q[f(i)] = q[f(j)] /\ f(i) \in 1..n /\ f(j) \in 1..n
        BY <2>3, <3>2
      <4>2. f(i) = f(j)
        BY <4>1 DEF Once, n
      <4> QED BY <2>1, <3>2, <4>2, SMT
    <3> QED BY <3>1, <3>2
  <2>5. ASSUME NEW x PROVE x \in Range(r) <=> x = s \/ x \in Range(q)
    <3>1. ASSUME NEW i \in 1..n + 1, r[i] = x PROVE x = s \/ x \in Range(q)
      <4>1. CASE i = 2
        BY <2>2, <3>1, <4>1
      <4>2. CASE i # 2
        <5>1. q[f(i)] = x /\ f(i) \in 1..n
          BY <2>3, <3>1, <4>2
        <5> QED BY <5>1, RangeIs DEF n
      <4> QED BY <4>1, <4>2
    <3>2. ASSUME NEW i \in 1..n, q[i] = x PROVE \E j \in 1..n + 1 : r[j] = x
      <4>1. CASE i = 1
        <5>1. 1 \in 1..n + 1
          BY <2>1, SMT
        <5> QED BY <2>2, <3>2, <4>1, <5>1
      <4>2. CASE i # 1
        <5>1. i + 1 \in 3..n + 1 /\ i + 1 \in 1..n + 1 /\ i + 1 - 1 = i
          BY <2>1, <4>2, SMT
        <5>2. r[i + 1] = q[i]
          BY <2>2, <5>1, SMT
        <5> QED BY <3>2, <5>1, <5>2
      <4> QED BY <4>1, <4>2
    <3>3. \E j \in 1..n + 1 : r[j] = s
      <4>1. 2 \in 1..n + 1
        BY <2>1, SMT
      <4> QED BY <2>2, <4>1
    <3>4. x \in Range(r) <=> \E i \in 1..n + 1 : r[i] = x
      <4>1. x \in Range(r) <=> \E i \in 1..Len(r) : r[i] = x
        BY <2>2, RangeIs
      <4> QED BY <2>2, <4>1
    <3>5. x \in Range(q) <=> \E i \in 1..n : q[i] = x
      BY RangeIs DEF n
    <3> QED BY <3>1, <3>2, <3>3, <3>4, <3>5
  <2>6. Range(r) = Range(q) \cup {s}
    BY <2>5
  <2> QED BY <1>2, <2>2, <2>4, <2>6
<1> QED BY <1>1, <1>2

(* Two lists one after the other. *)
LEMMA ConcatIs ==
  ASSUME NEW a \in Seq(Socks), NEW b \in Seq(Socks)
  PROVE  /\ a \o b \in Seq(Socks) /\ Len(a \o b) = Len(a) + Len(b)
         /\ \A i \in 1..Len(a) + Len(b) :
              (a \o b)[i] = IF i <= Len(a) THEN a[i] ELSE b[i - Len(a)]
BY SMT

(* uninstall_tuple() takes a socket out of its list. *)
LEMMA UnlistedIs ==
  ASSUME NEW q \in Seq(Socks), Once(q), NEW s, s \in Range(q)
  PROVE  /\ Unlisted(q, s) \in Seq(Socks) /\ Once(Unlisted(q, s))
         /\ Len(Unlisted(q, s)) = Len(q) - 1
         /\ Range(Unlisted(q, s)) = Range(q) \ {s}
<1> DEFINE n == Len(q)
           k == CHOOSE j \in 1..Len(q) : q[j] = s
           a == SubSeq(q, 1, k - 1)
           b == SubSeq(q, k + 1, Len(q))
           u == a \o b
<1>1. n \in Nat /\ \A i \in 1..n : q[i] \in Socks
  BY SMT
<1>2. k \in 1..n /\ q[k] = s
  BY RangeIs
<1>3. Unlisted(q, s) = u
  BY DEF Unlisted
<1> HIDE DEF k
<1>4. /\ a \in Seq(Socks) /\ Len(a) = k - 1 /\ \A i \in 1..k - 1 : a[i] = q[i]
      /\ b \in Seq(Socks) /\ Len(b) = n - k /\ \A i \in 1..n - k : b[i] = q[i + k]
  BY <1>1, <1>2, SMT
<1> HIDE DEF a, b
<1>5. /\ u \in Seq(Socks) /\ Len(u) = Len(a) + Len(b)
      /\ \A i \in 1..Len(a) + Len(b) : u[i] = IF i <= Len(a) THEN a[i] ELSE b[i - Len(a)]
  BY <1>4, ConcatIs
<1> HIDE DEF u, n
<1>6. Len(u) = n - 1 /\ k \in Int
  BY <1>1, <1>2, <1>4, <1>5, SMT
<1> DEFINE f(i) == IF i < k THEN i ELSE i + 1
<1>7. ASSUME NEW i \in 1..n - 1 PROVE f(i) \in 1..n /\ f(i) # k /\ u[i] = q[f(i)]
  <2>1. i \in 1..Len(a) + Len(b)
    BY <1>1, <1>2, <1>4, SMT
  <2>2. CASE i < k
    <3>1. i \in 1..k - 1 /\ i <= Len(a) /\ i \in 1..n
      BY <1>1, <1>2, <1>4, <2>2, SMT
    <3> QED BY <1>4, <1>5, <2>1, <2>2, <3>1, SMT
  <2>3. CASE ~ (i < k)
    <3>1. /\ i - Len(a) \in 1..n - k /\ ~ (i <= Len(a)) /\ i - Len(a) + k = i + 1
          /\ i + 1 \in 1..n /\ i + 1 # k
      BY <1>1, <1>2, <1>4, <2>3, SMT
    <3>2. b[i - Len(a)] = q[i - Len(a) + k]
      BY <1>4, <3>1
    <3>3. u[i] = b[i - Len(a)]
      BY <1>5, <2>1, <3>1
    <3> QED BY <2>3, <3>1, <3>2, <3>3
  <2> QED BY <2>2, <2>3
<1>8. Once(u)
  <2> SUFFICES ASSUME NEW i \in 1..n - 1, NEW j \in 1..n - 1, u[i] = u[j] PROVE i = j
    BY <1>6 DEF Once
  <2>1. q[f(i)] = q[f(j)] /\ f(i) \in 1..n /\ f(j) \in 1..n
    BY <1>7, SMT
  <2>2. f(i) = f(j)
    BY <2>1 DEF Once, n
  <2> QED BY <1>1, <1>6, <2>2, SMT
<1>9. ASSUME NEW x PROVE x \in Range(u) <=> x # s /\ x \in Range(q)
  <2>1. x \in Range(u) <=> \E i \in 1..n - 1 : u[i] = x
    <3>1. x \in Range(u) <=> \E i \in 1..Len(u) : u[i] = x
      BY <1>5, RangeIs
    <3> QED BY <1>6, <3>1
  <2>2. x \in Range(q) <=> \E i \in 1..n : q[i] = x
    BY RangeIs DEF n
  <2>3. ASSUME NEW i \in 1..n - 1, u[i] = x PROVE x # s /\ \E j \in 1..n : q[j] = x
    <3>1. f(i) \in 1..n /\ f(i) # k /\ q[f(i)] = x
      BY <1>7, <2>3
    <3>2. x # s
      BY <1>2, <3>1 DEF Once, n
    <3> QED BY <3>1, <3>2
  <2>4. ASSUME NEW j \in 1..n, q[j] = x, x # s PROVE \E i \in 1..n - 1 : u[i] = x
    <3>1. j # k
      BY <1>2, <2>4
    <3>2. CASE j < k
      <4>1. j \in 1..n - 1 /\ f(j) = j
        BY <1>1, <1>2, <3>2, SMT
      <4> QED BY <1>7, <2>4, <4>1
    <3>3. CASE j > k
      <4>1. j - 1 \in 1..n - 1 /\ f(j - 1) = j
        BY <1>1, <1>2, <3>3, SMT
      <4>2. u[j - 1] = q[j]
        BY <1>7, <4>1
      <4> QED BY <2>4, <4>1, <4>2
    <3> QED BY <1>1, <1>6, <3>1, <3>2, <3>3, SMT
  <2> QED BY <2>1, <2>2, <2>3, <2>4
<1>10. Range(u) = Range(q) \ {s}
  BY <1>9
<1> QED BY <1>3, <1>5, <1>6, <1>8, <1>10 DEF n

(* A socket joins one list. *)
LEMMA InstallListed ==
  ASSUME Listed, Tables, NEW s \in Socks, NEW key \in TupleKeys, sk[s].key = NoKey,
         Installable(s, key), tuples' = Installed(s, key), Sets(s), sk'[s].key = key
  PROVE  Listed' /\ tuples' \in [TupleKeys -> Seq(Socks)]
<1> DEFINE q == tuples[key]
           r == IF q = <<>> THEN <<s>> ELSE <<Head(q), s>> \o Tail(q)
<1>1. tuples \in [TupleKeys -> Seq(Socks)] /\ q \in Seq(Socks) /\ TupleAt(key)
  BY DEF Tables, Listed
<1>2. Once(q) /\ Range(q) = Members(key)
  BY <1>1 DEF TupleAt, ListOk
<1>3. s \notin Range(q)
  BY <1>2, KeysApart DEF Members
<1>4. tuples' = [tuples EXCEPT ![key] = r]
  BY DEF Installed
<1>5. r \in Seq(Socks) /\ Once(r) /\ (q = <<>> => Len(r) = 1) /\ Range(r) = Range(q) \cup {s}
  <2>1. r = IF q = <<>> THEN <<s>> ELSE <<Head(q), s>> \o Tail(q)
    OBVIOUS
  <2> HIDE DEF q, r
  <2> QED BY <1>1, <1>2, <1>3, <2>1, InsertIs
<1> HIDE DEF r
<1>6. tuples' \in [TupleKeys -> Seq(Socks)] /\ tuples'[key] = r
      /\ \A k \in TupleKeys : k # key => tuples'[k] = tuples[k]
  BY <1>1, <1>4, <1>5
<1>7. Members(key)' = Members(key) \cup {s}
  BY DEF Members, Sets
<1>8. ASSUME NEW k \in TupleKeys, k # key PROVE Members(k)' = Members(k)
  BY <1>8, KeysApart DEF Members, Sets
<1>9. ASSUME key[3] # NoPeer PROVE Len(r) <= 1
  <2>1. Len(r) = 1
    BY <1>5, <1>9 DEF Installable
  <2> QED BY <2>1, SMT
<1>10. TupleAt(key)'
  BY <1>2, <1>5, <1>6, <1>7, <1>9 DEF TupleAt, ListOk
<1>11. ASSUME NEW k \in TupleKeys, k # key PROVE TupleAt(k)'
  BY <1>6, <1>8, <1>11 DEF Listed, TupleAt
<1> QED BY <1>6, <1>10, <1>11 DEF Listed

(* A socket leaves its list. *)
LEMMA UninstallListed ==
  ASSUME Listed, Tables, NEW s \in Socks, NEW key \in TupleKeys, sk[s].key = key,
         tuples' = Uninstalled(s), Sets(s), sk'[s].key = NoKey
  PROVE  Listed' /\ tuples' \in [TupleKeys -> Seq(Socks)]
<1> DEFINE q == tuples[key]
           r == Unlisted(q, s)
<1>1. tuples \in [TupleKeys -> Seq(Socks)] /\ q \in Seq(Socks) /\ TupleAt(key)
  BY DEF Tables, Listed
<1>2. Once(q) /\ Range(q) = Members(key) /\ (key[3] # NoPeer => Len(q) <= 1)
  BY <1>1 DEF TupleAt, ListOk
<1>3. s \in Range(q)
  BY <1>2 DEF Members
<1>4. tuples' = [tuples EXCEPT ![key] = r]
  BY DEF Uninstalled
<1>5. r \in Seq(Socks) /\ Once(r) /\ Len(r) = Len(q) - 1 /\ Range(r) = Range(q) \ {s}
  <2> HIDE DEF q
  <2> QED BY <1>1, <1>2, <1>3, UnlistedIs
<1> HIDE DEF r
<1>6. tuples' \in [TupleKeys -> Seq(Socks)] /\ tuples'[key] = r
      /\ \A k \in TupleKeys : k # key => tuples'[k] = tuples[k]
  BY <1>1, <1>4, <1>5
<1>7. Members(key)' = Members(key) \ {s}
  BY KeysApart DEF Members, Sets
<1>8. ASSUME NEW k \in TupleKeys, k # key PROVE Members(k)' = Members(k)
  BY <1>8, KeysApart DEF Members, Sets
<1>9. ASSUME key[3] # NoPeer PROVE Len(r) <= 1
  <2>1. Len(q) \in Nat /\ Len(q) <= 1 /\ Len(r) = Len(q) - 1
    BY <1>1, <1>2, <1>5, <1>9, SMT
  <2> HIDE DEF q
  <2> QED BY <2>1, SMT
<1>10. TupleAt(key)'
  BY <1>2, <1>5, <1>6, <1>7, <1>9 DEF TupleAt, ListOk
<1>11. ASSUME NEW k \in TupleKeys, k # key PROVE TupleAt(k)'
  BY <1>6, <1>8, <1>11 DEF Listed, TupleAt
<1> QED BY <1>6, <1>10, <1>11 DEF Listed

-----------------------------------------------------------------------------
(* Counting reservations. *)

(* A set of sockets and handlers has a size ... *)
LEMMA FinitePart ==
  ASSUME Exclusive, NEW S \in SUBSET (Socks \cup Workers)
  PROVE  Cardinality(S) \in Nat /\ (Cardinality(S) = 0 <=> S = {})
BY DEF Exclusive, Counted

(* ... one that joins counts one more ... *)
LEMMA CountIn ==
  ASSUME Exclusive, NEW S \in SUBSET (Socks \cup Workers), NEW x \in Socks \cup Workers,
         x \notin S
  PROVE  Cardinality(S \cup {x}) = Cardinality(S) + 1
BY DEF Exclusive, Counted

(* ... one that leaves counts one less ... *)
LEMMA CountOut ==
  ASSUME Exclusive, NEW S \in SUBSET (Socks \cup Workers), NEW x \in S
  PROVE  Cardinality(S \ {x}) = Cardinality(S) - 1
BY DEF Exclusive, Counted

(* ... and one that takes another's place changes nothing. *)
LEMMA CountSwap ==
  ASSUME Exclusive, NEW S \in SUBSET (Socks \cup Workers), NEW x \in S,
         NEW y \in Socks \cup Workers, y \notin S
  PROVE  Cardinality((S \ {x}) \cup {y}) = Cardinality(S)
<1>1. S \ {x} \in SUBSET (Socks \cup Workers) /\ y \notin S \ {x}
  OBVIOUS
<1>2. Cardinality((S \ {x}) \cup {y}) = Cardinality(S \ {x}) + 1
  BY <1>1, CountIn
<1>3. Cardinality(S \ {x}) = Cardinality(S) - 1
  BY CountOut
<1>4. Cardinality(S) \in Nat
  BY FinitePart
<1> QED BY <1>2, <1>3, <1>4, SMT

(* Who reserves is a socket or a handler. *)
LEMMA ReservingIs ==
  /\ \A p, c : Reserving(p, c) \in SUBSET (Socks \cup Workers)
  /\ \A p, c : Reserving(p, c)' \in SUBSET (Socks \cup Workers)
  /\ \A k : Holders(k) \in SUBSET (Socks \cup Workers)
BY DEF Reserving, Holders

(* One counter of one port changes. *)
LEMMA PortsIs ==
  ASSUME ports \in [Ports -> [Counters -> Int]], NEW p \in Ports, NEW c \in Counters,
         NEW n \in Int, ports' = [ports EXCEPT ![p][c] = n]
  PROVE  SetsPort(p, c, n)
<1> DEFINE f == [ports[p] EXCEPT ![c] = n]
<1>1. f \in [Counters -> Int] /\ f[c] = n /\ \A d \in Counters : d # c => f[d] = ports[p][d]
  OBVIOUS
<1>2. ports' = [ports EXCEPT ![p] = f]
  OBVIOUS
<1> HIDE DEF f
<1>3. ports'[p] = f /\ \A q \in Ports : q # p => ports'[q] = ports[q]
  BY <1>2
<1>4. ports' \in [Ports -> [Counters -> Int]]
  BY <1>1, <1>2
<1> QED BY <1>1, <1>3, <1>4 DEF SetsPort

(* The sockets and the handlers that hold an address of a port. *)
LEMMA WhoReserves ==
  ASSUME NEW p, NEW c, NEW x
  PROVE  /\ x \in Reserving(p, c) <=>
              (x \in Socks /\ HoldsPort(sk[x], p, c)) \/ (x \in Workers /\ OwesPort(loc[x], p, c))
         /\ x \in Reserving(p, c)' <=>
              (x \in Socks /\ HoldsPort(sk'[x], p, c)) \/ (x \in Workers /\ OwesPort(loc'[x], p, c))
BY DEF Reserving

(* The exact counts after a step, port by port. *)
LEMMA CountsStep ==
  ASSUME BindCountsExact, NEW p, NEW c,
         ports'[p][c] = Cardinality(Reserving(p, c)'),
         \A q \in Ports, d \in Counters :
           q # p \/ d # c => /\ Reserving(q, d)' = Reserving(q, d)
                             /\ ports'[q][d] = ports[q][d],
         \A k \in BindKeys : slots'[k] = Cardinality(Holders(k)')
  PROVE  BindCountsExact'
<1>1. ASSUME NEW q \in Ports, NEW d \in Counters
      PROVE  ports'[q][d] = Cardinality(Reserving(q, d)')
  <2>1. CASE q = p /\ d = c
    BY <2>1
  <2>2. CASE q # p \/ d # c
    <3>1. Reserving(q, d)' = Reserving(q, d) /\ ports'[q][d] = ports[q][d]
      BY <2>2
    <3>2. ports[q][d] = Cardinality(Reserving(q, d))
      BY DEF BindCountsExact
    <3> QED BY <3>1, <3>2
  <2> QED BY <2>1, <2>2
<1> QED BY <1>1 DEF BindCountsExact

-----------------------------------------------------------------------------
(* Taking and giving up a reservation. *)

(* The two counters of a port. *)
LEMMA CounterIs ==
  ASSUME NEW a
  PROVE  /\ Counter(a) \in Counters /\ (Counter(a) = "any" <=> a = AnyAddr)
         /\ Counter(a) = "any" \/ Counter(a) = "specific"
BY DEF Counter, Counters

(* Who claims an address for itself is counted. *)
LEMMA ClaimReserves ==
  ASSUME Owned, NEW x \in Socks \cup Workers, Claims(x)
  PROVE  x \in Reserving(ClaimKey(x)[2], Counter(ClaimKey(x)[1]))
<1>1. CASE x \in Socks
  <2>1. sk[x].resv # NoKey /\ ClaimKey(x) = sk[x].resv
    BY <1>1 DEF Owned, SockAt, SockOk, Claims, ClaimKey
  <2>2. HoldsPort(sk[x], ClaimKey(x)[2], Counter(ClaimKey(x)[1]))
    BY <2>1 DEF HoldsPort
  <2> QED BY <1>1, <2>2, WhoReserves
<1>2. CASE x \notin Socks
  <2>1. x \in Workers /\ loc[x].pc = "slot" /\ ClaimKey(x) = loc[x].key
    BY <1>2 DEF Claims, ClaimKey
  <2>2. OwesPort(loc[x], ClaimKey(x)[2], Counter(ClaimKey(x)[1]))
    BY <2>1 DEF OwesPort
  <2> QED BY <2>1, <2>2, WhoReserves
<1> QED BY <1>1, <1>2

(* A worker is not a socket. *)
LEMMA WorkersApart == \A w \in Workers : w \notin Socks
BY SocketsAssumption

(* The compare-exchange of the port's counters succeeds. *)
LEMMA PortTaken ==
  ASSUME Owned, Exclusive, NEW w \in Workers, NEW addr \in Addrs, NEW p \in Ports,
         Moves(w, "slot"), loc[w].pc = "port", loc'[w].key = <<addr, p>>,
         ~ PortRefused(addr, p, loc'[w].reuse), UNCHANGED <<sk, slots>>,
         ports' = [ports EXCEPT ![p][Counter(addr)] = @ + 1]
  PROVE  Exclusive' /\ ports' \in [Ports -> [Counters -> Int]]
<1>1. PICK c \in Counters : c = Counter(addr)
  BY CounterIs
<1>2. ports \in [Ports -> [Counters -> Int]] /\ ports[p][c] + 1 \in Int
  BY SMT DEF Owned, Tables
<1>3. PICK n \in Int : n = ports[p][c] + 1
  BY <1>2
<1>4. SetsPort(p, c, n)
  <2>1. ports' = [ports EXCEPT ![p][c] = n]
    BY <1>1, <1>3
  <2> QED BY <1>2, <2>1, PortsIs
<1>5. w \notin Socks /\ loc'[w].pc = "slot" /\ loc'[w].key[2] = p /\ loc'[w].key[1] = addr
      /\ \A u \in Workers : u # w => loc'[u] = loc[u]
  BY WorkersApart, SMT DEF Moves
<1>6. ASSUME NEW q, NEW d, NEW x, x # w
      PROVE  x \in Reserving(q, d)' <=> x \in Reserving(q, d)
  BY <1>5, <1>6, WhoReserves
<1>7. ASSUME NEW q, NEW d
      PROVE  w \notin Reserving(q, d) /\ (w \in Reserving(q, d)' <=> q = p /\ d = c)
  <2>1. ~ OwesPort(loc[w], q, d) /\ (OwesPort(loc'[w], q, d) <=> q = p /\ d = c)
    BY <1>1, <1>5 DEF OwesPort
  <2> QED BY <1>5, <2>1, WhoReserves
<1>8. Reserving(p, c)' = Reserving(p, c) \cup {w}
  BY <1>6, <1>7
<1>9. ASSUME NEW q, NEW d, q # p \/ d # c PROVE Reserving(q, d)' = Reserving(q, d)
  <2>1. \A x : x \in Reserving(q, d)' <=> x \in Reserving(q, d)
    BY <1>6, <1>7, <1>9
  <2> QED BY <2>1
<1>10. ports'[p][c] = Cardinality(Reserving(p, c)')
  <2>1. Cardinality(Reserving(p, c) \cup {w}) = Cardinality(Reserving(p, c)) + 1
    BY <1>7, ReservingIs, CountIn
  <2>2. ports[p][c] = Cardinality(Reserving(p, c))
    BY DEF Exclusive, BindCountsExact
  <2> QED BY <1>3, <1>4, <1>8, <2>1, <2>2 DEF SetsPort
<1>11. BindCountsExact'
  <2>1. \A k \in BindKeys : slots'[k] = Cardinality(Holders(k)')
    BY DEF Exclusive, BindCountsExact, Holders
  <2>2. ASSUME NEW q \in Ports, NEW d \in Counters, q # p \/ d # c
        PROVE  Reserving(q, d)' = Reserving(q, d) /\ ports'[q][d] = ports[q][d]
    BY <1>4, <1>9, <2>2 DEF SetsPort
  <2> QED BY <1>10, <2>1, <2>2, CountsStep, SMT DEF Exclusive
<1>12. ASSUME ~ loc'[w].reuse
       PROVE  /\ \A x : x \notin Reserving(p, "any")
              /\ addr = AnyAddr => \A x : x \notin Reserving(p, "specific")
  <2> DEFINE a == Cardinality(Reserving(p, "any"))
             b == Cardinality(Reserving(p, "specific"))
  <2>1. a = ports[p]["any"] /\ b = ports[p]["specific"]
    BY DEF Exclusive, BindCountsExact, Counters
  <2>2. a \in Nat /\ b \in Nat /\ (a = 0 <=> Reserving(p, "any") = {})
        /\ (b = 0 <=> Reserving(p, "specific") = {})
    BY FinitePart, ReservingIs
  <2>3. IF addr = AnyAddr THEN a + b = 0 ELSE a = 0
    BY <1>12, <2>1 DEF PortRefused
  <2> HIDE DEF a, b
  <2>4. a = 0 /\ (addr = AnyAddr => b = 0)
    BY <2>2, <2>3, SMT
  <2> QED BY <2>2, <2>4
<1>13. ASSUME NEW x \in Socks \cup Workers, x # w, Claims(x)'
       PROVE  /\ Claims(x) /\ ClaimKey(x)' = ClaimKey(x)
              /\ x \in Reserving(ClaimKey(x)[2], Counter(ClaimKey(x)[1]))
  <2>1. Claims(x) /\ ClaimKey(x)' = ClaimKey(x)
    BY <1>5, <1>13 DEF Claims, ClaimKey
  <2> QED BY <2>1, ClaimReserves
<1>14. ClaimKey(w)' = loc'[w].key /\ (Claims(w)' => ~ loc'[w].reuse)
  BY <1>5 DEF Claims, ClaimKey
<1>15. ASSUME NEW x \in Socks \cup Workers, NEW y \in Socks \cup Workers, x # y, Claims(x)',
              Claims(y)', ClaimKey(x)'[2] = ClaimKey(y)'[2]
       PROVE  ClaimKey(x)'[1] # AnyAddr
  <2>1. CASE x # w /\ y # w
    <3>1. /\ Claims(x) /\ Claims(y) /\ ClaimKey(x)' = ClaimKey(x) /\ ClaimKey(y)' = ClaimKey(y)
      BY <1>13, <1>15, <2>1
    <3> QED BY <1>15, <3>1 DEF Exclusive, Apart
  <2>2. CASE x = w
    <3>1. y \in Reserving(p, Counter(ClaimKey(y)[1]))
      BY <1>5, <1>13, <1>14, <1>15, <2>2
    <3> QED BY <1>5, <1>12, <1>14, <1>15, <2>2, <3>1, CounterIs
  <2>3. CASE y = w
    <3>1. x \in Reserving(p, Counter(ClaimKey(x)[1])) /\ ClaimKey(x)' = ClaimKey(x)
      BY <1>5, <1>13, <1>14, <1>15, <2>3
    <3> QED BY <1>12, <1>14, <1>15, <2>3, <3>1, CounterIs
  <2> QED BY <2>1, <2>2, <2>3
<1>16. Apart'
  BY <1>15 DEF Exclusive, Apart
<1> QED BY <1>4, <1>11, <1>16, StillCounted DEF Exclusive, SetsPort

(* The count of one address goes up or down with the sockets that hold it. *)
LEMMA SlotCounts ==
  ASSUME Owned, Exclusive, NEW key \in BindKeys, NEW s \in Socks, Sets(s), NEW n \in Int,
         slots' = [slots EXCEPT ![key] = n],
         \/ sk[s].resv = NoKey /\ sk'[s].resv = key /\ n = slots[key] + 1
         \/ sk[s].resv = key /\ sk'[s].resv = NoKey /\ n = slots[key] - 1
  PROVE  /\ slots' \in [BindKeys -> Int]
         /\ \A k \in BindKeys : slots'[k] = Cardinality(Holders(k)')
<1>1. slots \in [BindKeys -> Int] /\ \A k \in BindKeys : slots[k] = Cardinality(Holders(k))
  BY DEF Owned, Tables, Exclusive, BindCountsExact
<1>2. slots' \in [BindKeys -> Int] /\ slots'[key] = n
      /\ \A k \in BindKeys : k # key => slots'[k] = slots[k]
  BY <1>1
<1>3. NoKey \notin BindKeys
  BY KeysApart
<1>4. ASSUME NEW k \in BindKeys, k # key PROVE Holders(k)' = Holders(k)
  BY <1>3, <1>4 DEF Holders, Sets
<1>5. n = Cardinality(Holders(key)')
  <2>1. Holders(key) \in SUBSET (Socks \cup Workers)
    BY ReservingIs
  <2>2. CASE sk[s].resv = NoKey /\ sk'[s].resv = key /\ n = slots[key] + 1
    <3>1. s \notin Holders(key) /\ Holders(key)' = Holders(key) \cup {s}
      BY <1>3, <2>2 DEF Holders, Sets
    <3>2. Cardinality(Holders(key) \cup {s}) = Cardinality(Holders(key)) + 1
      BY <2>1, <3>1, CountIn
    <3> QED BY <1>1, <2>2, <3>1, <3>2
  <2>3. CASE sk[s].resv = key /\ sk'[s].resv = NoKey /\ n = slots[key] - 1
    <3>1. s \in Holders(key) /\ Holders(key)' = Holders(key) \ {s}
      BY <1>3, <2>3 DEF Holders, Sets
    <3>2. Cardinality(Holders(key) \ {s}) = Cardinality(Holders(key)) - 1
      BY <2>1, <3>1, CountOut
    <3> QED BY <1>1, <2>3, <3>1, <3>2
  <2> QED BY <2>2, <2>3
<1> QED BY <1>1, <1>2, <1>4, <1>5

(* A socket takes its handler's place among those who reserve, or a handler *)
(* its socket's.                                                            *)
LEMMA SwapCounts ==
  ASSUME Owned, Exclusive, NEW w \in Workers, NEW s \in Socks, NEW pc, Moves(w, pc), Sets(s),
         NEW key \in BindKeys, ports' = ports,
         \A k \in BindKeys : slots'[k] = Cardinality(Holders(k)'),
         \/ /\ sk[s].resv = NoKey /\ sk'[s].resv = key
            /\ loc[w].pc \in {"slot", "unport"} /\ loc[w].key = key
            /\ loc'[w].pc \notin {"slot", "unport"}
         \/ /\ sk[s].resv = key /\ sk'[s].resv = NoKey
            /\ loc[w].pc \notin {"slot", "unport"}
            /\ loc'[w].pc \in {"slot", "unport"} /\ loc'[w].key = key
  PROVE  BindCountsExact'
<1>1. key[2] \in Ports /\ Counter(key[1]) \in Counters
  BY CounterIs DEF BindKeys
<1>2. PICK p \in Ports : p = key[2]
  BY <1>1
<1>3. PICK c \in Counters : c = Counter(key[1])
  BY <1>1
<1>4. w \notin Socks /\ s \notin Workers /\ s # w /\ key # NoKey
  BY WorkersApart, KeysApart
<1>5. ASSUME NEW q, NEW d, NEW x, x # w, x # s
      PROVE  x \in Reserving(q, d)' <=> x \in Reserving(q, d)
  BY <1>5, WhoReserves DEF Moves, Sets
<1>6. ASSUME NEW q, NEW d
      PROVE  \/ /\ s \notin Reserving(q, d) /\ (s \in Reserving(q, d)' <=> q = p /\ d = c)
                /\ w \notin Reserving(q, d)' /\ (w \in Reserving(q, d) <=> q = p /\ d = c)
             \/ /\ w \notin Reserving(q, d) /\ (w \in Reserving(q, d)' <=> q = p /\ d = c)
                /\ s \notin Reserving(q, d)' /\ (s \in Reserving(q, d) <=> q = p /\ d = c)
  <2>1. CASE /\ sk[s].resv = NoKey /\ sk'[s].resv = key
             /\ loc[w].pc \in {"slot", "unport"} /\ loc[w].key = key
             /\ loc'[w].pc \notin {"slot", "unport"}
    <3>1. /\ ~ HoldsPort(sk[s], q, d) /\ (HoldsPort(sk'[s], q, d) <=> q = p /\ d = c)
          /\ ~ OwesPort(loc'[w], q, d) /\ (OwesPort(loc[w], q, d) <=> q = p /\ d = c)
      BY <1>2, <1>3, <1>4, <2>1 DEF HoldsPort, OwesPort
    <3> QED BY <1>4, <3>1, WhoReserves
  <2>2. CASE /\ sk[s].resv = key /\ sk'[s].resv = NoKey
             /\ loc[w].pc \notin {"slot", "unport"}
             /\ loc'[w].pc \in {"slot", "unport"} /\ loc'[w].key = key
    <3>1. /\ ~ OwesPort(loc[w], q, d) /\ (OwesPort(loc'[w], q, d) <=> q = p /\ d = c)
          /\ ~ HoldsPort(sk'[s], q, d) /\ (HoldsPort(sk[s], q, d) <=> q = p /\ d = c)
      BY <1>2, <1>3, <1>4, <2>2 DEF HoldsPort, OwesPort
    <3> QED BY <1>4, <3>1, WhoReserves
  <2> QED BY <2>1, <2>2
<1>7. ASSUME NEW q, NEW d, q # p \/ d # c PROVE Reserving(q, d)' = Reserving(q, d)
  <2>1. \A x : x \in Reserving(q, d)' <=> x \in Reserving(q, d)
    BY <1>5, <1>6, <1>7
  <2> QED BY <2>1
<1>8. Cardinality(Reserving(p, c)') = Cardinality(Reserving(p, c))
  <2>1. PICK R : R = Reserving(p, c)
    OBVIOUS
  <2>2. R \in SUBSET (Socks \cup Workers)
    BY <2>1, ReservingIs
  <2>3. CASE s \notin R /\ w \in R /\ s \in Reserving(p, c)' /\ w \notin Reserving(p, c)'
    <3>1. Reserving(p, c)' = (R \ {w}) \cup {s}
      BY <1>5, <2>1, <2>3
    <3> QED BY <2>1, <2>2, <2>3, <3>1, CountSwap, SMT
  <2>4. CASE w \notin R /\ s \in R /\ w \in Reserving(p, c)' /\ s \notin Reserving(p, c)'
    <3>1. Reserving(p, c)' = (R \ {s}) \cup {w}
      BY <1>5, <2>1, <2>4
    <3> QED BY <2>1, <2>2, <2>4, <3>1, CountSwap, SMT
  <2> QED BY <1>6, <2>1, <2>3, <2>4
<1>9. ports'[p][c] = Cardinality(Reserving(p, c)')
  BY <1>8 DEF Exclusive, BindCountsExact
<1>10. ASSUME NEW q \in Ports, NEW d \in Counters, q # p \/ d # c
       PROVE  Reserving(q, d)' = Reserving(q, d) /\ ports'[q][d] = ports[q][d]
  BY <1>7, <1>10
<1> QED BY <1>9, <1>10, CountsStep, SMT DEF Exclusive

(* The compare-exchange of the slot's counter succeeds: the socket claims   *)
(* what its handler did.                                                    *)
LEMMA SlotTaken ==
  ASSUME Owned, Exclusive, NEW w \in Workers, NEW s \in Socks, NEW key \in BindKeys, NEW pc,
         Moves(w, pc), pc \notin {"slot", "unport"}, loc[w].pc = "slot", loc[w].key = key,
         Sets(s), sk[s].resv = NoKey, ~ sk[s].excl, sk'[s].resv = key,
         sk'[s].excl => ~ loc[w].reuse, loc[w].reuse \/ slots[key] = 0, ports' = ports,
         slots' = [slots EXCEPT ![key] = @ + 1]
  PROVE  Exclusive' /\ slots' \in [BindKeys -> Int]
<1>1. PICK n \in Int : n = slots[key] + 1
  BY SMT DEF Owned, Tables
<1>2. /\ slots' \in [BindKeys -> Int]
      /\ \A k \in BindKeys : slots'[k] = Cardinality(Holders(k)')
  <2>1. slots' = [slots EXCEPT ![key] = n]
    BY <1>1
  <2> QED BY <1>1, <2>1, SlotCounts
<1>3. BindCountsExact'
  BY <1>2, SwapCounts DEF Moves
<1>4. w \notin Socks /\ \A x : x \in Workers => x \notin Socks
  BY WorkersApart
<1>5. ASSUME NEW x \in Socks \cup Workers, Claims(x)'
      PROVE  /\ x # w
             /\ x # s => Claims(x) /\ ClaimKey(x)' = ClaimKey(x)
             /\ x = s => Claims(w) /\ ClaimKey(x)' = ClaimKey(w)
  <2>1. CASE x \in Workers
    BY <1>4, <1>5, <2>1 DEF Claims, ClaimKey, Moves
  <2>2. CASE x \in Socks /\ x # s
    BY <1>4, <1>5, <2>2 DEF Claims, ClaimKey, Sets
  <2>3. CASE x = s
    BY <1>4, <1>5, <2>3 DEF Claims, ClaimKey
  <2> QED BY <2>1, <2>2, <2>3
<1>6. ASSUME NEW x \in Socks \cup Workers, NEW y \in Socks \cup Workers, x # y, Claims(x)',
             Claims(y)', ClaimKey(x)'[2] = ClaimKey(y)'[2]
      PROVE  ClaimKey(x)'[1] # AnyAddr
  <2>1. PICK u \in Socks \cup Workers : u = IF x = s THEN w ELSE x
    OBVIOUS
  <2>2. PICK v \in Socks \cup Workers : v = IF y = s THEN w ELSE y
    OBVIOUS
  <2>3. Claims(u) /\ ClaimKey(x)' = ClaimKey(u)
    BY <1>5, <1>6, <2>1
  <2>4. Claims(v) /\ ClaimKey(y)' = ClaimKey(v)
    BY <1>5, <1>6, <2>2
  <2>5. u # v
    BY <1>5, <1>6, <2>1, <2>2
  <2> QED BY <1>6, <2>3, <2>4, <2>5 DEF Exclusive, Apart
<1>7. ASSUME sk'[s].excl, NEW t \in Socks, t # s PROVE sk'[t].resv # key
  <2>1. slots[key] = Cardinality(Holders(key)) /\ slots[key] = 0
    BY <1>7 DEF Exclusive, BindCountsExact
  <2>2. Holders(key) = {}
    BY <2>1, FinitePart, ReservingIs
  <2> QED BY <1>7, <2>2 DEF Holders, Sets
<1>8. ASSUME NEW x \in Socks, NEW t \in Socks, x # t, sk'[x].excl, sk'[t].excl
      PROVE  sk'[x].resv # sk'[t].resv
  <2>1. CASE x = s \/ t = s
    BY <1>7, <1>8, <2>1
  <2>2. CASE x # s /\ t # s
    <3>1. sk'[x] = sk[x] /\ sk'[t] = sk[t]
      BY <2>2 DEF Sets
    <3> QED BY <1>8, <3>1 DEF Exclusive, Apart
  <2> QED BY <2>1, <2>2
<1>9. Apart'
  BY <1>6, <1>8 DEF Apart
<1> QED BY <1>2, <1>3, <1>9, StillCounted DEF Exclusive

(* bind_release() gives the slot back; the handler still owes the port. *)
LEMMA SlotGiven ==
  ASSUME Owned, Exclusive, NEW w \in Workers, NEW s \in Socks, NEW key \in BindKeys,
         Moves(w, "unport"), loc[w].pc \notin {"slot", "unport"}, loc'[w].key = key,
         Sets(s), sk[s].resv = key, sk'[s].resv = NoKey, ~ sk'[s].excl, ports' = ports,
         slots' = [slots EXCEPT ![key] = @ - 1]
  PROVE  Exclusive' /\ slots' \in [BindKeys -> Int]
<1>1. PICK n \in Int : n = slots[key] - 1
  BY SMT DEF Owned, Tables
<1>2. /\ slots' \in [BindKeys -> Int]
      /\ \A k \in BindKeys : slots'[k] = Cardinality(Holders(k)')
  <2>1. slots' = [slots EXCEPT ![key] = n]
    BY <1>1
  <2> QED BY <1>1, <2>1, SlotCounts
<1>3. BindCountsExact'
  BY <1>2, SwapCounts DEF Moves
<1>4. ASSUME NEW x \in Socks \cup Workers, Claims(x)'
      PROVE  Claims(x) /\ ClaimKey(x)' = ClaimKey(x)
  <2>1. CASE x \in Workers /\ x # w
    BY <1>4, <2>1, WorkersApart DEF Claims, ClaimKey, Moves
  <2>2. CASE x \in Socks
    BY <1>4, <2>2 DEF Claims, ClaimKey, Sets
  <2>3. CASE x = w
    BY <1>4, <2>3, WorkersApart DEF Claims, ClaimKey, Moves
  <2> QED BY <2>1, <2>2, <2>3
<1>5. \A x \in Socks : sk'[x].excl => x # s /\ sk'[x] = sk[x]
  BY DEF Sets
<1>6. Apart'
  BY <1>4, <1>5, SMT DEF Exclusive, Apart
<1> QED BY <1>2, <1>3, <1>6, StillCounted DEF Exclusive

(* bind_port_release() counts the port down. *)
LEMMA PortGiven ==
  ASSUME Owned, Exclusive, NEW w \in Workers, NEW key \in BindKeys, NEW pc, Moves(w, pc),
         pc \notin {"slot", "unport"}, loc[w].pc = "unport", loc[w].key = key,
         UNCHANGED <<sk, slots>>, ports' = [ports EXCEPT ![key[2]][Counter(key[1])] = @ - 1]
  PROVE  Exclusive' /\ ports' \in [Ports -> [Counters -> Int]]
<1>0. key[2] \in Ports /\ Counter(key[1]) \in Counters
  BY CounterIs DEF BindKeys
<1>1. PICK p \in Ports : p = key[2]
  BY <1>0
<1>2. PICK c \in Counters : c = Counter(key[1])
  BY <1>0
<1>3. ports \in [Ports -> [Counters -> Int]] /\ ports[p][c] - 1 \in Int
  BY SMT DEF Owned, Tables
<1>4. PICK n \in Int : n = ports[p][c] - 1
  BY <1>3
<1>5. SetsPort(p, c, n)
  <2>1. ports' = [ports EXCEPT ![p][c] = n]
    BY <1>1, <1>2, <1>4
  <2> QED BY <1>3, <2>1, PortsIs
<1>6. w \notin Socks /\ loc'[w].pc = pc /\ \A u \in Workers : u # w => loc'[u] = loc[u]
  BY WorkersApart DEF Moves
<1>7. ASSUME NEW q, NEW d, NEW x, x # w
      PROVE  x \in Reserving(q, d)' <=> x \in Reserving(q, d)
  BY <1>6, <1>7, WhoReserves
<1>8. ASSUME NEW q, NEW d
      PROVE  w \notin Reserving(q, d)' /\ (w \in Reserving(q, d) <=> q = p /\ d = c)
  <2>1. ~ OwesPort(loc'[w], q, d) /\ (OwesPort(loc[w], q, d) <=> q = p /\ d = c)
    BY <1>1, <1>2, <1>6 DEF OwesPort
  <2> QED BY <1>6, <2>1, WhoReserves
<1>9. Reserving(p, c)' = Reserving(p, c) \ {w}
  BY <1>7, <1>8
<1>10. ASSUME NEW q \in Ports, NEW d \in Counters, q # p \/ d # c
       PROVE  Reserving(q, d)' = Reserving(q, d) /\ ports'[q][d] = ports[q][d]
  <2>1. \A x : x \in Reserving(q, d)' <=> x \in Reserving(q, d)
    BY <1>7, <1>8, <1>10
  <2>2. Reserving(q, d)' = Reserving(q, d)
    BY <2>1
  <2> QED BY <1>5, <1>10, <2>2 DEF SetsPort
<1>11. ports'[p][c] = Cardinality(Reserving(p, c)')
  <2>1. Cardinality(Reserving(p, c) \ {w}) = Cardinality(Reserving(p, c)) - 1
    BY <1>8, ReservingIs, CountOut
  <2>2. ports[p][c] = Cardinality(Reserving(p, c))
    BY DEF Exclusive, BindCountsExact
  <2> QED BY <1>4, <1>5, <1>9, <2>1, <2>2 DEF SetsPort
<1>12. BindCountsExact'
  <2>1. \A k \in BindKeys : slots'[k] = Cardinality(Holders(k)')
    BY DEF Exclusive, BindCountsExact, Holders
  <2> QED BY <1>10, <1>11, <2>1, CountsStep, SMT DEF Exclusive
<1>13. \A x \in Socks \cup Workers : Claims(x)' => Claims(x) /\ ClaimKey(x)' = ClaimKey(x)
  BY <1>6 DEF Claims, ClaimKey
<1>14. Apart'
  BY <1>13 DEF Exclusive, Apart
<1> QED BY <1>5, <1>12, <1>14, StillCounted DEF Exclusive, SetsPort

-----------------------------------------------------------------------------
(* The steps of a handler. *)

(* What follows from replacing a worker's handler by l. *)
LEMMA LocIs ==
  ASSUME Types, NEW w \in Workers, NEW l \in Handlers, loc' = [loc EXCEPT ![w] = l]
  PROVE  Moves(w, l.pc) /\ loc'[w] = l
BY DEF Types, Moves

(* A step of a handler on its socket s, from its parts. *)
LEMMA HandlerSound ==
  ASSUME Sound, NEW w \in Workers, loc[w].pc \notin {"idle", "handoff"},
         NEW s, s = loc[w].s, NEW pc, Moves(w, pc), Sets(s), UNCHANGED <<free, inbox>>,
         ports' \in [Ports -> [Counters -> Int]], slots' \in [BindKeys -> Int],
         tuples' \in [TupleKeys -> Seq(Socks)],
         sk'[s].st # "none", pc # "idle" => loc'[w].s = s,
         HandlerOk(w, loc'[w], sk'[s]), SockOk(s, sk'[s], loc'[sk'[s].owner]),
         Exclusive', Listed'
  PROVE  Sound'
<1>1. At(w, s) /\ Types
  BY WorkingIs
<1>2. Types'
  BY <1>1 DEF Types, Moves, Sets
<1>3. Tables'
  BY DEF Tables, Sound, Owned
<1> QED BY <1>1, <1>2, <1>3, StepSound

(* A port is refused, or counted up and claimed. *)
LEMMA PortReserveSound ==
  ASSUME Sound, NEW w \in Workers, NEW p \in Ports, bind_port_reserve(w, p)
  PROVE  Sound'
<1>1. /\ loc[w].pc = "port" /\ UNCHANGED <<free, sk, slots, tuples, inbox>>
      /\ Owned /\ Exclusive /\ Listed /\ Tables
  BY DEF bind_port_reserve, Sound, Owned
<1>2. PICK s : s = loc[w].s
  OBVIOUS
<1>3. /\ At(w, s) /\ HandlerOk(w, loc[w], sk[s]) /\ SockOk(s, sk[s], loc[w]) /\ Types
      /\ s \in Socks /\ loc[w] \in Handlers
  BY <1>1, <1>2, WorkingIs
<1>4. Sets(s) /\ sk'[s] = sk[s] /\ sk[s].st = "open" /\ sk[s].owner = w
  BY <1>1, <1>3 DEF Types, Sets, HandlerOk, At
<1>5. Listed'
  BY <1>1, QuietListed
<1>6. ASSUME NEW l \in Handlers, loc' = [loc EXCEPT ![w] = l], l.pc \in {"port", "slot"},
             l.s = s, l.op = loc[w].op, l.arg = loc[w].arg,
             l.pc = "slot" => l.key \in BindKeys,
             Exclusive', ports' \in [Ports -> [Counters -> Int]]
      PROVE  Sound'
  <2>1. Moves(w, l.pc) /\ loc'[w] = l
    BY <1>3, <1>6, LocIs
  <2>2. HandlerOk(w, l, sk[s])
    BY <1>1, <1>3, <1>6 DEF HandlerOk
  <2>3. SockOk(s, sk[s], l)
    BY <1>3, <1>4 DEF SockOk
  <2> QED BY <1>1, <1>2, <1>3, <1>4, <1>5, <1>6, <2>1, <2>2, <2>3, HandlerSound DEF Tables
<1>7. CASE PortRefused(loc[w].addr, p, loc[w].reuse)
  <2>1. ports' = ports /\ loc' = [loc EXCEPT ![w] = [loc[w] EXCEPT !.try = loc[w].try \ {p}]]
    BY <1>3, <1>7 DEF bind_port_reserve
  <2>2. PICK l : l = [loc[w] EXCEPT !.try = loc[w].try \ {p}]
    OBVIOUS
  <2>3. l \in Handlers
    <3>1. loc[w].try \ {p} \in SUBSET Ports
      BY <1>3 DEF Handlers
    <3> QED BY <1>3, <2>2, <3>1 DEF Handlers
  <2>4. l.pc = "port" /\ l.s = s /\ l.op = loc[w].op /\ l.arg = loc[w].arg
    BY <1>1, <1>2, <1>3, <2>2 DEF Handlers
  <2>5. Moves(w, "port")
    BY <1>3, <2>1, <2>2, <2>3, <2>4, LocIs
  <2>6. Exclusive'
    BY <1>1, <2>1, <2>5, QuietExclusive DEF Moves
  <2> QED BY <1>1, <1>6, <2>1, <2>2, <2>3, <2>4, <2>6 DEF Tables
<1>8. CASE ~ PortRefused(loc[w].addr, p, loc[w].reuse)
  <2>1. PICK addr \in Addrs : addr = loc[w].addr
    BY <1>3 DEF Handlers
  <2>2. PICK l : l = [[[loc[w] EXCEPT !.try = loc[w].try \ {p}] EXCEPT !.key = <<addr, p>>]
                         EXCEPT !.pc = "slot"]
    OBVIOUS
  <2>3. /\ ports' = [ports EXCEPT ![p][Counter(addr)] = @ + 1]
        /\ loc' = [loc EXCEPT ![w] = l]
    BY <1>3, <1>8, <2>1, <2>2 DEF bind_port_reserve, Types
  <2>4. l \in Handlers
    <3>1. loc[w].try \ {p} \in SUBSET Ports /\ <<addr, p>> \in BindKeys /\ "slot" \in PCs
      BY <1>3 DEF Handlers, BindKeys, PCs
    <3> QED BY <1>3, <2>2, <3>1 DEF Handlers
  <2>5. /\ l.pc = "slot" /\ l.s = s /\ l.op = loc[w].op /\ l.arg = loc[w].arg
        /\ l.key = <<addr, p>> /\ l.reuse = loc[w].reuse
    BY <1>1, <1>2, <1>3, <2>2 DEF Handlers
  <2>6. Moves(w, "slot") /\ loc'[w] = l
    BY <1>3, <2>3, <2>4, <2>5, LocIs
  <2>7. Exclusive' /\ ports' \in [Ports -> [Counters -> Int]]
    BY <1>1, <1>8, <2>1, <2>3, <2>5, <2>6, PortTaken
  <2>8. l.key \in BindKeys
    BY <2>1, <2>5, SMT DEF BindKeys
  <2> QED BY <1>6, <2>3, <2>4, <2>5, <2>7, <2>8
<1> QED BY <1>7, <1>8

(* A record that takes over an address. *)
LEMMA ReservedIs ==
  ASSUME NEW so \in SockRecs, NEW key \in BindKeys, NEW reuse \in BOOLEAN, NEW r,
         r = Reserved(so, key, reuse)
  PROVE  /\ r \in SockRecs /\ r.resv = key /\ (r.excl <=> ~ reuse) /\ r.sport = key[2]
         /\ r.st = so.st /\ r.owner = so.owner /\ r.key = so.key
<1>1. key[1] \in Addrs /\ key[2] \in AnyPort /\ key \in BindKeys \cup {NoKey} /\ (~ reuse) \in BOOLEAN
  BY DEF BindKeys, AnyPort
<1> QED BY <1>1 DEF Reserved, SockRecs

(* A record that gives its address up. *)
LEMMA UnreservedIs ==
  ASSUME NEW so \in SockRecs, NEW r, r = Unreserved(so)
  PROVE  /\ r \in SockRecs /\ r.resv = NoKey /\ r.excl = FALSE /\ r.sport = 0
         /\ r.st = so.st /\ r.owner = so.owner /\ r.key = so.key
<1>1. AnyAddr \in Addrs /\ 0 \in AnyPort /\ NoKey \in BindKeys \cup {NoKey} /\ FALSE \in BOOLEAN
  BY DEF Addrs, AnyPort
<1> QED BY <1>1 DEF Unreserved, SockRecs

(* The slot is refused, or counted up and taken over by the socket. *)
LEMMA SlotReserveSound ==
  ASSUME Sound, NEW w \in Workers, bind_reserve(w)
  PROVE  Sound'
<1>1. /\ loc[w].pc = "slot" /\ UNCHANGED <<free, ports, tuples, inbox>>
      /\ Owned /\ Exclusive /\ Listed /\ Tables
  BY DEF bind_reserve, Sound, Owned
<1>2. PICK s : s = loc[w].s
  OBVIOUS
<1>3. /\ At(w, s) /\ HandlerOk(w, loc[w], sk[s]) /\ SockOk(s, sk[s], loc[w]) /\ Types
      /\ s \in Socks /\ loc[w] \in Handlers /\ sk[s] \in SockRecs
  BY <1>1, <1>2, WorkingIs
<1>4. PICK key \in BindKeys : key = loc[w].key
  BY <1>1, <1>3 DEF HandlerOk
<1>5. /\ sk[s].st = "open" /\ sk[s].owner = w /\ sk[s].resv = NoKey /\ sk[s].key = NoKey
      /\ ~ sk[s].excl /\ Fits(loc[w].op, loc[w].arg) /\ loc[w].op \in BindOps
  BY <1>1, <1>3 DEF HandlerOk, SockOk
<1>6. CASE slots[key] # 0 /\ ~ loc[w].reuse
  <2>1. UNCHANGED <<slots, sk>> /\ Goto(w, "unport")
    BY <1>4, <1>6 DEF bind_reserve
  <2>2. Moves(w, "unport") /\ Continues(w)
    BY <1>3, <2>1, GotoIs DEF PCs
  <2>3. Sets(s) /\ sk'[s] = sk[s]
    BY <1>3, <2>1 DEF Types, Sets
  <2>4. HandlerOk(w, loc'[w], sk[s])
    BY <1>2, <1>3, <1>4, <1>5, <2>2 DEF HandlerOk, Moves, Continues
  <2>5. SockOk(s, sk[s], loc'[w])
    BY <1>3, <1>5 DEF SockOk
  <2>6. Exclusive'
    <3>1. loc'[w].pc = "unport" /\ loc'[w].key = loc[w].key /\ \A u \in Workers : u # w => loc'[u] = loc[u]
      BY <2>2 DEF Moves, Continues
    <3> QED BY <1>1, <2>1, <3>1, QuietExclusive
  <2>7. Listed'
    BY <1>1, <2>1, QuietListed
  <2>8. loc'[w].s = s /\ slots' \in [BindKeys -> Int] /\ ports' \in [Ports -> [Counters -> Int]]
        /\ tuples' \in [TupleKeys -> Seq(Socks)]
    BY <1>1, <1>2, <2>1, <2>2 DEF Continues, Tables
  <2> QED BY <1>1, <1>2, <1>5, <2>2, <2>3, <2>4, <2>5, <2>6, <2>7, <2>8, HandlerSound
<1>7. CASE slots[key] = 0 \/ loc[w].reuse
  <2>1. /\ slots' = [slots EXCEPT ![key] = @ + 1]
        /\ sk' = [sk EXCEPT ![s] = Reserved(sk[s], key, loc[w].reuse)]
        /\ Goto(w, AfterBind(loc[w].op))
    BY <1>2, <1>4, <1>7 DEF bind_reserve
  <2>2. PICK pc \in {"install", "peer", "send"} : pc = AfterBind(loc[w].op)
    BY <1>5 DEF BindOps, AfterBind
  <2>3. /\ pc = "install" => loc[w].op = "bind"
        /\ pc = "peer" => loc[w].op = "connect"
        /\ pc = "send" => loc[w].op = "send"
    BY <1>5, <2>2 DEF BindOps, AfterBind
  <2>4. Moves(w, pc) /\ Continues(w)
    BY <1>3, <2>1, <2>2, GotoIs DEF PCs
  <2>5. PICK r : r = Reserved(sk[s], key, loc[w].reuse)
    OBVIOUS
  <2>6. /\ r \in SockRecs /\ r.resv = key /\ (r.excl <=> ~ loc[w].reuse) /\ r.sport = key[2]
        /\ r.st = "open" /\ r.owner = w /\ r.key = NoKey
    <3>1. PICK b \in BOOLEAN : b = loc[w].reuse
      BY <1>3 DEF Handlers
    <3>2. r = Reserved(sk[s], key, b)
      BY <2>5, <3>1
    <3>3. /\ r \in SockRecs /\ r.resv = key /\ (r.excl <=> ~ b) /\ r.sport = key[2]
          /\ r.st = sk[s].st /\ r.owner = sk[s].owner /\ r.key = sk[s].key
      BY <1>3, <3>2, ReservedIs, SMT
    <3> QED BY <1>5, <3>1, <3>3
  <2>7. Sets(s) /\ sk'[s] = r
    BY <1>3, <2>1, <2>5, <2>6, SetsIs
  <2>8. key # NoKey
    BY KeysApart, SMTT(30)
  <2>9. HandlerOk(w, loc'[w], r)
    <3>1. PICK l : l = loc'[w]
      OBVIOUS
    <3>2. l.pc = pc /\ l.s \in Socks /\ l.op = loc[w].op /\ Fits(l.op, l.arg)
      BY <1>2, <1>3, <1>5, <2>4, <3>1 DEF Moves, Continues
    <3>3. HandlerOk(w, l, r)
      BY <2>2, <2>3, <2>6, <2>8, <3>2, SMT DEF HandlerOk
    <3> QED BY <3>1, <3>3
  <2>10. SockOk(s, r, loc'[w])
    BY <2>6, <2>8 DEF SockOk
  <2>11. Exclusive' /\ slots' \in [BindKeys -> Int]
    <3>1. pc \notin {"slot", "unport"} /\ (sk'[s].excl => ~ loc[w].reuse) /\ sk'[s].resv = key
      BY <2>2, <2>6, <2>7
    <3> QED BY <1>1, <1>3, <1>4, <1>5, <1>7, <2>1, <2>4, <2>7, <3>1, SlotTaken
  <2>12. Listed'
    <3>1. \A x \in Socks : sk'[x].key = sk[x].key
      BY <1>5, <2>6, <2>7 DEF Sets
    <3> QED BY <1>1, <3>1, QuietListed
  <2>13. /\ loc'[w].s = s /\ ports' \in [Ports -> [Counters -> Int]]
         /\ tuples' \in [TupleKeys -> Seq(Socks)] /\ loc[w].pc \notin {"idle", "handoff"}
    BY <1>1, <1>2, <2>4 DEF Continues, Tables
  <2> QED BY <1>1, <1>2, <2>4, <2>6, <2>7, <2>9, <2>10, <2>11, <2>12, <2>13, HandlerSound
<1> QED BY <1>6, <1>7

(* The socket gives its address up. *)
LEMMA SlotReleaseSound ==
  ASSUME Sound, NEW w \in Workers, bind_release(w)
  PROVE  Sound'
<1>1. /\ loc[w].pc = "unslot" /\ UNCHANGED <<free, ports, tuples, inbox>>
      /\ Owned /\ Exclusive /\ Listed /\ Tables
  BY DEF bind_release, Sound, Owned
<1>2. PICK s : s = loc[w].s
  OBVIOUS
<1>3. /\ At(w, s) /\ HandlerOk(w, loc[w], sk[s]) /\ SockOk(s, sk[s], loc[w]) /\ Types
      /\ s \in Socks /\ loc[w] \in Handlers /\ sk[s] \in SockRecs
  BY <1>1, <1>2, WorkingIs
<1>4. PICK key \in BindKeys : key = sk[s].resv
  BY <1>1, <1>3 DEF HandlerOk, SockRecs
<1>5. /\ sk[s].st # "none" /\ sk[s].owner = w /\ sk[s].key = NoKey
      /\ Fits(loc[w].op, loc[w].arg)
  BY <1>1, <1>3 DEF HandlerOk
<1>6. PICK l : l = [[[loc[w] EXCEPT !.pc = "unport"] EXCEPT !.key = key] EXCEPT !.try = {}]
  OBVIOUS
<1>7. PICK r : r = Unreserved(sk[s])
  OBVIOUS
<1>8. /\ slots' = [slots EXCEPT ![key] = @ - 1]
      /\ loc' = [loc EXCEPT ![w] = l] /\ sk' = [sk EXCEPT ![s] = r]
  BY <1>2, <1>3, <1>4, <1>6, <1>7 DEF bind_release, Types
<1>9. l \in Handlers
  <2>1. key \in BindKeys \cup {NoKey} /\ {} \in SUBSET Ports /\ "unport" \in PCs
    BY DEF PCs
  <2> QED BY <1>3, <1>6, <2>1 DEF Handlers
<1>10. /\ l.pc = "unport" /\ l.s = s /\ l.op = loc[w].op /\ l.arg = loc[w].arg
       /\ l.key = key /\ l.try = {}
  BY <1>2, <1>3, <1>6 DEF Handlers
<1>11. Moves(w, "unport") /\ loc'[w] = l
  BY <1>3, <1>8, <1>9, <1>10, LocIs
<1>12. /\ r \in SockRecs /\ r.resv = NoKey /\ r.excl = FALSE /\ r.st = sk[s].st /\ r.owner = w
       /\ r.key = NoKey
  BY <1>3, <1>5, <1>7, UnreservedIs
<1>13. Sets(s) /\ sk'[s] = r
  BY <1>3, <1>8, <1>12, SetsIs
<1>14. HandlerOk(w, l, r)
  BY <1>3, <1>5, <1>10, <1>12 DEF HandlerOk
<1>15. SockOk(s, r, l)
  BY <1>12 DEF SockOk
<1>16. Exclusive' /\ slots' \in [BindKeys -> Int]
  <2>1. loc[w].pc \notin {"slot", "unport"} /\ loc'[w].key = key /\ sk'[s].resv = NoKey /\ ~ sk'[s].excl
    BY <1>1, <1>10, <1>11, <1>12, <1>13
  <2> QED BY <1>1, <1>3, <1>4, <1>8, <1>11, <1>13, <2>1, SlotGiven
<1>17. Listed'
  <2>1. \A x \in Socks : sk'[x].key = sk[x].key
    BY <1>5, <1>12, <1>13 DEF Sets
  <2> QED BY <1>1, <2>1, QuietListed
<1>18. /\ ports' \in [Ports -> [Counters -> Int]] /\ tuples' \in [TupleKeys -> Seq(Socks)]
       /\ loc[w].pc \notin {"idle", "handoff"}
  BY <1>1 DEF Tables
<1> QED BY <1>1, <1>2, <1>5, <1>10, <1>11, <1>12, <1>13, <1>14, <1>15, <1>16, <1>17, <1>18,
           HandlerSound

(* The port is counted down. *)
LEMMA PortReleaseSound ==
  ASSUME Sound, NEW w \in Workers, bind_port_release(w)
  PROVE  Sound'
<1>1. /\ loc[w].pc = "unport" /\ UNCHANGED <<free, sk, slots, tuples, inbox>>
      /\ Owned /\ Exclusive /\ Listed /\ Tables
      /\ Goto(w, IF loc[w].try = {} THEN "idle" ELSE "port")
  BY DEF bind_port_release, Sound, Owned
<1>2. PICK s : s = loc[w].s
  OBVIOUS
<1>3. /\ At(w, s) /\ HandlerOk(w, loc[w], sk[s]) /\ SockOk(s, sk[s], loc[w]) /\ Types
      /\ s \in Socks /\ loc[w] \in Handlers /\ sk[s] \in SockRecs
  BY <1>1, <1>2, WorkingIs
<1>4. PICK key \in BindKeys : key = loc[w].key
  BY <1>1, <1>3 DEF HandlerOk
<1>5. PICK pc : pc = IF loc[w].try = {} THEN "idle" ELSE "port"
  OBVIOUS
<1>6. Moves(w, pc) /\ (pc = "port" => Continues(w)) /\ pc \in {"idle", "port"}
  <2>1. pc \in {"idle", "port"} /\ pc \in PCs /\ Goto(w, pc)
    BY <1>1, <1>5 DEF PCs
  <2> QED BY <1>3, <2>1, GotoIs
<1>7. /\ Sets(s) /\ sk'[s] = sk[s] /\ sk[s].owner = w /\ sk[s].resv = NoKey /\ sk[s].st # "none"
      /\ pc = "port" => sk[s].st = "open" /\ loc[w].op \in BindOps
      /\ Fits(loc[w].op, loc[w].arg)
  <2>1. Sets(s) /\ sk'[s] = sk[s]
    BY <1>1, <1>3 DEF Types, Sets
  <2>2. /\ sk[s].owner = w /\ sk[s].resv = NoKey /\ sk[s].st # "none"
        /\ loc[w].try # {} => sk[s].st = "open" /\ loc[w].op \in BindOps
        /\ Fits(loc[w].op, loc[w].arg)
    BY <1>1, <1>3 DEF HandlerOk
  <2> QED BY <1>5, <2>1, <2>2
<1>8. HandlerOk(w, loc'[w], sk[s]) /\ (pc # "idle" => loc'[w].s = s)
  BY <1>2, <1>3, <1>6, <1>7 DEF HandlerOk, Moves, Continues
<1>9. SockOk(s, sk[s], loc'[w])
  BY <1>3, <1>7 DEF SockOk
<1>10. Exclusive' /\ ports' \in [Ports -> [Counters -> Int]]
  <2>1. ports' = [ports EXCEPT ![key[2]][Counter(key[1])] = @ - 1]
    BY <1>4 DEF bind_port_release
  <2>2. pc \notin {"slot", "unport"}
    BY <1>6
  <2> QED BY <1>1, <1>4, <1>6, <2>1, <2>2, PortGiven
<1>11. Listed'
  BY <1>1, QuietListed
<1>12. /\ slots' \in [BindKeys -> Int] /\ tuples' \in [TupleKeys -> Seq(Socks)]
       /\ loc[w].pc \notin {"idle", "handoff"}
  BY <1>1 DEF Tables
<1> QED BY <1>1, <1>2, <1>6, <1>7, <1>8, <1>9, <1>10, <1>11, <1>12, HandlerSound

(* The tuple of a bound socket. *)
LEMMA TupleKeyIs ==
  ASSUME NEW so \in SockRecs, so.resv # NoKey, so.sport = so.resv[2]
  PROVE  TupleKey(so) \in TupleKeys
<1>1. so.sip \in Addrs /\ so.peer \in Peers \cup {NoPeer} /\ so.resv \in BindKeys
  BY DEF SockRecs, AnyPeer
<1>2. so.sport \in Ports
  BY <1>1 DEF BindKeys
<1> QED BY <1>1, <1>2 DEF TupleKey, TupleKeys

(* A step of a handler that leaves the reservation of its socket alone. *)
LEMMA TupleSound ==
  ASSUME Sound, NEW w \in Workers,
         loc[w].pc \in {"install", "peer", "restore", "send", "untuple"},
         NEW s, s = loc[w].s, NEW r \in SockRecs, sk' = [sk EXCEPT ![s] = r],
         r.st = sk[s].st, r.resv = sk[s].resv, r.excl = sk[s].excl, r.sport = sk[s].sport,
         UNCHANGED <<free, inbox, ports, slots>>,
         NEW pc, Moves(w, pc), pc \notin {"slot", "unport"}, pc # "idle" => loc'[w].s = s,
         Listed', tuples' \in [TupleKeys -> Seq(Socks)], HandlerOk(w, loc'[w], r),
         r.st = "closed" => r.key = NoKey /\ r.owner = w /\ pc = "unslot"
  PROVE  Sound'
<1>1. loc[w].pc \notin {"idle", "handoff"} /\ Exclusive /\ Tables
  BY DEF Sound, Owned
<1>2. /\ HandlerOk(w, loc[w], sk[s]) /\ SockOk(s, sk[s], loc[w]) /\ Types /\ s \in Socks
      /\ sk[s].st # "none"
  BY <1>1, WorkingIs DEF At
<1>3. Sets(s) /\ sk'[s] = r
  BY <1>2, SetsIs
<1>4. sk[s].resv # NoKey
  BY <1>2 DEF HandlerOk, SockOk
<1>5. SockOk(s, r, loc'[r.owner])
  BY <1>2, <1>4 DEF SockOk, Moves
<1>6. Exclusive'
  <2>1. \A x \in Socks : sk'[x].resv = sk[x].resv /\ sk'[x].excl = sk[x].excl
    BY <1>3 DEF Sets
  <2>2. loc[w].pc \notin {"slot", "unport"} /\ loc'[w].pc \notin {"slot", "unport"}
    BY DEF Moves
  <2> QED BY <1>1, <2>1, <2>2, QuietExclusive DEF Moves
<1>7. ports' \in [Ports -> [Counters -> Int]] /\ slots' \in [BindKeys -> Int]
  BY <1>1 DEF Tables
<1> QED BY <1>1, <1>2, <1>3, <1>5, <1>6, <1>7, HandlerSound

(* The socket's tuple is installed and the handler ends. *)
LEMMA InstallSound ==
  ASSUME Sound, NEW w \in Workers, loc[w].pc \in {"install", "restore"},
         NEW s, s = loc[w].s, NEW key, key = TupleKey(sk[s]), Installable(s, key),
         tuples' = Installed(s, key), NEW r \in SockRecs, sk' = [sk EXCEPT ![s] = r],
         Alike([r EXCEPT !.key = NoKey], sk[s]), r.key = key,
         UNCHANGED <<free, inbox, ports, slots>>, Goto(w, "idle")
  PROVE  Sound'
<1>1. loc[w].pc \notin {"idle", "handoff"} /\ Listed /\ Tables
  BY DEF Sound, Owned
<1>2. /\ HandlerOk(w, loc[w], sk[s]) /\ SockOk(s, sk[s], loc[w]) /\ Types /\ s \in Socks
      /\ sk[s] \in SockRecs
  BY <1>1, WorkingIs
<1>3. sk[s].st = "open" /\ sk[s].resv # NoKey /\ sk[s].key = NoKey /\ sk[s].sport = sk[s].resv[2]
  BY <1>2 DEF HandlerOk, SockOk
<1>4. key \in TupleKeys
  BY <1>2, <1>3, TupleKeyIs
<1>5. Sets(s) /\ sk'[s] = r
  BY <1>2, SetsIs
<1>6. Listed' /\ tuples' \in [TupleKeys -> Seq(Socks)]
  BY <1>1, <1>2, <1>3, <1>4, <1>5, InstallListed
<1>7. Moves(w, "idle") /\ HandlerOk(w, loc'[w], r)
  BY <1>2, GotoIs DEF PCs, Moves, HandlerOk
<1>8. r.st = sk[s].st /\ r.resv = sk[s].resv /\ r.excl = sk[s].excl /\ r.sport = sk[s].sport
  BY DEF Alike, SockRecs
<1> QED BY <1>3, <1>5, <1>6, <1>7, <1>8, TupleSound

(* udp_bind() installs the tuple, or starts to undo the bind. *)
LEMMA InstallBindSound ==
  ASSUME Sound, NEW w \in Workers, InstallBind(w)
  PROVE  Sound'
<1>1. /\ loc[w].pc = "install" /\ loc[w].op = "bind" /\ UNCHANGED <<free, ports, slots, inbox>>
      /\ Listed /\ Tables
  BY DEF InstallBind, Sound, Owned
<1>2. PICK s : s = loc[w].s
  OBVIOUS
<1>3. /\ HandlerOk(w, loc[w], sk[s]) /\ SockOk(s, sk[s], loc[w]) /\ Types /\ s \in Socks
      /\ sk[s] \in SockRecs /\ loc[w] \in Handlers
  BY <1>1, <1>2, WorkingIs
<1>4. sk[s].st = "open" /\ sk[s].resv # NoKey /\ sk[s].key = NoKey /\ sk[s].sport = sk[s].resv[2]
      /\ sk[s].owner = w
  BY <1>1, <1>3 DEF HandlerOk, SockOk
<1>5. PICK key \in TupleKeys : key = TupleKey(sk[s])
  BY <1>3, <1>4, TupleKeyIs
<1>6. CASE Installable(s, key)
  <2>1. PICK r : r = [sk[s] EXCEPT !.key = key]
    OBVIOUS
  <2>2. tuples' = Installed(s, key) /\ sk' = [sk EXCEPT ![s] = r] /\ Goto(w, "idle")
    BY <1>2, <1>5, <1>6, <2>1 DEF InstallBind
  <2>3. r \in SockRecs /\ r.key = key
    BY <1>3, <2>1 DEF SockRecs
  <2>4. Alike([r EXCEPT !.key = NoKey], sk[s])
    BY <1>3, <1>4, <2>1, <2>3 DEF SockRecs, Alike
  <2> QED BY <1>1, <1>2, <1>5, <1>6, <2>2, <2>3, <2>4, InstallSound
<1>7. CASE ~ Installable(s, key)
  <2>1. UNCHANGED <<tuples, sk>> /\ Goto(w, "unslot")
    BY <1>2, <1>5, <1>7 DEF InstallBind
  <2>2. Moves(w, "unslot") /\ Continues(w)
    BY <1>3, <2>1, GotoIs, SMTT(30) DEF PCs
  <2>3. HandlerOk(w, loc'[w], sk[s]) /\ loc'[w].s = s
    BY <1>1, <1>2, <1>3, <1>4, <2>2 DEF HandlerOk, Moves, Continues
  <2>4. sk' = [sk EXCEPT ![s] = sk[s]]
    BY <1>3, <2>1 DEF Types
  <2>5. Listed' /\ tuples' \in [TupleKeys -> Seq(Socks)]
    BY <1>1, <2>1, QuietListed DEF Tables
  <2> QED BY <1>1, <1>2, <1>3, <1>4, <2>1, <2>2, <2>3, <2>4, <2>5, TupleSound
<1> QED BY <1>6, <1>7

(* set_socket_worker(): only the owner changes besides so, and the handler *)
(* keeps its request.                                                      *)
LEMMA MigrateIs ==
  ASSUME Types, NEW w \in Workers, NEW s \in Socks, s = loc[w].s, NEW v \in Workers,
         NEW so \in SockRecs, Migrate(w, v, so), NEW r, r = [so EXCEPT !.owner = v]
  PROVE  /\ r \in SockRecs /\ sk' = [sk EXCEPT ![s] = r] /\ r.st = so.st /\ r.resv = so.resv
         /\ r.excl = so.excl /\ r.sport = so.sport /\ r.key = so.key
         /\ Moves(w, "handoff") /\ loc'[w].s = s /\ loc'[w].to = v
         /\ loc'[w].op = loc[w].op /\ loc'[w].arg = loc[w].arg
<1>1. loc[w] \in Handlers
  BY DEF Types
<1>2. PICK l : l = [[loc[w] EXCEPT !.pc = "handoff"] EXCEPT !.to = v]
  OBVIOUS
<1>3. loc' = [loc EXCEPT ![w] = l]
  BY <1>1, <1>2 DEF Migrate, Types
<1>4. l \in Handlers
  <2>1. "handoff" \in PCs /\ v \in Workers \cup {"-"}
    BY DEF PCs
  <2> QED BY <1>1, <1>2, <2>1 DEF Handlers
<1>5. l.pc = "handoff" /\ l.s = s /\ l.to = v /\ l.op = loc[w].op /\ l.arg = loc[w].arg
  BY <1>1, <1>2 DEF Handlers
<1>6. Moves(w, "handoff") /\ loc'[w] = l
  BY <1>3, <1>4, <1>5, LocIs
<1>7. /\ r \in SockRecs /\ r.st = so.st /\ r.resv = so.resv
      /\ r.excl = so.excl /\ r.sport = so.sport /\ r.key = so.key
  BY DEF SockRecs
<1>8. sk' = [sk EXCEPT ![s] = r]
  BY DEF Migrate
<1> QED BY <1>5, <1>6, <1>7, <1>8

(* The socket goes to another worker. *)
LEMMA MigrateSound ==
  ASSUME Sound, NEW w \in Workers, loc[w].pc \in {"peer", "send"}, NEW s, s = loc[w].s,
         NEW v \in Workers, NEW so \in SockRecs, so.st = sk[s].st, so.resv = sk[s].resv,
         so.excl = sk[s].excl, so.sport = sk[s].sport, Migrate(w, v, so),
         UNCHANGED <<free, inbox, ports, slots>>, tuples' \in [TupleKeys -> Seq(Socks)],
         Listed'
  PROVE  Sound'
<1>1. loc[w].pc \notin {"idle", "handoff"}
  OBVIOUS
<1>2. HandlerOk(w, loc[w], sk[s]) /\ Types /\ s \in Socks
  BY <1>1, WorkingIs, SMTT(30)
<1>3. /\ Fits(loc[w].op, loc[w].arg) /\ sk[s].st = "open" /\ loc[w].op \in {"connect", "send"}
  BY <1>2 DEF HandlerOk
<1>4. PICK r : r = [so EXCEPT !.owner = v]
  OBVIOUS
<1>5. /\ r \in SockRecs /\ sk' = [sk EXCEPT ![s] = r] /\ r.st = so.st /\ r.resv = so.resv
      /\ r.excl = so.excl /\ r.sport = so.sport
      /\ Moves(w, "handoff") /\ loc'[w].s = s /\ loc'[w].to = v
      /\ loc'[w].op = loc[w].op /\ loc'[w].arg = loc[w].arg
  BY <1>2, <1>4, MigrateIs, SMTT(30)
<1>6. HandlerOk(w, loc'[w], r)
  BY <1>2, <1>3, <1>5 DEF HandlerOk, Moves
<1> QED BY <1>3, <1>5, <1>6, TupleSound

(* udp_connect() takes the old tuple out; the socket stays, or migrates. *)
LEMMA ConnectPeerSound ==
  ASSUME Sound, NEW w \in Workers, ConnectPeer(w)
  PROVE  Sound'
<1>1. /\ loc[w].pc = "peer" /\ UNCHANGED <<free, ports, slots, inbox>>
      /\ Listed /\ Tables
  BY DEF ConnectPeer, Sound, Owned
<1>2. PICK s : s = loc[w].s
  OBVIOUS
<1>3. /\ HandlerOk(w, loc[w], sk[s]) /\ SockOk(s, sk[s], loc[w]) /\ Types /\ s \in Socks
      /\ sk[s] \in SockRecs /\ loc[w] \in Handlers
  BY <1>1, <1>2, WorkingIs, SMTT(30)
<1>4. /\ sk[s].st = "open" /\ sk[s].resv # NoKey /\ sk[s].sport = sk[s].resv[2]
      /\ sk[s].owner = w /\ loc[w].op = "connect" /\ loc[w].arg \in Peers
      /\ Fits(loc[w].op, loc[w].arg)
  BY <1>1, <1>3 DEF HandlerOk, SockOk, Fits
<1>5. PICK so : so = [[sk[s] EXCEPT !.peer = loc[w].arg] EXCEPT !.key = NoKey]
  OBVIOUS
<1>6. so \in SockRecs
  <2>1. loc[w].arg \in AnyPeer /\ NoKey \in TupleKeys \cup {NoKey}
    BY <1>4 DEF AnyPeer
  <2> QED BY <1>3, <1>5, <2>1 DEF SockRecs
<1>7. /\ so.st = sk[s].st /\ so.resv = sk[s].resv /\ so.excl = sk[s].excl
      /\ so.sport = sk[s].sport /\ so.key = NoKey /\ so.owner = sk[s].owner
  BY <1>3, <1>5 DEF SockRecs
<1>8. PICK v : v = Steer(TupleKey(so))
  OBVIOUS
<1>9. v \in Workers
  <2>1. TupleKey(so) \in TupleKeys
    BY <1>4, <1>6, <1>7, TupleKeyIs
  <2> QED BY <1>8, <2>1, SocketsAssumption
<1>10. ASSUME Sets(s), sk'[s].key = NoKey
       PROVE  Listed' /\ tuples' \in [TupleKeys -> Seq(Socks)]
  <2>1. CASE sk[s].key = NoKey
    <3>1. tuples' = tuples /\ \A x \in Socks : sk'[x].key = sk[x].key
      BY <1>2, <1>10, <2>1 DEF ConnectPeer, Hashed, Sets
    <3> QED BY <1>1, <3>1, QuietListed DEF Tables
  <2>2. CASE sk[s].key # NoKey
    <3>1. tuples' = Uninstalled(s) /\ sk[s].key \in TupleKeys
      BY <1>2, <1>3, <2>2, SMTT(30) DEF ConnectPeer, Hashed, SockRecs
    <3> QED BY <1>1, <1>3, <1>10, <3>1, UninstallListed, SMTT(30)
  <2> QED BY <2>1, <2>2
<1>11. CASE v # w
  <2>1. Migrate(w, v, so)
    BY <1>2, <1>5, <1>8, <1>11 DEF ConnectPeer
  <2>2. PICK r : r = [so EXCEPT !.owner = v]
    OBVIOUS
  <2>3. r \in SockRecs /\ sk' = [sk EXCEPT ![s] = r] /\ r.key = NoKey
    BY <1>2, <1>3, <1>6, <1>7, <1>9, <2>1, <2>2, MigrateIs, SMT
  <2>4. Sets(s) /\ sk'[s].key = NoKey
    BY <1>3, <2>3, SetsIs
  <2> QED BY <1>1, <1>2, <1>6, <1>7, <1>9, <1>10, <2>1, <2>4, MigrateSound
<1>12. CASE v = w
  <2>1. PICK old \in AnyPeer \X BOOLEAN : old = <<sk[s].peer, Hashed(s)>>
    <3>1. sk[s].peer \in AnyPeer
      BY <1>3 DEF SockRecs
    <3>2. Hashed(s) \in BOOLEAN
      BY DEF Hashed
    <3> QED BY <3>1, <3>2
  <2>2. PICK l : l = [[loc[w] EXCEPT !.pc = "install"] EXCEPT !.old = old]
    OBVIOUS
  <2>3. sk' = [sk EXCEPT ![s] = so] /\ loc' = [loc EXCEPT ![w] = l]
    BY <1>2, <1>3, <1>5, <1>8, <1>12, <2>1, <2>2 DEF ConnectPeer, Types
  <2>4. l \in Handlers
    <3>1. "install" \in PCs /\ old \in (AnyPeer \X BOOLEAN) \cup {NoKey}
      BY DEF PCs
    <3> QED BY <1>3, <2>2, <3>1 DEF Handlers
  <2>5. /\ l.pc = "install" /\ l.s = s /\ l.op = loc[w].op /\ l.arg = loc[w].arg /\ l.old = old
    BY <1>2, <1>3, <2>2 DEF Handlers
  <2>6. Moves(w, "install") /\ loc'[w] = l
    BY <1>3, <2>3, <2>4, <2>5, LocIs
  <2>7. old # NoKey
    BY PairsApart
  <2>8. HandlerOk(w, l, so)
    BY <1>3, <1>4, <1>7, <2>5, <2>7 DEF HandlerOk
  <2>9. Sets(s) /\ sk'[s].key = NoKey
    BY <1>3, <1>6, <1>7, <2>3, SetsIs
  <2> QED BY <1>1, <1>2, <1>4, <1>6, <1>7, <1>10, <2>3, <2>5, <2>6, <2>8, <2>9, TupleSound
<1> QED BY <1>11, <1>12

(* udp_connect() installs the new tuple, or takes the old peer back. *)
LEMMA InstallConnectSound ==
  ASSUME Sound, NEW w \in Workers, InstallConnect(w)
  PROVE  Sound'
<1>1. /\ loc[w].pc = "install" /\ loc[w].op = "connect" /\ UNCHANGED <<free, ports, slots, inbox>>
      /\ Listed /\ Tables
  BY DEF InstallConnect, Sound, Owned
<1>2. PICK s : s = loc[w].s
  OBVIOUS
<1>3. /\ HandlerOk(w, loc[w], sk[s]) /\ SockOk(s, sk[s], loc[w]) /\ Types /\ s \in Socks
      /\ sk[s] \in SockRecs /\ loc[w] \in Handlers
  BY <1>1, <1>2, WorkingIs
<1>4. /\ sk[s].st = "open" /\ sk[s].resv # NoKey /\ sk[s].key = NoKey
      /\ sk[s].sport = sk[s].resv[2] /\ sk[s].owner = w /\ Fits(loc[w].op, loc[w].arg)
      /\ loc[w].old[1] \in AnyPeer
  BY <1>1, <1>3 DEF HandlerOk, SockOk, Handlers
<1>5. PICK key \in TupleKeys : key = TupleKey(sk[s])
  BY <1>3, <1>4, TupleKeyIs
<1>6. CASE Installable(s, key)
  <2>1. PICK r : r = [[sk[s] EXCEPT !.key = key] EXCEPT !.conn = TRUE]
    OBVIOUS
  <2>2. tuples' = Installed(s, key) /\ sk' = [sk EXCEPT ![s] = r] /\ Goto(w, "idle")
    BY <1>2, <1>3, <1>5, <1>6, <2>1 DEF InstallConnect, Types
  <2>3. r \in SockRecs /\ r.key = key
    BY <1>3, <2>1 DEF SockRecs
  <2>4. Alike([r EXCEPT !.key = NoKey], sk[s])
    BY <1>3, <1>4, <2>1, <2>3 DEF SockRecs, Alike
  <2> QED BY <1>1, <1>2, <1>5, <1>6, <2>2, <2>3, <2>4, InstallSound
<1>7. CASE ~ Installable(s, key)
  <2>1. PICK r : r = [sk[s] EXCEPT !.peer = loc[w].old[1]]
    OBVIOUS
  <2>2. PICK pc : pc = IF loc[w].old[2] THEN "restore" ELSE "idle"
    OBVIOUS
  <2>3. tuples' = tuples /\ sk' = [sk EXCEPT ![s] = r] /\ Goto(w, pc)
    BY <1>2, <1>5, <1>7, <2>1, <2>2 DEF InstallConnect
  <2>4. r \in SockRecs
    BY <1>3, <1>4, <2>1 DEF SockRecs
  <2>5. /\ r.st = "open" /\ r.resv = sk[s].resv /\ r.excl = sk[s].excl /\ r.sport = sk[s].sport
        /\ r.key = NoKey /\ r.owner = w
    BY <1>3, <1>4, <2>1 DEF SockRecs
  <2>6. pc \in {"restore", "idle"} /\ pc \in PCs
    BY <2>2 DEF PCs
  <2>7. Moves(w, pc) /\ (pc # "idle" => Continues(w))
    BY <1>3, <2>3, <2>6, GotoIs, SMTT(30)
  <2>8. HandlerOk(w, loc'[w], r) /\ (pc # "idle" => loc'[w].s = s)
    BY <1>1, <1>2, <1>3, <1>4, <2>5, <2>6, <2>7 DEF HandlerOk, Moves, Continues
  <2>9. Listed' /\ tuples' \in [TupleKeys -> Seq(Socks)]
    <3>1. \A x \in Socks : sk'[x].key = sk[x].key
      BY <1>3, <1>4, <2>3, <2>4, <2>5, SetsIs DEF Sets
    <3> QED BY <1>1, <2>3, <3>1, QuietListed DEF Tables
  <2>10. r.st = sk[s].st /\ r.st # "closed" /\ pc \notin {"slot", "unport"}
    BY <1>4, <2>5, <2>6
  <2> QED BY <1>1, <1>2, <2>3, <2>4, <2>5, <2>7, <2>8, <2>9, <2>10, TupleSound
<1> QED BY <1>6, <1>7

(* The old tuple comes back, or stays out. *)
LEMMA RestoreConnectSound ==
  ASSUME Sound, NEW w \in Workers, RestoreConnect(w)
  PROVE  Sound'
<1>1. /\ loc[w].pc = "restore" /\ UNCHANGED <<free, ports, slots, inbox>> /\ Goto(w, "idle")
      /\ Listed /\ Tables
  BY DEF RestoreConnect, Sound, Owned
<1>2. PICK s : s = loc[w].s
  OBVIOUS
<1>3. /\ HandlerOk(w, loc[w], sk[s]) /\ SockOk(s, sk[s], loc[w]) /\ Types /\ s \in Socks
      /\ sk[s] \in SockRecs /\ loc[w] \in Handlers
  BY <1>1, <1>2, WorkingIs
<1>4. /\ sk[s].st = "open" /\ sk[s].resv # NoKey /\ sk[s].key = NoKey
      /\ sk[s].sport = sk[s].resv[2] /\ sk[s].owner = w
  BY <1>1, <1>3 DEF HandlerOk, SockOk
<1>5. PICK key \in TupleKeys : key = TupleKey(sk[s])
  BY <1>3, <1>4, TupleKeyIs
<1>6. CASE Installable(s, key)
  <2>1. PICK r : r = [sk[s] EXCEPT !.key = key]
    OBVIOUS
  <2>2. tuples' = Installed(s, key) /\ sk' = [sk EXCEPT ![s] = r]
    BY <1>2, <1>5, <1>6, <2>1 DEF RestoreConnect
  <2>3. r \in SockRecs /\ r.key = key
    BY <1>3, <2>1 DEF SockRecs
  <2>4. Alike([r EXCEPT !.key = NoKey], sk[s])
    BY <1>3, <1>4, <2>1, <2>3 DEF SockRecs, Alike
  <2> QED BY <1>1, <1>2, <1>5, <1>6, <2>2, <2>3, <2>4, InstallSound
<1>7. CASE ~ Installable(s, key)
  <2>1. UNCHANGED <<tuples, sk>>
    BY <1>2, <1>5, <1>7 DEF RestoreConnect
  <2>2. Moves(w, "idle") /\ HandlerOk(w, loc'[w], sk[s])
    BY <1>1, <1>3, GotoIs DEF PCs, Moves, HandlerOk
  <2>3. sk' = [sk EXCEPT ![s] = sk[s]]
    BY <1>3, <2>1 DEF Types
  <2>4. Listed' /\ tuples' \in [TupleKeys -> Seq(Socks)]
    BY <1>1, <2>1, QuietListed DEF Tables
  <2> QED BY <1>1, <1>2, <1>3, <1>4, <2>2, <2>3, <2>4, TupleSound
<1> QED BY <1>6, <1>7

(* udp_sendto() sends, or moves the socket. *)
LEMMA SendOutSound ==
  ASSUME Sound, NEW w \in Workers, SendOut(w)
  PROVE  Sound'
<1>1. /\ loc[w].pc = "send" /\ UNCHANGED <<free, ports, slots, tuples, inbox>>
      /\ Listed /\ Tables
  BY DEF SendOut, Sound, Owned
<1>2. PICK s : s = loc[w].s
  OBVIOUS
<1>3. /\ HandlerOk(w, loc[w], sk[s]) /\ SockOk(s, sk[s], loc[w]) /\ Types /\ s \in Socks
      /\ sk[s] \in SockRecs /\ loc[w] \in Handlers
  BY <1>1, <1>2, WorkingIs
<1>4. /\ sk[s].st = "open" /\ sk[s].resv # NoKey /\ sk[s].sport = sk[s].resv[2]
      /\ sk[s].owner = w /\ loc[w].op = "send" /\ loc[w].arg \in AnyPeer
  BY <1>1, <1>3 DEF HandlerOk, SockOk, Fits
<1>5. PICK dest \in AnyPeer : dest = IF sk[s].conn THEN sk[s].peer ELSE loc[w].arg
  BY <1>3, <1>4 DEF SockRecs
<1>6. PICK out : out = [[sk[s] EXCEPT !.sip = LocalAddr] EXCEPT !.peer = dest]
  OBVIOUS
<1>7. out \in SockRecs
  <2>1. LocalAddr \in Addrs
    BY DEF Addrs
  <2> QED BY <1>3, <1>6, <2>1 DEF SockRecs
<1>8. /\ out.st = sk[s].st /\ out.resv = sk[s].resv /\ out.excl = sk[s].excl
      /\ out.sport = sk[s].sport /\ out.key = sk[s].key
  BY <1>3, <1>6 DEF SockRecs
<1>9. PICK v \in Workers : v = Steer(TupleKey(out))
  <2>1. TupleKey(out) \in TupleKeys
    BY <1>4, <1>7, <1>8, TupleKeyIs
  <2> QED BY <2>1, SocketsAssumption
<1>10. CASE Goto(w, "idle") /\ UNCHANGED sk
  <2>1. Moves(w, "idle") /\ HandlerOk(w, loc'[w], sk[s])
    BY <1>3, <1>10, GotoIs DEF PCs, Moves, HandlerOk
  <2>2. sk' = [sk EXCEPT ![s] = sk[s]]
    BY <1>3, <1>10 DEF Types
  <2>3. Listed' /\ tuples' \in [TupleKeys -> Seq(Socks)]
    BY <1>1, <1>10, QuietListed, SMTT(30) DEF Tables
  <2> QED BY <1>1, <1>2, <1>3, <1>4, <2>1, <2>2, <2>3, TupleSound
<1>11. CASE Migrate(w, v, out)
  <2>1. PICK r : r = [out EXCEPT !.owner = v]
    OBVIOUS
  <2>2. r \in SockRecs /\ sk' = [sk EXCEPT ![s] = r] /\ r.key = sk[s].key
    BY <1>2, <1>3, <1>7, <1>8, <1>11, <2>1, MigrateIs, SMT
  <2>3. \A x \in Socks : sk'[x].key = sk[x].key
    BY <1>3, <2>2, SetsIs DEF Sets
  <2>4. Listed' /\ tuples' \in [TupleKeys -> Seq(Socks)]
    BY <1>1, <2>3, QuietListed DEF Tables
  <2> QED BY <1>1, <1>2, <1>7, <1>8, <1>11, <2>4, MigrateSound
<1> QED BY <1>2, <1>5, <1>6, <1>9, <1>10, <1>11 DEF SendOut

(* change_req_worker(): the request follows; the socket may be anywhere. *)
LEMMA ChangeWorkerSound ==
  ASSUME Sound, NEW w \in Workers, change_req_worker(w)
  PROVE  Sound'
<1>1. /\ loc[w].pc = "handoff" /\ Goto(w, "idle")
      /\ UNCHANGED <<free, sk, ports, slots, tuples>>
      /\ Types /\ Tables /\ FreeSlots /\ Exclusive /\ Listed
      /\ (\A u \in Workers : HandlerAt(u)) /\ \A s \in Socks : SockAt(s)
  BY DEF change_req_worker, Sound, Owned
<1>2. HandlerOk(w, loc[w], sk[loc[w].s]) /\ loc[w] \in Handlers
  BY <1>1 DEF HandlerAt, Types
<1>3. /\ loc[w].s \in Socks /\ Fits(loc[w].op, loc[w].arg) /\ loc[w].to \in Workers
      /\ loc[w].op \in OpNames /\ loc[w].arg \in Args /\ loc[w].hops + 1 \in Int
  BY <1>1, <1>2, SMT DEF HandlerOk, Handlers, OpNames
<1>4. Moves(w, "idle")
  BY <1>1, GotoIs DEF PCs
<1>5. Types'
  <2>1. PICK r : r = [s |-> loc[w].s, op |-> loc[w].op, arg |-> loc[w].arg, port |-> 0,
                      hops |-> loc[w].hops + 1]
    OBVIOUS
  <2>2. r \in Reqs
    <3>1. 0 \in AnyPort
      BY DEF AnyPort
    <3>2. r \in [s : Socks, op : OpNames, arg : Args, port : AnyPort, hops : Int]
      BY <1>3, <2>1, <3>1
    <3>3. r.op = loc[w].op /\ r.arg = loc[w].arg
      BY <2>1
    <3> QED BY <1>3, <3>2, <3>3 DEF Reqs
  <2>3. inbox' = [inbox EXCEPT ![loc[w].to] = Append(@, r)]
    BY <2>1 DEF change_req_worker
  <2>4. inbox' \in [Workers -> Seq(Reqs)]
    BY <1>1, <1>3, <2>2, <2>3, QueueIs DEF Types
  <2> QED BY <1>1, <1>4, <2>4 DEF Types, Moves
<1>6. ASSUME NEW u \in Workers PROVE HandlerAt(u)'
  <2>1. CASE u = w
    BY <1>4, <2>1 DEF HandlerAt, HandlerOk, Moves
  <2>2. CASE u # w
    <3>1. loc'[u] = loc[u]
      BY <1>4, <2>2 DEF Moves
    <3> QED BY <1>1, <3>1 DEF HandlerAt
  <2> QED BY <2>1, <2>2
<1>7. ASSUME NEW s \in Socks PROVE SockAt(s)'
  <2>1. CASE sk[s].owner = w
    <3>1. SockOk(s, sk[s], loc[w]) /\ sk' = sk
      BY <1>1, <2>1 DEF SockAt
    <3>2. SockOk(s, sk[s], loc'[w])
      BY <1>1, <3>1 DEF SockOk
    <3> QED BY <2>1, <3>1, <3>2 DEF SockAt
  <2>2. CASE sk[s].owner # w
    <3>1. sk[s].owner \in Workers
      BY <1>1 DEF Types, SockRecs
    <3>2. loc'[sk[s].owner] = loc[sk[s].owner]
      BY <1>4, <2>2, <3>1 DEF Moves
    <3> QED BY <1>1, <3>2 DEF SockAt
  <2> QED BY <2>1, <2>2
<1>8. Exclusive'
  <2>1. loc[w].pc \notin {"slot", "unport"} /\ loc'[w].pc \notin {"slot", "unport"}
    BY <1>1, <1>4 DEF Moves
  <2> QED BY <1>1, <1>4, <2>1, QuietExclusive DEF Moves
<1>9. Listed'
  BY <1>1, QuietListed
<1>10. Tables' /\ FreeSlots'
  BY <1>1 DEF Tables, FreeSlots
<1> QED BY <1>5, <1>6, <1>7, <1>8, <1>9, <1>10 DEF Sound, Owned

(* _close(): the socket is closed and, if it is bound, being destroyed. *)
LEMMA CloseSound ==
  ASSUME Sound, NEW w \in Workers, _close(w)
  PROVE  Sound'
<1>1. /\ Taken(w, "close") /\ Pop(w) /\ UNCHANGED <<free, ports, slots, tuples>>
      /\ Types /\ Tables /\ Exclusive /\ Listed /\ \A x \in Socks : SockAt(x)
  BY DEF _close, Sound, Owned
<1>2. PICK s \in Socks : s = Next1(w).s
  BY <1>1, TakenIs
<1>3. /\ inbox[w] # <<>> /\ Next1(w).op = "close" /\ At(w, s) /\ loc[w].pc = "idle"
      /\ sk[s].st = "open" /\ sk[s].owner = w /\ sk[s] \in SockRecs
  BY <1>1, <1>2, TakenIs DEF At
<1>4. SockOk(s, sk[s], loc[w])
  BY <1>1, <1>3 DEF SockAt
<1>5. PICK r : r = [sk[s] EXCEPT !.st = "closed"]
  OBVIOUS
<1>6. sk' = [sk EXCEPT ![s] = r]
  BY <1>2, <1>5 DEF _close
<1>7. r \in SockRecs
  <2>1. "closed" \in {"open", "closed", "none"}
    OBVIOUS
  <2> QED BY <1>3, <1>5, <2>1 DEF SockRecs
<1>8. /\ r.st = "closed" /\ r.owner = w /\ r.resv = sk[s].resv /\ r.excl = sk[s].excl
      /\ r.key = sk[s].key /\ r.sport = sk[s].sport
  BY <1>3, <1>5 DEF SockRecs
<1>9. Sets(s) /\ sk'[s] = r
  BY <1>1, <1>6, <1>7, SetsIs
<1>10. inbox' \in [Workers -> Seq(Reqs)] /\ Fits("close", Next1(w).arg)
  BY <1>1, <1>3, NextIs
<1>11. ASSUME NEW pc \in {"idle", "untuple", "unslot"}, Moves(w, pc),
              pc # "idle" => loc'[w].s = s /\ loc'[w].op = "close" /\ loc'[w].arg = Next1(w).arg,
              pc = "untuple" <=> sk[s].key # NoKey,
              pc = "unslot" <=> sk[s].key = NoKey /\ sk[s].resv # NoKey
       PROVE  Sound'
  <2>1. Types' /\ Tables'
    <3>1. sk' \in [Socks -> SockRecs] /\ loc' \in [Workers -> Handlers]
      BY <1>9, <1>11 DEF Sets, Moves
    <3>2. Tables'
      BY <1>1 DEF Tables
    <3> QED BY <1>10, <3>1, <3>2 DEF Types
  <2>2. HandlerOk(w, loc'[w], r)
    <3>1. PICK l : l = loc'[w]
      OBVIOUS
    <3>2. /\ l.pc = pc /\ pc \in {"idle", "untuple", "unslot"}
          /\ pc # "idle" => l.s \in Socks /\ l.op = "close" /\ Fits(l.op, l.arg)
      BY <1>2, <1>10, <1>11, <3>1 DEF Moves
    <3>3. /\ r.st = "closed" /\ r.owner = w
          /\ pc = "untuple" => r.key # NoKey
          /\ pc = "unslot" => r.key = NoKey /\ r.resv # NoKey
      BY <1>8, <1>11
    <3>4. pc = "untuple" => HandlerOk(w, l, r)
      BY <3>2, <3>3, SMT DEF HandlerOk
    <3>5. pc = "unslot" => HandlerOk(w, l, r)
      BY <3>2, <3>3, SMT DEF HandlerOk
    <3>6. pc = "idle" => HandlerOk(w, l, r)
      BY <3>2 DEF HandlerOk
    <3> QED BY <3>1, <3>2, <3>4, <3>5, <3>6
  <2>3. SockOk(s, r, loc'[w])
    BY <1>4, <1>8, <1>11 DEF SockOk, Moves
  <2>4. Exclusive'
    <3>1. \A x \in Socks : sk'[x].resv = sk[x].resv /\ sk'[x].excl = sk[x].excl
      BY <1>8, <1>9 DEF Sets
    <3>2. loc[w].pc \notin {"slot", "unport"} /\ loc'[w].pc \notin {"slot", "unport"}
      BY <1>3, <1>11 DEF Moves
    <3> QED BY <1>1, <1>11, <3>1, <3>2, QuietExclusive DEF Moves
  <2>5. Listed'
    <3>1. \A x \in Socks : sk'[x].key = sk[x].key
      BY <1>8, <1>9 DEF Sets
    <3> QED BY <1>1, <3>1, QuietListed
  <2>6. r.st # "none" /\ free' = free
    BY <1>1, <1>8
  <2> QED BY <1>3, <1>8, <1>9, <1>11, <2>1, <2>2, <2>3, <2>4, <2>5, <2>6, StepSound, SMT
<1>12. ASSUME NEW pc \in {"untuple", "unslot"}, Enter(w, pc, AnyAddr, FALSE, {})
       PROVE  Moves(w, pc) /\ loc'[w].s = s /\ loc'[w].op = "close" /\ loc'[w].arg = Next1(w).arg
  <2>1. pc \in PCs /\ AnyAddr \in Addrs /\ {} \in SUBSET Ports
    BY DEF PCs, Addrs
  <2>2. Enters(w, pc, AnyAddr, FALSE, {})
    BY <1>1, <1>3, <1>12, <2>1, EnterIs
  <2> QED BY <1>2, <1>3, <2>2 DEF Enters
<1>13. CASE sk[s].key # NoKey
  <2>1. Enter(w, "untuple", AnyAddr, FALSE, {})
    BY <1>2, <1>13 DEF _close, Hashed
  <2> QED BY <1>11, <1>12, <1>13, <2>1
<1>14. CASE sk[s].key = NoKey /\ sk[s].resv # NoKey
  <2>1. Enter(w, "unslot", AnyAddr, FALSE, {})
    BY <1>2, <1>14 DEF _close, Hashed, Bound
  <2> QED BY <1>11, <1>12, <1>14, <2>1
<1>15. CASE sk[s].key = NoKey /\ sk[s].resv = NoKey
  <2>1. loc' = loc
    BY <1>2, <1>15 DEF _close, Hashed, Bound
  <2>2. Moves(w, "idle")
    BY <1>1, <1>3, <2>1, SMT DEF Moves, Types
  <2> QED BY <1>11, <1>15, <2>2
<1> QED BY <1>13, <1>14, <1>15

(* destroy_socket() takes the tuple out and goes on with the bind. *)
LEMMA DestroySound ==
  ASSUME Sound, NEW w \in Workers, destroy_socket(w)
  PROVE  Sound'
<1>1. /\ loc[w].pc = "untuple" /\ UNCHANGED <<free, ports, slots, inbox>> /\ Listed /\ Tables
  BY DEF destroy_socket, Sound, Owned
<1>2. PICK s : s = loc[w].s
  OBVIOUS
<1>3. /\ HandlerOk(w, loc[w], sk[s]) /\ SockOk(s, sk[s], loc[w]) /\ Types /\ s \in Socks
      /\ sk[s] \in SockRecs /\ loc[w] \in Handlers
  BY <1>1, <1>2, WorkingIs
<1>4. /\ sk[s].st = "closed" /\ sk[s].key # NoKey /\ sk[s].resv # NoKey /\ sk[s].owner = w
      /\ Fits(loc[w].op, loc[w].arg)
  BY <1>1, <1>3 DEF HandlerOk, SockOk
<1>5. PICK r : r = [sk[s] EXCEPT !.key = NoKey]
  OBVIOUS
<1>6. tuples' = Uninstalled(s) /\ sk' = [sk EXCEPT ![s] = r] /\ Goto(w, "unslot")
  BY <1>2, <1>4, <1>5 DEF destroy_socket, Bound
<1>7. r \in SockRecs
  <2>1. NoKey \in TupleKeys \cup {NoKey}
    OBVIOUS
  <2> QED BY <1>3, <1>5, <2>1 DEF SockRecs
<1>8. /\ r.st = sk[s].st /\ r.owner = w /\ r.resv = sk[s].resv /\ r.excl = sk[s].excl
      /\ r.key = NoKey /\ r.sport = sk[s].sport
  BY <1>3, <1>4, <1>5 DEF SockRecs
<1>9. Sets(s) /\ sk'[s] = r
  BY <1>3, <1>6, <1>7, SetsIs
<1>10. Listed' /\ tuples' \in [TupleKeys -> Seq(Socks)]
  <2>1. sk[s].key \in TupleKeys
    BY <1>3, <1>4 DEF SockRecs
  <2> QED BY <1>1, <1>3, <1>6, <1>8, <1>9, <2>1, UninstallListed
<1>11. Moves(w, "unslot") /\ Continues(w)
  BY <1>3, <1>6, GotoIs DEF PCs
<1>12. HandlerOk(w, loc'[w], r) /\ loc'[w].s = s
  BY <1>1, <1>2, <1>3, <1>4, <1>8, <1>11 DEF HandlerOk, Moves, Continues
<1>13. loc[w].pc \in {"install", "peer", "restore", "send", "untuple"}
  BY <1>1
<1>14. "unslot" \notin {"slot", "unport"}
  OBVIOUS
<1> QED BY <1>1, <1>2, <1>6, <1>7, <1>8, <1>10, <1>11, <1>12, <1>13, <1>14, TupleSound

-----------------------------------------------------------------------------
(* The slots of the fd table. *)

(* An unbound socket that no handler works on is replaced by another. *)
LEMMA SlotSound ==
  ASSUME Sound, NEW s \in Socks, NEW r \in SockRecs, sk' = [sk EXCEPT ![s] = r],
         sk[s].resv = NoKey, r.resv = NoKey, r.excl = FALSE, r.key = NoKey,
         \A w \in Workers : loc[w].pc = "idle" \/ loc[w].s # s,
         UNCHANGED <<ports, slots, tuples, inbox, loc>>,
         free' \in Seq(Socks), Once(free'), \A i \in 1..Len(free') : sk'[free'[i]].st = "none"
  PROVE  Sound'
<1>1. /\ Types /\ Tables /\ Exclusive /\ Listed
      /\ (\A u \in Workers : HandlerAt(u)) /\ \A x \in Socks : SockAt(x)
  BY DEF Sound, Owned
<1>2. Sets(s) /\ sk'[s] = r
  BY <1>1, SetsIs
<1>3. sk[s].excl = FALSE /\ sk[s].key = NoKey
  <2>1. sk[s].excl \in BOOLEAN /\ SockOk(s, sk[s], loc[sk[s].owner])
    BY <1>1 DEF Types, SockRecs, SockAt
  <2>2. ~ sk[s].excl /\ sk[s].key = NoKey
    BY <2>1 DEF SockOk
  <2> QED BY <2>1, <2>2
<1>4. Types' /\ Tables' /\ FreeSlots'
  BY <1>1, <1>2 DEF Types, Tables, FreeSlots, Sets
<1>5. ASSUME NEW u \in Workers PROVE HandlerAt(u)'
  <2>1. HandlerOk(u, loc[u], sk[loc[u].s]) /\ loc' = loc
    BY <1>1 DEF HandlerAt
  <2>2. CASE loc[u].pc = "idle"
    BY <2>1, <2>2 DEF HandlerAt, HandlerOk
  <2>3. CASE loc[u].pc # "idle"
    <3>1. loc[u].s # s /\ loc[u].s \in Socks
      BY <2>1, <2>3 DEF HandlerOk
    <3>2. sk'[loc[u].s] = sk[loc[u].s]
      BY <1>2, <3>1 DEF Sets
    <3> QED BY <2>1, <3>2 DEF HandlerAt
  <2> QED BY <2>2, <2>3
<1>6. ASSUME NEW x \in Socks PROVE SockAt(x)'
  <2>1. CASE x = s
    BY <1>2, <2>1 DEF SockAt, SockOk
  <2>2. CASE x # s
    <3>1. sk'[x] = sk[x] /\ loc' = loc
      BY <1>2, <2>2 DEF Sets
    <3> QED BY <1>1, <3>1 DEF SockAt
  <2> QED BY <2>1, <2>2
<1>7. \A x \in Socks : /\ sk'[x].resv = sk[x].resv /\ sk'[x].excl = sk[x].excl
                       /\ sk'[x].key = sk[x].key
  BY <1>2, <1>3 DEF Sets
<1>8. Exclusive'
  BY <1>1, <1>7, QuietExclusive
<1>9. Listed'
  BY <1>1, <1>7, QuietListed
<1> QED BY <1>4, <1>5, <1>6, <1>8, <1>9 DEF Sound, Owned

(* The record of a free slot. *)
LEMMA NoSockIs ==
  ASSUME NEW w \in Workers
  PROVE  /\ NoSock \in SockRecs /\ NoSock.resv = NoKey /\ NoSock.excl = FALSE
         /\ NoSock.key = NoKey /\ NoSock.st = "none"
<1>1. PICK v : v = CHOOSE u \in Workers : TRUE
  OBVIOUS
<1>2. v \in Workers
  BY <1>1
<1>3. /\ "none" \in {"open", "closed", "none"} /\ {} \in SUBSET Args /\ AnyAddr \in Addrs
      /\ 0 \in AnyPort /\ NoPeer \in AnyPeer /\ 0 \in Int
      /\ NoKey \in BindKeys \cup {NoKey} /\ NoKey \in TupleKeys \cup {NoKey}
  BY SMT DEF Addrs, AnyPort, AnyPeer
<1> QED BY <1>1, <1>2, <1>3 DEF NoSock, SockRecs

(* destroy_fd_entry(): the slot goes back. *)
LEMMA FreeSlotSound ==
  ASSUME Sound, NEW s \in Socks, FreeSlot(s)
  PROVE  Sound'
<1>1. /\ sk[s].st = "closed" /\ ~ Held(s) /\ free' = <<s>> \o free
      /\ UNCHANGED <<ports, slots, tuples, inbox, loc>>
      /\ Types /\ Tables /\ FreeSlots /\ SockAt(s)
  BY DEF FreeSlot, Sound, Owned
<1>2. sk' = [sk EXCEPT ![s] = NoSock]
  BY DEF FreeSlot
<1>3. sk[s].owner \in Workers
  BY <1>1 DEF Types, SockRecs
<1>4. \A w \in Workers : loc[w].pc = "idle" \/ loc[w].s # s
  BY <1>1 DEF Held
<1>5. sk[s].resv = NoKey
  <2>1. SockOk(s, sk[s], loc[sk[s].owner])
    BY <1>1 DEF SockAt
  <2> QED BY <1>1, <1>3, <1>4, <2>1 DEF SockOk
<1>6. /\ NoSock \in SockRecs /\ NoSock.resv = NoKey /\ NoSock.excl = FALSE
      /\ NoSock.key = NoKey /\ NoSock.st = "none"
  BY <1>3, NoSockIs
<1>7. Sets(s) /\ sk'[s] = NoSock
  BY <1>1, <1>2, <1>6, SetsIs
<1>8. free \in Seq(Socks) /\ Once(free) /\ \A i \in 1..Len(free) : sk[free[i]].st = "none"
  BY <1>1 DEF Tables, FreeSlots
<1>9. /\ free' \in Seq(Socks) /\ Len(free') = Len(free) + 1 /\ Len(free) \in Nat
      /\ \A i \in 1..Len(free) : free[i] \in Socks /\ free[i] # s
      /\ \A i \in 1..Len(free') : free'[i] = IF i = 1 THEN s ELSE free[i - 1]
  <2>0. <<s>> \in Seq(Socks) /\ Len(<<s>>) = 1 /\ <<s>>[1] = s
    BY SMT
  <2>1. PICK h \in Seq(Socks) : h = <<s>> /\ Len(h) = 1 /\ h[1] = s
    BY <2>0
  <2>2. /\ free' \in Seq(Socks) /\ Len(free') = 1 + Len(free)
        /\ \A i \in 1..1 + Len(free) : free'[i] = IF i <= 1 THEN h[i] ELSE free[i - 1]
    BY <1>1, <1>8, <2>1, ConcatIs, SMT
  <2>3. Len(free) \in Nat /\ \A i \in 1..Len(free) : free[i] \in Socks /\ free[i] # s
    BY <1>1, <1>8, SMT
  <2> QED BY <2>1, <2>2, <2>3, SMT
<1>10. Once(free')
  <2>1. ASSUME NEW i \in 1..Len(free'), NEW j \in 1..Len(free'), free'[i] = free'[j], i # j
        PROVE  FALSE
    <3>1. CASE i = 1
      <4>1. free'[j] = free[j - 1] /\ j - 1 \in 1..Len(free)
        BY <1>9, <2>1, <3>1, SMT
      <4> QED BY <1>9, <2>1, <3>1, <4>1
    <3>2. CASE j = 1
      <4>1. free'[i] = free[i - 1] /\ i - 1 \in 1..Len(free)
        BY <1>9, <2>1, <3>2, SMT
      <4> QED BY <1>9, <2>1, <3>2, <4>1
    <3>3. CASE i # 1 /\ j # 1
      <4>1. /\ free[i - 1] = free[j - 1] /\ i - 1 \in 1..Len(free) /\ j - 1 \in 1..Len(free)
            /\ i - 1 # j - 1
        BY <1>9, <2>1, <3>3, SMT
      <4> QED BY <1>8, <4>1 DEF Once
    <3> QED BY <3>1, <3>2, <3>3
  <2> QED BY <2>1 DEF Once
<1>11. ASSUME NEW i \in 1..Len(free') PROVE sk'[free'[i]].st = "none"
  <2>1. CASE i = 1
    BY <1>6, <1>7, <1>9, <2>1
  <2>2. CASE i # 1
    <3>1. free'[i] = free[i - 1] /\ i - 1 \in 1..Len(free)
      BY <1>9, <2>2, SMT
    <3>2. sk'[free[i - 1]] = sk[free[i - 1]]
      BY <1>7, <1>9, <3>1 DEF Sets
    <3> QED BY <1>8, <3>1, <3>2
  <2> QED BY <2>1, <2>2
<1> QED BY <1>1, <1>2, <1>4, <1>5, <1>6, <1>9, <1>10, <1>11, SlotSound

(* socket_req(): a slot is taken. *)
LEMMA SocketSound ==
  ASSUME Sound, NEW w \in Workers, _socket(w)
  PROVE  Sound'
<1>1. /\ free # <<>> /\ free' = Tail(free) /\ UNCHANGED <<ports, slots, tuples, inbox, loc>>
      /\ Types /\ Tables /\ FreeSlots
      /\ (\A u \in Workers : HandlerAt(u)) /\ \A x \in Socks : SockAt(x)
  BY DEF _socket, Sound, Owned
<1>2. free \in Seq(Socks) /\ Once(free) /\ \A i \in 1..Len(free) : sk[free[i]].st = "none"
  BY <1>1 DEF Tables, FreeSlots
<1>3. /\ free' \in Seq(Socks) /\ Len(free') = Len(free) - 1 /\ Len(free) \in Nat \ {0}
      /\ Head(free) = free[1] /\ (\A i \in 1..Len(free) : free[i] \in Socks)
      /\ \A i \in 1..Len(free') : free'[i] = free[i + 1]
  BY <1>1, <1>2, SMT
<1>4. PICK s \in Socks : s = Head(free) /\ s = free[1]
  BY <1>3, SMT
<1>5. PICK r : r = [[NoSock EXCEPT !.st = "open"] EXCEPT !.owner = w]
  OBVIOUS
<1>6. sk' = [sk EXCEPT ![s] = r]
  BY <1>4, <1>5 DEF _socket
<1>7. r \in SockRecs /\ r.resv = NoKey /\ r.excl = FALSE /\ r.key = NoKey
  <2>1. "open" \in {"open", "closed", "none"}
    OBVIOUS
  <2> QED BY <1>5, <2>1, NoSockIs DEF SockRecs
<1>8. sk[s].st = "none" /\ SockOk(s, sk[s], loc[sk[s].owner])
  BY <1>1, <1>2, <1>3, <1>4, SMT DEF SockAt
<1>9. sk[s].resv = NoKey
  BY <1>8, SMTT(30) DEF SockOk
<1>10. ASSUME NEW u \in Workers PROVE loc[u].pc = "idle" \/ loc[u].s # s
  <2>1. HandlerOk(u, loc[u], sk[loc[u].s])
    BY <1>1 DEF HandlerAt
  <2> QED BY <1>8, <2>1 DEF HandlerOk
<1>11. Once(free') /\ \A i \in 1..Len(free') : free'[i] # s /\ free'[i] \in Socks
  <2>1. \A i \in 1..Len(free') : i + 1 \in 1..Len(free) /\ i + 1 # 1 /\ 1 \in 1..Len(free)
    BY <1>3, SMT
  <2>2. ASSUME NEW i \in 1..Len(free') PROVE free'[i] # s /\ free'[i] \in Socks
    BY <1>2, <1>3, <1>4, <2>1 DEF Once
  <2>3. ASSUME NEW i \in 1..Len(free'), NEW j \in 1..Len(free'), free'[i] = free'[j]
        PROVE  i = j
    <3>1. i + 1 = j + 1
      BY <1>2, <1>3, <2>1, <2>3 DEF Once
    <3> QED BY <1>3, <3>1, SMT
  <2> QED BY <2>2, <2>3 DEF Once
<1>12. ASSUME NEW i \in 1..Len(free') PROVE sk'[free'[i]].st = "none"
  <2>1. sk'[free'[i]] = sk[free'[i]]
    BY <1>1, <1>6, <1>7, <1>11, SetsIs DEF Sets
  <2>2. free'[i] = free[i + 1] /\ i + 1 \in 1..Len(free)
    BY <1>3, SMT
  <2> QED BY <1>2, <2>1, <2>2
<1> QED BY <1>1, <1>3, <1>6, <1>7, <1>9, <1>10, <1>11, <1>12, SlotSound

(* The invariant, and the properties that it implies. *)

(* At first nothing is bound and nothing is listed. *)
LEMMA InitSound ==
  ASSUME Init, Counted
  PROVE  Sound
<1>0. Cardinality({}) = 0
  BY DEF Counted
<1>1. /\ free = <<>> /\ ports = [p \in Ports |-> [c \in Counters |-> 0]]
      /\ slots = [k \in BindKeys |-> 0] /\ tuples = [k \in TupleKeys |-> <<>>]
      /\ inbox = [w \in Workers |-> <<>>] /\ loc = [w \in Workers |-> Idle]
  BY DEF Init
<1>2. PICK home \in Homes, opts \in {{}, {"port"}} :
        sk = [s \in Socks |-> [NoSock EXCEPT !.st = "open", !.owner = home[s], !.opts = opts]]
  BY DEF Init
<1>3. ASSUME NEW s \in Socks
      PROVE  /\ sk[s] \in SockRecs /\ sk[s].st = "open" /\ sk[s].resv = NoKey
             /\ sk[s].excl = FALSE /\ sk[s].key = NoKey
  <2>1. home[s] \in Workers /\ opts \in SUBSET Args /\ "open" \in {"open", "closed", "none"}
    BY SocketsAssumption DEF Args
  <2>2. sk[s] = [[[NoSock EXCEPT !.st = "open"] EXCEPT !.owner = home[s]] EXCEPT !.opts = opts]
    BY <1>2
  <2> QED BY <2>1, <2>2, NoSockIs DEF SockRecs
<1>4. ASSUME NEW w \in Workers PROVE loc[w] \in Handlers /\ loc[w].pc = "idle"
  BY <1>1, IdleIs
<1>5. Types
  <2>1. sk \in [Socks -> SockRecs]
    BY <1>2, <1>3
  <2>2. loc \in [Workers -> Handlers]
    BY <1>1, IdleIs
  <2>3. inbox \in [Workers -> Seq(Reqs)]
    BY <1>1, SMT
  <2> QED BY <2>1, <2>2, <2>3 DEF Types
<1>6. Tables
  <2>1. ports \in [Ports -> [Counters -> Int]]
    <3>1. [c \in Counters |-> 0] \in [Counters -> Int]
      BY SMT
    <3> QED BY <1>1, <3>1
  <2>2. slots \in [BindKeys -> Int] /\ tuples \in [TupleKeys -> Seq(Socks)] /\ free \in Seq(Socks)
    BY <1>1, SMT
  <2> QED BY <2>1, <2>2 DEF Tables
<1>7. Owned
  <2>1. FreeSlots
    BY <1>1, SMT DEF FreeSlots, Once
  <2>2. \A w \in Workers : HandlerAt(w)
    BY <1>4 DEF HandlerAt, HandlerOk
  <2>3. \A s \in Socks : SockAt(s)
    BY <1>3 DEF SockAt, SockOk
  <2> QED BY <1>5, <1>6, <2>1, <2>2, <2>3 DEF Owned
<1>8. Exclusive
  <2>1. ASSUME NEW p \in Ports, NEW c \in Counters PROVE ports[p][c] = Cardinality(Reserving(p, c))
    <3>1. \A s \in Socks : ~ HoldsPort(sk[s], p, c)
      BY <1>3 DEF HoldsPort
    <3>2. \A w \in Workers : ~ OwesPort(loc[w], p, c)
      BY <1>4 DEF OwesPort
    <3>3. Reserving(p, c) = {}
      BY <3>1, <3>2 DEF Reserving
    <3>4. ports[p][c] = 0
      BY <1>1
    <3> QED BY <1>0, <3>3, <3>4
  <2>2. ASSUME NEW k \in BindKeys PROVE slots[k] = Cardinality(Holders(k))
    <3>1. Holders(k) = {}
      BY <1>3, KeysApart DEF Holders
    <3>2. slots[k] = 0
      BY <1>1
    <3> QED BY <1>0, <3>1, <3>2
  <2>3. BindCountsExact
    BY <2>1, <2>2 DEF BindCountsExact
  <2>4. ASSUME NEW x \in Socks \cup Workers PROVE ~ Claims(x)
    BY <1>3, <1>4 DEF Claims
  <2>5. Apart
    BY <1>3, <2>4 DEF Apart
  <2> QED BY <2>3, <2>5 DEF Exclusive
<1>9. Listed
  <2>1. ASSUME NEW k \in TupleKeys PROVE TupleAt(k)
    <3>1. tuples[k] = <<>> /\ Members(k) = {}
      BY <1>1, <1>3, KeysApart DEF Members
    <3>2. Once(<<>>) /\ Range(<<>>) = {} /\ Len(<<>>) <= 1
      BY SMT DEF Once, Range
    <3> QED BY <3>1, <3>2 DEF TupleAt, ListOk
  <2> QED BY <2>1 DEF Listed
<1> QED BY <1>7, <1>8, <1>9 DEF Sound

(* Every step keeps the invariant. *)
LEMMA NextSound ==
  ASSUME Sound, [Next]_vars
  PROVE  Sound'
<1>1. CASE UNCHANGED vars
  <2>1. /\ UNCHANGED <<free, sk, ports, slots, tuples, inbox, loc>> /\ Types
    BY <1>1 DEF vars, Sound, Owned
  <2>2. Types' /\ \A x \in Socks : Alike(sk'[x], sk[x])
    BY <2>1 DEF Types, Alike
  <2> QED BY <2>1, <2>2, AlikeSound
<1>2. ASSUME NEW w \in Workers, WorkerStep(w)
      PROVE  Sound'
  <2>1. CASE ProcessBadf(w) \/ ProcessElsewhere(w)
    BY <2>1, ProcessSound
  <2>2. CASE _setsockopt(w) \/ udp_recvfrom(w)
    BY <2>2, OptionSound
  <2>3. CASE socket_bind_local(w) \/ udp_connect(w) \/ udp_sendto(w)
    BY <2>3, BindSound, ConnectSound, SendtoSound
  <2>4. CASE AddrInUse(w) \/ \E p \in Ports : bind_port_reserve(w, p)
    BY <2>4, AddrInUseSound, PortReserveSound
  <2>5. CASE bind_reserve(w) \/ bind_release(w) \/ bind_port_release(w)
    BY <2>5, SlotReserveSound, SlotReleaseSound, PortReleaseSound
  <2>6. CASE InstallBind(w) \/ ConnectPeer(w) \/ InstallConnect(w) \/ RestoreConnect(w)
    BY <2>6, InstallBindSound, ConnectPeerSound, InstallConnectSound, RestoreConnectSound
  <2>7. CASE SendOut(w) \/ change_req_worker(w)
    BY <2>7, SendOutSound, ChangeWorkerSound
  <2>8. CASE _close(w) \/ destroy_socket(w)
    BY <2>8, CloseSound, DestroySound
  <2>9. CASE Handed(w)
    BY <2>9, DatagramSound DEF Handed
  <2> QED BY <1>2, <2>1, <2>2, <2>3, <2>4, <2>5, <2>6, <2>7, <2>8, <2>9 DEF WorkerStep
<1>3. ASSUME NEW w \in Workers, _socket(w) PROVE Sound'
  BY <1>3, SocketSound
<1>4. ASSUME NEW s \in Socks, FreeSlot(s) \/ udp_icmp_process(s) PROVE Sound'
  BY <1>4, FreeSlotSound, DatagramSound
<1>5. ASSUME NEW s \in Socks, NEW o \in Uses, Call(s, o) PROVE Sound'
  BY <1>5, CallSound
<1>6. ASSUME NEW w \in Workers, NEW p \in Ports, NEW src \in Peers, Arrive(w, p, src) PROVE Sound'
  BY <1>6, DatagramSound DEF Arrive
<1> QED BY <1>1, <1>2, <1>3, <1>4, <1>5, <1>6 DEF Next

(* Exclusive binds do not conflict. *)
LEMMA SoundExclusive == Sound => BindExclusive
<1> SUFFICES ASSUME Sound PROVE BindExclusive
  OBVIOUS
<1>1. BindCountsExact /\ Apart /\ Types
  BY DEF Sound, Exclusive, Owned
<1>2. ASSUME NEW s \in Socks, NEW t \in Socks, s # t, sk[s].excl, sk[t].excl,
             Conflict(sk[s].resv, sk[t].resv)
      PROVE  FALSE
  <2>1. /\ Claims(s) /\ Claims(t) /\ ClaimKey(s) = sk[s].resv /\ ClaimKey(t) = sk[t].resv
        /\ sk[s].resv[2] = sk[t].resv[2]
    BY <1>2 DEF Claims, ClaimKey, Conflict
  <2>2. sk[s].resv[1] # AnyAddr /\ sk[t].resv[1] # AnyAddr
    BY <1>1, <1>2, <2>1 DEF Apart
  <2>3. sk[s].resv # sk[t].resv
    BY <1>1, <1>2 DEF Apart
  <2>4. SockAt(s) /\ SockAt(t)
    BY DEF Sound, Owned
  <2>5. sk[s].resv # NoKey /\ sk[t].resv # NoKey
    BY <1>2, <2>4 DEF SockAt, SockOk
  <2>6. sk[s].resv \in BindKeys /\ sk[t].resv \in BindKeys
    BY <1>1, <2>5 DEF Types, SockRecs
  <2>7. sk[s].resv[1] = sk[t].resv[1]
    BY <1>2, <2>2 DEF Conflict
  <2> QED BY <2>1, <2>3, <2>6, <2>7, SMT DEF BindKeys
<1> QED BY <1>1, <1>2 DEF BindExclusive

(* The tuple table is exact. *)
LEMMA SoundTuples == Sound => TupleTableExact
<1> SUFFICES ASSUME Sound PROVE TupleTableExact
  OBVIOUS
<1>1. Types /\ Tables /\ Listed /\ \A s \in Socks : SockAt(s)
  BY DEF Sound, Owned
<1>2. ASSUME NEW k \in TupleKeys
      PROVE  /\ IsInjective(tuples[k])
             /\ \A s \in Range(tuples[k]) :
                  /\ sk[s].key = k
                  /\ \/ sk[s].st = "open"
                     \/ loc[sk[s].owner].pc = "untuple" /\ loc[sk[s].owner].s = s
             /\ k[3] # NoPeer => Len(tuples[k]) <= 1
  <2>1. PICK q \in Seq(Socks) : q = tuples[k]
    BY <1>1 DEF Tables
  <2>2. Once(q) /\ Range(q) = Members(k) /\ (k[3] # NoPeer => Len(q) <= 1)
    BY <1>1, <2>1 DEF Listed, TupleAt, ListOk
  <2>3. IsInjective(q)
    <3>1. DOMAIN q = 1..Len(q)
      BY SMT
    <3> QED BY <2>2, <3>1 DEF IsInjective, Once
  <2>4. ASSUME NEW s \in Range(q)
        PROVE  /\ sk[s].key = k
               /\ \/ sk[s].st = "open"
                  \/ loc[sk[s].owner].pc = "untuple" /\ loc[sk[s].owner].s = s
    <3>1. s \in Socks /\ sk[s].key = k /\ k # NoKey
      BY <2>2, KeysApart DEF Members
    <3>2. SockOk(s, sk[s], loc[sk[s].owner]) /\ sk[s].st \in {"open", "closed", "none"}
      BY <1>1, <3>1 DEF SockAt, Types, SockRecs
    <3> QED BY <3>1, <3>2 DEF SockOk
  <2> QED BY <2>1, <2>2, <2>3, <2>4
<1>3. ASSUME NEW s \in Socks, Hashed(s) PROVE s \in Range(tuples[sk[s].key]) /\ Bound(s)
  <2>1. sk[s].key \in TupleKeys
    BY <1>1, <1>3 DEF Hashed, Types, SockRecs
  <2>2. Range(tuples[sk[s].key]) = Members(sk[s].key)
    BY <1>1, <2>1 DEF Listed, TupleAt, ListOk
  <2>3. Bound(s)
    BY <1>1, <1>3 DEF Hashed, Bound, SockAt, SockOk
  <2> QED BY <2>2, <2>3 DEF Members
<1> QED BY <1>2, <1>3 DEF TupleTableExact

(* The library's facts on finite sets, which only the start needs. *)
FS == INSTANCE FiniteSetTheorems

(* They are about the finite sets and the cardinalities of Sockets. *)
LEMMA SameSets ==
  ASSUME NEW S
  PROVE  /\ IsFiniteSet(S) <=> FS!IsFiniteSet(S)
         /\ Cardinality(S) = FS!Cardinality(S)
<1>1. IsFiniteSet(S) <=> FS!IsFiniteSet(S)
  BY DEF IsFiniteSet, FS!IsFiniteSet
<1>2. Cardinality(S) = FS!Cardinality(S)
  BY DEF Cardinality, FS!Cardinality
<1> QED BY <1>1, <1>2

(* Sockets and handlers are finitely many. *)
LEMMA EverySetCounted == Counted
<1>1. ASSUME NEW S \in SUBSET (Socks \cup Workers) PROVE FS!IsFiniteSet(S)
  <2>1. FS!IsFiniteSet(Socks) /\ FS!IsFiniteSet(Workers)
    BY SocketsAssumption, SameSets
  <2>2. FS!IsFiniteSet(Socks \cup Workers)
    BY <2>1, FS!FS_Union
  <2> QED BY <1>1, <2>2, FS!FS_Subset
<1>2. ASSUME NEW S \in SUBSET (Socks \cup Workers)
      PROVE  Cardinality(S) \in Nat /\ (Cardinality(S) = 0 <=> S = {})
  BY <1>1, SameSets, FS!FS_CardinalityType, FS!FS_EmptySet
<1>3. ASSUME NEW S \in SUBSET (Socks \cup Workers), NEW x \in Socks \cup Workers, x \notin S
      PROVE  Cardinality(S \cup {x}) = Cardinality(S) + 1
  <2>1. FS!Cardinality(S \cup {x}) = FS!Cardinality(S) + 1
    BY <1>1, <1>3, FS!FS_AddElement
  <2> QED BY <2>1, SameSets
<1>4. ASSUME NEW S \in SUBSET (Socks \cup Workers), NEW x \in S
      PROVE  Cardinality(S \ {x}) = Cardinality(S) - 1
  <2>1. FS!Cardinality(S \ {x}) = FS!Cardinality(S) - 1
    BY <1>1, FS!FS_RemoveElement
  <2> QED BY <2>1, SameSets
<1> QED BY <1>2, <1>3, <1>4 DEF Counted

(* The invariant always holds. *)
LEMMA AlwaysSound == Spec => []Sound
BY EverySetCounted, InitSound, NextSound, PTL DEF Spec

(* However the two compare-exchanges of bind_reserve() on different        *)
(* workers interleave with each other and with the releases, two sockets   *)
(* bound without SO_REUSEADDR and SO_REUSEPORT never hold addresses that   *)
(* one datagram may match, and the port and slot counters count exactly    *)
(* the reservations there are.                                             *)
THEOREM BindAlwaysExclusive == Spec => []BindExclusive
BY AlwaysSound, SoundExclusive, PTL

(* However install_tuple() and uninstall_tuple() of different workers,     *)
(* connects, migrations and closes interleave, every list of the tuple     *)
(* table holds exactly the live sockets hashed there, each once, and a     *)
(* tuple with a peer has one socket.                                       *)
THEOREM TuplesAlwaysExact == Spec => []TupleTableExact
BY AlwaysSound, SoundTuples, PTL

=============================================================================
