-------------------------------- MODULE Links --------------------------------
(***************************************************************************)
(* The mirror of the kernel's links, addresses, routes and neighbours:     *)
(* main/netlink.c, main/if.c, main/route_arp_ndp.c and lib/trie.c.  The    *)
(* main worker asks for a dump of each kind and then follows the events;   *)
(* what it does to an interface the other workers repeat one by one, and   *)
(* it waits for each.  The kernel is external: what it says, in which      *)
(* order, and what it does not say.                                        *)
(*                                                                         *)
(* An address is a sequence of bits; a route's destination is a prefix.    *)
(***************************************************************************)
EXTENDS Integers, Sequences, FiniteSets, SequencesExt

CONSTANTS Workers, Main,      \* g_workers, main_worker
          Bits,               \* 32, or 128
          Scenarios           \* the kernel at the start, and what may change

VARIABLES kern,               \* the kernel's links, addrs, routes, neigh
          nl,                 \* netlink_fd and the main worker's place
          ifs,                \* g_if_list: ifindex to flags and addresses
          trie,               \* the route table: node to list of routes
          ndp,                \* arp_table and ndp_table
          started,            \* started[w][i]: w's queue of interface i
          left                \* the scenario, and what remains of it

vars == <<kern, nl, ifs, trie, ndp, started, left>>

None == [dst |-> <<>>, gw |-> 0, ifx |-> 0, metric |-> 0, mtu |-> 0]
Empty == [x \in {} |-> 0]
Without(f, x) == [y \in DOMAIN f \ {x} |-> f[y]]
With(f, x, v) == [y \in DOMAIN f \cup {x} |-> IF y = x THEN v ELSE f[y]]

(* Mutant: the routes are asked for before the links they lead through. *)
RoutesFirst == <<"route", "link", "addr", "neigh">>

(* netlink_dump_sync() asks for one type after the other. *)
DumpTypes == <<"link", "addr", "route", "neigh">>

(* A scenario: left.v is the address family, left.have the links at the     *)
(* start, left.more those that may appear, left.tun the ones of a type      *)
(* get_if_ops_by_type() does not know, left.open the configured ones,       *)
(* left.room the events the socket's buffer holds, left.may the routes that *)
(* may come, and left.fails is {"failed"} where a start may fail.           *)
Init ==
  /\ left \in Scenarios
  /\ kern = [links |-> [i \in left.have |-> TRUE], gone |-> {}, addrs |-> Empty,
             routes |-> left.routes, neigh |-> Empty]
  /\ nl = [q |-> <<>>, pc |-> "ask", type |-> 1, ovr |-> FALSE, todo |-> <<>>, cb |-> "none",
           info |-> 0, gaps |-> FALSE, stale |-> {}]
  /\ ifs = Empty /\ ndp = Empty
  /\ trie = [p \in {<<>>} |-> <<>>]
  /\ started = [w \in Workers |-> [i \in left.have \cup left.more |-> "off"]]

-----------------------------------------------------------------------------
(* lib/trie.c.  Every node's parent is a node; one with an empty list has   *)
(* no element.                                                              *)

PrefixesOf(d) == {SubSeq(d, 1, k) : k \in 0..Len(d)}
Longest(P) == CHOOSE p \in P : \A q \in P : Len(q) <= Len(p)

(* As far as the path of d goes. *)
Path(t, d) == {p \in PrefixesOf(d) : PrefixesOf(p) \subseteq DOMAIN t}

Create(t, d) == [p \in DOMAIN t \cup PrefixesOf(d) |-> IF p \in DOMAIN t THEN t[p] ELSE <<>>]

clear_empty_branch(t, d) ==
  LET Bare(p) == \A x \in DOMAIN t : IsPrefix(p, x) => t[x] = <<>> /\ IsPrefix(x, d)
  IN [p \in {q \in DOMAIN t : q = <<>> \/ ~ (IsPrefix(q, d) /\ Bare(q))} |-> t[p]]

(* select[p] is what the callback makes of the element at p: the deepest    *)
(* node on the path where it finds something decides.                       *)
search_trie_element(t, d, select) ==
  LET hits == {p \in Path(t, d) : t[p] # <<>> /\ select[p] # None}
  IN IF hits = {} THEN None ELSE select[Longest(hits)]

-----------------------------------------------------------------------------
(* route_arp_ndp.c *)

Least(S, rs) ==
  IF S = {} THEN None
  ELSE rs[CHOOSE i \in S : \A j \in S : rs[i].metric < rs[j].metric
                                        \/ (rs[i].metric = rs[j].metric /\ i <= j)]

(* The first of least metric, of the interface asked for if there is one.   *)
route_search_cb(rs, ifindex) ==
  Least({i \in DOMAIN rs : ifindex = 0 \/ rs[i].ifx = ifindex}, rs)
search_route_table(d, ifindex) ==
  search_trie_element(trie, d, [p \in DOMAIN trie |-> route_search_cb(trie[p], ifindex)])

route_same(a, b) == [a EXCEPT !.mtu = 0] = [b EXCEPT !.mtu = 0]
Same(rs, r) == {i \in DOMAIN rs : route_same(rs[i], r)}

(* Newest first.  A route through an interface that is not known fails, and *)
(* leaves the nodes of its path.                                            *)
route_add_entry(r) ==
  LET t == Create(trie, r.dst)
      rs == t[r.dst]
  IN trie' = IF Same(rs, r) # {}
             THEN [t EXCEPT ![r.dst] = [i \in DOMAIN rs |-> IF i \in Same(rs, r)
                                                          THEN [rs[i] EXCEPT !.mtu = r.mtu] ELSE rs[i]]]
             ELSE IF r.ifx \in DOMAIN ifs THEN [t EXCEPT ![r.dst] = <<r>> \o @] ELSE t

route_delete_entry(r) ==
  trie' = IF r.dst \notin DOMAIN trie THEN trie
          ELSE clear_empty_branch([trie EXCEPT ![r.dst] = SelectSeq(@, LAMBDA x : ~ route_same(x, r))],
                                  r.dst)

-----------------------------------------------------------------------------
(* The kernel (external): every change is announced, save that an IPv4      *)
(* route lost with its link is dropped in silence, and that a replaced one  *)
(* is announced by its successor only.  nl.stale keeps the routes the stack *)
(* is not told of; nl.gaps, that the buffer overran.                        *)

Msg(op, m, x) == [op |-> op, m |-> m, x |-> x]
Event(n, msg) ==
  IF Len(n.q) >= left.room THEN [n EXCEPT !.ovr = TRUE, !.gaps = TRUE]
  ELSE [n EXCEPT !.q = Append(@, msg)]
Key(r) == [r EXCEPT !.mtu = 0]
Dels(m, S) == [i \in 1..Cardinality(S) |-> Msg("del", m, SetToSeq(S)[i])]

Kernel(k, msgs, silent) ==
  /\ left.changes > 0
  /\ left' = [left EXCEPT !.changes = @ - 1]
  /\ kern' = k
  /\ nl' = [FoldLeft(Event, nl, msgs) EXCEPT !.stale = @ \cup {Key(r) : r \in silent}]
  /\ UNCHANGED <<ifs, trie, ndp, started>>

Via(i) == {r \in kern.routes : r.ifx = i}
AddrsOf(i) == {a \in DOMAIN kern.addrs : a[1] = i}
Slot(r) == {q \in kern.routes : q.dst = r.dst /\ q.metric = r.metric}
Up(i) == i \in DOMAIN kern.links /\ kern.links[i]

link_added ==
  \E i \in left.more \ (DOMAIN kern.links \cup kern.gone) :
    Kernel([kern EXCEPT !.links = With(@, i, FALSE)], <<Msg("new", "link", <<i, FALSE>>)>>, {})

link_up ==
  \E i \in DOMAIN kern.links :
    /\ ~ Up(i)
    /\ Kernel([kern EXCEPT !.links[i] = TRUE], <<Msg("new", "link", <<i, TRUE>>)>>, {})

link_down ==
  \E i \in DOMAIN kern.links :
    /\ Up(i)
    /\ Kernel([kern EXCEPT !.links[i] = FALSE, !.routes = @ \ Via(i), !.neigh = Without(@, i)],
              <<Msg("new", "link", <<i, FALSE>>)>>
                \o (IF left.v = 6 THEN Dels("route", Via(i)) ELSE <<>>)
                \o Dels("neigh", {i} \cap DOMAIN kern.neigh),
              IF left.v = 4 THEN Via(i) ELSE {})

link_deleted ==
  \E i \in DOMAIN kern.links :
    /\ ~ Up(i)
    /\ Kernel([kern EXCEPT !.links = Without(@, i), !.gone = @ \cup {i},
                           !.addrs = [a \in DOMAIN @ \ AddrsOf(i) |-> @[a]]],
              Dels("addr", AddrsOf(i)) \o <<Msg("del", "link", <<i, FALSE>>)>>, {})

addr_changed ==
  \E i \in DOMAIN kern.links, len \in left.lens :
    /\ <<i, 1>> \in DOMAIN kern.addrs => kern.addrs[<<i, 1>>] # len
    /\ Kernel([kern EXCEPT !.addrs = With(@, <<i, 1>>, len)],
              <<Msg("new", "addr", <<<<i, 1>>, len>>)>>, {})

addr_deleted ==
  \E a \in DOMAIN kern.addrs :
    Kernel([kern EXCEPT !.addrs = Without(@, a)], <<Msg("del", "addr", a)>>, {})

route_added ==
  \E r \in left.may :
    /\ Up(r.ifx) /\ Slot(r) = {}
    /\ Kernel([kern EXCEPT !.routes = @ \cup {r}], <<Msg("new", "route", r)>>, {})

route_replaced ==
  \E r \in left.may :
    /\ Up(r.ifx) /\ Slot(r) \notin {{}, {r}}
    /\ Kernel([kern EXCEPT !.routes = (@ \ Slot(r)) \cup {r}], <<Msg("new", "route", r)>>, Slot(r))

route_deleted ==
  \E r \in kern.routes :
    Kernel([kern EXCEPT !.routes = @ \ {r}], <<Msg("del", "route", r)>>, {})

neigh_changed ==
  \E i \in DOMAIN kern.links, mac \in left.macs :
    /\ Up(i) /\ (i \in DOMAIN kern.neigh => kern.neigh[i] # mac)
    /\ Kernel([kern EXCEPT !.neigh = With(@, i, mac)], <<Msg("new", "neigh", <<i, mac>>)>>, {})

neigh_deleted ==
  \E i \in DOMAIN kern.neigh :
    Kernel([kern EXCEPT !.neigh = Without(@, i)], <<Msg("del", "neigh", i)>>, {})

-----------------------------------------------------------------------------
(* The main worker: netlink_init(), then netlink_recv_cb(). *)

Snapshot(m) ==
  CASE m = "link" -> {Msg("new", m, <<i, kern.links[i]>>) : i \in DOMAIN kern.links}
    [] m = "addr" -> {Msg("new", m, <<a, kern.addrs[a]>>) : a \in DOMAIN kern.addrs}
    [] m = "route" -> {Msg("new", m, r) : r \in kern.routes}
    [] m = "neigh" -> {Msg("new", m, <<i, kern.neigh[i]>>) : i \in DOMAIN kern.neigh}

(* The answer to a dump is not dropped: the kernel continues it as it is    *)
(* read.                                                                    *)
netlink_send_dump ==
  /\ nl.pc = "ask"
  /\ nl' = [nl EXCEPT !.pc = "dump",
                      !.q = @ \o SetToSeq(Snapshot(DumpTypes[nl.type])) \o <<Msg("done", "", 0)>>]
  /\ UNCHANGED <<kern, ifs, trie, ndp, started, left>>

Reads == nl.pc \in {"dump", "run"} /\ nl.todo = <<>>

(* recv() reports the overrun once: the dump fails on it, the callback logs *)
(* it and goes on.                                                          *)
recv_overrun ==
  /\ Reads /\ nl.ovr
  /\ nl' = [nl EXCEPT !.ovr = FALSE, !.pc = IF @ = "dump" THEN "failed" ELSE @]
  /\ UNCHANGED <<kern, ifs, trie, ndp, started, left>>

Next1(m) == Reads /\ ~ nl.ovr /\ nl.q # <<>> /\ Head(nl.q).m = m
Taken == [nl EXCEPT !.q = Tail(@)]
Head1 == Head(nl.q).x
New == Head(nl.q).op = "new"

dump_done ==
  /\ Next1("")
  /\ nl' = [Taken EXCEPT !.pc = IF nl.type < Len(DumpTypes) THEN "ask" ELSE "run",
                         !.type = IF @ < Len(DumpTypes) THEN @ + 1 ELSE @]
  /\ UNCHANGED <<kern, ifs, trie, ndp, started, left>>

(* if_up() starts the interface itself and then has each other worker do    *)
(* it; if_down() is the last to stop.                                       *)
Others == SetToSeq(Workers \ {Main})
Order(cb) == IF cb = "up" THEN <<Main>> \o Others ELSE Others \o <<Main>>
Notify(cb, i) == [Taken EXCEPT !.todo = Order(cb), !.cb = cb, !.info = i]

if_update(i, up) ==
  IF i \in DOMAIN ifs
  THEN /\ ifs' = [ifs EXCEPT ![i].up = up]
       /\ nl' = IF ifs[i].up = up THEN Taken ELSE Notify(IF up THEN "up" ELSE "down", i)
  ELSE IF i \in left.tun THEN ifs' = ifs /\ nl' = Taken
  ELSE /\ ifs' = With(ifs, i, [up |-> up, addrs |-> Empty])
       /\ nl' = IF up THEN Notify("up", i) ELSE Taken

if_delete(i) ==
  /\ ifs' = Without(ifs, i)
  /\ nl' = IF i \in DOMAIN ifs /\ ifs[i].up THEN Notify("down", i) ELSE Taken

parse_link_event ==
  /\ Next1("link")
  /\ IF New THEN if_update(Head1[1], Head1[2]) ELSE if_delete(Head1[1])
  /\ UNCHANGED <<kern, trie, ndp, started, left>>

(* submit_req_2_worker(w, info, cb, true), and the main worker's own call.  *)
(* xdp_if_start() leaves an interface that is not configured alone, and may *)
(* fail; nobody looks at its result.                                        *)
if_change_cb ==
  /\ nl.todo # <<>>
  /\ \E r \in IF nl.info \notin left.open \/ nl.cb = "down" THEN {"off"} ELSE {"on"} \cup left.fails :
       started' = [started EXCEPT ![Head(nl.todo)][nl.info] = r]
  /\ nl' = [nl EXCEPT !.todo = Tail(@)]
  /\ UNCHANGED <<kern, ifs, trie, ndp, left>>

if_add_addr(i, ip, len) == [ifs EXCEPT ![i].addrs = With(@, ip, len)]
if_delete_addr(i, ip) == [ifs EXCEPT ![i].addrs = Without(@, ip)]

parse_addr_event ==
  /\ Next1("addr")
  /\ LET a == IF New THEN Head1[1] ELSE Head1
     IN ifs' = IF a[1] \notin DOMAIN ifs THEN ifs
               ELSE IF New THEN if_add_addr(a[1], a[2], Head1[2]) ELSE if_delete_addr(a[1], a[2])
  /\ nl' = Taken
  /\ UNCHANGED <<kern, trie, ndp, started, left>>

(* if_indextoname() asks the kernel of now, and an interface that is gone   *)
(* has no name: filter_ifname() then drops the message, whatever it says.   *)
filter_ifname(i) == i \notin DOMAIN kern.links \/ i \notin left.open

parse_route_event ==
  /\ Next1("route")
  /\ IF filter_ifname(Head1.ifx)
     THEN trie' = trie /\ nl' = [Taken EXCEPT !.stale = @ \cup {Key(Head1)}]
     ELSE (IF New THEN route_add_entry(Head1) ELSE route_delete_entry(Head1)) /\ nl' = Taken
  /\ UNCHANGED <<kern, ifs, ndp, started, left>>

parse_neighbor_event ==
  /\ Next1("neigh")
  /\ ndp' = IF New THEN With(ndp, Head1[1], Head1[2]) ELSE Without(ndp, Head1)
  /\ nl' = Taken
  /\ UNCHANGED <<kern, ifs, trie, started, left>>

-----------------------------------------------------------------------------
Next ==
  \/ link_added \/ link_up \/ link_down \/ link_deleted
  \/ addr_changed \/ addr_deleted
  \/ route_added \/ route_replaced \/ route_deleted
  \/ neigh_changed \/ neigh_deleted
  \/ netlink_send_dump \/ recv_overrun \/ dump_done
  \/ parse_link_event \/ if_change_cb \/ parse_addr_event
  \/ parse_route_event \/ parse_neighbor_event

Spec == Init /\ [][Next]_vars

-----------------------------------------------------------------------------
InTrie == UNION {{<<p, k>> : k \in DOMAIN trie[p]} : p \in DOMAIN trie}
Entry(x) == trie[x[1]][x[2]]
Routable == {r \in kern.routes : r.ifx \in left.open \ left.tun}
Stale == nl.stale \ {Key(r) : r \in kern.routes}

(* Each worker has a queue of exactly the configured interfaces that are    *)
(* up, but for the starts that failed.                                      *)
WorkersAgree ==
  nl.todo = <<>> =>
    \A w \in Workers : \A i \in DOMAIN started[w] :
      started[w][i] # "off" <=> i \in DOMAIN ifs /\ ifs[i].up /\ i \in left.open

(* Once all events are read, and none was lost, the tables are the          *)
(* kernel's.                                                                *)
Settled == nl.pc = "run" /\ nl.q = <<>> /\ nl.todo = <<>> /\ ~ nl.gaps
TablesAgree ==
  /\ DOMAIN ifs = DOMAIN kern.links \ left.tun
  /\ \A i \in DOMAIN ifs : /\ ifs[i].up = kern.links[i]
                           /\ ifs[i].addrs = [ip \in {a[2] : a \in AddrsOf(i)} |-> kern.addrs[<<i, ip>>]]
  /\ ndp = kern.neigh
  /\ \A r \in Routable : Cardinality({x \in InTrie : Entry(x) = r}) = 1
  /\ \A x \in InTrie : Entry(x) \in Routable \/ Key(Entry(x)) \in Stale

(* A lookup finds the longest prefix, and of its routes the least metric,   *)
(* or one of the routes the stack was not told to forget.                   *)
Best(r, S) ==
  /\ r \in S
  /\ \A q \in S : Len(q.dst) < Len(r.dst) \/ (q.dst = r.dst /\ r.metric <= q.metric)
LookupsAgree ==
  \A d \in [1..Bits -> 0..1], s \in {0} \cup (IF left.v = 6 THEN left.have ELSE {}) :
    LET f == search_route_table(d, s)
        S == {r \in Routable : IsPrefix(r.dst, d) /\ (s = 0 \/ r.ifx = s)}
    IN \/ f # None /\ Key(f) \in Stale
       \/ IF S = {} THEN f = None ELSE Best(f, S)

(* The mirror follows the kernel: the workers' queues agree with g_if_list  *)
(* whenever no notification is under way, and once netlink_recv_cb() has    *)
(* read everything, without an overrun, the interfaces, addresses,          *)
(* neighbours and routes are the kernel's, and lookups agree with them.     *)
MirrorFollows == WorkersAgree /\ (Settled => TablesAgree /\ LookupsAgree)
=============================================================================
