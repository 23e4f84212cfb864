----------------------------- MODULE MpscqProofs -----------------------------
(***************************************************************************)
(* The queue of lib/queue.c is a FIFO in exchange order for any number of  *)
(* producers and nodes: the pointers always form one complete chain, and   *)
(* every step of mpscq_push() and mpscq_pop() is a step of MpscqSpec or    *)
(* leaves the abstract queue as it is.                                     *)
(***************************************************************************)
EXTENDS Mpscq, SequenceTheorems, TLAPS

-----------------------------------------------------------------------------
(* Sequences. *)

(* What Append does, position by position. *)
LEMMA AppendAt ==
  ASSUME NEW S, NEW s \in Seq(S), NEW e \in S
  PROVE  /\ Append(s, e) \in Seq(S) /\ Append(s, e) # <<>>
         /\ Len(s) \in Nat /\ Len(Append(s, e)) = Len(s) + 1
         /\ \A i \in 1..Len(s) : Append(s, e)[i] = s[i]
         /\ Append(s, e)[Len(s) + 1] = e
OBVIOUS

(* What Tail does, position by position. *)
LEMMA TailAt ==
  ASSUME NEW S, NEW s \in Seq(S), s # <<>>
  PROVE  /\ Tail(s) \in Seq(S)
         /\ Len(s) \in Nat \ {0} /\ Len(Tail(s)) = Len(s) - 1
         /\ \A i \in 1..Len(s) - 1 : Tail(s)[i] = s[i + 1]
BY HeadTailProperties, EmptySeq

(* A chain without the stub stands for itself. *)
LEMMA NoStub ==
  ASSUME NEW c \in Seq(Addr), \A i \in 1..Len(c) : c[i] # Stub
  PROVE  WithoutStub(c) = c
BY DEF WithoutStub

(* Leaving out the stub moves what follows it forward by one place. *)
LEMMA StubLeftOut ==
  ASSUME NEW c \in Seq(Addr), NEW k \in 1..Len(c), c[k] = Stub,
         \A i \in 1..Len(c) : c[i] = Stub => i = k
  PROVE  /\ WithoutStub(c) \in Seq(Addr)
         /\ Len(WithoutStub(c)) = Len(c) - 1
         /\ \A i \in 1..Len(c) - 1 : WithoutStub(c)[i] = IF i < k THEN c[i] ELSE c[i + 1]
<1>1. Len(c) \in Nat /\ DOMAIN c = 1..Len(c) /\ \A i \in 1..Len(c) : c[i] \in Addr
  BY LenProperties, ElementOfSeq
<1>2. StubAt(c) = k
  BY <1>1 DEF StubAt
<1>3. WithoutStub(c) = [i \in 1..Len(c) - 1 |-> IF i < k THEN c[i] ELSE c[i + 1]]
  BY <1>1, <1>2 DEF WithoutStub
<1>4. \A i \in 1..Len(c) - 1 : (IF i < k THEN c[i] ELSE c[i + 1]) \in Addr
  BY <1>1
<1>5. [i \in 1..Len(c) - 1 |-> IF i < k THEN c[i] ELSE c[i + 1]] \in Seq(Addr)
  BY <1>1, <1>4
<1> QED BY <1>1, <1>3, <1>5

-----------------------------------------------------------------------------
(* The inductive invariant. *)

(* Each push between its halves has claimed one link of the chain, whose   *)
(* pointer is still NULL, and no two have claimed the same.                *)
Claims ==
  /\ \A p \in Producers : node[p] = NIL <=> prev[p] = NIL
  /\ \A p \in Pushing : \E i \in 1..Len(chain) - 1 :
       chain[i] = prev[p] /\ chain[i + 1] = node[p] /\ next[prev[p]] = NIL
  /\ \A p, q \in Pushing : node[p] = node[q] => p = q
  /\ cprev # NIL <=> cpc = "stub_link"
  /\ cprev # NIL => \E i \in 1..Len(chain) - 1 :
       chain[i] = cprev /\ chain[i + 1] = Stub /\ next[cprev] = NIL

(* What the consumer knows at its place in mpscq_pop(). *)
Consumer ==
  /\ cpc # "idle" => tail # Stub
  /\ cpc = "stub_exchange" => \A i \in 1..Len(chain) : chain[i] # Stub

IInv == ChainComplete /\ Claims /\ Consumer

(* A new queue satisfies the inductive invariant. *)
LEMMA InitIInv == Init => IInv
<1> SUFFICES ASSUME Init PROVE IInv
  OBVIOUS
<1>1. chain = <<Stub>> /\ Len(chain) = 1 /\ chain[1] = Stub /\ chain \in Seq(Addr)
  BY DEF Init, Addr
<1>2. TypeOK
  BY <1>1, AddrAssumption, Zenon DEF Init, TypeOK, Addr
<1>3. ChainComplete
  BY <1>1, <1>2 DEF Init, ChainComplete, Addr
<1>4. Pushing = {}
  BY DEF Init, Pushing
<1>5. Claims /\ Consumer
  BY <1>1, <1>4 DEF Init, Claims, Consumer
<1> QED BY <1>3, <1>5 DEF IInv

(* What the invariant says, in the terms the steps need. *)
LEMMA Facts ==
  ASSUME IInv
  PROVE  /\ chain \in Seq(Addr) /\ chain # <<>>
         /\ Len(chain) \in Nat \ {0} /\ \A i \in 1..Len(chain) : chain[i] \in Addr
         /\ \A i, j \in 1..Len(chain) : chain[i] = chain[j] => i = j
         /\ \A i \in 1..Len(chain) : chain[i] = Stub \/ chain[i] \in owned
         /\ \A n \in owned : \E i \in 1..Len(chain) : chain[i] = n
         /\ Stub \notin owned /\ owned \subseteq Nodes
BY EmptySeq, ElementOfSeq, AddrAssumption DEF IInv, ChainComplete, TypeOK, Addr

(* The exchange of the consumer's own push puts the stub at the end of a   *)
(* chain that did not hold it.                                             *)
LEMMA StubAppended ==
  ASSUME IInv, PopStubExchange
  PROVE  /\ chain' \in Seq(Addr) /\ chain' # <<>> /\ Len(chain') = Len(chain) + 1
         /\ \A i \in 1..Len(chain) : chain'[i] = chain[i] /\ chain[i] # Stub
         /\ chain'[Len(chain) + 1] = Stub
<1>1. chain' = Append(chain, Stub) /\ Stub \in Addr
  BY DEF PopStubExchange, Addr
<1>2. chain \in Seq(Addr)
  BY Facts
<1>3. \A i \in 1..Len(chain) : chain[i] # Stub
  BY DEF IInv, Consumer, PopStubExchange
<1> QED BY <1>1, <1>2, <1>3, AppendAt

(* The first half of a push appends a node that was not in the chain. *)
LEMMA PushExchangeStep ==
  ASSUME IInv, NEW p \in Producers, NEW n \in Nodes, PushExchange(p, n), failSeen' \in BOOLEAN
  PROVE  IInv'
<1>1. /\ chain' \in Seq(Addr) /\ chain' # <<>> /\ Len(chain') = Len(chain) + 1
      /\ \A i \in 1..Len(chain) : chain'[i] = chain[i]
      /\ chain'[Len(chain) + 1] = n
  BY Facts, AppendAt DEF PushExchange, Addr
<1>2. \A i \in 1..Len(chain) : chain[i] # n
  BY Facts, AddrAssumption DEF PushExchange
<1>3. TypeOK'
  BY <1>1, Facts DEF IInv, ChainComplete, TypeOK, PushExchange, Addr
<1>4. /\ next' = [next EXCEPT ![n] = NIL] /\ next \in [Addr -> Addr \cup {NIL}] /\ n \in Addr
      /\ next'[n] = NIL /\ next[head] = NIL /\ head # n
      /\ \A a \in Addr : a # n => next'[a] = next[a]
      /\ head = chain[Len(chain)] /\ head \in Addr /\ head # NIL /\ n # NIL
  BY <1>2, Facts, AddrAssumption DEF IInv, ChainComplete, TypeOK, PushExchange, Addr
<1>5. /\ node' = [node EXCEPT ![p] = n] /\ prev' = [prev EXCEPT ![p] = head]
      /\ node'[p] = n /\ prev'[p] = head /\ node[p] = NIL
      /\ \A q \in Producers : q # p => node'[q] = node[q] /\ prev'[q] = prev[q]
      /\ Pushing' = Pushing \cup {p}
  BY <1>4 DEF IInv, ChainComplete, TypeOK, PushExchange, Pushing
<1>6. ChainComplete'
  <2>1. chain'[1] = tail' /\ chain'[Len(chain')] = head' /\ next'[head'] = NIL
    BY <1>1, <1>4, Facts DEF IInv, ChainComplete, PushExchange
  <2>2. \A i, j \in 1..Len(chain') : chain'[i] = chain'[j] => i = j
    BY <1>1, <1>2, Facts
  <2>3. /\ \A i \in 1..Len(chain') : chain'[i] \in owned' \cup {Stub}
        /\ \A m \in owned' : \E i \in 1..Len(chain') : chain'[i] = m
    BY <1>1, Facts DEF PushExchange
  <2>4. ASSUME NEW i \in 1..Len(chain') - 1 PROVE Follows(chain[i], chain[i + 1])'
    <3>1. CASE i = Len(chain)
      <4>1. chain'[i] = head /\ chain'[i + 1] = n /\ next'[head] = NIL
        BY <3>1, <1>1, <1>4, Facts
      <4> QED BY <4>1, <1>5 DEF Follows
    <3>2. CASE i # Len(chain)
      <4>1. i \in 1..Len(chain) - 1 /\ chain'[i] = chain[i] /\ chain'[i + 1] = chain[i + 1]
        BY <3>2, <1>1, Facts
      <4>2. Follows(chain[i], chain[i + 1]) /\ next'[chain[i]] = next[chain[i]]
        BY <4>1, <1>2, <1>4, Facts DEF IInv, ChainComplete
      <4>3. \A q \in Pushing : q # p
        BY <1>5 DEF Pushing
      <4> QED BY <4>1, <4>2, <4>3, <1>5 DEF Follows, PushExchange, Pushing
    <3> QED BY <3>1, <3>2
  <2> QED BY <1>1, <1>3, <2>1, <2>2, <2>3, <2>4 DEF ChainComplete
<1>7. Claims'
  <2>1. \A q \in Producers : (node[q] = NIL <=> prev[q] = NIL)'
    BY <1>4, <1>5 DEF IInv, Claims
  <2>2. ASSUME NEW q \in Pushing'
        PROVE  \E i \in 1..Len(chain') - 1 :
                 chain'[i] = prev'[q] /\ chain'[i + 1] = node'[q] /\ next'[prev'[q]] = NIL
    <3>1. CASE q = p
      BY <3>1, <1>1, <1>4, <1>5, Facts
    <3>2. CASE q # p
      <4>1. q \in Pushing /\ q \in Producers
        BY <3>2, <1>5 DEF Pushing
      <4>2. PICK i \in 1..Len(chain) - 1 :
              chain[i] = prev[q] /\ chain[i + 1] = node[q] /\ next[prev[q]] = NIL
        BY <4>1 DEF IInv, Claims
      <4>3. next'[chain[i]] = NIL
        BY <4>2, <1>2, <1>4, Facts
      <4> QED BY <3>2, <4>1, <4>2, <4>3, <1>1, <1>5, Facts, SMTT(30)
    <3> QED BY <3>1, <3>2, ZenonT(30)
  <2>3. \A q \in Pushing : node[q] # n
    BY <1>2, Facts DEF IInv, Claims
  <2>4. \A q, r \in Pushing' : node'[q] = node'[r] => q = r
    BY <2>3, <1>5 DEF IInv, Claims, Pushing
  <2>5. cprev' # NIL => \E i \in 1..Len(chain') - 1 :
          chain'[i] = cprev' /\ chain'[i + 1] = Stub /\ next'[cprev'] = NIL
    BY <1>1, <1>2, <1>4, Facts DEF IInv, Claims, PushExchange
  <2>6. (cprev # NIL <=> cpc = "stub_link")'
    BY DEF IInv, Claims, PushExchange
  <2> QED BY <2>1, <2>2, <2>4, <2>5, <2>6 DEF Claims
<1>8. Consumer'
  BY <1>1, Facts, AddrAssumption DEF IInv, Consumer, PushExchange
<1> QED BY <1>6, <1>7, <1>8 DEF IInv

(* The second half of a push writes the pointer that it had claimed. *)
LEMMA PushLinkStep ==
  ASSUME IInv, NEW p \in Producers, PushLink(p), failSeen' \in BOOLEAN
  PROVE  IInv'
<1>1. p \in Pushing
  BY DEF PushLink, Pushing
<1>2. PICK k \in 1..Len(chain) - 1 :
        chain[k] = prev[p] /\ chain[k + 1] = node[p] /\ next[prev[p]] = NIL
  BY <1>1, ZenonT(30) DEF IInv, Claims
<1>3. /\ k \in 1..Len(chain) /\ k + 1 \in 1..Len(chain)
      /\ chain[k] \in Addr /\ chain[k + 1] \in Nodes /\ chain[k + 1] # NIL
  BY <1>2, Facts, AddrAssumption DEF IInv, ChainComplete, TypeOK, PushLink, Addr
<1>4. /\ next' = [next EXCEPT ![chain[k]] = chain[k + 1]]
      /\ next'[chain[k]] = chain[k + 1]
      /\ \A a \in Addr : a # chain[k] => next'[a] = next[a]
  BY <1>2, <1>3 DEF IInv, ChainComplete, TypeOK, PushLink
<1>5. /\ node'[p] = NIL /\ prev'[p] = NIL
      /\ \A q \in Producers : q # p => node'[q] = node[q] /\ prev'[q] = prev[q]
      /\ Pushing' = Pushing \ {p}
  BY DEF IInv, ChainComplete, TypeOK, PushLink, Pushing
<1>6. TypeOK'
  <2>1. next' \in [Addr -> Addr \cup {NIL}]
    BY <1>3, <1>4 DEF IInv, ChainComplete, TypeOK, Addr
  <2>2. node' \in [Producers -> Nodes \cup {NIL}] /\ prev' \in [Producers -> Addr \cup {NIL}]
    BY DEF IInv, ChainComplete, TypeOK, PushLink
  <2> QED BY <2>1, <2>2 DEF IInv, ChainComplete, TypeOK, PushLink
<1>7. \A q \in Pushing : q # p => prev[q] # chain[k]
  <2> SUFFICES ASSUME NEW q \in Pushing, q # p, prev[q] = chain[k] PROVE FALSE
    OBVIOUS
  <2>1. PICK i \in 1..Len(chain) - 1 : chain[i] = prev[q] /\ chain[i + 1] = node[q]
    BY DEF IInv, Claims
  <2>2. i = k
    BY <2>1, <1>3, Facts
  <2>3. node[q] = node[p]
    BY <2>1, <2>2, <1>2
  <2> QED BY <2>3, <1>1 DEF IInv, Claims
<1>8. cprev # chain[k]
  <2> SUFFICES ASSUME cprev = chain[k] PROVE FALSE
    OBVIOUS
  <2>1. PICK i \in 1..Len(chain) - 1 : chain[i] = cprev /\ chain[i + 1] = Stub
    BY <1>3, AddrAssumption DEF IInv, Claims
  <2>2. i = k
    BY <2>1, <1>3, Facts
  <2> QED BY <2>1, <2>2, <1>3, AddrAssumption
<1>9. UNCHANGED <<chain, head, tail, owned, cpc, cprev>>
  BY DEF PushLink
<1>10. ChainComplete'
  <2>1. next'[head'] = NIL
    <3>1. head = chain[Len(chain)] /\ head \in Addr /\ next[head] = NIL
      BY DEF IInv, ChainComplete, TypeOK
    <3>2. head # chain[k]
      BY <3>1, <1>2, <1>3, Facts
    <3> QED BY <3>1, <3>2, <1>4, <1>9
  <2>2. ASSUME NEW i \in 1..Len(chain) - 1 PROVE Follows(chain[i], chain[i + 1])'
    <3>1. CASE i = k
      BY <3>1, <1>4, <1>9 DEF Follows
    <3>2. CASE i # k
      <4>1. Follows(chain[i], chain[i + 1])
        BY DEF IInv, ChainComplete
      <4>2. chain[i] # chain[k] /\ chain[i] \in Addr
        BY <3>2, <1>3, Facts
      <4>3. next'[chain[i]] = next[chain[i]]
        BY <4>2, <1>4
      <4>4. \A q \in Pushing : prev[q] = chain[i] => q # p
        BY <4>2, <1>2
      <4>5. \A q \in Pushing : prev[q] = chain[i] =>
              q \in Pushing' /\ node'[q] = node[q] /\ prev'[q] = prev[q]
        BY <4>4, <1>5 DEF Pushing
      <4> QED BY <4>1, <4>3, <4>5, <1>9 DEF Follows
    <3> QED BY <3>1, <3>2
  <2> QED BY <1>6, <1>9, <2>1, <2>2, ZenonT(30) DEF IInv, ChainComplete
<1>11. Claims'
  <2>1. \A q \in Producers : (node[q] = NIL <=> prev[q] = NIL)'
    BY <1>5 DEF IInv, Claims
  <2>2. ASSUME NEW q \in Pushing'
        PROVE  \E i \in 1..Len(chain) - 1 :
                 chain[i] = prev'[q] /\ chain[i + 1] = node'[q] /\ next'[prev'[q]] = NIL
    <3>1. q \in Pushing /\ q # p /\ q \in Producers /\ prev'[q] = prev[q] /\ node'[q] = node[q]
      BY <1>5 DEF Pushing
    <3>2. PICK i \in 1..Len(chain) - 1 :
            chain[i] = prev[q] /\ chain[i + 1] = node[q] /\ next[prev[q]] = NIL
      BY <3>1 DEF IInv, Claims
    <3>3. next'[prev[q]] = NIL
      BY <3>1, <3>2, <1>4, <1>7, Facts
    <3> QED BY <3>1, <3>2, <3>3
  <2>3. \A q, r \in Pushing' : node'[q] = node'[r] => q = r
    BY <1>5 DEF IInv, Claims, Pushing
  <2>4. cprev # NIL => \E i \in 1..Len(chain) - 1 :
          chain[i] = cprev /\ chain[i + 1] = Stub /\ next'[cprev] = NIL
    BY <1>4, <1>8, Facts DEF IInv, Claims
  <2> QED BY <1>9, <2>1, <2>2, <2>3, <2>4 DEF IInv, Claims
<1>12. Consumer'
  BY <1>9 DEF IInv, Consumer
<1> QED BY <1>10, <1>11, <1>12 DEF IInv

(* The consumer puts the stub back behind a chain that does not hold it. *)
LEMMA StubExchangeStep ==
  ASSUME IInv, PopStubExchange, failSeen' \in BOOLEAN
  PROVE  IInv'
<1>1. /\ chain' \in Seq(Addr) /\ chain' # <<>> /\ Len(chain') = Len(chain) + 1
      /\ \A i \in 1..Len(chain) : chain'[i] = chain[i]
      /\ chain'[Len(chain) + 1] = Stub
  BY StubAppended
<1>2. \A i \in 1..Len(chain) : chain[i] # Stub
  BY StubAppended
<1>3. TypeOK'
  BY <1>1 DEF IInv, ChainComplete, TypeOK, PopStubExchange, Addr
<1>4. /\ next'[Stub] = NIL /\ next[head] = NIL /\ head # Stub
      /\ \A a \in Addr : a # Stub => next'[a] = next[a]
      /\ head = chain[Len(chain)] /\ head \in Addr /\ head # NIL /\ Stub # NIL
  BY <1>2, Facts, AddrAssumption, SMTT(30) DEF IInv, ChainComplete, TypeOK, PopStubExchange, Addr
<1>5. /\ UNCHANGED <<tail, node, prev, owned>> /\ Pushing' = Pushing
      /\ cpc = "stub_exchange" /\ cpc' = "stub_link" /\ cprev = NIL /\ cprev' = head
  BY DEF IInv, Claims, PopStubExchange, Pushing
<1>6. ChainComplete'
  <2>1. chain'[1] = tail' /\ chain'[Len(chain')] = head' /\ next'[head'] = NIL
    BY <1>1, <1>4, Facts DEF IInv, ChainComplete, PopStubExchange
  <2>2. \A i, j \in 1..Len(chain') : chain'[i] = chain'[j] => i = j
    BY <1>1, <1>2, Facts
  <2>3. /\ \A i \in 1..Len(chain') : chain'[i] \in owned' \cup {Stub}
        /\ \A m \in owned' : \E i \in 1..Len(chain') : chain'[i] = m
    BY <1>1, <1>5, Facts
  <2>4. ASSUME NEW i \in 1..Len(chain') - 1 PROVE Follows(chain[i], chain[i + 1])'
    <3>1. CASE i = Len(chain)
      <4>1. chain'[i] = head /\ chain'[i + 1] = Stub /\ next'[head] = NIL
        BY <3>1, <1>1, <1>4, Facts
      <4> QED BY <4>1, <1>5 DEF Follows
    <3>2. CASE i # Len(chain)
      <4>1. i \in 1..Len(chain) - 1 /\ chain'[i] = chain[i] /\ chain'[i + 1] = chain[i + 1]
        BY <3>2, <1>1, Facts
      <4>2. chain[i] \in Addr /\ chain[i] # Stub
        BY <4>1, <1>2, Facts
      <4>3. cprev # chain[i] /\ next'[chain[i]] = next[chain[i]]
        BY <4>2, <1>4, <1>5, AddrAssumption
      <4>4. Follows(chain[i], chain[i + 1])
        BY <4>1 DEF IInv, ChainComplete
      <4> QED BY <4>1, <4>3, <4>4, <1>5 DEF Follows
    <3> QED BY <3>1, <3>2
  <2> QED BY <1>1, <1>3, <2>1, <2>2, <2>3, <2>4 DEF ChainComplete
<1>7. Claims'
  <2>1. ASSUME NEW q \in Pushing
        PROVE  \E i \in 1..Len(chain') - 1 :
                 chain'[i] = prev[q] /\ chain'[i + 1] = node[q] /\ next'[prev[q]] = NIL
    <3>1. PICK i \in 1..Len(chain) - 1 :
            chain[i] = prev[q] /\ chain[i + 1] = node[q] /\ next[prev[q]] = NIL
      BY Zenon DEF IInv, Claims
    <3>2. next'[chain[i]] = NIL
      BY <3>1, <1>2, <1>4, Facts
    <3>3. i \in 1..Len(chain') - 1 /\ chain'[i] = chain[i] /\ chain'[i + 1] = chain[i + 1]
      BY <1>1, Facts
    <3> QED BY <3>1, <3>2, <3>3
  <2>2. \E i \in 1..Len(chain') - 1 :
          chain'[i] = cprev' /\ chain'[i + 1] = Stub /\ next'[cprev'] = NIL
    BY <1>1, <1>4, <1>5, Facts
  <2> QED BY <1>4, <1>5, <2>1, <2>2, ZenonT(30) DEF IInv, Claims
<1>8. Consumer'
  BY <1>5 DEF IInv, Consumer
<1> QED BY <1>6, <1>7, <1>8, SMTT(30) DEF IInv

(* The consumer writes the pointer to the stub that it had claimed. *)
LEMMA StubLinkStep ==
  ASSUME IInv, PopStubLink, failSeen' \in BOOLEAN
  PROVE  IInv'
<1>1. PICK k \in 1..Len(chain) - 1 :
        chain[k] = cprev /\ chain[k + 1] = Stub /\ next[cprev] = NIL
  BY DEF IInv, Claims, PopStubLink
<1>2. /\ k \in 1..Len(chain) /\ k + 1 \in 1..Len(chain)
      /\ chain[k] \in Addr /\ Stub \in Addr /\ Stub # NIL /\ cprev # NIL
  BY <1>1, Facts, AddrAssumption DEF Addr
<1>3. /\ next' = [next EXCEPT ![chain[k]] = Stub]
      /\ next'[chain[k]] = Stub
      /\ \A a \in Addr : a # chain[k] => next'[a] = next[a]
  BY <1>1, <1>2 DEF IInv, ChainComplete, TypeOK, PopStubLink
<1>4. /\ UNCHANGED <<head, tail, node, prev, owned, ret, chain>> /\ Pushing' = Pushing
      /\ cpc' = "last" /\ cpc = "stub_link" /\ cprev' = NIL
  BY DEF PopStubLink, Pushing
<1>5. TypeOK'
  <2>1. next' \in [Addr -> Addr \cup {NIL}]
    BY <1>2, <1>3 DEF IInv, ChainComplete, TypeOK
  <2> QED BY <2>1, <1>4 DEF IInv, ChainComplete, TypeOK
<1>6. \A q \in Pushing : prev[q] # chain[k]
  <2> SUFFICES ASSUME NEW q \in Pushing, prev[q] = chain[k] PROVE FALSE
    OBVIOUS
  <2>1. PICK i \in 1..Len(chain) - 1 : chain[i] = prev[q] /\ chain[i + 1] = node[q]
    BY DEF IInv, Claims
  <2>2. i = k
    BY <2>1, <1>2, Facts
  <2>3. node[q] \in Nodes
    BY DEF IInv, ChainComplete, TypeOK, Pushing
  <2> QED BY <2>1, <2>2, <2>3, <1>1, AddrAssumption
<1>7. ChainComplete'
  <2>1. next'[head'] = NIL
    <3>1. head = chain[Len(chain)] /\ head \in Addr /\ next[head] = NIL
      BY DEF IInv, ChainComplete, TypeOK
    <3>2. head # chain[k]
      BY <3>1, <1>1, <1>2, Facts
    <3> QED BY <3>1, <3>2, <1>3, <1>4
  <2>2. ASSUME NEW i \in 1..Len(chain) - 1 PROVE Follows(chain[i], chain[i + 1])'
    <3>1. CASE i = k
      BY <3>1, <1>1, <1>3, <1>4 DEF Follows
    <3>2. CASE i # k
      <4>1. Follows(chain[i], chain[i + 1])
        BY DEF IInv, ChainComplete
      <4>2. chain[i] # chain[k] /\ chain[i] \in Addr
        BY <3>2, <1>2, Facts
      <4>3. next'[chain[i]] = next[chain[i]] /\ cprev # chain[i]
        BY <4>2, <1>1, <1>3
      <4> QED BY <4>1, <4>3, <1>4 DEF Follows
    <3> QED BY <3>1, <3>2
  <2> QED BY <1>4, <1>5, <2>1, <2>2 DEF IInv, ChainComplete
<1>8. Claims'
  <2>1. ASSUME NEW q \in Pushing
        PROVE  \E i \in 1..Len(chain) - 1 :
                 chain[i] = prev[q] /\ chain[i + 1] = node[q] /\ next'[prev[q]] = NIL
    <3>1. PICK i \in 1..Len(chain) - 1 :
            chain[i] = prev[q] /\ chain[i + 1] = node[q] /\ next[prev[q]] = NIL
      BY DEF IInv, Claims
    <3>2. next'[prev[q]] = NIL
      BY <3>1, <1>3, <1>6, Facts
    <3> QED BY <3>1, <3>2
  <2> QED BY <1>4, <2>1 DEF IInv, Claims
<1>9. Consumer'
  BY <1>4 DEF IInv, Consumer
<1> QED BY <1>7, <1>8, <1>9 DEF IInv

(* A pointer that the consumer can follow from tail leads to the second    *)
(* element of the chain.                                                   *)
LEMMA SecondInChain ==
  ASSUME IInv, next[tail] # NIL
  PROVE  /\ Len(chain) > 1 /\ chain[1] = tail /\ chain[2] = next[tail]
         /\ \A q \in Pushing : prev[q] # tail
         /\ cprev # tail
<1>1. chain[1] = tail /\ chain[Len(chain)] = head /\ next[head] = NIL
  BY DEF IInv, ChainComplete
<1>2. Len(chain) > 1
  BY <1>1, Facts
<1>3. Follows(chain[1], chain[1 + 1])
  BY <1>2, Facts DEF IInv, ChainComplete
<1>4. chain[2] = next[tail]
  BY <1>1, <1>3 DEF Follows
<1>5. \A q \in Pushing : prev[q] # tail
  BY DEF IInv, Claims
<1>6. cprev # tail
  BY AddrAssumption DEF IInv, Claims, ChainComplete, TypeOK
<1> QED BY <1>1, <1>2, <1>4, <1>5, <1>6

(* Moving tail along its pointer drops the first element of the chain.     *)
(* Where the consumer goes from there, and what it gives back, is left     *)
(* open: the stub when it only steps over it, else the node it returns.    *)
LEMMA StepToStep ==
  ASSUME IInv, next[tail] # NIL, StepTo(next[tail]), failSeen' \in BOOLEAN,
         UNCHANGED <<head, next, node, prev, cprev>>, cprev = NIL,
         owned' = owned \ {tail}, ret' \in Nodes \cup {NIL},
         \/ cpc' = "idle"
         \/ cpc' = "reload" /\ tail = Stub
  PROVE  IInv'
<1>1. /\ chain' \in Seq(Addr) /\ Len(chain') = Len(chain) - 1
      /\ \A i \in 1..Len(chain) - 1 : chain'[i] = chain[i + 1]
  BY Facts, TailAt DEF StepTo
<1>2. chain' # <<>> /\ Len(chain') \in Nat \ {0}
  BY <1>1, SecondInChain, Facts
<1>3. tail' = chain[2] /\ tail = chain[1] /\ Len(chain) > 1 /\ Pushing' = Pushing
  BY SecondInChain DEF StepTo, Pushing
<1>4. TypeOK'
  BY <1>1, <1>3, Facts DEF IInv, ChainComplete, TypeOK
<1>5. ChainComplete'
  <2>1. chain'[1] = tail' /\ chain'[Len(chain')] = head' /\ next'[head'] = NIL
    BY <1>1, <1>2, <1>3, Facts DEF IInv, ChainComplete
  <2>2. ASSUME NEW i \in 1..Len(chain'), NEW j \in 1..Len(chain'), chain'[i] = chain'[j]
        PROVE  i = j
    <3>1. i + 1 \in 1..Len(chain) /\ j + 1 \in 1..Len(chain) /\ chain[i + 1] = chain[j + 1]
      BY <2>2, <1>1, Facts
    <3>2. i + 1 = j + 1
      BY <3>1, Facts
    <3> QED BY <3>2
  <2>3. \A i \in 1..Len(chain') : chain'[i] \in owned' \cup {Stub}
    BY <1>1, <1>3, Facts, SMTT(30)
  <2>4. ASSUME NEW m \in owned' PROVE \E i \in 1..Len(chain') : chain'[i] = m
    <3>1. m \in owned /\ m # chain[1]
      BY <1>3
    <3>2. PICK i \in 1..Len(chain) : chain[i] = m
      BY <3>1, Facts
    <3>3. i - 1 \in 1..Len(chain') /\ chain'[i - 1] = m
      BY <3>1, <3>2, <1>1, Facts
    <3> QED BY <3>3
  <2>5. ASSUME NEW i \in 1..Len(chain') - 1 PROVE Follows(chain[i], chain[i + 1])'
    <3>1. i + 1 \in 1..Len(chain) - 1 /\ chain'[i] = chain[i + 1] /\ chain'[i + 1] = chain[i + 2]
      BY <1>1, Facts
    <3>2. Follows(chain[i + 1], chain[(i + 1) + 1])
      BY <3>1 DEF IInv, ChainComplete
    <3> QED BY <3>1, <3>2, <1>3, SMTT(30) DEF Follows
  <2> QED BY <1>2, <1>4, <2>1, <2>2, <2>3, <2>4, <2>5 DEF ChainComplete
<1>6. Claims'
  <2>1. ASSUME NEW q \in Pushing
        PROVE  \E i \in 1..Len(chain') - 1 :
                 chain'[i] = prev[q] /\ chain'[i + 1] = node[q] /\ next[prev[q]] = NIL
    <3>1. PICK i \in 1..Len(chain) - 1 :
            chain[i] = prev[q] /\ chain[i + 1] = node[q] /\ next[prev[q]] = NIL
      BY DEF IInv, Claims
    <3>2. i # 1
      BY <3>1, <1>3
    <3>3. i - 1 \in 1..Len(chain') - 1 /\ chain'[i - 1] = chain[i] /\ chain'[(i - 1) + 1] = chain[i + 1]
      BY <3>2, <1>1, Facts
    <3> QED BY <3>1, <3>3
  <2> QED BY <1>3, <2>1, SMTT(30) DEF IInv, Claims
<1>7. Consumer'
  <2>1. 1 \in 1..Len(chain) /\ 2 \in 1..Len(chain)
    BY <1>3, Facts
  <2>2. chain[1] # chain[2]
    BY <2>1, Facts
  <2> QED BY <2>2, <1>3 DEF Consumer
<1> QED BY <1>5, <1>6, <1>7 DEF IInv

(* A chain that begins where it ends has one element. *)
LEMMA OneElement ==
  ASSUME IInv, tail = head
  PROVE  Len(chain) = 1
<1>1. chain[1] = chain[Len(chain)]
  BY DEF IInv, ChainComplete
<1>2. 1 \in 1..Len(chain) /\ Len(chain) \in 1..Len(chain)
  BY Facts
<1> QED BY <1>1, <1>2, Facts, ZenonT(30)

(* Steps of the consumer that only read: the chain stays as it is. *)
LEMMA LookStep ==
  ASSUME IInv, UNCHANGED <<head, tail, next, node, prev, cprev, chain>>, cprev = NIL,
         owned' = owned, ret' \in Nodes \cup {NIL}, failSeen' \in BOOLEAN,
         \/ cpc' = "idle"
         \/ cpc' = "head" /\ tail # Stub
         \/ cpc' = "stub_exchange" /\ tail # Stub /\ tail = head
  PROVE  IInv'
<1>1. Pushing' = Pushing
  BY DEF Pushing
<1>2. TypeOK'
  BY DEF IInv, ChainComplete, TypeOK
<1>3. ChainComplete'
  <2>1. \A i \in 1..Len(chain) - 1 : Follows(chain[i], chain[i + 1])'
    BY <1>1, SMTT(30) DEF IInv, ChainComplete, Follows
  <2> QED BY <1>2, <2>1 DEF IInv, ChainComplete
<1>4. Claims'
  BY <1>1 DEF IInv, Claims
<1>5. Consumer'
  <2>1. chain[1] = tail /\ chain[Len(chain)] = head
    BY DEF IInv, ChainComplete
  <2>2. ASSUME tail # Stub, tail = head PROVE \A i \in 1..Len(chain) : chain[i] # Stub
    <3>1. Len(chain) = 1
      BY <2>2, OneElement
    <3>2. ASSUME NEW i \in 1..Len(chain) PROVE i = 1
      BY <3>1, <3>2
    <3> QED BY <2>1, <2>2, <3>2
  <2> QED BY <2>2 DEF Consumer
<1> QED BY <1>3, <1>4, <1>5 DEF IInv

(* Every place of mpscq_pop() is one of the steps above. *)
LEMMA PopStep ==
  ASSUME IInv, Pop, failSeen' \in BOOLEAN
  PROVE  IInv'
<1>0. /\ NIL \notin owned /\ tail \in Addr /\ (tail # Stub => tail \in Nodes) /\ ret \in Nodes \cup {NIL}
      /\ (tail # Stub => tail \in owned) /\ (cpc # "stub_link" => cprev = NIL) /\ Stub \notin owned
  BY Facts, AddrAssumption DEF IInv, Claims, ChainComplete, TypeOK, Addr
<1>1. CASE PopLoad
  <2>1. CASE tail = Stub /\ next[tail] = NIL /\ Return(NIL) /\ UNCHANGED <<tail, chain>>
    BY <2>1, <1>0, <1>1, LookStep, SMTT(30) DEF PopLoad, Return
  <2>2. CASE tail = Stub /\ next[tail] # NIL /\ StepTo(next[tail]) /\ cpc' = "reload" /\ UNCHANGED <<ret, owned>>
    BY <2>2, <1>0, <1>1, StepToStep DEF PopLoad
  <2>3. CASE tail # Stub /\ next[tail] # NIL /\ Advance(next[tail])
    BY <2>3, <1>0, <1>1, StepToStep, SMTT(30) DEF PopLoad, Advance, Return
  <2>4. CASE tail # Stub /\ next[tail] = NIL /\ cpc' = "head" /\ UNCHANGED <<tail, ret, owned, chain>>
    BY <2>4, <1>0, <1>1, LookStep DEF PopLoad
  <2> QED BY <1>1, <2>1, <2>2, <2>3, <2>4, SMTT(30) DEF PopLoad
<1>2. CASE PopReload
  <2>0. tail # Stub
    BY <1>2, SMTT(30) DEF IInv, Consumer, PopReload
  <2>1. CASE next[tail] # NIL /\ Advance(next[tail])
    BY <2>0, <2>1, <1>0, <1>2, StepToStep DEF PopReload, Advance, Return
  <2>2. CASE next[tail] = NIL /\ cpc' = "head" /\ UNCHANGED <<tail, ret, owned, chain>>
    BY <2>0, <2>2, <1>0, <1>2, LookStep DEF PopReload
  <2> QED BY <1>2, <2>1, <2>2, SMTT(30) DEF PopReload
<1>3. CASE PopHead
  <2>0. tail # Stub
    BY <1>3 DEF IInv, Consumer, PopHead
  <2> QED BY <2>0, <1>0, <1>3, LookStep DEF PopHead, Return
<1>4. CASE PopStubExchange
  BY <1>4, StubExchangeStep
<1>5. CASE PopStubLink
  BY <1>5, StubLinkStep
<1>6. CASE PopLast
  <2>0. tail # Stub
    BY <1>6 DEF IInv, Consumer, PopLast
  <2>1. CASE next[tail] # NIL /\ Advance(next[tail])
    BY <2>0, <2>1, <1>0, <1>6, StepToStep DEF PopLast, Advance, Return
  <2>2. CASE next[tail] = NIL /\ Return(NIL) /\ UNCHANGED <<tail, chain>>
    BY <2>2, <1>0, <1>6, LookStep DEF PopLast, Return
  <2> QED BY <1>6, <2>1, <2>2 DEF PopLast
<1> QED BY <1>1, <1>2, <1>3, <1>4, <1>5, <1>6, SMTT(30) DEF Pop

(* The invariant is inductive. *)
LEMMA IInvStep == IInv /\ [Next]_vars => IInv'
<1> SUFFICES ASSUME IInv, [Next]_vars PROVE IInv'
  OBVIOUS
<1>1. CASE Next
  <2>1. failSeen' \in BOOLEAN
    BY <1>1, Zenon DEF Next, Observe
  <2>2. CASE Pop
    BY <2>1, <2>2, PopStep
  <2>3. ASSUME NEW p \in Producers, PushLink(p) PROVE IInv'
    BY <2>1, <2>3, PushLinkStep
  <2>4. ASSUME NEW p \in Producers, NEW n \in Nodes, PushExchange(p, n) PROVE IInv'
    BY <2>1, <2>4, PushExchangeStep, SMTT(30)
  <2> QED BY <1>1, <2>2, <2>3, <2>4 DEF Next
<1>2. CASE UNCHANGED vars
  BY <1>2 DEF vars, IInv, ChainComplete, TypeOK, Follows, Pushing, Claims, Consumer
<1> QED BY <1>1, <1>2

(* The inductive invariant holds in every reachable state. *)
THEOREM Inductive == Spec => []IInv
BY InitIInv, IInvStep, PTL DEF Spec

(* The pointers from tail form one chain that holds every node given to    *)
(* the queue once and ends at head, whatever the consumer's re-insertion   *)
(* of the stub and the producers' pushes overlap with (lib/queue.c).       *)
THEOREM ChainAlwaysComplete == Spec => []ChainComplete
<1>1. IInv => ChainComplete
  BY DEF IInv
<1> QED BY <1>1, Inductive, PTL

(* A push never writes prev->next of a node that mpscq_pop() has already   *)
(* returned.                                                               *)
THEOREM LinkNeverStale == Spec => []LinkTargetLive
<1>1. IInv => LinkTargetLive
  <2> SUFFICES ASSUME IInv PROVE LinkTargetLive
    OBVIOUS
  <2>1. ASSUME NEW p \in Pushing PROVE prev[p] \in owned \cup {Stub}
    <3>1. PICK i \in 1..Len(chain) - 1 : chain[i] = prev[p]
      BY DEF IInv, Claims
    <3> QED BY <3>1, Facts
  <2>2. ASSUME cprev # NIL PROVE cprev \in owned
    <3>1. PICK i \in 1..Len(chain) - 1 : chain[i] = cprev /\ chain[i + 1] = Stub
      BY <2>2 DEF IInv, Claims
    <3>2. chain[i] # Stub
      BY <3>1, Facts
    <3> QED BY <3>1, <3>2, Facts
  <2> QED BY <2>1, <2>2 DEF LinkTargetLive
<1> QED BY <1>1, Inductive, PTL

-----------------------------------------------------------------------------
(* The abstract queue. *)

(* The chain always holds something. *)
LEMMA OneOrMore ==
  ASSUME IInv
  PROVE  Len(chain) = 1 \/ Len(chain) > 1
<1>1. Len(chain) \in Nat /\ Len(chain) # 0
  BY Facts
<1>2. \A k \in Nat : k # 0 => k = 1 \/ k > 1
  OBVIOUS
<1> QED BY <1>1, <1>2, ZenonT(30)

(* A node that some push has still to link is not the first in the chain,  *)
(* and the pointer to it is NULL.                                          *)
LEMMA UnlinkedLater ==
  ASSUME IInv, NEW n \in Unlinked
  PROVE  \E i \in 1..Len(chain) - 1 : chain[i + 1] = n /\ next[chain[i]] = NIL
BY DEF IInv, Claims, Unlinked

(* The second element is reachable from the first, or a push has claimed it. *)
LEMMA NextOrClaim ==
  ASSUME IInv, cpc # "stub_link", Len(chain) > 1, next[tail] = NIL
  PROVE  chain[2] \in Unlinked /\ Unlinked # {} /\ Pushing # {}
<1>1. Follows(chain[1], chain[1 + 1]) /\ chain[1] = tail
  BY Facts, SMTT(30) DEF IInv, ChainComplete
<1>2. cprev = NIL /\ tail # NIL /\ chain[2] # NIL
  BY Facts, AddrAssumption DEF IInv, Claims, ChainComplete, TypeOK
<1>3. \E p \in Pushing : node[p] = chain[2]
  BY <1>1, <1>2 DEF Follows
<1> QED BY <1>3 DEF Unlinked

(* While tail is not the stub, the abstract queue begins with tail, and    *)
(* moving tail on removes just that.                                       *)
LEMMA OrderFirst ==
  ASSUME IInv, tail # Stub
  PROVE  /\ Order # <<>> /\ Order \in Seq(Addr) /\ Head(Order) = tail
         /\ tail \notin Unlinked
         /\ Len(chain) > 1 => Tail(Order) = WithoutStub(Tail(chain))
<1>0. chain[1] = tail
  BY DEF IInv, ChainComplete
<1>1. tail \notin Unlinked
  <2> SUFFICES ASSUME tail \in Unlinked PROVE FALSE
    OBVIOUS
  <2>1. PICK i \in 1..Len(chain) - 1 : chain[i + 1] = tail
    BY UnlinkedLater
  <2>2. i + 1 = 1
    BY <2>1, <1>0, Facts
  <2> QED BY <2>2, Facts
<1>2. CASE \A i \in 1..Len(chain) : chain[i] # Stub
  <2>1. Order = chain
    BY <1>2, Facts, NoStub, SMTT(30) DEF Order
  <2>2. ASSUME Len(chain) > 1 PROVE WithoutStub(Tail(chain)) = Tail(chain)
    <3>1. /\ Tail(chain) \in Seq(Addr) /\ Len(Tail(chain)) = Len(chain) - 1
          /\ \A i \in 1..Len(chain) - 1 : Tail(chain)[i] = chain[i + 1]
      BY Facts, TailAt
    <3>2. \A i \in 1..Len(Tail(chain)) : Tail(chain)[i] # Stub
      BY <3>1, <1>2, Facts
    <3> QED BY <3>1, <3>2, NoStub, ZenonT(30)
  <2> QED BY <1>0, <1>1, <2>1, <2>2, Facts
<1>3. CASE \E i \in 1..Len(chain) : chain[i] = Stub
  <2>1. PICK k \in 1..Len(chain) : chain[k] = Stub
    BY <1>3
  <2>2. k > 1 /\ Len(chain) > 1
    BY <2>1, <1>0, Facts
  <2>3. /\ Order \in Seq(Addr) /\ Len(Order) = Len(chain) - 1
        /\ \A i \in 1..Len(chain) - 1 : Order[i] = IF i < k THEN chain[i] ELSE chain[i + 1]
    BY <2>1, StubLeftOut, Facts, SMTT(30) DEF Order
  <2>4. Order # <<>> /\ Head(Order) = tail
    BY <2>2, <2>3, <1>0, Facts
  <2>5. /\ Tail(chain) \in Seq(Addr) /\ Len(Tail(chain)) = Len(chain) - 1
        /\ \A i \in 1..Len(chain) - 1 : Tail(chain)[i] = chain[i + 1]
    BY Facts, TailAt
  <2>6. /\ k - 1 \in 1..Len(Tail(chain)) /\ Tail(chain)[k - 1] = Stub
        /\ \A i \in 1..Len(Tail(chain)) : Tail(chain)[i] = Stub => i = k - 1
    <3>1. k - 1 \in 1..Len(Tail(chain)) /\ Tail(chain)[k - 1] = Stub
      BY <2>1, <2>2, <2>5, Facts
    <3>2. ASSUME NEW i \in 1..Len(Tail(chain)), Tail(chain)[i] = Stub PROVE i = k - 1
      <4>1. i + 1 \in 1..Len(chain) /\ chain[i + 1] = Stub
        <5>1. i + 1 \in 1..Len(chain) /\ i \in 1..Len(chain) - 1
          BY <2>5, Facts
        <5> QED BY <5>1, <3>2, <2>5
      <4>2. i + 1 = k
        BY <4>1, <2>1, Facts
      <4> QED BY <4>2
    <3> QED BY <3>1, <3>2
  <2>7. /\ WithoutStub(Tail(chain)) \in Seq(Addr)
        /\ Len(WithoutStub(Tail(chain))) = Len(Tail(chain)) - 1
        /\ \A i \in 1..Len(Tail(chain)) - 1 : WithoutStub(Tail(chain))[i] =
             IF i < k - 1 THEN Tail(chain)[i] ELSE Tail(chain)[i + 1]
    BY <2>5, <2>6, StubLeftOut, ZenonT(30)
  <2>8. /\ Tail(Order) \in Seq(Addr) /\ Len(Tail(Order)) = Len(Order) - 1
        /\ \A i \in 1..Len(Order) - 1 : Tail(Order)[i] = Order[i + 1]
    BY <2>3, <2>4, TailAt
  <2>9. Len(Tail(Order)) = Len(WithoutStub(Tail(chain)))
    BY <2>3, <2>5, <2>7, <2>8
  <2>10. ASSUME NEW i \in 1..Len(Tail(Order)) PROVE Tail(Order)[i] = WithoutStub(Tail(chain))[i]
    <3>1. i \in 1..Len(chain) - 2
      BY <2>3, <2>8, Facts
    <3>2. Tail(Order)[i] = IF i + 1 < k THEN chain[i + 1] ELSE chain[(i + 1) + 1]
      BY <3>1, <2>3, <2>8, Facts, SMTT(30)
    <3>3. WithoutStub(Tail(chain))[i] = IF i < k - 1 THEN chain[i + 1] ELSE chain[(i + 1) + 1]
      BY <3>1, <2>5, <2>7, Facts
    <3> QED BY <3>1, <3>2, <3>3, Facts
  <2>11. Tail(Order) = WithoutStub(Tail(chain))
    BY <2>7, <2>8, <2>9, <2>10, SeqEqual, SMTT(30)
  <2> QED BY <1>1, <2>3, <2>4, <2>11
<1> QED BY <1>2, <1>3

(* While tail is the stub, the abstract queue is the rest of the chain. *)
LEMMA OrderRest ==
  ASSUME IInv, tail = Stub
  PROVE  /\ Order \in Seq(Addr) /\ Len(Order) = Len(chain) - 1
         /\ \A i \in 1..Len(chain) - 1 : Order[i] = chain[i + 1]
         /\ Len(chain) > 1 => Order = WithoutStub(Tail(chain))
<1>0. chain[1] = Stub /\ 1 \in 1..Len(chain)
  BY Facts DEF IInv, ChainComplete
<1>1. /\ Order \in Seq(Addr) /\ Len(Order) = Len(chain) - 1
      /\ \A i \in 1..Len(chain) - 1 : Order[i] = IF i < 1 THEN chain[i] ELSE chain[i + 1]
  BY <1>0, StubLeftOut, Facts, SMTT(30) DEF Order
<1>2. \A i \in 1..Len(chain) - 1 : Order[i] = chain[i + 1]
  BY <1>1, Facts
<1>3. /\ Tail(chain) \in Seq(Addr) /\ Len(Tail(chain)) = Len(chain) - 1
      /\ \A i \in 1..Len(chain) - 1 : Tail(chain)[i] = chain[i + 1]
  BY Facts, TailAt
<1>4. \A i \in 1..Len(Tail(chain)) : Tail(chain)[i] # Stub
  BY <1>0, <1>3, Facts
<1>5. WithoutStub(Tail(chain)) = Tail(chain)
  BY <1>3, <1>4, NoStub, ZenonT(30)
<1>6. Order = Tail(chain)
  BY <1>1, <1>2, <1>3, SeqEqual
<1> QED BY <1>1, <1>2, <1>5, <1>6

(* IsEmptyExact, for any number of producers and nodes: while no pop is    *)
(* running, mpscq_is_empty answers TRUE just when no linked node leads the  *)
(* queue.                                                                   *)
THEOREM EmptyAnswerExact == Spec => []IsEmptyExact
<1>1. ASSUME IInv PROVE IsEmptyExact
  <2> SUFFICES ASSUME cpc = "idle"
               PROVE  MpscqIsEmpty <=> (Order = <<>> \/ Head(Order) \in Unlinked)
    BY DEF IsEmptyExact, Fifo!HeadReachable
  <2>1. CASE tail # Stub
    BY <1>1, <2>1, OrderFirst DEF MpscqIsEmpty
  <2>2. CASE tail = Stub
    <3>1. /\ Order \in Seq(Addr) /\ Len(Order) = Len(chain) - 1
          /\ \A i \in 1..Len(chain) - 1 : Order[i] = chain[i + 1]
      BY <1>1, <2>2, OrderRest
    <3>2. Len(chain) \in Nat \ {0} /\ chain[1] = tail
      BY <1>1, Facts DEF IInv, ChainComplete
    <3>3. CASE Len(chain) = 1
      <4>1. next[tail] = NIL
        BY <1>1, <3>2, <3>3 DEF IInv, ChainComplete
      <4>2. Order = <<>>
        BY <3>1, <3>3
      <4> QED BY <2>2, <4>1, <4>2 DEF MpscqIsEmpty
    <3>4. CASE Len(chain) > 1
      <4>1. Order # <<>> /\ Head(Order) = chain[2]
        BY <3>1, <3>2, <3>4
      <4>2. CASE next[tail] = NIL
        BY <1>1, <2>2, <3>4, <4>1, <4>2, NextOrClaim DEF MpscqIsEmpty
      <4>3. CASE next[tail] # NIL
        <5> SUFFICES ASSUME chain[2] \in Unlinked PROVE FALSE
          BY <2>2, <4>1, <4>3 DEF MpscqIsEmpty
        <5>1. PICK i \in 1..Len(chain) - 1 : chain[i + 1] = chain[2] /\ next[chain[i]] = NIL
          BY <1>1, UnlinkedLater
        <5>2. i + 1 \in 1..Len(chain) /\ 2 \in 1..Len(chain)
          BY <3>2, <3>4
        <5>3. i + 1 = 2
          BY <1>1, <5>1, <5>2, Facts
        <5>4. i = 1
          BY <5>3
        <5> QED BY <5>1, <5>4, <3>2, <4>3
      <4> QED BY <4>2, <4>3
    <3>5. Len(chain) = 1 \/ Len(chain) > 1
      BY <1>1, OneOrMore
    <3> QED BY <3>3, <3>4, <3>5
  <2> QED BY <2>1, <2>2
<1> QED BY <1>1, Inductive, PTL

(* Everything in the abstract queue is a node its owner has handed over. *)
LEMMA OrderOwned ==
  ASSUME IInv
  PROVE  Order \in Seq(Addr) /\ \A i \in 1..Len(Order) : Order[i] \in owned
<1>1. CASE \A i \in 1..Len(chain) : chain[i] # Stub
  <2>1. Order = chain
    BY <1>1, Facts, NoStub DEF Order
  <2> QED BY <1>1, <2>1, Facts
<1>2. CASE \E i \in 1..Len(chain) : chain[i] = Stub
  <2>1. PICK k \in 1..Len(chain) : chain[k] = Stub
    BY <1>2
  <2>2. /\ Order \in Seq(Addr) /\ Len(Order) = Len(chain) - 1
        /\ \A i \in 1..Len(chain) - 1 : Order[i] = IF i < k THEN chain[i] ELSE chain[i + 1]
    BY <2>1, StubLeftOut, Facts, SMTT(30) DEF Order
  <2>3. ASSUME NEW i \in 1..Len(Order) PROVE Order[i] \in owned
    <3>1. i \in 1..Len(chain) /\ i + 1 \in 1..Len(chain) /\ i \in 1..Len(chain) - 1
      BY <2>2, Facts
    <3>2. CASE i < k
      <4>1. chain[i] # Stub
        BY <3>1, <3>2, <2>1, Facts
      <4> QED BY <3>1, <3>2, <4>1, <2>2, Facts
    <3>3. CASE ~(i < k)
      <4>1. chain[i + 1] # Stub
        BY <3>1, <3>3, <2>1, Facts
      <4> QED BY <3>1, <3>3, <4>1, <2>2, Facts
    <3> QED BY <3>2, <3>3
  <2> QED BY <2>2, <2>3
<1> QED BY <1>1, <1>2

(* The first half of mpscq_push() appends to the abstract queue. *)
LEMMA ExchangeMaps ==
  ASSUME IInv, NEW p \in Producers, NEW n \in Nodes, PushExchange(p, n)
  PROVE  Fifo!Exchange(n)
<1>0. n \in Addr /\ n # Stub /\ n # NIL /\ n \notin owned
  BY AddrAssumption, SMTT(30) DEF PushExchange, Addr
<1>1. /\ chain' \in Seq(Addr) /\ Len(chain') = Len(chain) + 1
      /\ \A i \in 1..Len(chain) : chain'[i] = chain[i]
      /\ chain'[Len(chain) + 1] = n
  BY <1>0, Facts, AppendAt DEF PushExchange
<1>2. /\ Append(Order, n) \in Seq(Addr) /\ Len(Order) \in Nat
      /\ Len(Append(Order, n)) = Len(Order) + 1
      /\ \A i \in 1..Len(Order) : Append(Order, n)[i] = Order[i]
      /\ Append(Order, n)[Len(Order) + 1] = n
  BY <1>0, OrderOwned, AppendAt
<1>3. n \notin Fifo!Queued
  BY <1>0, OrderOwned DEF Fifo!Queued
<1>4. Unlinked' = Unlinked \cup {n}
  <2>1. /\ node \in [Producers -> Nodes \cup {NIL}]
        /\ node' = [node EXCEPT ![p] = n] /\ node[p] = NIL
    BY DEF IInv, ChainComplete, TypeOK, PushExchange
  <2> QED BY <2>1, <1>0, SMTT(30) DEF Unlinked, Pushing
<1>5. Order' = Append(Order, n)
  <2>1. CASE \A i \in 1..Len(chain) : chain[i] # Stub
    <3>1. Order = chain
      BY <2>1, Facts, NoStub DEF Order
    <3>2. \A i \in 1..Len(chain') : chain'[i] # Stub
      BY <2>1, <1>0, <1>1, Facts
    <3>3. WithoutStub(chain') = chain'
      BY <1>1, <3>2, NoStub
    <3> QED BY <3>1, <3>3 DEF Order, PushExchange
  <2>2. CASE \E i \in 1..Len(chain) : chain[i] = Stub
    <3>1. PICK k \in 1..Len(chain) : chain[k] = Stub
      BY <2>2
    <3>2. /\ Order \in Seq(Addr) /\ Len(Order) = Len(chain) - 1
          /\ \A i \in 1..Len(chain) - 1 : Order[i] = IF i < k THEN chain[i] ELSE chain[i + 1]
      BY <3>1, StubLeftOut, Facts, SMTT(30) DEF Order
    <3>3. /\ k \in 1..Len(chain') /\ chain'[k] = Stub
          /\ \A i \in 1..Len(chain') : chain'[i] = Stub => i = k
      BY <3>1, <1>0, <1>1, Facts
    <3>4. /\ WithoutStub(chain') \in Seq(Addr) /\ Len(WithoutStub(chain')) = Len(chain') - 1
          /\ \A i \in 1..Len(chain') - 1 :
               WithoutStub(chain')[i] = IF i < k THEN chain'[i] ELSE chain'[i + 1]
      BY <1>1, <3>3, StubLeftOut, ZenonT(30)
    <3>5. ASSUME NEW i \in 1..Len(chain) PROVE WithoutStub(chain')[i] = Append(Order, n)[i]
      <4>1. CASE i = Len(chain)
        <5>1. ~(i < k) /\ i \in 1..Len(chain') - 1
          BY <4>1, <1>1, Facts
        <5>2. WithoutStub(chain')[i] = chain'[i + 1]
          BY <5>1, <3>4
        <5>3. Append(Order, n)[i] = n
          BY <4>1, <3>2, <1>2, Facts, SMTT(30)
        <5> QED BY <4>1, <5>2, <5>3, <1>1
      <4>2. CASE i # Len(chain)
        <5>1. /\ i \in 1..Len(chain) - 1 /\ i \in 1..Len(Order) /\ i \in 1..Len(chain') - 1
              /\ i + 1 \in 1..Len(chain)
          BY <4>2, <1>1, <3>2, Facts, SMTT(30)
        <5>2. WithoutStub(chain')[i] = IF i < k THEN chain[i] ELSE chain[i + 1]
          BY <5>1, <3>4, <1>1, SMTT(30)
        <5> QED BY <5>1, <5>2, <3>2, <1>2, SMTT(30)
      <4> QED BY <4>1, <4>2, ZenonT(30)
    <3>6. Len(WithoutStub(chain')) = Len(chain) /\ Len(Append(Order, n)) = Len(chain)
      BY <1>1, <1>2, <3>2, <3>4, Facts, SMTT(30)
    <3>7. WithoutStub(chain') = Append(Order, n)
      BY <1>2, <3>4, <3>5, <3>6, SeqEqual, SMTT(30)
    <3> QED BY <3>7 DEF Order
  <2> QED BY <2>1, <2>2
<1> QED BY <1>3, <1>4, <1>5 DEF Fifo!Exchange

(* The second half links the node. *)
LEMMA LinkMaps ==
  ASSUME IInv, NEW p \in Producers, PushLink(p)
  PROVE  Fifo!Link(node[p]) /\ node[p] \in Nodes
<1>1. /\ node \in [Producers -> Nodes \cup {NIL}] /\ node[p] # NIL
      /\ node' = [node EXCEPT ![p] = NIL]
  BY DEF IInv, ChainComplete, TypeOK, PushLink
<1>2. Unlinked' = Unlinked \ {node[p]}
  <2>1. Pushing' = Pushing \ {p} /\ p \in Pushing
    BY <1>1, SMTT(30) DEF Pushing
  <2>2. \A q \in Pushing : q # p => node'[q] = node[q] /\ node[q] # node[p]
    BY <1>1, <2>1 DEF IInv, Claims, Pushing
  <2> QED BY <2>1, <2>2 DEF Unlinked
<1>3. node[p] \in Unlinked
  BY <1>1 DEF Unlinked, Pushing
<1>4. Order' = Order
  BY DEF Order, PushLink
<1> QED BY <1>1, <1>2, <1>3, <1>4 DEF Fifo!Link

(* Re-inserting the stub does not change the abstract queue. *)
LEMMA StubExchangeMaps ==
  ASSUME IInv, PopStubExchange
  PROVE  Order' = Order
<1>1. \A i \in 1..Len(chain) : chain[i] # Stub
  BY StubAppended
<1>2. Order = chain
  BY <1>1, Facts, NoStub DEF Order
<1>3. /\ chain' \in Seq(Addr) /\ Len(chain') = Len(chain) + 1
      /\ \A i \in 1..Len(chain) : chain'[i] = chain[i]
      /\ chain'[Len(chain) + 1] = Stub
  BY StubAppended
<1>4. /\ Len(chain) + 1 \in 1..Len(chain')
      /\ \A i \in 1..Len(chain') : chain'[i] = Stub => i = Len(chain) + 1
  BY <1>1, <1>3, Facts
<1>5. /\ WithoutStub(chain') \in Seq(Addr) /\ Len(WithoutStub(chain')) = Len(chain') - 1
      /\ \A i \in 1..Len(chain') - 1 :
           WithoutStub(chain')[i] = IF i < Len(chain) + 1 THEN chain'[i] ELSE chain'[i + 1]
  BY <1>3, <1>4, StubLeftOut, ZenonT(30)
<1>6. Len(WithoutStub(chain')) = Len(chain)
  BY <1>3, <1>5, Facts
<1>7. \A i \in 1..Len(chain) : WithoutStub(chain')[i] = chain[i]
  BY <1>3, <1>5, Facts
<1>8. WithoutStub(chain') = chain
  BY <1>5, <1>6, <1>7, Facts, SeqEqual
<1> QED BY <1>2, <1>8 DEF Order

(* Each step of mpscq_pop() removes the oldest node or changes nothing the *)
(* abstract queue shows.                                                   *)
LEMMA PopMaps ==
  ASSUME IInv, Pop
  PROVE  Fifo!PopNode \/ UNCHANGED <<Order, Unlinked>>
<1>1. Unlinked' = Unlinked
  BY DEF Pop, PopLoad, PopReload, PopHead, PopStubExchange, PopStubLink, PopLast, Unlinked, Pushing
<1>2. ASSUME chain' = chain PROVE Order' = Order
  BY <1>2 DEF Order
<1>3. ASSUME tail # Stub, next[tail] # NIL, chain' = Tail(chain) PROVE Fifo!PopNode
  <2>1. Order' = Tail(Order)
    BY <1>3, SecondInChain, OrderFirst DEF Order
  <2> QED BY <1>1, <1>3, <2>1, OrderFirst DEF Fifo!PopNode, Fifo!HeadReachable
<1>4. ASSUME tail = Stub, next[tail] # NIL, chain' = Tail(chain) PROVE Order' = Order
  <2>1. Order = WithoutStub(Tail(chain))
    BY <1>4, SecondInChain, OrderRest, SMTT(30)
  <2> QED BY <1>4, <2>1 DEF Order
<1>5. CASE PopLoad
  <2>1. \/ chain' = chain
        \/ tail # Stub /\ next[tail] # NIL /\ chain' = Tail(chain)
        \/ tail = Stub /\ next[tail] # NIL /\ chain' = Tail(chain)
    BY <1>5 DEF PopLoad, Advance, StepTo
  <2> QED BY <1>1, <1>2, <1>3, <1>4, <2>1, SMTT(30)
<1>6. CASE PopReload \/ PopLast
  <2>1. tail # Stub
    BY <1>6, ZenonT(30) DEF IInv, Consumer, PopReload, PopLast
  <2>2. chain' = chain \/ (next[tail] # NIL /\ chain' = Tail(chain))
    BY <1>6 DEF PopReload, PopLast, Advance, StepTo
  <2> QED BY <1>1, <1>2, <1>3, <2>1, <2>2
<1>7. CASE PopHead \/ PopStubLink
  BY <1>1, <1>2, <1>7 DEF PopHead, PopStubLink
<1>8. CASE PopStubExchange
  BY <1>1, <1>8, StubExchangeMaps
<1> QED BY <1>5, <1>6, <1>7, <1>8, SMTT(30) DEF Pop

(* RefinesFifo, for any number of producers and nodes: the pointers, the   *)
(* exchanges and the stub of lib/queue.c implement a FIFO in the order of   *)
(* the exchanges of q->head.                                               *)
THEOREM ImplementsFifo == Spec => RefinesFifo
<1>1. Init => Fifo!QueueInit
  <2> SUFFICES ASSUME Init PROVE Order = <<>> /\ Unlinked = {}
    BY DEF Fifo!QueueInit
  <2>1. IInv /\ tail = Stub /\ chain = <<Stub>> /\ Len(chain) = 1
    BY InitIInv DEF Init
  <2>2. Order \in Seq(Addr) /\ Len(Order) = 0
    BY <2>1, OrderRest
  <2>3. Unlinked = {}
    BY DEF Init, Unlinked, Pushing
  <2> QED BY <2>2, <2>3, EmptySeq
<1>2. IInv /\ [Next]_vars => [Fifo!QueueNext]_(Fifo!queueVars)
  <2> SUFFICES ASSUME IInv, [Next]_vars
               PROVE  Fifo!QueueNext \/ UNCHANGED <<Order, Unlinked>>
    BY DEF Fifo!queueVars
  <2>1. ASSUME NEW p \in Producers, NEW n \in Nodes, PushExchange(p, n) PROVE Fifo!QueueNext
    BY <2>1, ExchangeMaps DEF Fifo!QueueNext
  <2>2. ASSUME NEW p \in Producers, PushLink(p) PROVE Fifo!QueueNext
    BY <2>2, LinkMaps DEF Fifo!QueueNext
  <2>3. ASSUME Pop PROVE Fifo!QueueNext \/ UNCHANGED <<Order, Unlinked>>
    BY <2>3, PopMaps DEF Fifo!QueueNext
  <2>4. CASE UNCHANGED vars
    BY <2>4 DEF vars, Order, Unlinked, Pushing
  <2> QED BY <2>1, <2>2, <2>3, <2>4 DEF Next
<1> QED BY <1>1, <1>2, Inductive, PTL DEF Spec, RefinesFifo, Fifo!QueueSpec

-----------------------------------------------------------------------------
(* NULL answers. *)

(* Why the pop in progress may still fail: something justified it already, *)
(* a push is between its halves, or the consumer is on the way on which it  *)
(* cannot fail any more unless one begins.                                  *)
Excused == failSeen \/ Pushing # {}
Grounds ==
  /\ cpc \in {"head", "stub_exchange"} => Excused \/ Len(chain) = 1
  /\ cpc = "stub_link" => Excused \/ (Len(chain) = 2 /\ chain[2] = Stub)
  /\ cpc = "last" => Excused \/ next[tail] # NIL

(* An excuse is kept while the pop goes on. *)
LEMMA ExcuseKept ==
  ASSUME IInv, Observe, cpc # "idle", Excused
  PROVE  failSeen' = TRUE
<1>1. CASE Pushing # {}
  <2>1. Fifo!PopMayFail
    BY <1>1 DEF Fifo!PopMayFail, Unlinked
  <2> QED BY <2>1, Zenon DEF Observe
<1>2. CASE failSeen
  BY <1>2, Zenon DEF Observe, IInv, ChainComplete, TypeOK
<1> QED BY <1>1, <1>2, ZenonT(30) DEF Excused

(* Every step keeps the grounds for a NULL answer. *)
LEMMA GroundsStep == IInv /\ Grounds /\ [Next]_vars => Grounds'
<1> SUFFICES ASSUME IInv, Grounds, [Next]_vars PROVE Grounds'
  OBVIOUS
<1>0. CASE UNCHANGED vars
  BY <1>0 DEF vars, Grounds, Excused, Pushing
<1> SUFFICES ASSUME Next PROVE Grounds'
  BY <1>0
<1>1. Observe
  BY DEF Next
<1>2. ASSUME cpc # "idle", Excused PROVE Grounds'
  BY <1>1, <1>2, ExcuseKept, ZenonT(30) DEF Grounds, Excused
<1>3. ASSUME NEW p \in Producers, NEW n \in Nodes, PushExchange(p, n) PROVE Grounds'
  <2>1. p \in Pushing'
    BY <1>3, AddrAssumption, SMTT(30) DEF PushExchange, Pushing, IInv, ChainComplete, TypeOK, Addr
  <2> QED BY <2>1 DEF Grounds, Excused
<1>4. ASSUME NEW p \in Producers, PushLink(p) PROVE Grounds'
  <2>1. Excused
    BY <1>4 DEF PushLink, Pushing, Excused
  <2> QED BY <1>2, <1>4, <2>1 DEF PushLink, Grounds
<1>5. CASE PopLoad \/ PopReload
  <2>1. Pushing' = Pushing /\ cpc # "stub_link" /\ cpc' \in {"idle", "reload", "head"}
    BY <1>5, SMTT(30) DEF PopLoad, PopReload, Pushing, Advance, Return
  <2>2. ASSUME cpc' = "head" PROVE next[tail] = NIL /\ chain' = chain
    BY <1>5, <2>2 DEF PopLoad, PopReload, Advance, Return
  <2>3. ASSUME cpc' = "head", Len(chain) > 1 PROVE Pushing # {}
    BY <2>1, <2>2, <2>3, NextOrClaim
  <2>4. Len(chain) = 1 \/ Len(chain) > 1
    BY OneOrMore
  <2> QED BY <2>1, <2>2, <2>3, <2>4, SMTT(30) DEF Grounds, Excused
<1>6. CASE PopHead
  BY <1>2, <1>6, ZenonT(30) DEF PopHead, Return, Grounds
<1>7. CASE PopStubExchange
  <2>1. ASSUME Len(chain) = 1 PROVE Len(chain') = 2 /\ chain'[2] = Stub
    <3>1. Len(chain') = Len(chain) + 1 /\ chain'[Len(chain) + 1] = Stub
      BY <1>7, StubAppended
    <3>2. Len(chain) + 1 = 2
      BY <2>1
    <3> QED BY <3>1, <3>2, Zenon
  <2> QED BY <1>2, <1>7, <2>1 DEF PopStubExchange, Grounds
<1>8. CASE PopStubLink
  <2>1. ASSUME Len(chain) = 2 PROVE next'[tail'] # NIL
    <3>1. PICK k \in 1..Len(chain) - 1 : chain[k] = cprev
      BY <1>8 DEF IInv, Claims, PopStubLink
    <3>2. k = 1
      BY <2>1, <3>1
    <3>3. cprev = tail
      BY <3>1, <3>2, SMTT(30) DEF IInv, ChainComplete
    <3> QED BY <1>8, <3>3, AddrAssumption, SMTT(30) DEF PopStubLink, IInv, ChainComplete, TypeOK, Addr
  <2> QED BY <1>2, <1>8, <2>1, SMTT(30) DEF PopStubLink, Grounds
<1>9. CASE PopLast
  BY <1>9 DEF PopLast, Advance, Return, Grounds
<1> QED BY <1>3, <1>4, <1>5, <1>6, <1>7, <1>8, <1>9 DEF Next, Pop

(* NullJustified, for any number of producers and nodes: mpscq_pop() never *)
(* answers NULL unless, at some moment of that call, the queue was empty or *)
(* a push was between its exchange and its link.                            *)
THEOREM NullAlwaysJustified == Spec => NullJustified
<1>1. Init => Grounds
  BY DEF Init, Grounds
<1>2. IInv /\ Grounds /\ [Next]_vars =>
        [cpc # "idle" /\ cpc' = "idle" /\ ret' = NIL => failSeen \/ Fifo!PopMayFail]_vars
  <2> SUFFICES ASSUME IInv, Grounds, Next, cpc # "idle", cpc' = "idle", ret' = NIL
               PROVE  failSeen \/ Fifo!PopMayFail
    BY Zenon
  <2>1. ASSUME Excused PROVE failSeen \/ Fifo!PopMayFail
    BY <2>1, SMTT(30) DEF Excused, Fifo!PopMayFail, Unlinked
  <2>2. tail # NIL
    BY AddrAssumption, SMTT(30) DEF IInv, ChainComplete, TypeOK
  <2>3. CASE \E p \in Producers : PushLink(p) \/ \E n \in Nodes : PushExchange(p, n)
    BY <2>3 DEF PushLink, PushExchange
  <2>4. CASE PopHead
    <3>1. tail # head
      BY <2>4 DEF PopHead
    <3>2. Len(chain) # 1
      BY <3>1 DEF IInv, ChainComplete
    <3> QED BY <2>1, <2>4, <3>2 DEF Grounds, PopHead
  <2>5. CASE PopReload
    BY <2>2, <2>5, SMTT(30) DEF PopReload, Advance, Return
  <2>6. CASE PopLast
    BY <2>1, <2>2, <2>6, SMTT(30) DEF PopLast, Advance, Return, Grounds
  <2>7. CASE PopLoad \/ PopStubExchange \/ PopStubLink
    BY <2>7 DEF PopLoad, PopStubExchange, PopStubLink
  <2> QED BY <2>3, <2>4, <2>5, <2>6, <2>7 DEF Next, Pop
<1> QED BY <1>1, <1>2, GroundsStep, Inductive, PTL DEF Spec, NullJustified
=============================================================================
