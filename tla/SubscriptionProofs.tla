-------------------------- MODULE SubscriptionProofs --------------------------
(***************************************************************************)
(* Proofs of the invariants of Subscription, for any fleet, labels, peer   *)
(* lists and number of renderings.  A rebuild is all there is to show, and *)
(* what it makes follows from two facts about sequences: concatenations of *)
(* lists that agree pairwise agree position by position, and a name that   *)
(* occurs in a list has a first occurrence.                                *)
(***************************************************************************)
EXTENDS Subscription, SequenceTheorems, WellFoundedInduction, TLAPS

(***************************************************************************)
(* Sequences.                                                              *)
(***************************************************************************)
\* Induction, said of a set.
LEMMA InductiveSet ==
  ASSUME NEW T, 0 \in T, \A n \in Nat : n \in T => n + 1 \in T
  PROVE  \A n \in Nat : n \in T
<1> DEFINE Bad == {n \in Nat : n \notin T}
<1> SUFFICES ASSUME Bad # {} PROVE FALSE
  OBVIOUS
<1>1. PICK x \in Bad : \A y \in Bad : <<y, x>> \notin OpToRel(<, Nat)
  BY NatLessThanWellFounded, WFMin, Bad \subseteq Nat, Bad # {}
<1>2. x \in Nat /\ x # 0 /\ x - 1 \in Nat
  OBVIOUS
<1>3. x - 1 \in Bad
  BY <1>2, x = (x - 1) + 1
<1>4. <<x - 1, x>> \in OpToRel(<, Nat)
  BY <1>2 DEF OpToRel
<1> HIDE DEF Bad
<1> QED
  BY <1>1, <1>3, <1>4

\* A set of positions has a least one.
LEMMA LeastPosition ==
  ASSUME NEW S \in SUBSET Nat, S # {}
  PROVE  \E x \in S : \A y \in S : x <= y
<1>1. PICK x \in S : \A y \in S : <<y, x>> \notin OpToRel(<, Nat)
  BY NatLessThanWellFounded, WFMin
<1>2. ASSUME NEW y \in S PROVE x <= y
  <2>1. CASE y < x
    <3>1. <<y, x>> \in OpToRel(<, Nat)
      BY <2>1 DEF OpToRel
    <3> QED
      BY <1>1, <3>1
  <2> QED
    BY <2>1
<1> QED
  BY <1>2

\* The concatenation of the first lists, which FlattenSeq is the last of.
Concatenates(f, seqs, n) ==
  f = [i \in 1 .. n |-> IF i = 1 THEN seqs[i] ELSE f[i - 1] \o seqs[i]]

LEMMA ConcatenationExists ==
  ASSUME NEW seqs
  PROVE  \A n \in Nat : \E f : Concatenates(f, seqs, n)
<1> DEFINE T == {n \in Nat : \E f : Concatenates(f, seqs, n)}
<1>1. 0 \in T
  <2>1. Concatenates([i \in 1 .. 0 |-> {}], seqs, 0)
    BY DEF Concatenates
  <2> QED
    BY <2>1
<1>2. ASSUME NEW n \in Nat, n \in T PROVE n + 1 \in T
  <2>1. PICK f : Concatenates(f, seqs, n)
    BY <1>2
  <2> DEFINE g == [i \in 1 .. n + 1 |-> IF i <= n THEN f[i] ELSE
                                         IF i = 1 THEN seqs[i] ELSE f[i - 1] \o seqs[i]]
  <2>2. ASSUME NEW i \in 1 .. n + 1
        PROVE  g[i] = IF i = 1 THEN seqs[i] ELSE g[i - 1] \o seqs[i]
    <3>1. CASE i <= n
      <4>1. f[i] = IF i = 1 THEN seqs[i] ELSE f[i - 1] \o seqs[i]
        <5>1. i \in 1 .. n
          BY <3>1
        <5>2. f = [j \in 1 .. n |-> IF j = 1 THEN seqs[j] ELSE f[j - 1] \o seqs[j]]
          BY <2>1 DEF Concatenates
        <5> QED
          BY <5>1, <5>2
      <4>2. i # 1 => i - 1 \in 1 .. n + 1 /\ i - 1 <= n
        BY <3>1
      <4> QED
        BY <3>1, <4>1, <4>2
    <3>2. CASE i = n + 1
      BY <3>2
    <3> QED
      BY <3>1, <3>2
  <2>3. Concatenates(g, seqs, n + 1)
    BY <2>2 DEF Concatenates
  <2> QED
    BY <2>3
<1> HIDE DEF T
<1>3. \A n \in Nat : n \in T
  BY <1>1, <1>2, InductiveSet
<1> QED
  BY <1>3 DEF T

LEMMA FlattenIs ==
  ASSUME NEW seqs, Len(seqs) \in Nat
  PROVE  IF Len(seqs) = 0 THEN FlattenSeq(seqs) = seqs
         ELSE \E f : Concatenates(f, seqs, Len(seqs)) /\ FlattenSeq(seqs) = f[Len(seqs)]
<1> DEFINE g == CHOOSE f : Concatenates(f, seqs, Len(seqs))
<1>1. Concatenates(g, seqs, Len(seqs))
  BY ConcatenationExists
<1>2. Len(seqs) # 0 => FlattenSeq(seqs) = g[Len(seqs)]
  BY DEF FlattenSeq, Concatenates
<1> HIDE DEF g
<1> QED
  BY <1>1, <1>2 DEF FlattenSeq

\* Two lists that agree position by position, concatenated with two others that do.
LEMMA ConcatPairs ==
  ASSUME NEW A, NEW B, NEW R, NEW s \in Seq(A), NEW u \in Seq(A), NEW t \in Seq(B),
         NEW v \in Seq(B), Len(s) = Len(t), Len(u) = Len(v),
         \A k \in 1 .. Len(s) : <<s[k], t[k]>> \in R,
         \A k \in 1 .. Len(u) : <<u[k], v[k]>> \in R
  PROVE  /\ s \o u \in Seq(A) /\ t \o v \in Seq(B)
         /\ Len(s \o u) = Len(s) + Len(u) /\ Len(t \o v) = Len(s) + Len(u)
         /\ \A k \in 1 .. Len(s) + Len(u) : <<(s \o u)[k], (t \o v)[k]>> \in R
<1>1. /\ s \o u \in Seq(A) /\ t \o v \in Seq(B)
      /\ Len(s \o u) = Len(s) + Len(u) /\ Len(t \o v) = Len(t) + Len(v)
  BY ConcatProperties
<1>2. ASSUME NEW k \in 1 .. Len(s) + Len(u) PROVE <<(s \o u)[k], (t \o v)[k]>> \in R
  <2>1. CASE k <= Len(s)
    <3>1. (s \o u)[k] = s[k] /\ (t \o v)[k] = t[k] /\ k \in 1 .. Len(s)
      BY <1>1, <2>1
    <3> QED
      BY <3>1
  <2>2. CASE k > Len(s)
    <3>1. (s \o u)[k] = u[k - Len(s)] /\ (t \o v)[k] = v[k - Len(s)]
      BY <1>1, <2>2
    <3>2. k - Len(s) \in 1 .. Len(u)
      BY <2>2
    <3> QED
      BY <3>1, <3>2
  <2>3. k <= Len(s) \/ k > Len(s)
    OBVIOUS
  <2> QED
    BY <2>1, <2>2, <2>3
<1> QED
  BY <1>1, <1>2

\* Lists that agree pairwise, concatenated, agree in every position.
LEMMA FlattenPairs ==
  ASSUME NEW A, NEW B, NEW R, NEW ms \in Seq(Seq(A)), NEW cs \in Seq(Seq(B)),
         Len(ms) = Len(cs),
         \A i \in 1 .. Len(ms) :
           /\ Len(ms[i]) = Len(cs[i])
           /\ \A j \in 1 .. Len(ms[i]) : <<ms[i][j], cs[i][j]>> \in R
  PROVE  /\ FlattenSeq(ms) \in Seq(A) /\ FlattenSeq(cs) \in Seq(B)
         /\ Len(FlattenSeq(ms)) = Len(FlattenSeq(cs))
         /\ \A k \in 1 .. Len(FlattenSeq(ms)) : <<FlattenSeq(ms)[k], FlattenSeq(cs)[k]>> \in R
<1> DEFINE Agree(s, t) == /\ s \in Seq(A) /\ t \in Seq(B) /\ Len(s) = Len(t)
                          /\ \A k \in 1 .. Len(s) : <<s[k], t[k]>> \in R
<1>1. ASSUME Len(ms) = 0 PROVE Agree(FlattenSeq(ms), FlattenSeq(cs))
  <2>1. ms = <<>> /\ cs = <<>>
    BY <1>1, EmptySeq
  <2>2. FlattenSeq(ms) = ms /\ FlattenSeq(cs) = cs
    <3>1. Len(ms) = 0 /\ Len(cs) = 0 /\ 0 \in Nat
      BY <1>1
    <3> QED
      BY <3>1, FlattenIs
  <2>3. FlattenSeq(ms) = <<>> /\ FlattenSeq(cs) = <<>>
    BY <2>1, <2>2
  <2>4. Agree(<<>>, <<>>)
    <3>1. <<>> \in Seq(A) /\ <<>> \in Seq(B) /\ Len(<<>>) = 0
      BY EmptySeq
    <3> QED
      BY <3>1
  <2> QED
    BY <2>3, <2>4
<1>2. ASSUME Len(ms) # 0 PROVE Agree(FlattenSeq(ms), FlattenSeq(cs))
  <2> DEFINE N == Len(ms)
  <2>1. PICK f : Concatenates(f, ms, N) /\ FlattenSeq(ms) = f[N]
    BY <1>2, FlattenIs
  <2>2. PICK g : Concatenates(g, cs, N) /\ FlattenSeq(cs) = g[N]
    BY <1>2, FlattenIs
  <2> DEFINE T == {n \in Nat : n \in 1 .. N => Agree(f[n], g[n])}
  <2>3. \A i \in 1 .. N : Agree(ms[i], cs[i])
    OBVIOUS
  <2>4. /\ \A i \in 1 .. N : f[i] = IF i = 1 THEN ms[i] ELSE f[i - 1] \o ms[i]
        /\ \A i \in 1 .. N : g[i] = IF i = 1 THEN cs[i] ELSE g[i - 1] \o cs[i]
    BY <2>1, <2>2 DEF Concatenates
  <2>5. ASSUME NEW s, NEW t, NEW u, NEW v, Agree(s, t), Agree(u, v)
        PROVE  Agree(s \o u, t \o v)
    <3>1. /\ s \in Seq(A) /\ u \in Seq(A) /\ t \in Seq(B) /\ v \in Seq(B)
          /\ Len(s) = Len(t) /\ Len(u) = Len(v)
          /\ \A k \in 1 .. Len(s) : <<s[k], t[k]>> \in R
          /\ \A k \in 1 .. Len(u) : <<u[k], v[k]>> \in R
      BY <2>5
    <3>2. /\ s \o u \in Seq(A) /\ t \o v \in Seq(B)
          /\ Len(s \o u) = Len(s) + Len(u) /\ Len(t \o v) = Len(s) + Len(u)
          /\ \A k \in 1 .. Len(s) + Len(u) : <<(s \o u)[k], (t \o v)[k]>> \in R
      BY <3>1, ConcatPairs
    <3> QED
      BY <3>2
  <2> HIDE DEF Agree
  <2>6. 0 \in T
    OBVIOUS
  <2>7. ASSUME NEW n \in Nat, n \in T PROVE n + 1 \in T
    <3> SUFFICES ASSUME n + 1 \in 1 .. N PROVE Agree(f[n + 1], g[n + 1])
      OBVIOUS
    <3>1. CASE n = 0
      <4>1. f[n + 1] = ms[n + 1] /\ g[n + 1] = cs[n + 1]
        BY <2>4, <3>1
      <4> QED
        BY <2>3, <4>1
    <3>2. CASE n # 0
      <4>1. f[n + 1] = f[n] \o ms[n + 1] /\ g[n + 1] = g[n] \o cs[n + 1]
        <5>1. n + 1 # 1 /\ (n + 1) - 1 = n
          BY <3>2
        <5> QED
          BY <2>4, <5>1
      <4>2. Agree(f[n], g[n])
        BY <2>7, <3>2
      <4> QED
        BY <2>3, <2>5, <4>1, <4>2
    <3> QED
      BY <3>1, <3>2
  <2> HIDE DEF T
  <2>8. \A n \in Nat : n \in T
    BY <2>6, <2>7, InductiveSet
  <2>9. N \in 1 .. N
    BY <1>2
  <2> QED
    BY <2>1, <2>2, <2>8, <2>9 DEF T
<1> QED
  BY <1>1, <1>2

LEMMA FlattenType ==
  ASSUME NEW A, NEW seqs \in Seq(Seq(A))
  PROVE  FlattenSeq(seqs) \in Seq(A)
<1> DEFINE R == A \X A
<1>1. \A i \in 1 .. Len(seqs) : \A j \in 1 .. Len(seqs[i]) : <<seqs[i][j], seqs[i][j]>> \in R
  OBVIOUS
<1> HIDE DEF R
<1> QED
  BY <1>1, FlattenPairs

----------------------------------------------------------------------------
\* Every name has a first occurrence, which is the only proxy of it that is kept.
LEMMA FirstOfName ==
  ASSUME NEW P, NEW proxies \in Seq(P), NEW i \in DOMAIN proxies
  PROVE  \E p \in Deduped(proxies) : p.name = proxies[i].name
<1> DEFINE Same == {j \in DOMAIN proxies : proxies[j].name = proxies[i].name}
<1>1. DOMAIN proxies = 1 .. Len(proxies) /\ Len(proxies) \in Nat
  OBVIOUS
<1>2. PICK j \in Same : \A k \in Same : j <= k
  <2>1. i \in Same /\ Same \in SUBSET Nat
    BY <1>1
  <2> HIDE DEF Same
  <2> QED
    BY <2>1, LeastPosition
<1>3. ASSUME NEW k \in 1 .. j - 1 PROVE proxies[k].name # proxies[j].name
  <2>1. k \in DOMAIN proxies /\ ~(j <= k)
    BY <1>1
  <2> QED
    BY <1>2, <2>1
<1>4. proxies[j] \in Deduped(proxies)
  BY <1>3 DEF Deduped
<1> QED
  BY <1>4

LEMMA OneOfName ==
  ASSUME NEW P, NEW proxies \in Seq(P), NEW p \in Deduped(proxies),
         NEW q \in Deduped(proxies), p.name = q.name
  PROVE  p = q
<1>1. DOMAIN proxies = 1 .. Len(proxies) /\ Len(proxies) \in Nat
  OBVIOUS
<1>2. PICK i \in DOMAIN proxies :
        p = proxies[i] /\ \A k \in 1 .. i - 1 : proxies[k].name # proxies[i].name
  BY DEF Deduped
<1>3. PICK j \in DOMAIN proxies :
        q = proxies[j] /\ \A k \in 1 .. j - 1 : proxies[k].name # proxies[j].name
  BY DEF Deduped
<1>4. ~(i < j) /\ ~(j < i)
  <2>1. i < j => i \in 1 .. j - 1
    BY <1>1
  <2>2. j < i => j \in 1 .. i - 1
    BY <1>1
  <2> QED
    BY <1>2, <1>3, <2>1, <2>2
<1>5. i = j
  BY <1>1, <1>4
<1> QED
  BY <1>2, <1>3, <1>5

(***************************************************************************)
(* What a rendering writes.                                                *)
(***************************************************************************)
Kinds == {"overlay", "direct", "hy2", "cdn", "anytls"}

Entry == [near : Near, kind : Kinds, profile : {Region[f] : f \in Far} \cup {"near"}]

\* A proxy is named for where it enters and where it exits.
Proxy ==
  {c \in [name : {Name(n, k, x) : n \in Near, k \in Kinds, x \in Near \cup Far},
          near : Near, to : Near \cup Far, kind : Kinds, port : Nat] :
     /\ c.name = Name(c.near, c.kind, c.to)
     /\ IF c.kind = "overlay" THEN c.to \in Far ELSE c.to = c.near}

\* The entry and the proxy of one link.
OneLink ==
  {l \in Entry \X Proxy :
     /\ l[1].near = l[2].near /\ l[1].kind = l[2].kind
     /\ l[1].kind = "overlay" => l[1].profile = Region[l[2].to]}

LEMMA DirectFacts ==
  ASSUME NEW n \in Near, NEW i \in 1 .. 4
  PROVE  /\ DirectLinks[i] \in Kinds \ {"overlay"}
         /\ DirectPort(n, i) \in Nat
         /\ DirectPort(n, i) \in {PortBase[n] + 2, 443, 2053, 8443}
<1>1. i = 1 \/ i = 2 \/ i = 3 \/ i = 4
  OBVIOUS
<1>2. DirectLinks[i] \in Kinds \ {"overlay"}
  BY <1>1 DEF DirectLinks, Kinds
<1>3. PortBase[n] \in Nat
  BY SubscriptionAssumption
<1> QED
  BY <1>1, <1>2, <1>3 DEF DirectPort

\* Both files of a rendering have the same links in the same order.
LEMMA PartsAgree ==
  ASSUME NEW n \in Near, NEW ps \in PeerLists
  PROVE  /\ Manifest(n, ps) \in Seq(Entry) /\ Clients(n, ps) \in Seq(Proxy)
         /\ Len(Manifest(n, ps)) = Len(Clients(n, ps))
         /\ \A j \in 1 .. Len(Manifest(n, ps)) : <<Manifest(n, ps)[j], Clients(n, ps)[j]>> \in OneLink
<1>1. ps \in Seq(Far) /\ Len(ps) \in Nat /\ PortBase[n] \in Nat
  BY SubscriptionAssumption
<1> DEFINE M1 == [i \in 1 .. Len(ps) |-> [near |-> n, kind |-> "overlay", profile |-> Region[ps[i]]]]
           M2 == [i \in 1 .. 4 |-> [near |-> n, kind |-> DirectLinks[i], profile |-> "near"]]
           C1 == [i \in 1 .. Len(ps) |->
                   [name |-> Name(n, "overlay", ps[i]), near |-> n, to |-> ps[i],
                    kind |-> "overlay", port |-> PortBase[n] + OverlayPort(i)]]
           C2 == [i \in 1 .. 4 |->
                   [name |-> Name(n, DirectLinks[i], n), near |-> n, to |-> n,
                    kind |-> DirectLinks[i], port |-> DirectPort(n, i)]]
<1>2. ASSUME NEW i \in 1 .. Len(ps)
      PROVE  M1[i] \in Entry /\ C1[i] \in Proxy /\ <<M1[i], C1[i]>> \in OneLink
  <2>1. ps[i] \in Far /\ OverlayPort(i) \in Nat
    BY <1>1 DEF OverlayPort
  <2>2. PortBase[n] + OverlayPort(i) \in Nat
    BY <1>1, <2>1
  <2>3. M1[i] \in Entry
    BY <2>1 DEF Entry, Kinds
  <2>4. C1[i] \in Proxy
    BY <2>1, <2>2 DEF Proxy, Kinds
  <2> QED
    BY <2>3, <2>4 DEF OneLink
<1>3. ASSUME NEW i \in 1 .. 4
      PROVE  M2[i] \in Entry /\ C2[i] \in Proxy /\ <<M2[i], C2[i]>> \in OneLink
  <2>1. M2[i] \in Entry
    BY DirectFacts DEF Entry
  <2>2. C2[i] \in Proxy
    BY DirectFacts DEF Proxy
  <2> QED
    BY <2>1, <2>2, DirectFacts DEF OneLink
<1>4. M1 \in Seq(Entry) /\ C1 \in Seq(Proxy) /\ Len(M1) = Len(ps) /\ Len(C1) = Len(ps)
  <2> HIDE DEF M1, C1
  <2>1. \A i \in 1 .. Len(ps) : M1[i] \in Entry /\ C1[i] \in Proxy
    BY <1>2
  <2>2. /\ M1 = [i \in 1 .. Len(ps) |-> M1[i]] /\ C1 = [i \in 1 .. Len(ps) |-> C1[i]]
    BY DEF M1, C1
  <2>3. M1 \in [1 .. Len(ps) -> Entry] /\ C1 \in [1 .. Len(ps) -> Proxy]
    BY <2>1, <2>2
  <2> QED
    BY <1>1, <2>3
<1>5. M2 \in Seq(Entry) /\ C2 \in Seq(Proxy) /\ Len(M2) = 4 /\ Len(C2) = 4
  BY <1>3
<1>6. Manifest(n, ps) = M1 \o M2 /\ Clients(n, ps) = C1 \o C2
  BY DEF Manifest, Clients
<1> HIDE DEF M1, M2, C1, C2
<1>7. /\ M1 \o M2 \in Seq(Entry) /\ C1 \o C2 \in Seq(Proxy)
      /\ Len(M1 \o M2) = Len(M1) + Len(M2) /\ Len(C1 \o C2) = Len(M1) + Len(M2)
      /\ \A k \in 1 .. Len(M1) + Len(M2) : <<(M1 \o M2)[k], (C1 \o C2)[k]>> \in OneLink
  <2>1. \A k \in 1 .. Len(M1) : <<M1[k], C1[k]>> \in OneLink
    BY <1>2, <1>4
  <2>2. \A k \in 1 .. Len(M2) : <<M2[k], C2[k]>> \in OneLink
    BY <1>3, <1>5
  <2>3. Len(M1) = Len(C1) /\ Len(M2) = Len(C2)
    BY <1>4, <1>5
  <2> QED
    BY <1>4, <1>5, <2>1, <2>2, <2>3, ConcatPairs
<1> QED
  BY <1>6, <1>7

(***************************************************************************)
(* The inductive invariant: what the files are, and what was said of the   *)
(* subscription when it was built.                                         *)
(***************************************************************************)
Files ==
  /\ listed \in Seq(Near) /\ IsInjective(listed)
  /\ manifest \in [Near -> PeerLists \cup {NoFile}]
  /\ clients \in [Near -> PeerLists \cup {NoFile}]
  /\ config \in [Near -> PeerLists \cup {NoFile}]
  /\ \/ job = NoJob
     \/ job \in [file : {"manifest", "clients", "config"}, node : Near, peers : PeerLists]
  /\ renders \in 0 .. MaxRenders

Kept ==
  /\ \A p \in sub.proxies : p.near \in Near /\ p.to \in Near \cup Far
  /\ \A p, q \in sub.proxies : p.name = q.name => p = q

SubInv == Files /\ Kept /\ GroupsResolve /\ GroupsKeepPromise

LEMMA RebuildReads ==
  ASSUME Files
  PROVE  /\ Entries \in Seq(Entry) /\ Proxies \in Seq(Proxy)
         /\ Whole => /\ Len(Entries) = Len(Proxies)
                     /\ \A k \in 1 .. Len(Entries) : <<Entries[k], Proxies[k]>> \in OneLink
<1> DEFINE inManifest == [n \in Near |-> IF manifest[n] = NoFile THEN <<>> ELSE Manifest(n, manifest[n])]
           inClients  == [n \in Near |-> IF clients[n] = NoFile THEN <<>> ELSE Clients(n, clients[n])]
           ms == [i \in DOMAIN listed |-> inManifest[listed[i]]]
           cs == [i \in DOMAIN listed |-> inClients[listed[i]]]
<1>1. Entries = FlattenSeq(ms) /\ Proxies = FlattenSeq(cs)
  BY DEF Entries, Proxies, Read
<1>2. DOMAIN listed = 1 .. Len(listed) /\ Len(listed) \in Nat
  BY DEF Files
<1>3. ASSUME NEW i \in DOMAIN listed
      PROVE  /\ ms[i] \in Seq(Entry) /\ cs[i] \in Seq(Proxy)
             /\ manifest[listed[i]] = clients[listed[i]] =>
                  /\ Len(ms[i]) = Len(cs[i])
                  /\ \A j \in 1 .. Len(ms[i]) : <<ms[i][j], cs[i][j]>> \in OneLink
  <2> DEFINE n == listed[i]
  <2>1. n \in Near /\ manifest[n] \in PeerLists \cup {NoFile} /\ clients[n] \in PeerLists \cup {NoFile}
    BY <1>2 DEF Files
  <2>2. ms[i] = IF manifest[n] = NoFile THEN <<>> ELSE Manifest(n, manifest[n])
    BY <2>1
  <2>3. cs[i] = IF clients[n] = NoFile THEN <<>> ELSE Clients(n, clients[n])
    BY <2>1
  <2> HIDE DEF ms, cs, n
  <2>4. ms[i] \in Seq(Entry)
    BY <2>1, <2>2, PartsAgree, EmptySeq
  <2>5. cs[i] \in Seq(Proxy)
    BY <2>1, <2>3, PartsAgree, EmptySeq
  <2>6. ASSUME manifest[n] = clients[n]
        PROVE  /\ Len(ms[i]) = Len(cs[i])
               /\ \A j \in 1 .. Len(ms[i]) : <<ms[i][j], cs[i][j]>> \in OneLink
    <3>1. CASE manifest[n] = NoFile
      <4>1. ms[i] = <<>> /\ cs[i] = <<>> /\ Len(<<>>) = 0
        BY <2>2, <2>3, <2>6, <3>1, EmptySeq
      <4> QED
        BY <4>1
    <3>2. CASE manifest[n] # NoFile
      <4>1. ms[i] = Manifest(n, manifest[n]) /\ cs[i] = Clients(n, manifest[n])
        BY <2>2, <2>3, <2>6, <3>2
      <4> QED
        BY <2>1, <3>2, <4>1, PartsAgree
    <3> QED
      BY <3>1, <3>2
  <2> QED
    BY <2>4, <2>5, <2>6 DEF n
<1> DEFINE N == Len(listed)
<1>4. DOMAIN ms = 1 .. N /\ DOMAIN cs = 1 .. N
  BY <1>2
<1>5. ms = [i \in 1 .. N |-> ms[i]] /\ cs = [i \in 1 .. N |-> cs[i]]
  BY <1>2
<1> HIDE DEF ms, cs
<1>6. ms \in Seq(Seq(Entry)) /\ Len(ms) = N
  <2>1. ms \in [1 .. N -> Seq(Entry)]
    BY <1>2, <1>3, <1>5
  <2> QED
    BY <1>2, <2>1
<1>7. cs \in Seq(Seq(Proxy)) /\ Len(cs) = N
  <2>1. cs \in [1 .. N -> Seq(Proxy)]
    BY <1>2, <1>3, <1>5
  <2> QED
    BY <1>2, <2>1
<1>8. ASSUME Whole
      PROVE  /\ Len(Entries) = Len(Proxies)
             /\ \A k \in 1 .. Len(Entries) : <<Entries[k], Proxies[k]>> \in OneLink
  <2>1. \A i \in 1 .. Len(ms) :
          /\ Len(ms[i]) = Len(cs[i])
          /\ \A j \in 1 .. Len(ms[i]) : <<ms[i][j], cs[i][j]>> \in OneLink
    BY <1>2, <1>3, <1>6, <1>8 DEF Whole
  <2>2. Len(ms) = Len(cs)
    BY <1>6, <1>7
  <2>3. /\ Len(FlattenSeq(ms)) = Len(FlattenSeq(cs))
        /\ \A k \in 1 .. Len(FlattenSeq(ms)) : <<FlattenSeq(ms)[k], FlattenSeq(cs)[k]>> \in OneLink
    <3>1. ms \in Seq(Seq(Entry)) /\ cs \in Seq(Seq(Proxy))
      BY <1>6, <1>7
    <3> QED
      BY <2>1, <2>2, <3>1, FlattenPairs
  <2> QED
    BY <1>1, <2>3
<1>9. Entries \in Seq(Entry) /\ Proxies \in Seq(Proxy)
  BY <1>1, <1>6, <1>7, FlattenType
<1> QED
  BY <1>8, <1>9

(***************************************************************************)
(* What a rebuild makes.                                                   *)
(***************************************************************************)
\* A group has names of links in its buckets, or its fallback.
LEMMA MembersOf ==
  ASSUME NEW merged, NEW g \in DOMAIN GroupBuckets
  PROVE  /\ DOMAIN Groups(merged) = DOMAIN GroupBuckets
         /\ \A x \in Groups(merged)[g] :
              \/ x = Fallback(g)
              \/ \E m \in merged : m.name = x /\ Bucket(m.entry) \in GroupBuckets[g]
<1> DEFINE names == {m.name : m \in {x \in merged : Bucket(x.entry) \in GroupBuckets[g]}}
<1>1. Groups(merged)[g] = IF names = {} THEN {Fallback(g)} ELSE names
  BY DEF Groups
<1>2. \A x \in names : \E m \in merged : m.name = x /\ Bucket(m.entry) \in GroupBuckets[g]
  OBVIOUS
<1>3. DOMAIN Groups(merged) = DOMAIN GroupBuckets
  BY DEF Groups
<1> HIDE DEF names
<1> QED
  BY <1>1, <1>2, <1>3

GroupNames ==
  {"Auto-Select", "AI", "Streaming-US", "Streaming-HK", "US-Exit", "HK-Exit",
   "JP-Exit", "TW-Exit", "Residential", "AnyTLS", "HY2-Fallback", "Direct"}

LEMMA GroupsAre == DOMAIN GroupBuckets = GroupNames
  BY DEF GroupBuckets, GroupNames

LEMMA RebuildResolves == Files /\ Rebuild => GroupsResolve'
<1> SUFFICES ASSUME Files, Rebuild, NEW g \in DOMAIN sub'.groups, NEW x \in sub'.groups[g]
             PROVE  x \in {p.name : p \in sub'.proxies}
                          \cup {<<h>> : h \in DOMAIN sub'.groups} \cup {<<"DIRECT">>}
  BY DEF GroupsResolve
<1>1. /\ sub'.proxies = Deduped(Proxies)
      /\ sub'.groups = Groups(Merged(Entries, Proxies))
  BY DEF Rebuild
<1>2. g \in GroupNames /\ DOMAIN sub'.groups = GroupNames
  BY <1>1, GroupsAre DEF Groups
<1>3. CASE x = Fallback(g)
  BY <1>2, <1>3 DEF Fallback, GroupNames
<1>4. CASE \E m \in Merged(Entries, Proxies) : m.name = x
  <2>1. PICK i \in DOMAIN Entries : i <= Len(Proxies) /\ x = Proxies[i].name
    BY <1>4 DEF Merged
  <2>2. Entries \in Seq(Entry) /\ Proxies \in Seq(Proxy)
    BY RebuildReads
  <2>3. i \in DOMAIN Proxies
    BY <2>1, <2>2
  <2>4. \E p \in Deduped(Proxies) : p.name = x
    BY <2>1, <2>2, <2>3, FirstOfName
  <2> QED
    BY <1>1, <2>4
<1> QED
  BY <1>1, <1>2, <1>3, <1>4, GroupsAre, MembersOf

\* Proxies of one name have one kind, and enter and exit in one region.
LEMMA NameTells ==
  ASSUME NEW p \in Proxy, NEW c \in Proxy, p.name = c.name
  PROVE  p.kind = c.kind /\ Region[p.near] = Region[c.near] /\ Region[p.to] = Region[c.to]
<1>1. /\ p.near \in Near /\ c.near \in Near /\ p.to \in Near \cup Far /\ c.to \in Near \cup Far
      /\ Name(p.near, p.kind, p.to) = Name(c.near, c.kind, c.to)
      /\ p.kind # "overlay" => p.to = p.near
      /\ c.kind # "overlay" => c.to = c.near
  BY DEF Proxy
<1>2. p.kind = "overlay" <=> c.kind = "overlay"
  BY <1>1 DEF Name
<1>3. Label[p.near] = Label[c.near] /\ p.kind = c.kind
  BY <1>1, <1>2 DEF Name
<1>4. p.kind = "overlay" => Label[p.to] = Label[c.to]
  BY <1>1, <1>2 DEF Name
<1>5. Region[p.near] = Region[c.near]
  BY <1>1, <1>3, SubscriptionAssumption
<1>6. Region[p.to] = Region[c.to]
  BY <1>1, <1>2, <1>4, <1>5, SubscriptionAssumption
<1> QED
  BY <1>3, <1>5, <1>6

\* What is in a bucket of a group keeps the promise of the group.
LEMMA BucketKeepsPromise ==
  ASSUME NEW g \in GroupNames, NEW e \in Entry, NEW c \in Proxy, <<e, c>> \in OneLink,
         NEW p \in Proxy, p.name = c.name, Bucket(e) \in GroupBuckets[g]
  PROVE  Promises(g, p)
<1>1. /\ p.kind = c.kind /\ e.kind = c.kind /\ e.near = c.near
      /\ c.kind = "overlay" => e.profile = Region[p.to]
      /\ c.kind # "overlay" => Region[e.near] = Region[p.to]
  BY NameTells DEF OneLink, Proxy
<1>2. Bucket(e) = <<p.kind, Region[p.to]>>
  BY <1>1 DEF Bucket
<1>3. GroupBuckets[g] = 
     (CASE g = "Auto-Select" -> Buckets
       [] g = "AI" -> Us \cup AnyTls
       [] g \in {"Streaming-US", "US-Exit"} -> Us
       [] g = "Streaming-HK" -> {"direct", "cdn"} \X {"hk"}
       [] g = "HK-Exit" -> Exit("hk")
       [] g = "JP-Exit" -> Exit("jp")
       [] g = "TW-Exit" -> Exit("tw")
       [] g = "AnyTLS" -> AnyTls
       [] g = "HY2-Fallback" -> {"hy2"} \X Regions
       [] OTHER -> {})
  BY DEF GroupBuckets, GroupNames
<1> DEFINE k == p.kind
           r == Region[p.to]
<1> HIDE DEF k, r
<1>4. <<k, r>> \in GroupBuckets[g]
  BY <1>2 DEF k, r
<1>5. CASE g = "AI"
  BY <1>3, <1>4, <1>5 DEF Promises, Us, AnyTls, k, r
<1>6. CASE g \in {"Streaming-US", "US-Exit"}
  BY <1>3, <1>4, <1>6 DEF Promises, Us, k, r
<1>7. CASE g = "Streaming-HK"
  BY <1>3, <1>4, <1>7 DEF Promises, k, r
<1>8. CASE g \in {"HK-Exit", "JP-Exit", "TW-Exit"}
  BY <1>3, <1>4, <1>8 DEF Promises, Exit, k, r
<1>9. CASE g \in {"AnyTLS", "HY2-Fallback"}
  BY <1>3, <1>4, <1>9 DEF Promises, AnyTls, k, r
<1>10. CASE g \in {"Auto-Select", "Residential", "Direct"}
  BY <1>10 DEF Promises
<1> QED
  BY <1>5, <1>6, <1>7, <1>8, <1>9, <1>10 DEF GroupNames

LEMMA RebuildKeepsPromise == Files /\ Rebuild => GroupsKeepPromise'
<1> SUFFICES ASSUME Files, Rebuild, sub'.whole, NEW g \in DOMAIN sub'.groups,
                    NEW p \in sub'.proxies, p.name \in sub'.groups[g]
             PROVE  Promises(g, p)
  BY DEF GroupsKeepPromise
<1>1. /\ sub'.proxies = Deduped(Proxies) /\ Whole
      /\ sub'.groups = Groups(Merged(Entries, Proxies))
  BY DEF Rebuild
<1>2. g \in GroupNames
  BY <1>1, GroupsAre DEF Groups
<1>3. /\ Entries \in Seq(Entry) /\ Proxies \in Seq(Proxy) /\ Len(Entries) = Len(Proxies)
      /\ \A k \in 1 .. Len(Entries) : <<Entries[k], Proxies[k]>> \in OneLink
  BY <1>1, RebuildReads
<1>4. p \in Proxy
  BY <1>1, <1>3 DEF Deduped
<1>5. p.name # Fallback(g)
  BY <1>4 DEF Proxy, Name, Fallback
<1>6. PICK m \in Merged(Entries, Proxies) :
        m.name = p.name /\ Bucket(m.entry) \in GroupBuckets[g]
  BY <1>1, <1>2, <1>5, GroupsAre, MembersOf
<1>7. PICK i \in DOMAIN Entries : m.entry = Entries[i] /\ m.name = Proxies[i].name
  BY DEF Merged
<1>8. Entries[i] \in Entry /\ Proxies[i] \in Proxy /\ <<Entries[i], Proxies[i]>> \in OneLink
  BY <1>3
<1> QED
  BY <1>2, <1>4, <1>6, <1>7, <1>8, BucketKeepsPromise

(***************************************************************************)
(* The invariant holds.                                                    *)
(***************************************************************************)
LEMMA SubInvInit == Init => SubInv
<1> SUFFICES ASSUME Init PROVE SubInv
  OBVIOUS
<1>1. Files
  <2>1. listed \in Seq(Near) /\ IsInjective(listed)
    BY EmptySeq DEF Init, IsInjective
  <2>2. renders \in 0 .. MaxRenders
    BY SubscriptionAssumption DEF Init
  <2> QED
    BY <2>1, <2>2 DEF Init, Files
<1>2. Kept /\ GroupsResolve /\ GroupsKeepPromise
  BY DEF Init, NoSub, Kept, GroupsResolve, GroupsKeepPromise
<1> QED
  BY <1>1, <1>2 DEF SubInv

\* A node that is listed anew comes last.
LEMMA ListingKeeps ==
  ASSUME Files, NEW n \in Near
  PROVE  n \notin {listed[i] : i \in DOMAIN listed} =>
           Append(listed, n) \in Seq(Near) /\ IsInjective(Append(listed, n))
<1> SUFFICES ASSUME n \notin {listed[i] : i \in DOMAIN listed}
             PROVE  Append(listed, n) \in Seq(Near) /\ IsInjective(Append(listed, n))
  OBVIOUS
<1> DEFINE s == Append(listed, n)
<1>1. listed \in Seq(Near) /\ IsInjective(listed) /\ DOMAIN listed = 1 .. Len(listed)
      /\ Len(listed) \in Nat
  BY DEF Files
<1>2. /\ s \in Seq(Near) /\ DOMAIN s = 1 .. Len(listed) + 1
      /\ \A i \in 1 .. Len(listed) : s[i] = listed[i]
      /\ s[Len(listed) + 1] = n
  BY <1>1
<1> HIDE DEF s
<1>3. ASSUME NEW i \in DOMAIN s, NEW j \in DOMAIN s, s[i] = s[j] PROVE i = j
  <2>1. CASE i \in 1 .. Len(listed) /\ j \in 1 .. Len(listed)
    BY <1>1, <1>2, <1>3, <2>1 DEF IsInjective
  <2>2. CASE i = Len(listed) + 1 /\ j # Len(listed) + 1
    <3>1. j \in 1 .. Len(listed)
      BY <1>1, <1>2, <2>2
    <3> QED
      BY <1>1, <1>2, <1>3, <2>2, <3>1
  <2>3. CASE j = Len(listed) + 1 /\ i # Len(listed) + 1
    <3>1. i \in 1 .. Len(listed)
      BY <1>1, <1>2, <2>3
    <3> QED
      BY <1>1, <1>2, <1>3, <2>3, <3>1
  <2>4. i \in 1 .. Len(listed) \/ i = Len(listed) + 1
    BY <1>1, <1>2
  <2>5. j \in 1 .. Len(listed) \/ j = Len(listed) + 1
    BY <1>1, <1>2
  <2> QED
    BY <2>1, <2>2, <2>3, <2>4, <2>5
<1> QED
  BY <1>2, <1>3 DEF s, IsInjective

\* The others keep their order when one is removed.
LEMMA RemovingKeeps ==
  ASSUME Files, NEW i \in DOMAIN listed
  PROVE  RemoveAt(listed, i) \in Seq(Near) /\ IsInjective(RemoveAt(listed, i))
<1> DEFINE s == SubSeq(listed, 1, i - 1)
           t == SubSeq(listed, i + 1, Len(listed))
<1>1. listed \in Seq(Near) /\ IsInjective(listed) /\ DOMAIN listed = 1 .. Len(listed)
      /\ Len(listed) \in Nat /\ i \in 1 .. Len(listed)
  BY DEF Files
<1>2. /\ s \in Seq(Near) /\ Len(s) = i - 1
      /\ \A k \in 1 .. i - 1 : s[k] = listed[k]
  BY <1>1
<1>3. /\ t \in Seq(Near) /\ Len(t) = Len(listed) - i
      /\ \A k \in 1 .. Len(listed) - i : t[k] = listed[k + i]
  BY <1>1
<1> HIDE DEF s, t
<1> DEFINE u == s \o t
           At(k) == IF k < i THEN k ELSE k + 1
<1>4. u \in Seq(Near) /\ Len(u) = Len(listed) - 1
  <2>1. u \in Seq(Near) /\ Len(u) = Len(s) + Len(t)
    BY <1>2, <1>3, ConcatProperties
  <2> HIDE DEF u
  <2> QED
    BY <1>1, <1>2, <1>3, <2>1
<1>5. ASSUME NEW k \in 1 .. Len(u) PROVE At(k) \in DOMAIN listed /\ u[k] = listed[At(k)]
  <2>1. At(k) \in 1 .. Len(listed)
    BY <1>1, <1>4
  <2>2. CASE k < i
    <3>1. u[k] = s[k] /\ k \in 1 .. i - 1
      BY <1>1, <1>2, <1>3, <1>4, <2>2
    <3> QED
      BY <1>1, <1>2, <2>1, <2>2, <3>1
  <2>3. CASE ~(k < i)
    <3>1. u[k] = t[k - (i - 1)] /\ k - (i - 1) \in 1 .. Len(listed) - i
      <4>1. k \in 1 .. Len(s) + Len(t) /\ ~(k <= Len(s)) /\ k - (i - 1) \in 1 .. Len(listed) - i
        BY <1>1, <1>2, <1>3, <1>4, <2>3
      <4>2. u[k] = t[k - Len(s)]
        BY <1>2, <1>3, <4>1, ConcatProperties
      <4> QED
        BY <1>2, <4>1, <4>2
    <3>2. t[k - (i - 1)] = listed[(k - (i - 1)) + i]
      BY <1>3, <3>1
    <3>3. (k - (i - 1)) + i = k + 1
      BY <1>1
    <3> QED
      BY <1>1, <2>1, <2>3, <3>1, <3>2, <3>3
  <2> QED
    BY <2>2, <2>3
<1>6. DOMAIN u = 1 .. Len(u)
  BY <1>4
<1> HIDE DEF u
<1>7. ASSUME NEW k \in DOMAIN u, NEW l \in DOMAIN u, u[k] = u[l] PROVE k = l
  <2>1. At(k) = At(l)
    <3>1. /\ At(k) \in DOMAIN listed /\ At(l) \in DOMAIN listed
          /\ listed[At(k)] = listed[At(l)]
      BY <1>5, <1>6, <1>7
    <3> HIDE DEF At
    <3> QED
      BY <1>1, <3>1 DEF IsInjective
  <2>2. k \in Int /\ l \in Int /\ i \in Int
    BY <1>1, <1>4, <1>6
  <2> QED
    BY <2>1, <2>2
<1>8. RemoveAt(listed, i) = u
  BY DEF RemoveAt, s, t, u
<1> QED
  BY <1>4, <1>7, <1>8 DEF IsInjective

LEMMA FilesNext == Files /\ [Next]_vars => Files'
<1> SUFFICES ASSUME Files, [Next]_vars PROVE Files'
  OBVIOUS
<1>1. ASSUME NEW n \in Near, NEW ps \in PeerLists, StartRender(n, ps) PROVE Files'
  <2>1. listed' \in Seq(Near) /\ IsInjective(listed')
    BY <1>1, ListingKeeps DEF StartRender, Files
  <2>2. renders' \in 0 .. MaxRenders
    BY <1>1, SubscriptionAssumption DEF StartRender, Files
  <2> QED
    BY <1>1, <2>1, <2>2 DEF StartRender, Files, files
<1>2. ASSUME WriteManifest \/ WriteClients \/ WriteConfig PROVE Files'
  <2>1. job \in [file : {"manifest", "clients", "config"}, node : Near, peers : PeerLists]
    BY <1>2 DEF WriteManifest, WriteClients, WriteConfig, Files, NoJob
  <2>2. CASE WriteManifest
    BY <2>1, <2>2 DEF WriteManifest, Files
  <2>3. CASE WriteClients
    BY <2>1, <2>3 DEF WriteClients, Files
  <2>4. CASE WriteConfig
    BY <2>1, <2>4 DEF WriteConfig, Files
  <2> QED
    BY <1>2, <2>2, <2>3, <2>4
<1>3. ASSUME Die PROVE Files'
  <2>1. job \in [file : {"manifest", "clients", "config"}, node : Near, peers : PeerLists]
    BY <1>3 DEF Die, Files
  <2> QED
    BY <1>3, <2>1 DEF Die, Files, files
<1>4. ASSUME NEW n \in Near, RemoveNode(n) PROVE Files'
  <2>1. listed' \in Seq(Near) /\ IsInjective(listed')
    BY <1>4, RemovingKeeps DEF RemoveNode
  <2> QED
    BY <1>4, <2>1 DEF RemoveNode, Files, files
<1>5. ASSUME Rebuild PROVE Files'
  BY <1>5 DEF Rebuild, Files, files
<1>6. ASSUME UNCHANGED vars PROVE Files'
  BY <1>6 DEF vars, Files, files
<1> QED
  BY <1>1, <1>2, <1>3, <1>4, <1>5, <1>6 DEF Next

LEMMA RebuildKept == Files /\ Rebuild => Kept'
<1> SUFFICES ASSUME Files, Rebuild PROVE Kept'
  OBVIOUS
<1>1. sub'.proxies = Deduped(Proxies)
  BY DEF Rebuild
<1>2. Proxies \in Seq(Proxy)
  BY RebuildReads
<1>3. \A p \in sub'.proxies : p \in Proxy
  BY <1>1, <1>2 DEF Deduped
<1>4. \A p, q \in sub'.proxies : p.name = q.name => p = q
  BY <1>1, <1>2, OneOfName
<1> QED
  BY <1>3, <1>4 DEF Kept, Proxy

\* Only a rebuild changes the subscription.
LEMMA SubInvNext == SubInv /\ [Next]_vars => SubInv'
<1> SUFFICES ASSUME SubInv, [Next]_vars PROVE SubInv'
  OBVIOUS
<1>1. Files'
  BY FilesNext DEF SubInv
<1>2. CASE Rebuild
  BY <1>1, <1>2, RebuildKept, RebuildResolves, RebuildKeepsPromise DEF SubInv
<1>3. CASE ~Rebuild
  <2>1. sub' = sub
    BY <1>3 DEF Next, vars, StartRender, WriteManifest, WriteClients, WriteConfig, Die, RemoveNode
  <2> QED
    BY <1>1, <2>1 DEF SubInv, Kept, GroupsResolve, GroupsKeepPromise
<1> QED
  BY <1>2, <1>3

LEMMA SubInvAlways == Spec => []SubInv
  BY SubInvInit, SubInvNext, PTL DEF Spec

\* A proxy's port is listened on by one inbound, which is routed to its exit: overlay
\* ports skip the direct one, and all of them lie above the fixed ones.
LEMMA PortsTell ==
  ASSUME NEW n \in Near, NEW ps \in PeerLists, NEW k \in DOMAIN Clients(n, ps)
  PROVE  {b \in Inbounds(n, ps) : b.port = Clients(n, ps)[k].port}
            = {[port |-> Clients(n, ps)[k].port, to |-> Clients(n, ps)[k].to]}
<1> DEFINE c == Clients(n, ps)[k]
           P == PortBase[n]
<1>1. ps \in Seq(Far) /\ Len(ps) \in Nat /\ P \in Nat /\ P > 8444
  BY SubscriptionAssumption
<1>2. \/ \E i \in 1 .. Len(ps) : c.port = P + OverlayPort(i) /\ c.to = ps[i]
      \/ \E i \in 1 .. 4 : c.port = DirectPort(n, i) /\ c.to = n
  <2> DEFINE C1 == [i \in 1 .. Len(ps) |->
                     [name |-> Name(n, "overlay", ps[i]), near |-> n, to |-> ps[i],
                      kind |-> "overlay", port |-> PortBase[n] + OverlayPort(i)]]
             C2 == [i \in 1 .. 4 |->
                     [name |-> Name(n, DirectLinks[i], n), near |-> n, to |-> n,
                      kind |-> DirectLinks[i], port |-> DirectPort(n, i)]]
             AnyLink == {C1[i] : i \in 1 .. Len(ps)} \cup {C2[i] : i \in 1 .. 4}
  <2>1. C1 \in Seq(AnyLink) /\ C2 \in Seq(AnyLink)
    <3>1. /\ \A i \in 1 .. Len(ps) : C1[i] \in AnyLink
          /\ \A i \in 1 .. 4 : C2[i] \in AnyLink
      OBVIOUS
    <3>2. C1 = [i \in 1 .. Len(ps) |-> C1[i]] /\ C2 = [i \in 1 .. 4 |-> C2[i]]
      OBVIOUS
    <3> HIDE DEF C1, C2, AnyLink
    <3> QED
      BY <1>1, <3>1, <3>2
  <2>3. Clients(n, ps) = C1 \o C2
    BY DEF Clients
  <2>4. \A x \in AnyLink :
          \/ \E i \in 1 .. Len(ps) : x.port = P + OverlayPort(i) /\ x.to = ps[i]
          \/ \E i \in 1 .. 4 : x.port = DirectPort(n, i) /\ x.to = n
    OBVIOUS
  <2> HIDE DEF C1, C2, AnyLink
  <2>5. Clients(n, ps) \in Seq(AnyLink)
    BY <2>1, <2>3, ConcatProperties
  <2> QED
    BY <2>4, <2>5
<1>3. \A i, j \in 1 .. Len(ps) : OverlayPort(i) = OverlayPort(j) => i = j
  BY <1>1 DEF OverlayPort
<1>4. \A i \in 1 .. Len(ps) : OverlayPort(i) \in Nat /\ OverlayPort(i) # 2
  BY <1>1 DEF OverlayPort
<1>5. \A i \in 1 .. 4 : DirectPort(n, i) \in {P + 2, 443, 2053, 8443}
  BY DirectFacts
<1>6. \A b : b \in Inbounds(n, ps) <=>
          \/ \E i \in 1 .. Len(ps) : b = [port |-> P + OverlayPort(i), to |-> ps[i]]
          \/ \E i \in 1 .. 4 : b = [port |-> DirectPort(n, i), to |-> n]
          \/ b = [port |-> 8444, to |-> n]
  BY DEF Inbounds
<1> HIDE DEF c, P
<1>7. CASE \E i \in 1 .. Len(ps) : c.port = P + OverlayPort(i) /\ c.to = ps[i]
  <2>1. PICK i \in 1 .. Len(ps) : c.port = P + OverlayPort(i) /\ c.to = ps[i]
    BY <1>7
  <2>2. [port |-> c.port, to |-> c.to] \in Inbounds(n, ps)
    BY <1>6, <2>1
  <2>3. ASSUME NEW b \in Inbounds(n, ps), b.port = c.port
        PROVE  b = [port |-> c.port, to |-> c.to]
    <3>1. ASSUME NEW j \in 1 .. Len(ps), b = [port |-> P + OverlayPort(j), to |-> ps[j]]
          PROVE  b = [port |-> c.port, to |-> c.to]
      <4>1. OverlayPort(j) = OverlayPort(i)
        BY <1>1, <1>4, <2>1, <2>3, <3>1
      <4> QED
        BY <1>3, <2>1, <3>1, <4>1
    <3>2. ASSUME NEW j \in 1 .. 4, b = [port |-> DirectPort(n, j), to |-> n] PROVE FALSE
      <4>1. DirectPort(n, j) = P + OverlayPort(i)
        BY <2>1, <2>3, <3>2
      <4> QED
        BY <1>1, <1>4, <1>5, <4>1
    <3>3. ASSUME b = [port |-> 8444, to |-> n] PROVE FALSE
      <4>1. P + OverlayPort(i) = 8444
        BY <2>1, <2>3, <3>3
      <4> QED
        BY <1>1, <1>4, <4>1
    <3> QED
      BY <1>6, <3>1, <3>2, <3>3
  <2> QED
    BY <2>2, <2>3 DEF c
<1>8. CASE \E i \in 1 .. 4 : c.port = DirectPort(n, i) /\ c.to = n
  <2>1. PICK i \in 1 .. 4 : c.port = DirectPort(n, i) /\ c.to = n
    BY <1>8
  <2>2. [port |-> c.port, to |-> c.to] \in Inbounds(n, ps)
    BY <1>6, <2>1
  <2>3. ASSUME NEW b \in Inbounds(n, ps), b.port = c.port
        PROVE  b = [port |-> c.port, to |-> c.to]
    <3>1. ASSUME NEW j \in 1 .. Len(ps), b = [port |-> P + OverlayPort(j), to |-> ps[j]]
          PROVE  FALSE
      <4>1. DirectPort(n, i) = P + OverlayPort(j)
        BY <2>1, <2>3, <3>1
      <4> QED
        BY <1>1, <1>4, <1>5, <4>1
    <3>2. ASSUME NEW j \in 1 .. 4, b = [port |-> DirectPort(n, j), to |-> n]
          PROVE  b = [port |-> c.port, to |-> c.to]
      BY <2>1, <2>3, <3>2
    <3>3. ASSUME b = [port |-> 8444, to |-> n] PROVE FALSE
      <4>1. DirectPort(n, i) = 8444
        BY <2>1, <2>3, <3>3
      <4> QED
        BY <1>1, <1>5, <4>1
    <3> QED
      BY <1>6, <3>1, <3>2, <3>3
  <2> QED
    BY <2>2, <2>3 DEF c
<1> QED
  BY <1>2, <1>7, <1>8

(***************************************************************************)
(* The theorems.                                                           *)
(***************************************************************************)
\* Whatever dies while it writes a file, files, inventory and subscription keep their
\* types, and no name is in a subscription twice.
THEOREM SubscriptionTypes == Spec => []TypeOK
<1>1. SubInv => TypeOK
  <2> SUFFICES ASSUME SubInv PROVE TypeOK
    OBVIOUS
  <2>1. /\ \A i \in DOMAIN listed : listed[i] \in Near
        /\ \A n \in Near : {manifest[n], clients[n], config[n]} \subseteq PeerLists \cup {NoFile}
    BY DEF SubInv, Files
  <2> QED
    BY <2>1 DEF SubInv, Files, Kept, TypeOK
<1> QED
  BY <1>1, SubInvAlways, PTL

\* Every subscription can be loaded, also one made of files that do not match.
THEOREM EveryMemberResolves == Spec => []GroupsResolve
<1>1. SubInv => GroupsResolve
  BY DEF SubInv
<1> QED
  BY <1>1, SubInvAlways, PTL

\* Of files that come from whole renderings, each group has only proxies that exit
\* where its name says, also when nodes share labels.
THEOREM GroupsAreHonest == Spec => []GroupsKeepPromise
<1>1. SubInv => GroupsKeepPromise
  BY DEF SubInv
<1> QED
  BY <1>1, SubInvAlways, PTL

\* Every proxy of a complete rendering leads to the exit it is named for, for any
\* number of peers.
THEOREM EveryLinkReaches == Spec => []LinksReach
<1>1. SubInv => LinksReach
  <2> SUFFICES ASSUME SubInv, NEW n \in Near, clients[n] # NoFile, config[n] = clients[n],
                      NEW i \in DOMAIN Clients(n, clients[n])
               PROVE  {b \in Inbounds(n, config[n]) : b.port = Clients(n, clients[n])[i].port}
                        = {[port |-> Clients(n, clients[n])[i].port,
                            to |-> Clients(n, clients[n])[i].to]}
    BY DEF LinksReach
  <2>1. clients[n] \in PeerLists
    BY DEF SubInv, Files
  <2> QED
    BY <2>1, PortsTell
<1> QED
  BY <1>1, SubInvAlways, PTL
=============================================================================
