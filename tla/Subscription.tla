---------------------------- MODULE Subscription ----------------------------
(***************************************************************************)
(* From rendered files to a subscription (config_generator.py, builder.py, *)
(* classifier.py, cli.py sub rebuild).  Rendering a near node writes its   *)
(* manifest, its client proxies and its configuration, one file after the  *)
(* other; a rebuild reads the first two of every near node listed, matches *)
(* manifest entries and proxies by POSITION in the concatenated lists, and *)
(* sorts the proxies' names into groups by what the manifest says of them. *)
(*                                                                         *)
(* All three files are functions of the node and of the list of its peers  *)
(* they were rendered for, which stands for the file.  A label is what     *)
(* node_short_label makes of a node name; two names may have one label.    *)
(***************************************************************************)
EXTENDS Naturals, FiniteSets, Sequences, SequencesExt

CONSTANTS
  Near, Far,   \* nodes
  Region,      \* of each node
  Label,       \* of each node
  PortBase,    \* of each near node
  PeerLists,   \* peer lists a near node may be rendered for
  NoFile,      \* a file that is missing or cannot be parsed
  MaxRenders   \* bound on renderings

ASSUME SubscriptionAssumption ==
  /\ Near \cap Far = {}
  /\ Region \in [Near \cup Far -> STRING]
  \* allocate_port_base starts at 20000, above the ports every near node has.
  /\ \A n \in Near : PortBase[n] \in Nat /\ PortBase[n] > 8444
  /\ \A ps \in PeerLists : ps \in Seq(Far) /\ IsInjective(ps)
  /\ NoFile \notin PeerLists
  /\ MaxRenders \in Nat
  \* A label starts with the region of the node.
  /\ \A x, y \in Near \cup Far : Label[x] = Label[y] => Region[x] = Region[y]

VARIABLES
  listed,   \* near nodes of inventory.yaml, in its order
  manifest, clients, config, \* the files of each near node
  job,      \* rendering under way
  sub,      \* the subscription, as the mihomo format has it
  renders

files == <<manifest, clients, config>>
vars  == <<listed, files, job, sub, renders>>

NoJob == [file |-> "none"]
NoSub == [proxies |-> {}, groups |-> <<>>, whole |-> FALSE]

----------------------------------------------------------------------------
\* Mutation: the second peer gets the port of the direct inbound.
OverlayPortUnskipped(i) == i

\* Port of the i-th peer, from port_base: +2 is the direct inbound.
OverlayPort(i) == IF i = 1 THEN 1 ELSE i + 1

\* The fixed links of a near node, in the order both files have them.
DirectLinks == <<"direct", "hy2", "cdn", "anytls">>

\* Their ports: port_base+2, and three that do not depend on port_base.
DirectPort(n, i) == <<PortBase[n] + 2, 443, 2053, 8443>>[i]

\* What a manifest says of the links, in order.
Manifest(n, ps) ==
  [i \in 1 .. Len(ps) |-> [near |-> n, kind |-> "overlay", profile |-> Region[ps[i]]]]
    \o [i \in 1 .. 4 |-> [near |-> n, kind |-> DirectLinks[i], profile |-> "near"]]

Name(n, kind, f) == IF kind = "overlay" THEN <<Label[n], "to", Label[f]>>
                                        ELSE <<Label[n], kind>>

\* Mutation: the client proxies start with the direct ones.
ClientsDirectFirst(n, ps) ==
  [i \in 1 .. 4 |-> [name |-> Name(n, DirectLinks[i], n), near |-> n, to |-> n,
                     kind |-> DirectLinks[i], port |-> DirectPort(n, i)]]
    \o [i \in 1 .. Len(ps) |-> [name |-> Name(n, "overlay", ps[i]), near |-> n, to |-> ps[i],
                                kind |-> "overlay", port |-> PortBase[n] + OverlayPort(i)]]

\* The client proxies, with the exit each is meant for; all but the overlay ones
\* exit at the near node.
Clients(n, ps) ==
  [i \in 1 .. Len(ps) |-> [name |-> Name(n, "overlay", ps[i]), near |-> n, to |-> ps[i],
                           kind |-> "overlay", port |-> PortBase[n] + OverlayPort(i)]]
    \o [i \in 1 .. 4 |-> [name |-> Name(n, DirectLinks[i], n), near |-> n, to |-> n,
                          kind |-> DirectLinks[i], port |-> DirectPort(n, i)]]

\* The inbounds of the configuration, with the exit each is routed to; one more,
\* on port 8444, has no link.
Inbounds(n, ps) ==
  {[port |-> PortBase[n] + OverlayPort(i), to |-> ps[i]] : i \in 1 .. Len(ps)}
    \cup {[port |-> DirectPort(n, i), to |-> n] : i \in 1 .. 4} \cup {[port |-> 8444, to |-> n]}

----------------------------------------------------------------------------
\* What the files of the listed near nodes hold, in the order of the inventory.
Read(contents) == FlattenSeq([i \in DOMAIN listed |-> contents[listed[i]]])

Entries ==
  Read([n \in Near |-> IF manifest[n] = NoFile THEN <<>> ELSE Manifest(n, manifest[n])])

Proxies ==
  Read([n \in Near |-> IF clients[n] = NoFile THEN <<>> ELSE Clients(n, clients[n])])

\* Mutation: an entry without a proxy keeps the name the manifest gives it.
MergedNamed(entries, proxies) ==
  {[entry |-> entries[i],
    name  |-> IF i <= Len(proxies) THEN proxies[i].name
              ELSE <<Label[entries[i].near], entries[i].profile, "unnamed">>] :
     i \in DOMAIN entries}

\* Each manifest entry with the name of the proxy in its position; an entry
\* beyond the last proxy has no name, and no group takes it.
Merged(entries, proxies) ==
  {[entry |-> entries[i], name |-> proxies[i].name] :
     i \in {j \in DOMAIN entries : j <= Len(proxies)}}

\* Mutation: proxies of one name are all kept.
DedupedNot(proxies) == {proxies[i] : i \in DOMAIN proxies}

\* The first proxy of each name.
Deduped(proxies) ==
  {proxies[i] : i \in {j \in DOMAIN proxies :
                         \A k \in 1 .. j - 1 : proxies[k].name # proxies[j].name}}

\* The bucket of an entry.  There are buckets for three near regions and for
\* overlay links to the US; an entry of another one is dropped.  No profile the
\* generator writes has "residential" in it: that bucket stays empty.
Bucket(entry) ==
  IF entry.kind = "overlay" THEN <<"overlay", entry.profile>>
                            ELSE <<entry.kind, Region[entry.near]>>

Regions == {"hk", "jp", "tw"}

Buckets == ({"direct", "hy2", "cdn", "anytls"} \X Regions) \cup {<<"overlay", "us">>}

Exit(r) == {"direct", "cdn", "hy2"} \X {r}
AnyTls  == {"anytls"} \X Regions
Us      == {<<"overlay", "us">>}

\* The buckets of each proxy group.
GroupBuckets ==
  [g \in {"Auto-Select", "AI", "Streaming-US", "Streaming-HK", "US-Exit", "HK-Exit",
          "JP-Exit", "TW-Exit", "Residential", "AnyTLS", "HY2-Fallback", "Direct"} |->
     CASE g = "Auto-Select" -> Buckets
       [] g = "AI" -> Us \cup AnyTls
       [] g \in {"Streaming-US", "US-Exit"} -> Us
       [] g = "Streaming-HK" -> {"direct", "cdn"} \X {"hk"}
       [] g = "HK-Exit" -> Exit("hk")
       [] g = "JP-Exit" -> Exit("jp")
       [] g = "TW-Exit" -> Exit("tw")
       [] g = "AnyTLS" -> AnyTls
       [] g = "HY2-Fallback" -> {"hy2"} \X Regions
       [] OTHER -> {}]

\* An empty group falls back to Auto-Select, and Auto-Select to no proxy.
Fallback(g) == IF g \in {"Auto-Select", "Direct"} THEN <<"DIRECT">> ELSE <<"Auto-Select">>

Groups(merged) ==
  [g \in DOMAIN GroupBuckets |->
     LET names == {m.name : m \in {x \in merged : Bucket(x.entry) \in GroupBuckets[g]}}
     IN  IF names = {} THEN {Fallback(g)} ELSE names]

----------------------------------------------------------------------------
\* Both files of every near node listed come from one rendering.
Whole == \A i \in DOMAIN listed : manifest[listed[i]] = clients[listed[i]]

\* sub rebuild: it refuses without a manifest, and skips a file that cannot be
\* parsed.  add-node and batch-add rebuild as well, and stop at such a file.
Rebuild ==
  /\ Entries # <<>>
  /\ sub' = [proxies |-> Deduped(Proxies),
             groups  |-> Groups(Merged(Entries, Proxies)),
             whole   |-> Whole]
  /\ UNCHANGED <<listed, files, job, renders>>

\* A near node is added, or rendered again by a resumed or repeated command.
StartRender(n, ps) ==
  /\ job = NoJob
  /\ renders < MaxRenders /\ renders' = renders + 1
  /\ job' = [file |-> "manifest", node |-> n, peers |-> ps]
  /\ listed' = IF n \in {listed[i] : i \in DOMAIN listed} THEN listed ELSE Append(listed, n)
  /\ UNCHANGED <<files, sub>>

WriteManifest ==
  /\ job.file = "manifest"
  /\ manifest' = [manifest EXCEPT ![job.node] = job.peers]
  /\ job' = [job EXCEPT !.file = "clients"]
  /\ UNCHANGED <<listed, clients, config, sub, renders>>

WriteClients ==
  /\ job.file = "clients"
  /\ clients' = [clients EXCEPT ![job.node] = job.peers]
  /\ job' = [job EXCEPT !.file = "config"]
  /\ UNCHANGED <<listed, manifest, config, sub, renders>>

WriteConfig ==
  /\ job.file = "config"
  /\ config' = [config EXCEPT ![job.node] = job.peers]
  /\ job' = NoJob
  /\ UNCHANGED <<listed, manifest, clients, sub, renders>>

\* The command dies, and may leave the file it was writing truncated.
Die ==
  /\ job # NoJob
  /\ job' = NoJob
  /\ \/ UNCHANGED files
     \/ /\ job.file = "manifest"
        /\ manifest' = [manifest EXCEPT ![job.node] = NoFile]
        /\ UNCHANGED <<clients, config>>
     \/ /\ job.file = "clients"
        /\ clients' = [clients EXCEPT ![job.node] = NoFile]
        /\ UNCHANGED <<manifest, config>>
     \/ /\ job.file = "config"
        /\ config' = [config EXCEPT ![job.node] = NoFile]
        /\ UNCHANGED <<manifest, clients>>
  /\ UNCHANGED <<listed, sub, renders>>

\* remove-node leaves the rendered files behind.
RemoveNode(n) ==
  /\ job = NoJob
  /\ \E i \in DOMAIN listed : listed[i] = n /\ listed' = RemoveAt(listed, i)
  /\ UNCHANGED <<files, job, sub, renders>>

Init ==
  /\ listed = <<>>
  /\ manifest = [n \in Near |-> NoFile] /\ clients = manifest /\ config = manifest
  /\ job = NoJob /\ sub = NoSub /\ renders = 0

Next ==
  \/ \E n \in Near, ps \in PeerLists : StartRender(n, ps)
  \/ WriteManifest \/ WriteClients \/ WriteConfig \/ Die
  \/ \E n \in Near : RemoveNode(n)
  \/ Rebuild

Spec == Init /\ [][Next]_vars

----------------------------------------------------------------------------
TypeOK ==
  /\ \A i \in DOMAIN listed : listed[i] \in Near
  /\ IsInjective(listed)
  /\ \A n \in Near : {manifest[n], clients[n], config[n]} \subseteq PeerLists \cup {NoFile}
  /\ \A p \in sub.proxies : p.near \in Near /\ p.to \in Near \cup Far
  /\ \A p, q \in sub.proxies : p.name = q.name => p = q
  /\ renders \in 0 .. MaxRenders

\* A client can load the subscription: every member of a group is a proxy of the
\* file, a group or DIRECT, also when renderings died and files do not match.
GroupsResolve ==
  \A g \in DOMAIN sub.groups :
    sub.groups[g] \subseteq {p.name : p \in sub.proxies}
                            \cup {<<h>> : h \in DOMAIN sub.groups} \cup {<<"DIRECT">>}

\* Where the exit of a proxy is, and how it is reached: the promise of each group
\* to those who select it.
Promises(g, p) ==
  LET r == Region[p.to]
  IN  CASE g = "HK-Exit" -> p.kind \in {"direct", "cdn", "hy2"} /\ r = "hk"
        [] g = "JP-Exit" -> p.kind \in {"direct", "cdn", "hy2"} /\ r = "jp"
        [] g = "TW-Exit" -> p.kind \in {"direct", "cdn", "hy2"} /\ r = "tw"
        [] g = "Streaming-HK" -> p.kind \in {"direct", "cdn"} /\ r = "hk"
        [] g \in {"US-Exit", "Streaming-US"} -> p.kind = "overlay" /\ r = "us"
        [] g = "HY2-Fallback" -> p.kind = "hy2"
        [] g = "AnyTLS" -> p.kind = "anytls"
        [] g = "AI" -> p.kind = "anytls" \/ (p.kind = "overlay" /\ r = "us")
        [] OTHER -> TRUE

\* A group has no proxy that exits elsewhere than its name says, as long as each
\* node's manifest and client proxies come from one rendering.
GroupsKeepPromise ==
  sub.whole =>
    \A g \in DOMAIN sub.groups :
      \A p \in sub.proxies : p.name \in sub.groups[g] => Promises(g, p)

\* Once a rendering is complete, every proxy of the node leads to the one inbound of
\* its port, and that inbound to the exit the proxy is named for.
LinksReach ==
  \A n \in Near :
    clients[n] # NoFile /\ config[n] = clients[n] =>
      \A i \in DOMAIN Clients(n, clients[n]) :
        LET c == Clients(n, clients[n])[i]
        IN  {b \in Inbounds(n, config[n]) : b.port = c.port} = {[port |-> c.port, to |-> c.to]}
============================================================================
