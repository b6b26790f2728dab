---------------------------- MODULE AddNodeProofs ----------------------------
(***************************************************************************)
(* What add-node promises, for any machines, any number of names, of       *)
(* deaths and of failed sessions: the types of its files and its memory    *)
(* however it is used, and, when an interrupted add-node is resumed before *)
(* anything else is added, that the inventory has each machine once.       *)
(***************************************************************************)
EXTENDS AddNode, FiniteSetTheorems, TLAPS

(***************************************************************************)
(* The inductive invariant of types.  A command past step 3 has a name,    *)
(* and what is finite stays so: the search for a letter or a port ends.    *)
(***************************************************************************)
Checkpoints == [done : 0 .. 12, name : Name \cup {None}, port : Nat]

Types ==
  /\ inventory \subseteq Entries /\ IsFiniteSet(inventory)
  /\ copy \subseteq Entries /\ IsFiniteSet(copy)
  /\ pairs \subseteq Name \X Name
  /\ keys \subseteq Name /\ held \subseteq Name
  /\ checkpoint \in [Machine -> Checkpoints]
  /\ torn \subseteq Machine \cup Files
  /\ installed \subseteq [ip : Machine, name : Name, tunnels : SUBSET Name, keyed : BOOLEAN]
  /\ added \subseteq [ip : Machine, name : Name]
  /\ step \in 0 .. 13 /\ unsaved \in BOOLEAN
  /\ target \in Machine
  /\ name \in Name \cup {None} /\ port \in Nat
  /\ deaths \in 0 .. MaxDeaths /\ refused \in 0 .. MaxRefused

Placed ==
  /\ unsaved = TRUE => step \in {5, 6, 7, 9}
  /\ step >= 4 => name \in Name
  /\ \A m \in Machine : checkpoint[m].done >= 3 => checkpoint[m].name \in Name

TypeInv == Types /\ Placed

(***************************************************************************)
(* The inductive invariant of disciplined use.                             *)
(***************************************************************************)
IsAdded(m) == \E a \in added : a.ip = m

Unfinished(m) == checkpoint[m] # NoCheckpoint \/ (step # 0 /\ target = m)

\* One machine at a time is being added, and the command that adds it is one step
\* ahead of its checkpoint, with the name and the port the checkpoint has.
OneAtATime ==
  /\ \A m, x \in Machine : Unfinished(m) /\ Unfinished(x) => m = x
  /\ \A m \in Machine : Unfinished(m) => ~IsAdded(m)
  /\ \A m \in Machine : checkpoint[m].done = 0 => checkpoint[m] = NoCheckpoint
  /\ step # 0 => checkpoint[target] = [done |-> step - 1, name |-> name, port |-> port]

\* Nobody but the machine itself is listed with its address, or the name or the port
\* reserved for it, and the machine not before step 6.
Claims(e, m, c) ==
  \/ e.ip = m
  \/ c.done >= 3 /\ e.name = c.name
  \/ c.done >= 4 /\ Role(e.ip) = Role(m) /\ e.port = c.port

Mine(m) ==
  \A e \in inventory :
    Claims(e, m, checkpoint[m]) =>
      /\ checkpoint[m].done >= 5
      /\ e.ip = m /\ e.name = checkpoint[m].name /\ e.port = checkpoint[m].port

\* A machine whose checkpoint a death emptied may be listed, and is then left alone.
Reserved ==
  \A m \in Machine : ~IsAdded(m) /\ (m \in torn => Unfinished(m)) => Mine(m)

\* The inventory in memory is the one in the file, with the machine once it has keys.
CopyIs ==
  /\ step \in 1 .. 4 \/ (step = 5 /\ unsaved = FALSE) => copy = inventory
  /\ (step = 5 /\ unsaved = TRUE) \/ (step = 6 /\ unsaved = FALSE) =>
       copy = IF name \in Names(inventory) THEN inventory
              ELSE inventory \cup {Entry(target, name, port, inventory)}
  /\ (step = 6 /\ unsaved = TRUE) \/ step >= 7 => copy = inventory /\ name \in Names(inventory)

\* The blocks are those of tunnels the inventory asks for.
Blocks == pairs \subseteq DesiredPairs(inventory)

\* The machine runs a configuration of its name whose tunnels have blocks.
Runs(m, n) ==
  \E c \in installed :
    /\ c.ip = m /\ c.name = n
    /\ \A t \in c.tunnels : <<n, t>> \in pairs \/ <<t, n>> \in pairs

\* What the steps behind it have left.
Behind ==
  /\ \A m \in Machine : checkpoint[m].done >= 6 => checkpoint[m].name \in Names(inventory)
  /\ \A m \in Machine : checkpoint[m].done >= 7 => pairs = DesiredPairs(inventory)
  /\ step = 7 /\ unsaved = TRUE => pairs = DesiredPairs(inventory)
  /\ \A m \in Machine : checkpoint[m].done >= 9 => Runs(m, checkpoint[m].name)
  /\ step = 9 /\ unsaved = TRUE => Runs(target, name)

\* A machine reported as added is listed under that name and runs it.
AddedRun ==
  \A a \in added :
    (\E e \in inventory : e.ip = a.ip /\ e.name = a.name) /\ Runs(a.ip, a.name)

AddInv ==
  /\ OneAtATime /\ Reserved /\ CopyIs /\ Blocks /\ Behind
  /\ ListedOnce /\ AddedRun

(***************************************************************************)
(* The operators.                                                          *)
(***************************************************************************)
LEMMA NatMin ==
  ASSUME NEW T \in SUBSET Nat, T # {}
  PROVE  \E m \in T : \A k \in T : m <= k
<1>1. \E m \in T : \A k \in T : ~(<<k, m>> \in OpToRel(<, Nat))
  BY NatLessThanWellFounded, WFMin
<1>2. \A m, k \in T : ~(<<k, m>> \in OpToRel(<, Nat)) => m <= k
  BY DEF OpToRel
<1> QED
  BY <1>1, <1>2

\* generate_node_id and allocate_port return what nobody uses.
LEMMA LeastFreeIs ==
  ASSUME NEW used, IsFiniteSet(used)
  PROVE  LeastFree(used) \in Nat /\ LeastFree(used) \notin used
<1> DEFINE n == Cardinality(used)
           free == {k \in Nat : k \notin used}
<1>1. n \in Nat
  BY FS_CardinalityType
<1>2. \E k \in 0 .. n : k \notin used
  <2> SUFFICES ASSUME 0 .. n \in SUBSET used PROVE FALSE
    OBVIOUS
  <2>1. Cardinality(0 .. n) = n + 1
    BY <1>1, FS_Interval
  <2>2. Cardinality(0 .. n) <= n
    BY FS_Subset
  <2> HIDE DEF n
  <2> QED
    BY <1>1, <2>1, <2>2
<1>3. PICK m \in free : \A k \in free : m <= k
  <2>1. free \in SUBSET Nat /\ free # {}
    BY <1>1, <1>2
  <2> QED
    BY <2>1, NatMin
<1>4. m \in 0 .. n /\ m \notin used
  BY <1>1, <1>2, <1>3
<1>5. \A j \in 0 .. m - 1 : j \in used
  BY <1>1, <1>3
<1>6. LeastFree(used) \in 0 .. n /\ LeastFree(used) \notin used
  BY <1>4, <1>5 DEF LeastFree
<1> QED
  BY <1>1, <1>6

LEMMA ImagesFinite ==
  ASSUME NEW inv, IsFiniteSet(inv), NEW role
  PROVE  IsFiniteSet(Names(inv)) /\ IsFiniteSet({e.port : e \in OfRole(inv, role)})
<1>1. [e \in inv |-> e.name] \in Surjection(inv, Names(inv))
  BY DEF Surjection, Names
<1>2. OfRole(inv, role) \in SUBSET inv
  BY DEF OfRole
<1>3. [e \in OfRole(inv, role) |-> e.port]
        \in Surjection(OfRole(inv, role), {e.port : e \in OfRole(inv, role)})
  BY DEF Surjection
<1>4. IsFiniteSet(OfRole(inv, role))
  BY <1>2, FS_Subset
<1> QED
  BY <1>1, <1>3, <1>4, FS_Surjection

LEMMA EntryType ==
  ASSUME NEW m \in Machine, NEW n \in Name, NEW k \in Nat, NEW inv, inv \subseteq Entries
  PROVE  Entry(m, n, k, inv) \in Entries
<1>1. Names(OfRole(inv, "far")) \ {n} \in SUBSET Name
  BY DEF Names, OfRole, Entries
<1> QED
  BY <1>1 DEF Entry, Entries

LEMMA DesiredType ==
  ASSUME NEW inv, inv \subseteq Entries
  PROVE  DesiredPairs(inv) \subseteq Name \X Name
  BY DEF DesiredPairs, OfRole, Entries

LEMMA RenderedType ==
  ASSUME target \in Machine, name \in Name, copy \subseteq Entries
  PROVE  Rendered \in [ip : Machine, name : Name, tunnels : SUBSET Name, keyed : BOOLEAN]
<1> DEFINE D == DesiredPairs(copy)
           T == {p[1] : p \in {q \in D : q[2] = name}} \cup {p[2] : p \in {q \in D : q[1] = name}}
<1>1. D \subseteq Name \X Name
  BY DesiredType
<1>2. T \in SUBSET Name
  <2> HIDE DEF D
  <2> QED
    BY <1>1
<1>3. Rendered = [ip |-> target, name |-> name, tunnels |-> T, keyed |-> name \in held]
  BY DEF Rendered
<1>4. (name \in held) \in BOOLEAN
  OBVIOUS
<1> HIDE DEF T
<1> QED
  BY <1>2, <1>3, <1>4

\* Writing the checkpoint of a step.
LEMMA SaveTypes ==
  ASSUME Types, NEW d \in 0 .. 12, Save(d),
         name' \in Name \cup {None}, port' \in Nat
  PROVE  /\ checkpoint' \in [Machine -> Checkpoints] /\ torn' = torn \ {target}
         /\ checkpoint'[target] = [done |-> d, name |-> name', port |-> port']
         /\ \A m \in Machine : m # target => checkpoint'[m] = checkpoint[m]
<1>1. [done |-> d, name |-> name', port |-> port'] \in Checkpoints
  BY DEF Checkpoints
<1> QED
  BY <1>1 DEF Save, Types

(***************************************************************************)
(* Types, however add-node is used.                                        *)
(***************************************************************************)
LEMMA TypesGive == Types => TypeOK
  BY DEF Types, TypeOK, Checkpoints

LEMMA TypeInvInit == Init => TypeInv
<1> SUFFICES ASSUME Init PROVE TypeInv
  OBVIOUS
<1>1. NoCheckpoint \in Checkpoints
  BY DEF NoCheckpoint, Checkpoints, None
<1>2. IsFiniteSet({})
  BY FS_EmptySet
<1>3. Types
  <2>1. /\ inventory \subseteq Entries /\ copy \subseteq Entries /\ pairs \subseteq Name \X Name
        /\ keys \subseteq Name /\ held \subseteq Name /\ target \in Machine
        /\ IsFiniteSet(inventory) /\ IsFiniteSet(copy)
    BY <1>2 DEF Init
  <2>2. installed = {} /\ added = {} /\ checkpoint \in [Machine -> Checkpoints] /\ torn = {}
    BY <1>1 DEF Init
  <2>3. step \in 0 .. 13 /\ name \in Name \cup {None} /\ port \in Nat
    BY DEF Init, None
  <2>5. unsaved \in BOOLEAN
    BY DEF Init
  <2>4. deaths \in 0 .. MaxDeaths /\ refused \in 0 .. MaxRefused
    BY AddNodeAssumption DEF Init
  <2> QED
    BY <2>1, <2>2, <2>3, <2>4, <2>5 DEF Types
<1>4. Placed
  BY DEF Init, Placed, NoCheckpoint
<1> QED
  BY <1>3, <1>4 DEF TypeInv

LEMMA EndTypes ==
  ASSUME TypeInv, End, UNCHANGED <<disk, installed>>, torn' \subseteq Machine \cup Files,
         added' \subseteq [ip : Machine, name : Name],
         checkpoint' \in [Machine -> Checkpoints],
         \A m \in Machine : checkpoint'[m] \in {checkpoint[m], NoCheckpoint},
         deaths' \in 0 .. MaxDeaths, refused' \in 0 .. MaxRefused
  PROVE  TypeInv'
<1>1. Types'
  <2>1. IsFiniteSet({})
    BY FS_EmptySet
  <2>2. (/\ inventory \subseteq Entries /\ IsFiniteSet(inventory)
         /\ copy \subseteq Entries /\ IsFiniteSet(copy)
         /\ pairs \subseteq Name \X Name /\ keys \subseteq Name /\ held \subseteq Name
         /\ installed \subseteq [ip : Machine, name : Name, tunnels : SUBSET Name, keyed : BOOLEAN]
         /\ target \in Machine)'
    BY <2>1 DEF TypeInv, Types, End, disk
  <2>3. (step \in 0 .. 13 /\ name \in Name \cup {None} /\ port \in Nat)'
    BY DEF End, None
  <2>4. (unsaved \in BOOLEAN)'
    BY DEF End
  <2> QED
    BY <2>2, <2>3, <2>4 DEF Types
<1>2. Placed'
  BY DEF End, TypeInv, Placed, NoCheckpoint
<1> QED
  BY <1>1, <1>2 DEF TypeInv

LEMMA StartTypes ==
  ASSUME TypeInv, NEW m \in Machine, NEW c \in {NoCheckpoint, checkpoint[m]}, Start(m, c)
  PROVE  TypeInv'
<1>i. Types /\ Placed
  BY DEF TypeInv
<1>1. c \in Checkpoints /\ (c.done >= 3 => c.name \in Name)
  <2>1. NoCheckpoint \in Checkpoints /\ NoCheckpoint.done = 0
    BY DEF NoCheckpoint, Checkpoints, None
  <2> QED
    BY <1>i, <2>1 DEF Types, Placed
<1>2. c.done \in 0 .. 12 /\ c.name \in Name \cup {None} /\ c.port \in Nat
  BY <1>1 DEF Checkpoints
<1>3. /\ inventory \subseteq Entries /\ IsFiniteSet(inventory)
      /\ Names(inventory) \subseteq Name
  BY <1>i DEF Types, Names, Entries
<1>4. (copy \subseteq Entries /\ IsFiniteSet(copy) /\ held \subseteq Name /\ keys \subseteq Name)'
  <2>1. CASE c.done >= 5
    <3>1. Entry(m, c.name, c.port, inventory) \in Entries
      BY <1>1, <1>2, <1>3, <2>1, EntryType
    <3>2. IsFiniteSet(inventory \cup {Entry(m, c.name, c.port, inventory)})
      BY <1>3, FS_AddElement
    <3>3. Rebuild(m, c)
      BY <2>1 DEF Start
    <3> QED
      BY <1>i, <1>3, <3>1, <3>2, <3>3 DEF Rebuild, Types
  <2>2. CASE ~(c.done >= 5)
    <3>1. copy' = inventory /\ held' = {} /\ keys' = keys
      BY <2>2 DEF Start
    <3> QED
      BY <1>i, <1>3, <3>1 DEF Types
  <2> QED
    BY <2>1, <2>2
<1>5. Types'
  <2>1. /\ step' = c.done + 1 /\ target' = m /\ name' = c.name /\ port' = c.port
        /\ UNCHANGED <<inventory, pairs, checkpoint, torn, installed, added, unsaved, deaths, refused>>
    BY DEF Start, bounds
  <2>2. step' \in 0 .. 13
    BY <1>2, <2>1
  <2> QED
    BY <1>i, <1>2, <1>4, <2>1, <2>2 DEF Types
<1>6. Placed'
  <2>1. step = 0
    BY DEF Start
  <2>2. unsaved # TRUE
    <3>1. step \notin {5, 6, 7, 9}
      BY <2>1
    <3>2. unsaved = TRUE => step \in {5, 6, 7, 9}
      BY <1>i DEF Placed
    <3> QED
      BY <3>1, <3>2
  <2>3. (step >= 4 => name \in Name)'
    BY <1>1, <1>2 DEF Start
  <2> QED
    BY <1>i, <2>2, <2>3 DEF Start, Placed
<1> QED
  BY <1>5, <1>6 DEF TypeInv

\* A step that leaves the files alone and saves its checkpoint.
LEMMA PassTypes ==
  ASSUME TypeInv, NEW d \in 1 .. 12, step' = d + 1, Save(d), unsaved' = FALSE,
         UNCHANGED <<disk, installed, added, target, copy, held, bounds>>,
         name' \in Name \cup {None}, port' \in Nat, d >= 3 => name' \in Name
  PROVE  TypeInv'
<1>i. Types /\ Placed
  BY DEF TypeInv
<1>1. d \in 0 .. 12
  OBVIOUS
<1>2. /\ checkpoint' \in [Machine -> Checkpoints] /\ torn' = torn \ {target}
      /\ checkpoint'[target] = [done |-> d, name |-> name', port |-> port']
      /\ \A m \in Machine : m # target => checkpoint'[m] = checkpoint[m]
  BY <1>i, <1>1, SaveTypes
<1>3. Types'
  <2>1. step' \in 0 .. 13
    OBVIOUS
  <2>2. unsaved' \in BOOLEAN
    OBVIOUS
  <2> QED
    BY <1>i, <1>2, <2>1, <2>2 DEF Types, disk, bounds
<1>4. Placed'
  BY <1>i, <1>2 DEF Placed
<1> QED
  BY <1>3, <1>4 DEF TypeInv

LEMMA CommandTypes == ASSUME TypeInv, Command PROVE TypeInv'
<1>i. Types /\ Placed
  BY DEF TypeInv
<1>t. /\ step \in 0 .. 13 /\ name \in Name \cup {None} /\ port \in Nat
      /\ unsaved \in BOOLEAN /\ target \in Machine
      /\ copy \subseteq Entries /\ IsFiniteSet(copy) /\ Names(copy) \subseteq Name
  BY <1>i DEF Types, Names, Entries
<1>1. CASE Pass
  <2>1. /\ step \in 1 .. 12 /\ step' = step + 1 /\ Save(step)
        /\ UNCHANGED <<disk, installed, added, unsaved, target, name, port, copy, held, bounds>>
    BY <1>1 DEF Pass, memory
  <2>2. unsaved = FALSE
    BY <1>i, <1>t, <1>1 DEF Pass, Placed
  <2>3. step >= 3 => name \in Name
    BY <1>i, <1>1 DEF Pass, Placed
  <2> QED
    BY <1>t, <2>1, <2>2, <2>3, PassTypes
<1>2. CASE GenerateNodeId
  <2>1. unsaved = FALSE
    BY <1>i, <1>t, <1>2 DEF GenerateNodeId, Placed
  <2>2. name' \in Name
    BY <1>2 DEF GenerateNodeId
  <2>3. /\ step' = 3 + 1 /\ Save(3) /\ port' \in Nat
        /\ UNCHANGED <<disk, installed, added, target, copy, held, bounds>>
    BY <1>t, <1>2 DEF GenerateNodeId
  <2>4. unsaved' = FALSE
    BY <1>2, <2>1 DEF GenerateNodeId
  <2>5. 3 \in 1 .. 12 /\ name' \in Name \cup {None}
    BY <2>2
  <2> QED
    BY <2>2, <2>3, <2>4, <2>5, PassTypes
<1>3. CASE Exhausted
  BY <1>i, <1>3, EndTypes DEF Exhausted, Types, bounds
<1>4. CASE Allocate
  <2>1. unsaved = FALSE /\ name \in Name
    BY <1>i, <1>t, <1>4 DEF Allocate, Placed
  <2>2. port' \in Nat
    BY <1>t, <1>4, ImagesFinite, LeastFreeIs DEF Allocate
  <2>3. /\ step' = 4 + 1 /\ Save(4) /\ name' \in Name
        /\ UNCHANGED <<disk, installed, added, target, copy, held, bounds>>
    BY <1>4, <2>1 DEF Allocate
  <2>4. unsaved' = FALSE
    BY <1>4, <2>1 DEF Allocate
  <2>5. 4 \in 1 .. 12 /\ name' \in Name \cup {None}
    BY <2>3
  <2> QED
    BY <2>2, <2>3, <2>4, <2>5, PassTypes
<1>5. CASE GenerateMaterials
  <2>1. name \in Name
    BY <1>i, <1>5 DEF GenerateMaterials, Placed
  <2>2. copy' \subseteq Entries /\ IsFiniteSet(copy')
    BY <1>t, <1>5, <2>1, EntryType, FS_AddElement DEF GenerateMaterials
  <2>3. Types'
    BY <1>i, <1>t, <1>5, <2>2 DEF GenerateMaterials, Types, bounds
  <2>4. Placed'
    BY <1>i, <1>5 DEF GenerateMaterials, Placed
  <2> QED
    BY <2>3, <2>4 DEF TypeInv
<1>6. CASE UpdateInventory
  <2>1. Types'
    BY <1>i, <1>6 DEF UpdateInventory, Types, memory, bounds
  <2>2. Placed'
    BY <1>i, <1>6 DEF UpdateInventory, Placed, memory
  <2> QED
    BY <2>1, <2>2 DEF TypeInv
<1>7. CASE ComputeTopology
  <2>1. Types'
    BY <1>i, <1>7, DesiredType DEF ComputeTopology, Types, memory, bounds
  <2>2. Placed'
    BY <1>i, <1>7 DEF ComputeTopology, Placed, memory
  <2> QED
    BY <2>1, <2>2 DEF TypeInv
<1>8. CASE Deploy
  <2>1. CASE unsaved' = TRUE /\ UNCHANGED <<step, memory>>
              /\ installed' = {c \in installed : c.ip # target} \cup {Rendered}
    <3>1. name \in Name
      BY <1>i, <1>8 DEF Deploy, Placed
    <3>2. Rendered \in [ip : Machine, name : Name, tunnels : SUBSET Name, keyed : BOOLEAN]
      BY <1>t, <3>1, RenderedType
    <3>3. Types'
      BY <1>i, <1>8, <2>1, <3>2 DEF Deploy, Types, disk, memory, bounds
    <3>4. Placed'
      BY <1>i, <1>8, <2>1 DEF Deploy, Placed, memory
    <3> QED
      BY <3>3, <3>4 DEF TypeInv
  <2>2. CASE End /\ UNCHANGED installed
    BY <1>i, <1>8, <2>2, EndTypes DEF Deploy, Types, bounds
  <2> QED
    BY <1>8, <2>1, <2>2 DEF Deploy
<1>9. CASE SaveCheckpoint
  <2>1. step \in 1 .. 12 /\ (step >= 3 => name \in Name)
    <3>1. unsaved = TRUE
      BY <1>t, <1>9 DEF SaveCheckpoint
    <3> QED
      BY <1>i, <1>t, <3>1 DEF Placed
  <2>2. /\ step' = step + 1 /\ Save(step) /\ unsaved' = FALSE
        /\ UNCHANGED <<disk, installed, added, target, name, port, copy, held, bounds>>
    BY <1>9 DEF SaveCheckpoint, memory
  <2> QED
    BY <1>t, <2>1, <2>2, PassTypes
<1>10. CASE Summary
  <2>1. name \in Name
    BY <1>i, <1>10 DEF Summary, Placed
  <2>2. added' \subseteq [ip : Machine, name : Name]
    BY <1>i, <1>t, <1>10, <2>1 DEF Summary, Types
  <2>3. /\ checkpoint' \in [Machine -> Checkpoints]
        /\ \A m \in Machine : checkpoint'[m] \in {checkpoint[m], NoCheckpoint}
    <3>1. NoCheckpoint \in Checkpoints
      BY DEF NoCheckpoint, Checkpoints, None
    <3> QED
      BY <1>i, <1>10, <3>1 DEF Summary, Types
  <2> QED
    BY <1>i, <1>10, <2>2, <2>3, EndTypes DEF Summary, Types, bounds
<1>11. CASE KeysUnreadable
  BY <1>i, <1>11, EndTypes DEF KeysUnreadable, Types, bounds
<1> QED
  BY <1>1, <1>2, <1>3, <1>4, <1>5, <1>6, <1>7, <1>8, <1>9, <1>10, <1>11 DEF Command

LEMMA TypeInvNext == TypeInv /\ [Next]_vars => TypeInv'
<1> SUFFICES ASSUME TypeInv, [Next]_vars PROVE TypeInv'
  OBVIOUS
<1>1. ASSUME NEW m \in Machine, Add(m) \/ Resume(m) PROVE TypeInv'
  BY <1>1, StartTypes DEF Add, Resume
<1>2. CASE Command
  BY <1>2, CommandTypes
<1>3. CASE Refuse \/ Die
  BY <1>3, EndTypes, AddNodeAssumption DEF Refuse, Die, TypeInv, Types
<1>4. CASE UNCHANGED vars
  BY <1>4 DEF vars, disk, memory, bounds, TypeInv, Types, Placed
<1>5. CASE DieWriting
  <2>1. NoCheckpoint \in Checkpoints
    BY DEF NoCheckpoint, Checkpoints, None
  <2>2. /\ checkpoint' \in [Machine -> Checkpoints]
        /\ \A m \in Machine : checkpoint'[m] \in {checkpoint[m], NoCheckpoint}
    BY <1>5, <2>1 DEF DieWriting, TypeInv, Types
  <2>3. torn' \subseteq Machine \cup Files
    BY <1>5 DEF DieWriting, TypeInv, Types, Files
  <2>4. /\ End /\ UNCHANGED <<disk, installed, added, refused>>
        /\ deaths < MaxDeaths /\ deaths' = deaths + 1
    BY <1>5 DEF DieWriting
  <2>5. deaths' \in 0 .. MaxDeaths
    BY <2>4, AddNodeAssumption DEF TypeInv, Types
  <2>6. added' \subseteq [ip : Machine, name : Name] /\ refused' \in 0 .. MaxRefused
    BY <2>4 DEF TypeInv, Types
  <2> QED
    BY <2>2, <2>3, <2>4, <2>5, <2>6, EndTypes
<1>6. ASSUME NEW m \in Machine, DieRebuilding(m) PROVE TypeInv'
  <2>1. deaths' \in 0 .. MaxDeaths
    BY <1>6, AddNodeAssumption DEF DieRebuilding, TypeInv, Types
  <2>2. torn' \subseteq Machine \cup Files
    BY <1>6 DEF DieRebuilding, TypeInv, Types, Files
  <2> QED
    BY <1>6, <2>1, <2>2 DEF DieRebuilding, disk, memory, TypeInv, Types, Placed
<1> QED
  BY <1>1, <1>2, <1>3, <1>4, <1>5, <1>6 DEF Next

\* Files and memory are well-formed, in whatever order machines are added, commands
\* die, are resumed, or are started anew for a machine an earlier one left behind.
THEOREM AddNodeTypes == Spec => []TypeOK
<1>1. TypeInv => TypeOK
  BY TypesGive DEF TypeInv
<1> QED
  BY <1>1, TypeInvInit, TypeInvNext, PTL DEF Spec

(***************************************************************************)
(* Disciplined use: who is listed.                                         *)
(***************************************************************************)
\* The inventory asks for no fewer tunnels when it grows.
LEMMA DesiredGrows ==
  ASSUME NEW inv, NEW more, inv \subseteq more
  PROVE  DesiredPairs(inv) \subseteq DesiredPairs(more)
  BY DEF DesiredPairs, OfRole

\* A configuration has the tunnels the inventory asks for.
LEMMA RenderedTunnels ==
  ASSUME NEW t \in Rendered.tunnels
  PROVE  <<name, t>> \in DesiredPairs(copy) \/ <<t, name>> \in DesiredPairs(copy)
<1> DEFINE D == DesiredPairs(copy)
<1>1. \A p \in D : p = <<p[1], p[2]>>
  BY DEF DesiredPairs
<1>2. t \in {p[1] : p \in {q \in D : q[2] = name}} \cup {p[2] : p \in {q \in D : q[1] = name}}
  BY DEF Rendered
<1> HIDE DEF D
<1>3. <<name, t>> \in D \/ <<t, name>> \in D
  BY <1>1, <1>2
<1> QED
  BY <1>3 DEF D

\* What the invariant says of the command under way.
LEMMA UnderWay ==
  ASSUME TypeInv, AddInv, step # 0
  PROVE  /\ checkpoint[target] = [done |-> step - 1, name |-> name, port |-> port]
         /\ ~IsAdded(target) /\ Mine(target)
         /\ \A m \in Machine : m # target => checkpoint[m] = NoCheckpoint
<1>1. target \in Machine /\ Unfinished(target)
  BY DEF TypeInv, Types, Unfinished
<1>2. \A m \in Machine : m # target => checkpoint[m] = NoCheckpoint
  BY <1>1 DEF AddInv, OneAtATime, Unfinished
<1>3. ~IsAdded(target) /\ Mine(target)
  BY <1>1 DEF AddInv, OneAtATime, Reserved
<1> QED
  BY <1>2, <1>3 DEF AddInv, OneAtATime

LEMMA AddInvInit == Init => AddInv
<1> SUFFICES ASSUME Init PROVE AddInv
  OBVIOUS
<1> USE DEF Init
<1>1. \A m \in Machine : checkpoint[m] = NoCheckpoint /\ ~Unfinished(m)
  BY DEF Unfinished
<1>2. OneAtATime
  BY <1>1 DEF OneAtATime
<1>3. Reserved /\ CopyIs /\ Blocks
  BY DEF Reserved, Mine, CopyIs, Blocks
<1>4. Behind
  BY <1>1 DEF Behind, NoCheckpoint
<1>5. ListedOnce /\ AddedRun
  BY DEF ListedOnce, AddedRun, Loads
<1> QED
  BY <1>2, <1>3, <1>4, <1>5 DEF AddInv

\* A command ends without adding the machine.
LEMMA EndAdds ==
  ASSUME AddInv, End, UNCHANGED <<disk, installed, added>>, torn \subseteq torn',
         \A m \in Machine : \/ checkpoint'[m] = checkpoint[m]
                            \/ checkpoint'[m] = NoCheckpoint /\ m \in torn'
  PROVE  AddInv'
<1> USE DEF disk
<1>1. \A m \in Machine : IsAdded(m)' = IsAdded(m) /\ (Unfinished(m)' => Unfinished(m))
  BY DEF End, IsAdded, Unfinished
<1>2. OneAtATime'
  BY <1>1 DEF AddInv, OneAtATime, End, NoCheckpoint
<1>3. Reserved'
  <2>1. ASSUME NEW m \in Machine, ~IsAdded(m)', m \in torn' => Unfinished(m)' PROVE Mine(m)'
    <3>1. checkpoint'[m] = checkpoint[m]
      <4>1. checkpoint'[m] = NoCheckpoint => ~Unfinished(m)'
        BY DEF Unfinished, End
      <4> QED
        BY <2>1, <4>1
    <3>2. Mine(m)
      BY <1>1, <2>1 DEF AddInv, Reserved
    <3> QED
      BY <3>1, <3>2 DEF Mine, Claims, Role
  <2> QED
    BY <2>1 DEF Reserved
<1>4. CopyIs'
  BY DEF CopyIs, End
<1>5. Blocks'
  BY DEF AddInv, Blocks
<1>6. Behind'
  <2>1. \A m \in Machine : \/ checkpoint'[m] = checkpoint[m]
                           \/ ~(checkpoint'[m].done >= 6) /\ ~(checkpoint'[m].done >= 7)
                              /\ ~(checkpoint'[m].done >= 9)
    BY DEF NoCheckpoint
  <2>2. \A m, n : Runs(m, n)' = Runs(m, n)
    BY DEF Runs
  <2>3. DesiredPairs(inventory)' = DesiredPairs(inventory) /\ Names(inventory)' = Names(inventory)
    BY DEF DesiredPairs, OfRole, Role, Names
  <2> QED
    BY <2>1, <2>2, <2>3 DEF AddInv, Behind, End
<1>7. ListedOnce' /\ AddedRun'
  BY DEF AddInv, ListedOnce, AddedRun, Runs, Loads, Role
<1> QED
  BY <1>2, <1>3, <1>4, <1>5, <1>6, <1>7 DEF AddInv

\* Under discipline a command is started for the machine that is unfinished, if one is.
LEMMA StartAdds ==
  ASSUME TypeInv, AddInv, NEW m \in Machine, Start(m, checkpoint[m]), ~IsAdded(m), Mine(m),
         \A x \in Machine : Unfinished(x) => x = m
  PROVE  AddInv'
<1> DEFINE c == checkpoint[m]
<1>1. /\ step = 0 /\ step' = c.done + 1 /\ target' = m /\ name' = c.name /\ port' = c.port
      /\ UNCHANGED <<inventory, pairs, checkpoint, torn, installed, added, unsaved>>
  BY DEF Start
<1>2. c.done \in 0 .. 12 /\ c = [done |-> c.done, name |-> c.name, port |-> c.port]
  BY DEF TypeInv, Types, Checkpoints
<1>3. unsaved # TRUE
  <2>1. step \notin {5, 6, 7, 9}
    BY <1>1
  <2>2. unsaved = TRUE => step \in {5, 6, 7, 9}
    BY DEF TypeInv, Placed
  <2> QED
    BY <2>1, <2>2
<1>4. unsaved' = FALSE
  BY <1>1, <1>3 DEF TypeInv, Types
<1>5. step' # 0 /\ step' - 1 = c.done
  BY <1>1, <1>2
<1>6. \A x \in Machine : IsAdded(x)' = IsAdded(x) /\ (Unfinished(x)' => x = m)
  BY <1>1 DEF IsAdded, Unfinished
<1>7. OneAtATime'
  <2>1. (step # 0 => checkpoint[target] = [done |-> step - 1, name |-> name, port |-> port])'
    BY <1>1, <1>2, <1>5
  <2> QED
    BY <1>1, <1>6, <2>1 DEF AddInv, OneAtATime
<1>8. Reserved'
  <2>1. \A x \in Machine : Mine(x)' = Mine(x)
    BY <1>1 DEF Mine, Claims, Role
  <2>2. \A x \in Machine : x \in torn' /\ Unfinished(x)' => x = m
    BY <1>6
  <2> QED
    BY <1>1, <1>6, <2>1, <2>2 DEF AddInv, Reserved
<1>9. CopyIs'
  <2>1. CASE c.done >= 6
    <3>1. c.name \in Names(inventory)
      BY <2>1 DEF AddInv, Behind
    <3>2. copy' = inventory
      BY <1>2, <2>1, <3>1 DEF Start, Rebuild
    <3> QED
      BY <1>1, <1>2, <2>1, <3>1, <3>2 DEF CopyIs, Names
  <2>2. CASE c.done = 5
    <3>1. copy' = IF c.name \in Names(inventory) THEN inventory
                  ELSE inventory \cup {Entry(m, c.name, c.port, inventory)}
      BY <2>2 DEF Start, Rebuild
    <3>2. Entry(m, c.name, c.port, inventory) = Entry(target, name, port, inventory)'
      BY <1>1 DEF Entry, Names, OfRole, Role
    <3> HIDE DEF c
    <3> QED
      BY <1>1, <1>4, <2>2, <3>1, <3>2 DEF CopyIs, Names
  <2>3. CASE c.done \in 0 .. 4
    <3>1. copy' = inventory /\ step' \in 1 .. 5
      BY <1>1, <2>3 DEF Start
    <3> QED
      BY <1>1, <1>4, <3>1 DEF CopyIs
  <2> QED
    BY <1>2, <2>1, <2>2, <2>3
<1>10. Blocks'
  BY <1>1 DEF AddInv, Blocks, DesiredPairs, OfRole, Role
<1>11. Behind'
  <2>1. DesiredPairs(inventory)' = DesiredPairs(inventory) /\ Names(inventory)' = Names(inventory)
    BY <1>1 DEF DesiredPairs, OfRole, Role, Names
  <2>2. \A x, n : Runs(x, n)' = Runs(x, n)
    BY <1>1 DEF Runs
  <2> QED
    BY <1>1, <1>4, <2>1, <2>2 DEF AddInv, Behind
<1>12. ListedOnce' /\ AddedRun'
  BY <1>1 DEF AddInv, ListedOnce, AddedRun, Runs, Loads, Role
<1> QED
  BY <1>7, <1>8, <1>9, <1>10, <1>11, <1>12 DEF AddInv

\* The checkpoint of a step is written: the name and the port reserved in it are those
\* of nobody listed.
LEMMA SaveAdds ==
  ASSUME TypeInv, AddInv, NEW d \in 1 .. 12, step = d, step' = d + 1, unsaved' = FALSE, Save(d),
         UNCHANGED <<disk, installed, added, target, copy>>,
         name' \in Name \cup {None}, port' \in Nat,
         d \in {5, 6, 7, 9} => unsaved = TRUE,
         d # 3 => name' = name, d # 4 => port' = port,
         d = 3 => name' \notin Names(inventory),
         d = 4 => \A e \in inventory : Role(e.ip) = Role(target) => e.port # port'
  PROVE  AddInv'
<1> USE DEF disk
<1>1. /\ checkpoint[target] = [done |-> d - 1, name |-> name, port |-> port]
      /\ ~IsAdded(target) /\ Mine(target)
      /\ \A m \in Machine : m # target => checkpoint[m] = NoCheckpoint
  BY UnderWay
<1>2. /\ target \in Machine /\ torn' = torn \ {target}
      /\ checkpoint'[target] = [done |-> d, name |-> name', port |-> port']
      /\ \A m \in Machine : m # target => checkpoint'[m] = NoCheckpoint
  BY <1>1, SaveTypes DEF TypeInv, Types
<1>3. \A m \in Machine : IsAdded(m)' = IsAdded(m) /\ (Unfinished(m)' <=> m = target)
  <2>1. step' # 0 /\ d # 0
    OBVIOUS
  <2>2. checkpoint'[target] # NoCheckpoint
    BY <1>2, <2>1 DEF NoCheckpoint
  <2> QED
    BY <1>2, <2>1, <2>2 DEF IsAdded, Unfinished
<1>4. OneAtATime'
  <2>1. (step # 0 => checkpoint[target] = [done |-> step - 1, name |-> name, port |-> port])'
    BY <1>2
  <2>2. \A m \in Machine : checkpoint'[m].done = 0 => checkpoint'[m] = NoCheckpoint
    BY <1>2
  <2> QED
    BY <1>1, <1>3, <2>1, <2>2 DEF OneAtATime
<1>5. Reserved'
  <2>1. ASSUME NEW m \in Machine, m # target, ~IsAdded(m), m \notin torn PROVE Mine(m)'
    BY <1>1, <1>2, <2>1 DEF AddInv, Reserved, Mine, Claims, NoCheckpoint
  <2>2. Mine(target)'
    <3> SUFFICES ASSUME NEW e \in inventory, Claims(e, target, checkpoint[target])'
                 PROVE  /\ d >= 5
                        /\ e.ip = target /\ e.name = name' /\ e.port = port'
      BY <1>2 DEF Mine
    <3>1. \/ e.ip = target
          \/ d >= 3 /\ e.name = name'
          \/ d >= 4 /\ Role(e.ip) = Role(target) /\ e.port = port'
      BY <1>2 DEF Claims, Role
    <3>2. \/ e.ip = target
          \/ d - 1 >= 3 /\ e.name = name
          \/ d - 1 >= 4 /\ Role(e.ip) = Role(target) /\ e.port = port
          => d - 1 >= 5 /\ e.ip = target /\ e.name = name /\ e.port = port
      BY <1>1 DEF Mine, Claims
    <3>3. e.name \in Names(inventory)
      BY DEF Names
    <3> QED
      BY <3>1, <3>2, <3>3
  <2> QED
    BY <1>2, <1>3, <2>1, <2>2 DEF Reserved
<1>6. CopyIs'
  <2>1. CASE d \in 1 .. 4
    <3>1. copy = inventory
      BY <2>1 DEF AddInv, CopyIs
    <3> QED
      BY <2>1, <3>1 DEF CopyIs
  <2>2. CASE d = 5
    <3>1. copy = IF name \in Names(inventory) THEN inventory
                 ELSE inventory \cup {Entry(target, name, port, inventory)}
      BY <2>2 DEF AddInv, CopyIs
    <3>2. Entry(target, name, port, inventory)' = Entry(target, name, port, inventory)
      BY <2>2 DEF Entry, Names, OfRole, Role
    <3> QED
      BY <2>2, <3>1, <3>2 DEF CopyIs, Names
  <2>3. CASE d >= 6
    <3>1. copy = inventory /\ name \in Names(inventory)
      BY <2>3 DEF AddInv, CopyIs
    <3> QED
      BY <2>3, <3>1 DEF CopyIs, Names
  <2> QED
    BY <2>1, <2>2, <2>3
<1>7. Blocks'
  BY DEF AddInv, Blocks, DesiredPairs, OfRole, Role
<1>8. Behind'
  <2>1. DesiredPairs(inventory)' = DesiredPairs(inventory) /\ Names(inventory)' = Names(inventory)
    BY DEF DesiredPairs, OfRole, Role, Names
  <2>2. \A n : Runs(target, n)' = Runs(target, n)
    BY DEF Runs
  <2>3. d >= 6 => name' \in Names(inventory)
    BY DEF AddInv, CopyIs
  <2>4. d >= 7 => pairs = DesiredPairs(inventory)
    BY <1>1, <1>2 DEF AddInv, Behind
  <2>5. d >= 9 => Runs(target, name')
    BY <1>1, <1>2 DEF AddInv, Behind
  <2>6. \A m \in Machine : m # target => checkpoint'[m].done = 0
    BY <1>2 DEF NoCheckpoint
  <2>7. \A m \in Machine : m # target => ~(checkpoint'[m].done >= 6)
    BY <2>6
  <2>8. checkpoint'[target].done = d /\ checkpoint'[target].name = name'
    BY <1>2
  <2>9. \A m \in Machine : checkpoint'[m].done >= 6 => m = target
    BY <2>7
  <2>10. \A m \in Machine : /\ checkpoint'[m].done >= 6 => checkpoint'[m].name \in Names(inventory)
                            /\ checkpoint'[m].done >= 7 => pairs = DesiredPairs(inventory)
                            /\ checkpoint'[m].done >= 9 => Runs(m, checkpoint'[m].name)
    <3> TAKE m \in Machine
    <3>1. CASE m = target
      BY <2>3, <2>4, <2>5, <2>8, <3>1
    <3>2. CASE m # target
      BY <2>6, <3>2
    <3> QED
      BY <3>1, <3>2
  <2>11. \A m, n : Runs(m, n)' = Runs(m, n)
    BY DEF Runs
  <2> QED
    BY <2>1, <2>10, <2>11 DEF Behind
<1>9. ListedOnce' /\ AddedRun'
  BY DEF AddInv, ListedOnce, AddedRun, Runs, Loads, Role
<1> QED
  BY <1>4, <1>5, <1>6, <1>7, <1>8, <1>9 DEF AddInv

LEMMA MaterialsAdds == ASSUME TypeInv, AddInv, GenerateMaterials PROVE AddInv'
<1> USE DEF GenerateMaterials, bounds
<1>1. /\ checkpoint[target] = [done |-> 4, name |-> name, port |-> port] /\ Mine(target)
  BY UnderWay
<1>2. name \notin Names(inventory)
  BY <1>1 DEF Mine, Claims, Names
<1>3. unsaved = FALSE
  BY DEF TypeInv, Types
<1>4. copy = inventory
  BY <1>3 DEF AddInv, CopyIs
<1>5. CopyIs'
  <2>1. Entry(target, name, port, inventory)' = Entry(target, name, port, inventory)
    BY DEF Entry, Names, OfRole, Role
  <2> QED
    BY <1>2, <1>4, <2>1 DEF CopyIs, Names
<1>6. \A m \in Machine : IsAdded(m)' = IsAdded(m) /\ Unfinished(m)' = Unfinished(m)
  BY DEF IsAdded, Unfinished
<1>7. OneAtATime'
  BY <1>6 DEF AddInv, OneAtATime
<1>8. Reserved'
  BY <1>6 DEF AddInv, Reserved, Mine, Claims, Role
<1>9. Blocks'
  BY DEF AddInv, Blocks, DesiredPairs, OfRole, Role
<1>10. Behind'
  BY DEF AddInv, Behind, Names, Runs, DesiredPairs, OfRole, Role
<1>11. ListedOnce' /\ AddedRun'
  BY DEF AddInv, ListedOnce, AddedRun, Runs, Loads, Role
<1> QED
  BY <1>5, <1>7, <1>8, <1>9, <1>10, <1>11 DEF AddInv

LEMMA UpdateAdds == ASSUME TypeInv, AddInv, UpdateInventory PROVE AddInv'
<1> USE DEF UpdateInventory, memory, bounds
<1> DEFINE new == Entry(target, name, port, inventory)
<1>1. /\ checkpoint[target] = [done |-> 5, name |-> name, port |-> port] /\ Mine(target)
      /\ ~IsAdded(target) /\ target \in Machine
      /\ \A m \in Machine : m # target => checkpoint[m] = NoCheckpoint
  BY UnderWay DEF TypeInv, Types
<1>2. inventory' = IF name \in Names(inventory) THEN inventory ELSE inventory \cup {new}
  <2>1. unsaved = FALSE
    BY DEF TypeInv, Types
  <2> QED
    BY <2>1 DEF AddInv, CopyIs
<1>3. new.ip = target /\ new.name = name /\ new.port = port
  BY DEF Entry
<1> HIDE DEF new
<1>4. inventory \subseteq inventory' /\ name \in Names(inventory')
  BY <1>2, <1>3 DEF Names
<1>5. ASSUME NEW e \in inventory, name \notin Names(inventory)
      PROVE  /\ e.ip # target /\ e.name # name
             /\ ~(Role(e.ip) = Role(target) /\ e.port = port)
  <2>1. e.name # name
    BY <1>5 DEF Names
  <2>2. Claims(e, target, checkpoint[target]) => e.name = name
    BY <1>1 DEF Mine
  <2> QED
    BY <1>1, <2>1, <2>2 DEF Claims
<1>6. \A m \in Machine : IsAdded(m)' = IsAdded(m) /\ Unfinished(m)' = Unfinished(m)
  BY DEF IsAdded, Unfinished
<1>7. OneAtATime'
  BY <1>6 DEF AddInv, OneAtATime
<1>8. Reserved'
  <2>1. ASSUME NEW m \in Machine, ~IsAdded(m), m \in torn => Unfinished(m),
               NEW e \in inventory', Claims(e, m, checkpoint[m])
        PROVE  /\ checkpoint[m].done >= 5
               /\ e.ip = m /\ e.name = checkpoint[m].name /\ e.port = checkpoint[m].port
    <3>1. CASE e \in inventory
      BY <2>1, <3>1 DEF AddInv, Reserved, Mine
    <3>2. CASE e = new
      <4>1. m = target
        BY <1>1, <1>3, <2>1, <3>2 DEF Claims, NoCheckpoint
      <4> QED
        BY <1>1, <1>3, <3>2, <4>1
    <3> QED
      BY <1>2, <3>1, <3>2
  <2>2. \A m, e : Claims(e, m, checkpoint[m])' = Claims(e, m, checkpoint[m])
    BY DEF Claims, Role
  <2> QED
    BY <1>6, <2>1, <2>2 DEF Reserved, Mine
<1>9. CopyIs'
  BY <1>4 DEF CopyIs, Names
<1>10. DesiredPairs(inventory) \subseteq DesiredPairs(inventory')
  BY <1>4, DesiredGrows
<1>11. Blocks'
  <2>1. DesiredPairs(inventory)' = DesiredPairs(inventory')
    BY DEF DesiredPairs, OfRole, Role
  <2> QED
    BY <1>10, <2>1 DEF AddInv, Blocks
<1>12. Behind'
  <2>1. \A m \in Machine : checkpoint'[m].done < 6
    BY <1>1 DEF NoCheckpoint
  <2>2. \A m \in Machine : ~(checkpoint'[m].done >= 6) /\ ~(checkpoint'[m].done >= 7)
                           /\ ~(checkpoint'[m].done >= 9)
    <3>1. \A m \in Machine : checkpoint'[m].done \in {0, 5}
      BY <1>1 DEF NoCheckpoint
    <3> QED
      BY <3>1
  <2> QED
    BY <2>2 DEF Behind
<1>13. ListedOnce'
  <2>1. ASSUME NEW e \in inventory', NEW f \in inventory',
               \/ e.name = f.name
               \/ e.ip = f.ip
               \/ Role(e.ip) = Role(f.ip) /\ e.port = f.port
        PROVE  e = f
    <3>1. CASE e \in inventory /\ f \in inventory
      BY <2>1, <3>1 DEF AddInv, ListedOnce, Loads
    <3>2. CASE name \notin Names(inventory) /\ (e = new \/ f = new)
      BY <1>2, <1>3, <1>5, <2>1, <3>2
    <3> QED
      BY <1>2, <3>1, <3>2
  <2> QED
    BY <2>1 DEF ListedOnce, Loads, Role
<1>14. AddedRun'
  BY <1>4 DEF AddInv, AddedRun, Runs
<1> QED
  BY <1>7, <1>8, <1>9, <1>11, <1>12, <1>13, <1>14 DEF AddInv

LEMMA TopologyAdds == ASSUME TypeInv, AddInv, ComputeTopology PROVE AddInv'
<1> USE DEF ComputeTopology, memory, bounds
<1>1. /\ checkpoint[target] = [done |-> 6, name |-> name, port |-> port]
      /\ \A m \in Machine : m # target => checkpoint[m] = NoCheckpoint
  BY UnderWay
<1>2. copy = inventory
  BY DEF AddInv, CopyIs
<1>3. pairs \subseteq pairs' /\ DesiredPairs(inventory)' = pairs'
  BY <1>2 DEF AddInv, Blocks, DesiredPairs, OfRole, Role
<1>4. \A m \in Machine : IsAdded(m)' = IsAdded(m) /\ Unfinished(m)' = Unfinished(m)
  BY DEF IsAdded, Unfinished
<1>5. OneAtATime'
  BY <1>4 DEF AddInv, OneAtATime
<1>6. Reserved'
  <2>1. \A m \in Machine : m \in torn => m \in torn'
    BY AddNodeAssumption DEF Files
  <2> QED
    BY <1>4, <2>1 DEF AddInv, Reserved, Mine, Claims, Role
<1>7. CopyIs'
  BY DEF AddInv, CopyIs, Names
<1>8. Blocks'
  BY <1>3 DEF Blocks
<1>9. Behind'
  <2>1. \A m \in Machine : ~(checkpoint'[m].done >= 9)
    <3>1. \A m \in Machine : checkpoint'[m].done \in {0, 6}
      BY <1>1 DEF NoCheckpoint
    <3> QED
      BY <3>1
  <2>2. \A m \in Machine : checkpoint'[m].done >= 6 => checkpoint'[m].name \in Names(inventory)'
    BY DEF AddInv, Behind, Names
  <2> QED
    BY <1>3, <2>1, <2>2 DEF Behind
<1>10. ListedOnce'
  BY DEF AddInv, ListedOnce, Loads, Role
<1>11. AddedRun'
  BY <1>3 DEF AddInv, AddedRun, Runs
<1> QED
  BY <1>5, <1>6, <1>7, <1>8, <1>9, <1>10, <1>11 DEF AddInv

\* The deployment of step 9 succeeds.
LEMMA DeployAdds ==
  ASSUME TypeInv, AddInv, step = 9,
         installed' = {c \in installed : c.ip # target} \cup {Rendered},
         unsaved' = TRUE, UNCHANGED <<disk, checkpoint, torn, added, step, memory>>
  PROVE  AddInv'
<1> USE DEF disk, memory
<1>1. /\ checkpoint[target] = [done |-> 8, name |-> name, port |-> port]
      /\ ~IsAdded(target) /\ target \in Machine
      /\ \A m \in Machine : m # target => checkpoint[m] = NoCheckpoint
  BY UnderWay DEF TypeInv, Types
<1>2. copy = inventory /\ name \in Names(inventory)
  BY DEF AddInv, CopyIs
<1>3. pairs = DesiredPairs(copy)
  BY <1>1, <1>2 DEF AddInv, Behind
<1>4. Runs(target, name)'
  <2>1. Rendered \in installed' /\ Rendered.ip = target /\ Rendered.name = name
    BY DEF Rendered
  <2>2. \A t \in Rendered.tunnels : <<name, t>> \in pairs \/ <<t, name>> \in pairs
    BY <1>3, RenderedTunnels
  <2> HIDE DEF disk, memory
  <2>3. \E c \in installed' : /\ c.ip = target /\ c.name = name
                              /\ \A t \in c.tunnels : <<name, t>> \in pairs \/ <<t, name>> \in pairs
    BY <2>1, <2>2
  <2>4. target' = target /\ name' = name /\ pairs' = pairs
    BY DEF disk, memory
  <2> QED
    BY <2>3, <2>4 DEF Runs
<1>5. \A m \in Machine : IsAdded(m)' = IsAdded(m) /\ Unfinished(m)' = Unfinished(m)
  BY DEF IsAdded, Unfinished
<1>6. OneAtATime'
  BY <1>5 DEF AddInv, OneAtATime
<1>7. Reserved'
  BY <1>5 DEF AddInv, Reserved, Mine, Claims, Role
<1>8. CopyIs'
  BY <1>2 DEF CopyIs, Names
<1>9. Blocks'
  BY DEF AddInv, Blocks, DesiredPairs, OfRole, Role
<1>10. Behind'
  <2>1. \A m \in Machine : ~(checkpoint'[m].done >= 9)
    <3>1. \A m \in Machine : checkpoint'[m].done \in {0, 8}
      BY <1>1 DEF NoCheckpoint
    <3> QED
      BY <3>1
  <2>2. \A m \in Machine : /\ checkpoint'[m].done >= 6 => checkpoint'[m].name \in Names(inventory)'
                           /\ checkpoint'[m].done >= 7 => pairs' = DesiredPairs(inventory)'
    BY DEF AddInv, Behind, Names, DesiredPairs, OfRole, Role
  <2> QED
    BY <1>4, <2>1, <2>2 DEF Behind
<1>11. ListedOnce'
  BY DEF AddInv, ListedOnce, Loads, Role
<1>12. AddedRun'
  <2>1. \A a \in added : a.ip # target
    BY <1>1 DEF IsAdded
  <2>2. \A a \in added, c \in installed : c.ip = a.ip => c \in installed'
    BY <2>1
  <2>3. \A a \in added : Runs(a.ip, a.name)'
    BY <2>2 DEF AddInv, AddedRun, Runs
  <2> QED
    BY <2>3 DEF AddInv, AddedRun, Runs
<1> QED
  BY <1>6, <1>7, <1>8, <1>9, <1>10, <1>11, <1>12 DEF AddInv

LEMMA SummaryAdds == ASSUME TypeInv, AddInv, Summary PROVE AddInv'
<1> USE DEF Summary, disk, bounds
<1>1. /\ checkpoint[target] = [done |-> 12, name |-> name, port |-> port] /\ Mine(target)
      /\ target \in Machine
      /\ \A m \in Machine : m # target => checkpoint[m] = NoCheckpoint
  BY UnderWay DEF TypeInv, Types
<1>2. \A m \in Machine : checkpoint'[m] = NoCheckpoint
  BY <1>1 DEF TypeInv, Types
<1>3. \A m \in Machine : ~Unfinished(m)' /\ (IsAdded(m) \/ m = target => IsAdded(m)')
  <2>1. \A m \in Machine : ~Unfinished(m)'
    BY <1>2 DEF Unfinished, End
  <2>2. [ip |-> target, name |-> name] \in added' /\ added \subseteq added'
    OBVIOUS
  <2>3. \A m \in Machine : IsAdded(m) \/ m = target => IsAdded(m)'
    BY <2>2 DEF IsAdded
  <2> QED
    BY <2>1, <2>3
<1>4. Runs(target, name) /\ \E e \in inventory : e.ip = target /\ e.name = name
  <2>1. Runs(target, name) /\ name \in Names(inventory)
    BY <1>1 DEF AddInv, Behind
  <2>2. PICK e \in inventory : e.name = name
    BY <2>1 DEF Names
  <2>3. Claims(e, target, checkpoint[target])
    BY <1>1, <2>2 DEF Claims
  <2> QED
    BY <1>1, <2>1, <2>2, <2>3 DEF Mine
<1>5. OneAtATime'
  BY <1>2, <1>3 DEF OneAtATime, End
<1>6. Reserved'
  <2>1. ASSUME NEW m \in Machine, ~IsAdded(m)', m \in torn' => Unfinished(m)' PROVE Mine(m)'
    <3>1. m # target /\ ~IsAdded(m) /\ m \notin torn
      BY <1>3, <2>1
    <3>2. Mine(m) /\ checkpoint'[m] = checkpoint[m]
      BY <1>1, <1>2, <3>1 DEF AddInv, Reserved
    <3> QED
      BY <3>2 DEF Mine, Claims, Role
  <2> QED
    BY <2>1 DEF Reserved
<1>7. CopyIs'
  BY DEF CopyIs, End
<1>8. Blocks'
  BY DEF AddInv, Blocks, DesiredPairs, OfRole, Role
<1>9. Behind'
  BY <1>2 DEF Behind, End, NoCheckpoint
<1>10. ListedOnce'
  BY DEF AddInv, ListedOnce, Loads, Role
<1>11. AddedRun'
  BY <1>4 DEF AddInv, AddedRun, Runs
<1> QED
  BY <1>5, <1>6, <1>7, <1>8, <1>9, <1>10, <1>11 DEF AddInv

LEMMA CommandAdds == ASSUME TypeInv, AddInv, Command PROVE AddInv'
<1>t. /\ step \in 0 .. 13 /\ unsaved \in BOOLEAN /\ port \in Nat
      /\ name \in Name \cup {None} /\ IsFiniteSet(copy)
  BY DEF TypeInv, Types
<1>u. unsaved = TRUE => step \in {5, 6, 7, 9}
  BY DEF TypeInv, Placed
<1>1. CASE Pass
  <2>1. unsaved = FALSE
    BY <1>t, <1>u, <1>1 DEF Pass
  <2>2. /\ step \in 1 .. 12 /\ step \notin {3, 4, 5, 6, 7, 9}
        /\ step' = step + 1 /\ Save(step) /\ name' = name /\ port' = port
        /\ UNCHANGED <<disk, installed, added, target, copy>>
    BY <1>1 DEF Pass, memory
  <2>3. unsaved' = FALSE
    BY <1>1, <2>1 DEF Pass
  <2> QED
    BY <1>t, <2>2, <2>3, SaveAdds
<1>2. CASE GenerateNodeId
  <2>1. unsaved = FALSE
    BY <1>t, <1>u, <1>2 DEF GenerateNodeId
  <2>2. copy = inventory
    BY <1>2 DEF GenerateNodeId, AddInv, CopyIs
  <2>3. name' \in Name /\ name' \notin Names(inventory)
    BY <1>t, <1>2, <2>2, ImagesFinite, LeastFreeIs DEF GenerateNodeId
  <2>4. /\ step = 3 /\ step' = 3 + 1 /\ Save(3) /\ port' = port
        /\ UNCHANGED <<disk, installed, added, target, copy>>
    BY <1>2 DEF GenerateNodeId
  <2>5. unsaved' = FALSE
    BY <1>2, <2>1 DEF GenerateNodeId
  <2>6. 3 \in 1 .. 12 /\ 3 \notin {5, 6, 7, 9}
    OBVIOUS
  <2> QED
    BY <1>t, <2>3, <2>4, <2>5, <2>6, SaveAdds
<1>3. CASE Exhausted
  BY <1>3, EndAdds DEF Exhausted
<1>4. CASE Allocate
  <2>1. unsaved = FALSE
    BY <1>t, <1>u, <1>4 DEF Allocate
  <2>2. copy = inventory
    BY <1>4 DEF Allocate, AddInv, CopyIs
  <2>3. port' \in Nat /\ port' \notin {e.port : e \in OfRole(inventory, Role(target))}
    BY <1>t, <1>4, <2>2, ImagesFinite, LeastFreeIs DEF Allocate
  <2>4. \A e \in inventory : Role(e.ip) = Role(target) => e.port # port'
    BY <2>3 DEF OfRole
  <2>5. /\ step = 4 /\ step' = 4 + 1 /\ Save(4) /\ name' = name
        /\ UNCHANGED <<disk, installed, added, target, copy>>
    BY <1>4 DEF Allocate
  <2>6. unsaved' = FALSE
    BY <1>4, <2>1 DEF Allocate
  <2>7. 4 \in 1 .. 12 /\ 4 \notin {5, 6, 7, 9}
    OBVIOUS
  <2> QED
    BY <1>t, <2>3, <2>4, <2>5, <2>6, <2>7, SaveAdds
<1>5. CASE GenerateMaterials
  BY <1>5, MaterialsAdds
<1>6. CASE UpdateInventory
  BY <1>6, UpdateAdds
<1>7. CASE ComputeTopology
  BY <1>7, TopologyAdds
<1>8. CASE Deploy
  <2>1. CASE unsaved' = TRUE /\ UNCHANGED <<step, memory>>
              /\ installed' = {c \in installed : c.ip # target} \cup {Rendered}
    BY <1>8, <2>1, DeployAdds DEF Deploy
  <2>2. CASE End /\ UNCHANGED installed
    BY <1>8, <2>2, EndAdds DEF Deploy
  <2> QED
    BY <1>8, <2>1, <2>2 DEF Deploy
<1>9. CASE SaveCheckpoint
  <2>1. unsaved = TRUE
    BY <1>t, <1>9 DEF SaveCheckpoint
  <2>2. step \in 1 .. 12 /\ step \notin {3, 4}
    BY <1>u, <2>1
  <2>3. /\ step' = step + 1 /\ Save(step) /\ unsaved' = FALSE /\ name' = name /\ port' = port
        /\ UNCHANGED <<disk, installed, added, target, copy>>
    BY <1>9 DEF SaveCheckpoint, memory
  <2> QED
    BY <1>t, <2>1, <2>2, <2>3, SaveAdds
<1>10. CASE Summary
  BY <1>10, SummaryAdds
<1>11. CASE KeysUnreadable
  BY <1>11, EndAdds DEF KeysUnreadable
<1> QED
  BY <1>1, <1>2, <1>3, <1>4, <1>5, <1>6, <1>7, <1>8, <1>9, <1>10, <1>11 DEF Command

LEMMA AddInvNext ==
  ASSUME Disciplined, TypeInv, AddInv, [Next]_vars
  PROVE  AddInv'
<1>1. ASSUME NEW m \in Machine, Add(m) PROVE AddInv'
  <2>1. step = 0 /\ ~IsAdded(m) /\ \A x \in Machine : checkpoint[x] = NoCheckpoint
    BY <1>1 DEF Add, Start, IsAdded
  <2>2. Start(m, checkpoint[m]) /\ \A x \in Machine : Unfinished(x) => x = m
    BY <1>1, <2>1 DEF Add, Unfinished
  <2>3. Mine(m)
    BY <1>1, <2>1 DEF Add, Mine, Claims, NoCheckpoint
  <2> QED
    BY <2>1, <2>2, <2>3, StartAdds
<1>2. ASSUME NEW m \in Machine, Resume(m) PROVE AddInv'
  <2>1. Unfinished(m) /\ Start(m, checkpoint[m])
    BY <1>2 DEF Resume, Unfinished
  <2>2. ~IsAdded(m) /\ Mine(m) /\ \A x \in Machine : Unfinished(x) => x = m
    BY <2>1 DEF AddInv, OneAtATime, Reserved
  <2> QED
    BY <2>1, <2>2, StartAdds
<1>3. CASE Command
  BY <1>3, CommandAdds
<1>4. CASE Refuse \/ Die
  BY <1>4, EndAdds DEF Refuse, Die
<1>5. CASE UNCHANGED vars
  <2> USE <1>5 DEF vars, disk, memory, bounds
  <2>1. \A m \in Machine : /\ IsAdded(m)' = IsAdded(m) /\ Unfinished(m)' = Unfinished(m)
                           /\ Mine(m)' = Mine(m)
    BY DEF IsAdded, Unfinished, Mine, Claims, Role
  <2>2. OneAtATime' /\ Reserved'
    BY <2>1 DEF AddInv, OneAtATime, Reserved
  <2>3. CopyIs' /\ Blocks'
    BY DEF AddInv, CopyIs, Blocks, DesiredPairs, OfRole, Role, Names, Entry
  <2>4. Behind'
    BY DEF AddInv, Behind, Runs, DesiredPairs, OfRole, Role, Names
  <2>5. ListedOnce' /\ AddedRun'
    BY DEF AddInv, ListedOnce, AddedRun, Runs, Loads, Role
  <2> QED
    BY <2>2, <2>3, <2>4, <2>5 DEF AddInv
<1>6. CASE DieWriting
  <2>1. \/ /\ target \in torn'
           /\ checkpoint' = [checkpoint EXCEPT ![target] = NoCheckpoint]
        \/ UNCHANGED checkpoint
    BY <1>6 DEF DieWriting
  <2>2. \A m \in Machine : \/ checkpoint'[m] = checkpoint[m]
                           \/ checkpoint'[m] = NoCheckpoint /\ m \in torn'
    BY <2>1 DEF TypeInv, Types
  <2>3. torn \subseteq torn' /\ End /\ UNCHANGED <<disk, installed, added>>
    BY <1>6 DEF DieWriting
  <2> QED
    BY <2>2, <2>3, EndAdds
<1>7. ASSUME NEW m \in Machine, DieRebuilding(m) PROVE AddInv'
  <2> USE <1>7 DEF DieRebuilding, disk, memory
  <2>1. \A x \in Machine : /\ IsAdded(x)' = IsAdded(x) /\ Unfinished(x)' = Unfinished(x)
                           /\ Mine(x)' = Mine(x)
    BY DEF IsAdded, Unfinished, Mine, Claims, Role
  <2>2. torn \subseteq torn'
    OBVIOUS
  <2>3. OneAtATime' /\ Reserved'
    BY <2>1, <2>2 DEF AddInv, OneAtATime, Reserved
  <2>4. CopyIs' /\ Blocks'
    BY DEF AddInv, CopyIs, Blocks, DesiredPairs, OfRole, Role, Names, Entry
  <2>5. Behind'
    BY DEF AddInv, Behind, Runs, DesiredPairs, OfRole, Role, Names
  <2>6. ListedOnce' /\ AddedRun'
    BY DEF AddInv, ListedOnce, AddedRun, Runs, Loads, Role
  <2> QED
    BY <2>3, <2>4, <2>5, <2>6 DEF AddInv
<1> QED
  BY <1>1, <1>2, <1>3, <1>4, <1>5, <1>6, <1>7 DEF Next

LEMMA AddInvAlways ==
  ASSUME Disciplined
  PROVE  Spec => []AddInv
<1>1. Disciplined
  OBVIOUS
<1>2. Init => TypeInv /\ AddInv
  BY TypeInvInit, AddInvInit
<1>3. TypeInv /\ AddInv /\ [Next]_vars => (TypeInv /\ AddInv)'
  BY <1>1, TypeInvNext, AddInvNext
<1> QED
  BY <1>2, <1>3, PTL DEF Spec

\* Whatever dies and is resumed, each machine is listed once, under a name and with a
\* port nobody else has.
THEOREM EachListedOnce ==
  ASSUME Disciplined
  PROVE  Spec => []ListedOnce
<1>1. AddInv => ListedOnce
  BY DEF AddInv
<1> QED
  BY <1>1, AddInvAlways, PTL

\* A machine add-node reports as added is listed under that name, and runs a
\* configuration whose tunnels have blocks while state.yaml is whole.
THEOREM AddedStaysListed ==
  ASSUME Disciplined
  PROVE  Spec => []AddedIsListed
<1>1. AddInv => AddedIsListed
  BY DEF AddInv, AddedRun, Runs, AddedIsListed
<1> QED
  BY <1>1, AddInvAlways, PTL
=============================================================================
