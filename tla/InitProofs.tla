----------------------------- MODULE InitProofs -----------------------------
(***************************************************************************)
(* What the checkpoint of init promises, for any set of nodes and any      *)
(* configuration files, however many commands die and sessions fail.       *)
(***************************************************************************)
EXTENDS InitPipeline, TLAPS

\* TypeOK, one variable at a time.
Types ==
  /\ invFile \subseteq Node /\ keys \subseteq Node /\ blocks \subseteq Node
  /\ bootstrapped \subseteq Node /\ inv \subseteq Node /\ todo \subseteq Node
  /\ rendered \in [Node -> SUBSET Node] /\ installed \in [Node -> SUBSET Node]
  /\ checkpoint \in 0 .. 9 /\ torn \subseteq Node \cup Files
  /\ requested \in Requests \cup {None} /\ config \in Requests \cup {None}
  /\ step \in 0 .. 10 /\ unsaved \in BOOLEAN /\ live \in BOOLEAN
  /\ deaths \in 0 .. MaxDeaths /\ failures \in 0 .. MaxFailures

LEMMA TypesGive == Types => TypeOK
BY DEF Types, TypeOK

\* Where a command is, and what it has in memory.  A command past step 1 is one step
\* ahead of the checkpoint; one in step 1 may be ahead of nothing, since init without
\* --resume leaves the checkpoint of an earlier init in place until its first step is
\* done.  From step 6 on, and before that unless it is the first command of its
\* configuration file, it works on the nodes of inventory.yaml.
Place ==
  /\ step >= 2 => step = checkpoint + 1
  /\ unsaved = TRUE => step \in 1 .. 9
  /\ step = 1 => config \in Requests
  /\ step = 1 /\ unsaved = TRUE => inv # None
  /\ step >= 6 => inv = invFile /\ inv # None
  /\ step = 5 /\ unsaved = TRUE => inv = invFile /\ inv # None
  /\ (step >= 4 \/ (step = 3 /\ unsaved = TRUE)) /\ inv # None => live = TRUE
  /\ todo \subseteq inv

\* What the steps behind it have left.
Behind ==
  /\ checkpoint >= 4 \/ (step = 4 /\ unsaved = TRUE) => keys # {}
  /\ step >= 5 \/ (step = 4 /\ unsaved = TRUE) => inv \subseteq keys
  /\ step = 7 /\ unsaved = TRUE => blocks = inv
  /\ step = 8 => \A n \in inv \ todo : rendered[n] = inv
  /\ step = 8 /\ unsaved = TRUE => todo = {}

InitInv == Types /\ Place /\ Behind /\ OneFleet /\ RenderedKeyed

LEMMA InitInvInit == Init => InitInv
<1> SUFFICES ASSUME Init PROVE InitInv
  OBVIOUS
<1> USE DEF Init, None
<1>1. Types
  <2>1. /\ invFile \subseteq Node /\ keys \subseteq Node /\ blocks \subseteq Node
        /\ bootstrapped \subseteq Node /\ inv \subseteq Node /\ todo \subseteq Node
    BY InitAssumption
  <2>2. rendered \in [Node -> SUBSET Node] /\ installed \in [Node -> SUBSET Node]
    OBVIOUS
  <2>3. checkpoint \in 0 .. 9 /\ step \in 0 .. 10 /\ torn \subseteq Node \cup Files
    OBVIOUS
  <2>4. unsaved \in BOOLEAN /\ live \in BOOLEAN
    OBVIOUS
  <2>5. requested \in Requests \cup {None} /\ config \in Requests \cup {None}
    OBVIOUS
  <2>6. deaths \in 0 .. MaxDeaths /\ failures \in 0 .. MaxFailures
    BY InitAssumption
  <2> QED
    BY <2>1, <2>2, <2>3, <2>4, <2>5, <2>6 DEF Types
<1>2. Place /\ Behind
  BY DEF Place, Behind
<1>3. OneFleet /\ RenderedKeyed
  BY DEF OneFleet, RenderedKeyed
<1> QED
  BY <1>1, <1>2, <1>3 DEF InitInv

\* The command ends, in whatever way.
LEMMA EndKeeps ==
  ASSUME InitInv, End, UNCHANGED <<files, fleet, checkpoint, torn, requested>>,
         deaths' \in 0 .. MaxDeaths, failures' \in 0 .. MaxFailures
  PROVE  InitInv'
<1>i. Types /\ Place /\ Behind /\ OneFleet /\ RenderedKeyed
  BY DEF InitInv
<1> USE DEF End, files, fleet, None
<1>1. Types'
  <2>1. (/\ invFile \subseteq Node /\ keys \subseteq Node /\ blocks \subseteq Node
         /\ bootstrapped \subseteq Node /\ inv \subseteq Node /\ todo \subseteq Node)'
    BY <1>i DEF Types
  <2>2. (rendered \in [Node -> SUBSET Node] /\ installed \in [Node -> SUBSET Node])'
    BY <1>i DEF Types
  <2>3. (checkpoint \in 0 .. 9 /\ step \in 0 .. 10)'
    BY <1>i DEF Types
  <2>7. (torn \subseteq Node \cup Files)'
    BY <1>i DEF Types
  <2>4. (unsaved \in BOOLEAN /\ live \in BOOLEAN)'
    OBVIOUS
  <2>5. (requested \in Requests \cup {None} /\ config \in Requests \cup {None})'
    BY <1>i DEF Types
  <2>6. (deaths \in 0 .. MaxDeaths /\ failures \in 0 .. MaxFailures)'
    OBVIOUS
  <2> QED
    BY <2>1, <2>2, <2>3, <2>4, <2>5, <2>6, <2>7 DEF Types
<1>2. Place'
  BY <1>i DEF Place
<1>3. Behind'
  BY <1>i DEF Behind, Types
<1>4. OneFleet' /\ RenderedKeyed'
  BY <1>i DEF OneFleet, RenderedKeyed
<1> QED
  BY <1>1, <1>2, <1>3, <1>4 DEF InitInv

LEMMA StartKeeps ==
  ASSUME InitInv, NEW c \in Requests, StartAfresh(c) \/ Resume(c)
  PROVE  InitInv'
<1>i. Types /\ Place /\ Behind /\ OneFleet /\ RenderedKeyed
  BY DEF InitInv
<1>1. CASE StartAfresh(c)
  <2> USE <1>1 DEF StartAfresh, files, fleet, bounds, None
  <2>1. Types'
    BY <1>i, InitAssumption DEF Types
  <2>2. Place'
    BY <1>i DEF Place, Types
  <2>3. Behind'
    BY <1>i DEF Behind, Types
  <2>4. OneFleet' /\ RenderedKeyed'
    BY <1>i DEF OneFleet, RenderedKeyed
  <2> QED
    BY <2>1, <2>2, <2>3, <2>4 DEF InitInv
<1>2. CASE Resume(c)
  <2> USE <1>2 DEF Resume, fleet, bounds, None
  <2>1. Types'
    BY <1>i, InitAssumption DEF Types
  <2>2. checkpoint \in 0 .. 9 /\ step' = checkpoint + 1 /\ unsaved' = FALSE
    BY <1>i DEF Types, Place
  <2>3. Place'
    <3>1. (/\ step >= 2 => step = checkpoint + 1
           /\ step = 1 => config \in Requests
           /\ step >= 6 => inv = invFile /\ inv # None
           /\ todo \subseteq inv)'
      BY <1>i, <2>2 DEF OneFleet
    <3>2. (inv # None => live = TRUE)'
      OBVIOUS
    <3> QED
      BY <2>2, <3>1, <3>2 DEF Place
  <2>4. keys \subseteq keys' /\ (keys # {} => invFile \subseteq keys')
    BY DEF Materials
  <2>5. Behind'
    BY <1>i, <2>2, <2>4 DEF Behind
  <2>6. OneFleet' /\ RenderedKeyed'
    BY <1>i, <2>4 DEF OneFleet, RenderedKeyed
  <2> QED
    BY <2>1, <2>3, <2>5, <2>6 DEF InitInv
<1> QED
  BY <1>1, <1>2

\* A step that leaves the nodes in memory alone, and step 5, are done.
LEMMA DoneKeepsPlace ==
  ASSUME Types, Place, step \in {2, 4, 5, 6, 7, 8, 9}, inv # None,
         step' = step, UNCHANGED <<checkpoint, memory, todo>>,
         invFile' = IF step = 5 THEN inv ELSE invFile
  PROVE  Place'
<1> USE DEF memory, None
<1>1. (/\ step >= 2 => step = checkpoint + 1
       /\ unsaved = TRUE => step \in 1 .. 9
       /\ step = 1 => config \in Requests
       /\ step = 1 /\ unsaved = TRUE => inv # None)'
  BY DEF Place
<1>2. (/\ step >= 6 => inv = invFile /\ inv # None
       /\ step = 5 /\ unsaved = TRUE => inv = invFile /\ inv # None)'
  BY DEF Place
<1>3. ((step >= 4 \/ (step = 3 /\ unsaved = TRUE)) /\ inv # None => live = TRUE)'
  <2>1. CASE step = 2
    BY <2>1
  <2>2. CASE step # 2
    <3>1. step >= 4
      BY <2>2
    <3>2. live = TRUE
      BY <3>1 DEF Place
    <3> QED
      BY <3>2
  <2> QED
    BY <2>1, <2>2
<1>4. (todo \subseteq inv)'
  BY DEF Place
<1> QED
  BY <1>1, <1>2, <1>3, <1>4 DEF Place

LEMMA CommandKeeps == ASSUME InitInv, Command PROVE InitInv'
<1>i. Types /\ Place /\ Behind /\ OneFleet /\ RenderedKeyed
  BY DEF InitInv
<1>1. CASE BuildInventory
  <2> USE <1>1 DEF BuildInventory, Done, files, fleet, bounds, None
  <2>1. Types'
    BY <1>i, InitAssumption DEF Types, Place
  <2>2. Place'
    <3>1. (step >= 2 => step = checkpoint + 1)'
      BY <1>i DEF Place
    <3>2. (unsaved = TRUE => step \in 1 .. 9)'
      BY <1>i DEF Place
    <3>3. (step = 1 => config \in Requests)'
      BY <1>i DEF Place
    <3>4. (step = 1 /\ unsaved = TRUE => inv # None)'
      BY <1>i, InitAssumption DEF Place
    <3>5. (step >= 6 => inv = invFile /\ inv # None)'
      BY <1>i DEF Place
    <3>6. (step = 5 /\ unsaved = TRUE => inv = invFile /\ inv # None)'
      BY <1>i DEF Place
    <3>7. ((step >= 4 \/ (step = 3 /\ unsaved = TRUE)) /\ inv # None => live = TRUE)'
      BY <1>i DEF Place
    <3>8. (todo \subseteq inv)'
      BY <1>i DEF Place
    <3> QED
      BY <3>1, <3>2, <3>3, <3>4, <3>5, <3>6, <3>7, <3>8 DEF Place
  <2>3. Behind'
    BY <1>i DEF Behind
  <2>4. OneFleet' /\ RenderedKeyed'
    BY <1>i DEF OneFleet, RenderedKeyed
  <2> QED
    BY <2>1, <2>2, <2>3, <2>4 DEF InitInv
<1>2. CASE NoInventory \/ KeysUnreadable \/ SetUpDns
  BY <1>i, <1>2, EndKeeps DEF NoInventory, KeysUnreadable, SetUpDns, bounds, Types
<1>3. CASE VerifySsh \/ BootstrapDone \/ RenderDone \/ DeployDone
  <2> USE <1>3 DEF VerifySsh, BootstrapDone, RenderDone, DeployDone, Ready, Left, Done,
                   files, fleet, memory, bounds, None
  <2>1. Types'
    BY <1>i, InitAssumption DEF Types
  <2>2. Place'
    BY <1>i, DoneKeepsPlace
  <2>5. step = 8 => live = TRUE
    BY <1>i DEF Place
  <2>3. Behind'
    BY <1>i, <2>5 DEF Behind
  <2>4. OneFleet' /\ RenderedKeyed'
    BY <1>i DEF OneFleet, RenderedKeyed
  <2> QED
    BY <2>1, <2>2, <2>3, <2>4 DEF InitInv
<1>4. CASE AllocateResources
  <2> USE <1>4 DEF AllocateResources, Ready, Done, files, fleet, bounds, None
  <2>1. Types'
    BY <1>i, InitAssumption DEF Types
  <2>2. Place'
    BY <1>i DEF Place
  <2>3. Behind'
    BY <1>i DEF Behind
  <2>4. OneFleet' /\ RenderedKeyed'
    BY <1>i DEF OneFleet, RenderedKeyed
  <2> QED
    BY <2>1, <2>2, <2>3, <2>4 DEF InitInv
<1>5. CASE GenerateKeys
  <2> USE <1>5 DEF GenerateKeys, Ready, Done, fleet, memory, bounds, None
  <2>1. live /\ keys' = keys \cup inv /\ inv # {}
    <3>1. live = TRUE
      BY <1>i DEF Place
    <3> QED
      BY <3>1
  <2>2. Types'
    BY <1>i, <2>1, InitAssumption DEF Types
  <2>3. Place'
    BY <1>i, DoneKeepsPlace
  <2>4. Behind'
    BY <1>i, <2>1 DEF Behind
  <2>5. OneFleet' /\ RenderedKeyed'
    BY <1>i, <2>1 DEF OneFleet, RenderedKeyed
  <2> QED
    BY <2>2, <2>3, <2>4, <2>5 DEF InitInv
<1>6. CASE WriteInventory
  <2> USE <1>6 DEF WriteInventory, Ready, Done, fleet, memory, bounds, None
  <2>1. checkpoint = 4
    BY <1>i DEF Place, Types
  <2>2. Types'
    BY <1>i, InitAssumption DEF Types
  <2>3. Place'
    BY <1>i, DoneKeepsPlace
  <2>4. Behind'
    BY <1>i DEF Behind
  <2>5. OneFleet' /\ RenderedKeyed'
    BY <1>i, <2>1 DEF OneFleet, RenderedKeyed
  <2> QED
    BY <2>2, <2>3, <2>4, <2>5 DEF InitInv
<1>7. ASSUME NEW n \in Node, BootstrapNode(n) \/ DeployNode(n) PROVE InitInv'
  <2> USE <1>7 DEF BootstrapNode, DeployNode, Ready, Left, files, memory, None
  <2>1. Types'
    BY <1>i, InitAssumption DEF Types
  <2>2. Place'
    BY <1>i DEF Place
  <2>3. Behind'
    BY <1>i DEF Behind
  <2>4. OneFleet' /\ RenderedKeyed'
    BY <1>i DEF OneFleet, RenderedKeyed
  <2> QED
    BY <2>1, <2>2, <2>3, <2>4 DEF InitInv
<1>8. CASE ComputeTopology
  <2> USE <1>8 DEF ComputeTopology, Ready, Done, fleet, memory, bounds, None
  <2>1. checkpoint = 6
    BY <1>i DEF Place, Types
  <2>2. Types'
    BY <1>i, InitAssumption DEF Types
  <2>3. Place'
    BY <1>i, DoneKeepsPlace
  <2>4. Behind'
    BY <1>i DEF Behind
  <2>5. OneFleet' /\ RenderedKeyed'
    BY <1>i, <2>1 DEF OneFleet, RenderedKeyed
  <2> QED
    BY <2>2, <2>3, <2>4, <2>5 DEF InitInv
<1>9. ASSUME NEW n \in Node, RenderNode(n) PROVE InitInv'
  <2> USE <1>9 DEF RenderNode, Ready, Left, fleet, memory, bounds, None
  <2>1. checkpoint = 7 /\ inv \subseteq keys
    BY <1>i DEF Place, Types, Behind
  <2>2. Types'
    BY <1>i, InitAssumption DEF Types
  <2>3. Place'
    BY <1>i DEF Place
  <2>4. Behind'
    BY <1>i DEF Behind, Types
  <2>5. OneFleet'
    BY <1>i, <2>1 DEF OneFleet
  <2>6. RenderedKeyed'
    BY <1>i, <2>1 DEF RenderedKeyed, Types
  <2> QED
    BY <2>2, <2>3, <2>4, <2>5, <2>6 DEF InitInv
<1>10. CASE SaveCheckpoint
  <2> USE <1>10 DEF SaveCheckpoint, files, fleet, memory, bounds, None
  <2>0. step \in 1 .. 9 /\ step' = step + 1 /\ checkpoint' = step /\ unsaved' = FALSE
    BY <1>i DEF Types, Place
  <2>1. Types'
    <3>1. (todo \subseteq Node /\ torn \subseteq Node \cup Files)'
      BY <1>i DEF Types
    <3>2. (checkpoint \in 0 .. 9 /\ step \in 0 .. 10)'
      BY <2>0
    <3>3. (unsaved \in BOOLEAN)'
      BY <2>0
    <3> QED
      BY <1>i, <3>1, <3>2, <3>3 DEF Types
  <2>2. Place'
    BY <1>i, <2>0 DEF Place
  <2>3. Behind'
    BY <1>i, <2>0 DEF Behind, Place
  <2>4. OneFleet'
    <3>0. unsaved = TRUE /\ (step >= 2 => checkpoint = step - 1)
      BY <1>i, <2>0 DEF Types, Place
    <3>1. step >= 5 => inv = invFile /\ invFile # None
      BY <1>i, <2>0, <3>0 DEF Place
    <3>2. step >= 7 => blocks = invFile
      BY <1>i, <2>0, <3>0, <3>1 DEF OneFleet, Behind
    <3>3. step >= 8 => \A n \in invFile : rendered[n] = invFile
      <4>1. CASE step = 8
        BY <1>i, <3>0, <3>1, <4>1 DEF Behind
      <4>2. CASE step >= 9
        BY <1>i, <2>0, <3>0, <4>2 DEF OneFleet
      <4> QED
        BY <2>0, <4>1, <4>2
    <3> QED
      BY <2>0, <3>1, <3>2, <3>3 DEF OneFleet
  <2>5. RenderedKeyed'
    BY <1>i DEF RenderedKeyed
  <2> QED
    BY <2>1, <2>2, <2>3, <2>4, <2>5 DEF InitInv
<1> QED
  BY <1>1, <1>2, <1>3, <1>4, <1>5, <1>6, <1>7, <1>8, <1>9, <1>10 DEF Command

\* The command dies and leaves a file empty.
LEMMA DieKeeps == ASSUME InitInv, DieWriting PROVE InitInv'
<1>i. Types /\ Place /\ Behind /\ OneFleet /\ RenderedKeyed
  BY DEF InitInv
<1> USE DEF DieWriting, End, Ready, files, fleet, None
<1>1. Types'
  <2>1. (/\ invFile \subseteq Node /\ keys \subseteq Node /\ blocks \subseteq Node
         /\ bootstrapped \subseteq Node /\ inv \subseteq Node /\ todo \subseteq Node)'
    BY <1>i DEF Types
  <2>2. (rendered \in [Node -> SUBSET Node] /\ installed \in [Node -> SUBSET Node])'
    BY <1>i DEF Types
  <2>3. (checkpoint \in 0 .. 9 /\ step \in 0 .. 10)'
    BY <1>i DEF Types
  <2>4. (torn \subseteq Node \cup Files)'
    <3>1. \A n \in inv \ keys : n \in Node
      BY <1>i DEF Types
    <3> QED
      BY <1>i, <3>1 DEF Types, Files
  <2>5. (unsaved \in BOOLEAN /\ live \in BOOLEAN)'
    OBVIOUS
  <2>6. (requested \in Requests \cup {None} /\ config \in Requests \cup {None})'
    BY <1>i DEF Types
  <2>7. (deaths \in 0 .. MaxDeaths /\ failures \in 0 .. MaxFailures)'
    BY <1>i, InitAssumption DEF Types
  <2> QED
    BY <2>1, <2>2, <2>3, <2>4, <2>5, <2>6, <2>7 DEF Types
<1>2. Place'
  BY <1>i DEF Place
<1>3. checkpoint \in 0 .. 9 /\ (step >= 2 => step = checkpoint + 1)
  BY <1>i DEF Types, Place
<1>4. Behind'
  BY <1>i, <1>3 DEF Behind, Types
<1>5. OneFleet'
  BY <1>i, <1>3 DEF OneFleet
<1>6. RenderedKeyed'
  BY <1>i DEF RenderedKeyed, Types
<1> QED
  BY <1>1, <1>2, <1>4, <1>5, <1>6 DEF InitInv

LEMMA InitInvNext == InitInv /\ [Next]_vars => InitInv'
<1> SUFFICES ASSUME InitInv, [Next]_vars PROVE InitInv'
  OBVIOUS
<1>1. CASE \E c \in Requests : StartAfresh(c) \/ Resume(c)
  BY <1>1, StartKeeps
<1>2. CASE Command
  BY <1>2, CommandKeeps
<1>3. CASE ConnectFails \/ Die
  BY <1>3, EndKeeps, InitAssumption DEF ConnectFails, Die, InitInv, Types
<1>4. CASE UNCHANGED vars
  <2> USE <1>4 DEF vars, files, fleet, memory, bounds
  <2>1. Types'
    BY DEF InitInv, Types
  <2>2. Place' /\ Behind'
    BY DEF InitInv, Place, Behind
  <2>3. OneFleet' /\ RenderedKeyed'
    BY DEF InitInv, OneFleet, RenderedKeyed
  <2> QED
    BY <2>1, <2>2, <2>3 DEF InitInv
<1>5. CASE DieWriting
  BY <1>5, DieKeeps
<1>6. CASE DieCompleting
  <2> USE <1>6 DEF DieCompleting, files, fleet, memory
  <2>1. Types'
    <3>1. (torn \subseteq Node \cup Files)'
      BY DEF InitInv, Types
    <3>2. (deaths \in 0 .. MaxDeaths)'
      BY InitAssumption DEF InitInv, Types
    <3> QED
      BY <3>1, <3>2 DEF InitInv, Types
  <2>2. Place' /\ Behind'
    BY DEF InitInv, Place, Behind
  <2>3. OneFleet' /\ RenderedKeyed'
    BY DEF InitInv, OneFleet, RenderedKeyed
  <2> QED
    BY <2>1, <2>2, <2>3 DEF InitInv
<1> QED
  BY <1>1, <1>2, <1>3, <1>4, <1>5, <1>6 DEF Next

LEMMA InitAlways == FairSpec => []InitInv
  BY InitInvInit, InitInvNext, PTL DEF FairSpec

\* Files, machines and memory stay about nodes of the fleet, and the step of a
\* command within the ten of the pipeline, also when a command is resumed.
THEOREM InitTypes == FairSpec => []TypeOK
<1>1. InitInv => TypeOK
  BY TypesGive DEF InitInv
<1> QED
  BY <1>1, InitAlways, PTL

\* What the checkpoint of init calls done is about the fleet in inventory.yaml: for any
\* fleet, any configuration files, any deaths and any failed sessions.
THEOREM CheckpointHolds == FairSpec => []OneFleet
<1>1. InitInv => OneFleet
  BY DEF InitInv
<1> QED
  BY <1>1, InitAlways, PTL

\* No configuration is rendered before both ends of its tunnels have keys, whichever
\* command generated them and wherever it was interrupted.
THEOREM RenderedHasKeys == FairSpec => []RenderedKeyed
<1>1. InitInv => RenderedKeyed
  BY DEF InitInv
<1> QED
  BY <1>1, InitAlways, PTL
=============================================================================
