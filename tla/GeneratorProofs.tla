---------------------------- MODULE GeneratorProofs ----------------------------
(***************************************************************************)
(* What the structure generator promises of the directory it works on, for  *)
(* any number of commands that overlap, fail or die, any provider lists and *)
(* whatever the user moves or writes: no torn tree, no lost tree, no lost   *)
(* overview, no tool out of reach where names are plain, and nothing left   *)
(* to do for a second Regenerate.                                           *)
(*                                                                         *)
(* The first three rest on two facts about single files: index files are    *)
(* written only where there is no tool, and root.json never holds one.      *)
(* Where files can be (Filed) is proved with them, in one induction: that   *)
(* a moved folder keeps its files apart follows from it.  Reachability      *)
(* rests on Filed, the last on the order of the visits: a directory is      *)
(* written after all it is computed from, and nothing that comes later is   *)
(* below it.                                                                *)
(***************************************************************************)
EXTENDS Generator, CountingProofs, SequenceTheorems

Places == Ended \cup {"idle", "staging", "inspect", "retire", "publish", "restore",
                      "cleanup", "regenerating", "root"}

(* A directory that commands and users left behind: none, an empty one, or  *)
(* one with a root.json that has no tools.                                  *)
Rooted(dir) ==
  \/ dir = Absent
  \/ DOMAIN dir = {}
  \/ RootFile \in DOMAIN dir /\ dir[RootFile].tools = {}

NotTorn(dir) == Free(dir) \/ DOMAIN dir = {RootFile} \/ WholeTree(dir)

Sound(dir) == Rooted(dir) /\ NotTorn(dir)

Shapes ==
  /\ pc \in [Commands -> Places]
  /\ input = [c \in Commands |-> input[c]]
  /\ staging = [c \in Commands |-> staging[c]]
  /\ backup = [c \in Commands |-> backup[c]]

(* What a command has staged, once it has, is one whole tree.               *)
StagingTrue ==
  \A c \in Commands :
    /\ pc[c] = "staging" => input[c] \in Inputs /\ ValidNames(input[c])
    /\ pc[c] \in {"inspect", "retire", "publish", "restore"} => staging[c] \in Generated

(* What it has moved out of the way is as sound as it was in its place.     *)
BackupsTrue ==
  \A c \in Commands :
    /\ Sound(backup[c])
    /\ pc[c] \in {"idle", "staging", "inspect", "retire"} => backup[c] = Absent
    /\ pc[c] = "restore" => backup[c] # Absent

(* A published tree is in the output directory or in the backup of a        *)
(* command that is not about to remove it: the one that is has published a  *)
(* newer tree, which another command may have moved into its own backup.    *)
TreeKept ==
  published =>
    \/ WholeTree(output)
    \/ \E c \in Commands : pc[c] # "cleanup" /\ WholeTree(backup[c])

(* The files the user edited are there and are indexes, and those that read *)
(* like the user's have kept their overview.                                *)
EditsTrue ==
  /\ output = Absent => DOMAIN edited = {}
  /\ \A f \in DOMAIN edited :
       /\ f \in DOMAIN output /\ output[f].tools = {} /\ output[f].ok
       /\ f # RootFile /\ edited[f] # Empty /\ ~LooksGenerated(edited[f]) =>
            output[f].overview = edited[f]

IInv == Shapes /\ StagingTrue /\ BackupsTrue /\ Sound(output) /\ TreeKept /\ EditsTrue
-----------------------------------------------------------------------------
(* Writing an index where there is no tool leaves the tools as they are.    *)
LEMMA PutKeepsTools ==
  ASSUME NEW tree, NEW f, NEW node, node.tools = {}, ~IsLeaf(tree, f)
  PROVE  ToolsIn(Put(tree, f, node)) = ToolsIn(tree)
<1> DEFINE new == Put(tree, f, node)
<1>1. /\ DOMAIN new = DOMAIN tree \cup {f}
      /\ new[f] = node
      /\ \A g \in DOMAIN tree : g # f => new[g] = tree[g]
  BY DEF Put
<1>2. ASSUME NEW t, t \in ToolsIn(new) PROVE t \in ToolsIn(tree)
  <2>1. PICK g \in DOMAIN new : t \in new[g].tools
    BY <1>2 DEF ToolsIn
  <2>2. g # f
    BY <1>1, <2>1
  <2> QED
    BY <1>1, <2>1, <2>2 DEF ToolsIn
<1>3. ASSUME NEW t, t \in ToolsIn(tree) PROVE t \in ToolsIn(new)
  <2>1. PICK g \in DOMAIN tree : t \in tree[g].tools
    BY <1>3 DEF ToolsIn
  <2>2. g # f
    BY <2>1 DEF IsLeaf
  <2> QED
    BY <1>1, <2>1, <2>2 DEF ToolsIn
<1> QED
  BY <1>2, <1>3, Zenon

(* No two files are moved to the same place: every one arrives.             *)
LEMMA MovedOf ==
  ASSUME NEW T, NEW to, \A f, g \in DOMAIN T : to[f] = to[g] => f = g
  PROVE  /\ \A g : g \in DOMAIN Moved(T, to) <=> \E f \in DOMAIN T : g = to[f]
         /\ \A f \in DOMAIN T : Moved(T, to)[to[f]] = T[f]
         /\ Moved(T, to) = [g \in DOMAIN Moved(T, to) |-> Moved(T, to)[g]]
<1>1. /\ \A g : g \in DOMAIN Moved(T, to) <=> \E f \in DOMAIN T : g = to[f]
      /\ Moved(T, to) = [g \in DOMAIN Moved(T, to) |-> Moved(T, to)[g]]
  BY DEF Moved
<1>2. ASSUME NEW f \in DOMAIN T  PROVE  Moved(T, to)[to[f]] = T[f]
  <2> DEFINE h == CHOOSE h \in DOMAIN T : to[h] = to[f]
  <2>1. h \in DOMAIN T /\ to[h] = to[f]
    OBVIOUS
  <2>2. h = f
    BY <2>1
  <2>3. Moved(T, to)[to[f]] = T[h]
    BY DEF Moved
  <2> QED
    BY <2>2, <2>3
<1> QED
  BY <1>1, <1>2

(* So the tools stay the same.                                              *)
LEMMA MoveKeepsTools ==
  ASSUME NEW T, NEW to, \A f, g \in DOMAIN T : to[f] = to[g] => f = g
  PROVE  ToolsIn(Moved(T, to)) = ToolsIn(T)
<1>1. /\ \A g : g \in DOMAIN Moved(T, to) <=> \E f \in DOMAIN T : g = to[f]
      /\ \A f \in DOMAIN T : Moved(T, to)[to[f]] = T[f]
  BY MovedOf
<1>2. ASSUME NEW t, t \in ToolsIn(Moved(T, to)) PROVE t \in ToolsIn(T)
  <2>1. PICK g \in DOMAIN Moved(T, to) : t \in Moved(T, to)[g].tools
    BY <1>2 DEF ToolsIn
  <2>2. PICK f \in DOMAIN T : g = to[f]
    BY <1>1
  <2> QED
    BY <1>1, <2>1, <2>2 DEF ToolsIn
<1>3. ASSUME NEW t, t \in ToolsIn(T) PROVE t \in ToolsIn(Moved(T, to))
  <2>1. PICK f \in DOMAIN T : t \in T[f].tools
    BY <1>3 DEF ToolsIn
  <2> QED
    BY <1>1, <2>1 DEF ToolsIn
<1> QED
  BY <1>2, <1>3, Zenon

(* A tree with nothing but root.json has no tools.                          *)
LEMMA RootOnlyNoTools ==
  ASSUME NEW dir, dir # Absent, Rooted(dir), Free(dir) \/ DOMAIN dir = {RootFile}
  PROVE  ToolsIn(dir) = {}
<1>1. ASSUME NEW t, t \in ToolsIn(dir) PROVE FALSE
  <2>1. PICK g \in DOMAIN dir : t \in dir[g].tools
    BY <1>1 DEF ToolsIn
  <2> QED
    BY <2>1 DEF Rooted, Free
<1> QED
  BY <1>1, Zenon

(* A tree with a root.json is not the missing directory.                    *)
LEMMA WithRoot ==
  ASSUME NEW dir, RootFile \in DOMAIN dir
  PROVE  dir # Absent /\ ~Free(dir)
<1>1. RootFile # <<>>
  BY DEF RootFile
<1> QED
  BY <1>1 DEF Absent, Free

(* What generateStructure makes has a root.json without tools.              *)
LEMMA GeneratedSound ==
  ASSUME NEW tree \in Generated
  PROVE  Sound(tree) /\ WholeTree(tree) /\ tree # Absent
<1>1. PICK servers \in Inputs : tree = GeneratedTree(servers)
  BY DEF Generated
<1>2. PICK t, ds : tree = RegeneratedRoot(t, ds)
  BY <1>1 DEF GeneratedTree, Regenerated
<1>3. RootFile \in DOMAIN tree /\ tree[RootFile].tools = {}
  BY <1>2 DEF RegeneratedRoot, Put, Branch
<1>4. tree # Absent
  BY <1>3, WithRoot
<1>5. WholeTree(tree)
  BY <1>4 DEF WholeTree
<1> QED
  BY <1>3, <1>4, <1>5 DEF Sound, Rooted, NotTorn

(* A file without tools is written over one without tools, root.json or a   *)
(* file of a tree that has one: the directory stays sound and whole.        *)
LEMMA WriteSound ==
  ASSUME NEW dir, NEW f, NEW node, Sound(dir), dir # Absent,
         node.tools = {}, ~IsLeaf(dir, f), f = RootFile \/ ~(DOMAIN dir \subseteq {RootFile})
  PROVE  /\ Sound(Put(dir, f, node))
         /\ WholeTree(dir) => WholeTree(Put(dir, f, node))
<1> DEFINE new == Put(dir, f, node)
<1>1. /\ DOMAIN new = DOMAIN dir \cup {f}
      /\ new[f] = node
      /\ \A g \in DOMAIN dir : g # f => new[g] = dir[g]
  BY DEF Put
<1>2. RootFile \in DOMAIN new /\ new[RootFile].tools = {}
  BY <1>1 DEF Sound, Rooted
<1>3. new # Absent
  BY <1>2, WithRoot
<1>4. WholeTree(dir) => WholeTree(new)
  BY <1>3, PutKeepsTools DEF WholeTree
<1>5. NotTorn(new)
  <2>1. CASE DOMAIN dir \subseteq {RootFile}
    BY <1>1, <2>1 DEF NotTorn
  <2>2. CASE ~(DOMAIN dir \subseteq {RootFile})
    BY <1>4, <2>2 DEF Sound, NotTorn, Free
  <2> QED
    BY <2>1, <2>2
<1> QED
  BY <1>2, <1>4, <1>5 DEF Sound, Rooted

(* A tree with a directory below it has more than a root.json.              *)
LEMMA BelowRoot ==
  ASSUME NEW dir, NEW d \in Directories(dir)
  PROVE  ~(DOMAIN dir \subseteq {RootFile})
<1>1. PICK f \in DOMAIN dir : d \in {SubSeq(f[1], 1, i) : i \in 1 .. Len(f[1])}
  BY DEF Directories
<1>2. PICK i \in 1 .. Len(f[1]) : d = SubSeq(f[1], 1, i)
  BY <1>1
<1>3. f # RootFile
  <2>1. RootFile[1] = <<>>
    BY DEF RootFile
  <2>2. 1 .. Len(<<>>) = {}
    OBVIOUS
  <2> QED
    BY <1>2, <2>1, <2>2
<1> QED
  BY <1>3

-----------------------------------------------------------------------------
(* A step that changes the output directory in place: what it was worth     *)
(* before it is worth after it, and no command begins to publish.           *)
LEMMA InPlace ==
  ASSUME IInv, UNCHANGED <<input, staging, backup, published>>,
         pc' \in [Commands -> Places],
         \A c \in Commands : pc'[c] = pc[c] \/ pc'[c] \in Ended \cup {"regenerating", "root"},
         Sound(output)', WholeTree(output) => WholeTree(output)', EditsTrue'
  PROVE  IInv'
<1>1. Shapes'
  BY DEF IInv, Shapes
<1>2. \A c \in Commands :
        /\ pc'[c] \in {"idle", "staging", "inspect", "retire", "publish", "restore"} => pc'[c] = pc[c]
        /\ pc'[c] = "cleanup" => pc[c] = "cleanup"
  BY DEF Ended
<1>3. StagingTrue'
  BY <1>2 DEF IInv, StagingTrue, Generated
<1>4. BackupsTrue'
  BY <1>2 DEF IInv, BackupsTrue, Sound, Rooted, NotTorn, Free, WholeTree, Generated
<1>5. TreeKept'
  BY <1>2 DEF IInv, TreeKept, WholeTree, Generated
<1> QED
  BY <1>1, <1>3, <1>4, <1>5 DEF IInv

(* A step of one command that leaves the output directory alone.            *)
LEMMA Private ==
  ASSUME IInv, NEW c \in Commands, UNCHANGED <<output, published, edited>>, Shapes',
         \A d \in Commands \ {c} : /\ pc'[d] = pc[d] /\ input'[d] = input[d]
                                   /\ staging'[d] = staging[d] /\ backup'[d] = backup[d],
         pc'[c] = "staging" => input'[c] \in Inputs /\ ValidNames(input'[c]),
         pc'[c] \in {"inspect", "retire", "publish", "restore"} => staging'[c] \in Generated,
         Sound(backup'[c]),
         pc'[c] \in {"idle", "staging", "inspect", "retire"} => backup'[c] = Absent,
         pc'[c] = "restore" => backup'[c] # Absent,
         pc[c] # "cleanup" => pc'[c] # "cleanup" /\ backup'[c] = backup[c]
  PROVE  IInv'
<1>1. StagingTrue'
  BY DEF IInv, StagingTrue, Generated
<1>2. BackupsTrue'
  BY DEF IInv, BackupsTrue, Sound, Rooted, NotTorn, Free, WholeTree, Generated
<1>3. TreeKept'
  BY DEF IInv, TreeKept, WholeTree, Generated
<1>4. Sound(output)' /\ EditsTrue'
  BY DEF IInv, EditsTrue, Sound, Rooted, NotTorn, Free, WholeTree, Generated
<1> QED
  BY <1>1, <1>2, <1>3, <1>4 DEF IInv
-----------------------------------------------------------------------------
(* The steps of a command that leave the output directory alone: checking   *)
(* the names, staging the tree, looking at the directory, removing the      *)
(* backup, and every failed call and crash.                                 *)
LEMMA GenerateStep ==
  ASSUME IInv, NEW c \in Commands, NEW servers \in Inputs, Generate(c, servers)
  PROVE  IInv'
<1> USE DEF Generate, Go
<1>1. Shapes'
  BY DEF IInv, Shapes, Places, Ended
<1>2. \A d \in Commands \ {c} : /\ pc'[d] = pc[d] /\ input'[d] = input[d]
                               /\ staging'[d] = staging[d] /\ backup'[d] = backup[d]
  BY DEF IInv, Shapes
<1>3. pc'[c] = "failed" \/ (pc'[c] = "staging" /\ input'[c] = servers /\ ValidNames(servers))
  BY DEF IInv, Shapes
<1>4. backup'[c] = backup[c] /\ backup[c] = Absent /\ Sound(backup[c]) /\ pc[c] = "idle"
  BY DEF IInv, BackupsTrue
<1> HIDE DEF Generate
<1> QED
  BY <1>1, <1>2, <1>3, <1>4, Private DEF Generate

(* Stage writes what is sound into a directory of its own.                  *)
LEMMA StageStep ==
  ASSUME IInv, NEW c \in Commands, Stage(c)
  PROVE  IInv'
<1> USE DEF Stage, Go
<1>1. Shapes'
  BY DEF IInv, Shapes, Places, Ended
<1>2. \A d \in Commands \ {c} : /\ pc'[d] = pc[d] /\ input'[d] = input[d]
                               /\ staging'[d] = staging[d] /\ backup'[d] = backup[d]
  BY DEF IInv, Shapes
<1>3. pc'[c] = "inspect" /\ staging'[c] = GeneratedTree(input[c])
  BY DEF IInv, Shapes
<1>4. staging'[c] \in Generated
  BY <1>3 DEF IInv, StagingTrue, Generated
<1>5. backup'[c] = backup[c] /\ backup[c] = Absent /\ Sound(backup[c]) /\ pc[c] = "staging"
  BY DEF IInv, BackupsTrue
<1> QED
  BY <1>1, <1>2, <1>3, <1>4, <1>5, Private

(* Inspect reads the tree that is published at that moment.                 *)
LEMMA InspectStep ==
  ASSUME IInv, NEW c \in Commands, Inspect(c)
  PROVE  IInv'
<1> USE DEF Inspect, Go
<1>1. Shapes'
  BY DEF IInv, Shapes, Places, Ended
<1>2. \A d \in Commands \ {c} : /\ pc'[d] = pc[d] /\ input'[d] = input[d]
                               /\ staging'[d] = staging[d] /\ backup'[d] = backup[d]
  BY DEF IInv, Shapes
<1>3. pc'[c] \in {"publish", "retire"} /\ staging'[c] \in Generated
  BY DEF IInv, Shapes, StagingTrue
<1>4. backup'[c] = backup[c] /\ backup[c] = Absent /\ Sound(backup[c]) /\ pc[c] = "inspect"
  BY DEF IInv, BackupsTrue
<1> QED
  BY <1>1, <1>2, <1>3, <1>4, Private

(* No tree and an empty one are sound.                                      *)
LEMMA AbsentSound == Sound(Absent) /\ Sound(EmptyDirectory)
<1>1. DOMAIN EmptyDirectory = {}
  BY DEF EmptyDirectory
<1> QED
  BY <1>1 DEF Sound, Rooted, NotTorn, Free

(* Cleanup removes nothing but the backup of its own command.               *)
LEMMA CleanupStep ==
  ASSUME IInv, NEW c \in Commands, Cleanup(c)
  PROVE  IInv'
<1> USE DEF Cleanup, Return, Go
<1>1. Shapes'
  BY DEF IInv, Shapes, Places, Ended
<1>2. \A d \in Commands \ {c} : /\ pc'[d] = pc[d] /\ input'[d] = input[d]
                               /\ staging'[d] = staging[d] /\ backup'[d] = backup[d]
  BY DEF IInv, Shapes
<1>3. pc'[c] = "done" /\ backup'[c] = Absent /\ pc[c] = "cleanup"
  BY DEF IInv, Shapes
<1> QED
  BY <1>1, <1>2, <1>3, AbsentSound, Private

(* A failing call of the file system ends the command or has it restore the *)
(* backup; the published tree stays as it is.                               *)
LEMMA CallFailsStep ==
  ASSUME IInv, NEW c \in Commands, CallFails(c)
  PROVE  IInv'
<1> USE DEF CallFails, Return, Go
<1>1. Shapes'
  BY DEF IInv, Shapes, Places, Ended
<1>2. \A d \in Commands \ {c} : /\ pc'[d] = pc[d] /\ input'[d] = input[d]
                               /\ staging'[d] = staging[d] /\ backup'[d] = backup[d]
  BY DEF IInv, Shapes
<1>3. \/ pc[c] = "cleanup" /\ pc'[c] = "cleanup failed" /\ backup'[c] = EmptyDirectory
      \/ /\ pc[c] # "cleanup" /\ backup'[c] = backup[c]
         /\ \/ pc'[c] \in {"failed", "restore failed"}
            \/ /\ pc[c] = "publish" /\ pc'[c] = "restore"
               /\ backup[c] # Absent /\ staging'[c] = staging[c]
  BY DEF IInv, Shapes
<1>4. Sound(backup[c]) /\ (pc[c] = "publish" => staging[c] \in Generated)
  BY DEF IInv, BackupsTrue, StagingTrue
<1>5. UNCHANGED <<output, published, edited>>
  OBVIOUS
<1> HIDE DEF CallFails
<1> QED
  BY <1>1, <1>2, <1>3, <1>4, <1>5, AbsentSound, Private

(* A crash leaves every tree as it is and forgets the command.              *)
LEMMA CrashStep ==
  ASSUME IInv, NEW c \in Commands, Crash(c)
  PROVE  IInv'
<1> USE DEF Crash, Go
<1>1. Shapes'
  BY DEF IInv, Shapes, Places, Ended
<1>2. \A d \in Commands \ {c} : /\ pc'[d] = pc[d] /\ input'[d] = input[d]
                               /\ staging'[d] = staging[d] /\ backup'[d] = backup[d]
  BY DEF IInv, Shapes
<1>3. pc'[c] = "crashed" /\ backup'[c] = backup[c] /\ Sound(backup[c])
  BY DEF IInv, Shapes, BackupsTrue
<1> QED
  BY <1>1, <1>2, <1>3, Private

(* Regenerate lists the directories it is going to visit.                   *)
LEMMA RegenerateStep ==
  ASSUME IInv, NEW c \in Commands, Regenerate(c)
  PROVE  IInv'
<1> USE DEF Regenerate, Go
<1>1. pc' \in [Commands -> Places]
  BY DEF IInv, Shapes, Places, Ended
<1>2. \A d \in Commands : pc'[d] = pc[d] \/ pc'[d] \in Ended \cup {"regenerating", "root"}
  BY DEF IInv, Shapes, Ended
<1>3. UNCHANGED <<output, edited>>
  OBVIOUS
<1>4. Sound(output)' /\ (WholeTree(output) => WholeTree(output)') /\ EditsTrue'
  BY <1>3 DEF IInv, EditsTrue, Sound, Rooted, NotTorn, Free, WholeTree, Generated
<1> QED
  BY <1>1, <1>2, <1>4, InPlace
-----------------------------------------------------------------------------
(* An index is written over a file without tools, a user's overview in it   *)
(* left as it is: the edits stay true.                                      *)
LEMMA WriteEdits ==
  ASSUME EditsTrue, NEW f, NEW node, node.tools = {}, node.ok, output # Absent, output' # Absent,
         edited' = edited, output' = Put(output, f, node),
         \/ f = RootFile
         \/ f \in DOMAIN output /\ output[f].ok /\ output[f].overview # Empty
              /\ ~LooksGenerated(output[f].overview) => node.overview = output[f].overview
  PROVE  EditsTrue'
<1>1. /\ DOMAIN output' = DOMAIN output \cup {f}
      /\ output'[f] = node
      /\ \A g \in DOMAIN output : g # f => output'[g] = output[g]
  BY DEF Put
<1> QED
  BY <1>1 DEF EditsTrue

(* A crash in the middle of writing a file takes the edit of it along.      *)
LEMMA CrashEdits ==
  ASSUME EditsTrue, NEW c, NEW f, CrashWriting(c, f), output' # Absent
  PROVE  EditsTrue'
<1>1. /\ DOMAIN output' = DOMAIN output \cup {f}
      /\ \A g \in DOMAIN output : g # f => output'[g] = output[g]
  BY DEF CrashWriting, Put
<1>2. /\ DOMAIN edited' = DOMAIN edited \ {f}
      /\ \A g \in DOMAIN edited' : edited'[g] = edited[g]
  BY DEF CrashWriting, Restrict
<1> QED
  BY <1>1, <1>2 DEF EditsTrue

(* RegenerateDirectory writes the index of one directory, or dies over it.  *)
LEMMA RegenerateDirectoryStep ==
  ASSUME IInv, NEW c \in Commands, RegenerateDirectory(c)
  PROVE  IInv'
<1> DEFINE d == Head(todo[c])
           f == IndexOf(d)
<1>1. /\ pc' \in [Commands -> Places]
      /\ \A e \in Commands : pc'[e] = pc[e] \/ pc'[e] \in Ended \cup {"regenerating", "root"}
  BY DEF IInv, Shapes, Places, Ended, RegenerateDirectory, Go, CrashWriting
<1>2. UNCHANGED <<input, staging, backup, published>>
  BY DEF RegenerateDirectory
<1>3. CASE UNCHANGED <<output, edited>>
  <2>1. Sound(output)' /\ (WholeTree(output) => WholeTree(output)') /\ EditsTrue'
    BY <1>3 DEF IInv, EditsTrue, Sound, Rooted, NotTorn, Free, WholeTree, Generated
  <2> QED
    BY <1>1, <1>2, <2>1, InPlace
<1>4. CASE /\ output # Absent /\ d \in Directories(output) /\ ~IsLeaf(output, f)
           /\ edited' = edited
           /\ output' = Put(output, f, Branch(FinalOverview(output, d)))
  <2> DEFINE node == Branch(FinalOverview(output, d))
  <2>1. node.tools = {} /\ node.ok /\ node.overview = FinalOverview(output, d)
    BY DEF Branch
  <2>2. ~(DOMAIN output \subseteq {RootFile})
    BY <1>4, BelowRoot
  <2>3. Sound(output') /\ (WholeTree(output) => WholeTree(output'))
    <3> HIDE DEF node, f, d
    <3> QED
      BY <1>4, <2>1, <2>2, WriteSound DEF IInv, node
  <2>4. output' # Absent
    <3>1. RootFile \in DOMAIN output
      BY <1>4, <2>2 DEF IInv, Sound, Rooted
    <3> QED
      BY <1>4, <3>1, WithRoot DEF Put
  <2>5. f \in DOMAIN output /\ output[f].ok /\ output[f].overview # Empty
          /\ ~LooksGenerated(output[f].overview) => node.overview = output[f].overview
    BY <2>1 DEF FinalOverview, Readable
  <2>6. EditsTrue'
    <3> HIDE DEF node, f, d
    <3> QED
      BY <1>4, <2>1, <2>4, <2>5, WriteEdits DEF IInv, node
  <2>7. Sound(output)' /\ (WholeTree(output) => WholeTree(output)')
    BY <2>3 DEF Sound, Rooted, NotTorn, Free, WholeTree, Generated
  <2> QED
    BY <1>1, <1>2, <2>6, <2>7, InPlace
<1>5. CASE /\ output # Absent /\ d \in Directories(output) /\ ~IsLeaf(output, f)
           /\ CrashWriting(c, f)
  <2>1. Broken.tools = {}
    BY DEF Broken
  <2>2. ~(DOMAIN output \subseteq {RootFile})
    BY <1>5, BelowRoot
  <2>3. Sound(output') /\ (WholeTree(output) => WholeTree(output'))
    <3> HIDE DEF f, d
    <3> QED
      BY <1>5, <2>1, <2>2, WriteSound DEF IInv, CrashWriting
  <2>4. output' # Absent
    <3>1. RootFile \in DOMAIN output
      BY <1>5, <2>2 DEF IInv, Sound, Rooted
    <3> QED
      BY <1>5, <3>1, WithRoot DEF Put, CrashWriting
  <2>6. EditsTrue'
    <3> HIDE DEF f, d
    <3> QED
      BY <1>5, <2>4, CrashEdits DEF IInv
  <2>7. Sound(output)' /\ (WholeTree(output) => WholeTree(output)')
    BY <2>3 DEF Sound, Rooted, NotTorn, Free, WholeTree, Generated
  <2> QED
    BY <1>1, <1>2, <2>6, <2>7, InPlace
<1> QED
  BY <1>3, <1>4, <1>5 DEF RegenerateDirectory, RegeneratedIndex

(* Regenerate ends by writing root.json, or dies over it.                   *)
LEMMA RegenerateRootStep ==
  ASSUME IInv, NEW c \in Commands, RegenerateRoot(c)
  PROVE  IInv'
<1>1. /\ pc' \in [Commands -> Places]
      /\ \A e \in Commands : pc'[e] = pc[e] \/ pc'[e] \in Ended \cup {"regenerating", "root"}
  BY DEF IInv, Shapes, Places, Ended, RegenerateRoot, Go, CrashWriting
<1>2. UNCHANGED <<input, staging, backup, published>>
  BY DEF RegenerateRoot
<1>3. CASE UNCHANGED <<output, edited>>
  <2>1. Sound(output)' /\ (WholeTree(output) => WholeTree(output)') /\ EditsTrue'
    BY <1>3 DEF IInv, EditsTrue, Sound, Rooted, NotTorn, Free, WholeTree, Generated
  <2> QED
    BY <1>1, <1>2, <2>1, InPlace
<1>4. ASSUME output # Absent
      PROVE  ~IsLeaf(output, RootFile)
  BY <1>4 DEF IInv, Sound, Rooted, IsLeaf
<1>5. CASE /\ output # Absent /\ edited' = edited
           /\ output' = RegeneratedRoot(output, tops[c])
  <2> DEFINE node == Branch(RootOverview(output, tops[c]))
  <2>1. node.tools = {} /\ node.ok
    BY DEF Branch
  <2>2. output' = Put(output, RootFile, node)
    BY <1>5 DEF RegeneratedRoot
  <2> HIDE DEF node
  <2>3. Sound(output') /\ (WholeTree(output) => WholeTree(output'))
    BY <1>4, <1>5, <2>1, <2>2, WriteSound DEF IInv
  <2>4. output' # Absent
    BY <2>2, WithRoot DEF Put
  <2>5. EditsTrue'
    BY <1>5, <2>1, <2>2, <2>4, WriteEdits DEF IInv
  <2>6. Sound(output)' /\ (WholeTree(output) => WholeTree(output)')
    BY <2>3 DEF Sound, Rooted, NotTorn, Free, WholeTree, Generated
  <2> QED
    BY <1>1, <1>2, <2>5, <2>6, InPlace
<1>6. CASE output # Absent /\ CrashWriting(c, RootFile)
  <2>1. Broken.tools = {}
    BY DEF Broken
  <2>2. output' = Put(output, RootFile, Broken)
    BY <1>6 DEF CrashWriting
  <2>3. Sound(output') /\ (WholeTree(output) => WholeTree(output'))
    BY <1>4, <1>6, <2>1, <2>2, WriteSound DEF IInv
  <2>4. output' # Absent
    BY <2>2, WithRoot DEF Put
  <2>5. EditsTrue'
    BY <1>6, <2>4, CrashEdits DEF IInv
  <2>6. Sound(output)' /\ (WholeTree(output) => WholeTree(output)')
    BY <2>3 DEF Sound, Rooted, NotTorn, Free, WholeTree, Generated
  <2> QED
    BY <1>1, <1>2, <2>5, <2>6, InPlace
<1> QED
  BY <1>3, <1>5, <1>6 DEF RegenerateRoot
-----------------------------------------------------------------------------
(* The user moves files, but root.json stays where it is.                   *)
LEMMA MoveStep ==
  ASSUME IInv, output # Absent, RootFile \in DOMAIN output, NEW to, Move(to),
         \A f, g \in DOMAIN output : to[f] = to[g] => f = g, to[RootFile] = RootFile
  PROVE  IInv'
<1>1. /\ output' = Moved(output, to) /\ edited' = Moved(edited, to)
      /\ UNCHANGED <<input, staging, backup, published, pc>>
  BY DEF Move, Edit
<1>2. /\ \A g : g \in DOMAIN output' <=> \E f \in DOMAIN output : g = to[f]
      /\ \A f \in DOMAIN output : output'[to[f]] = output[f]
  BY <1>1, MovedOf
<1>3. \A f \in DOMAIN edited : f \in DOMAIN output
  BY DEF IInv, EditsTrue
<1>4. /\ \A g : g \in DOMAIN edited' <=> \E f \in DOMAIN edited : g = to[f]
      /\ \A f \in DOMAIN edited : edited'[to[f]] = edited[f]
  <2>1. \A f, g \in DOMAIN edited : to[f] = to[g] => f = g
    BY <1>3
  <2> QED
    BY <1>1, <2>1, MovedOf
<1>5. RootFile \in DOMAIN output /\ output[RootFile].tools = {}
  BY DEF IInv, Sound, Rooted
<1>6. RootFile \in DOMAIN output' /\ output'[RootFile].tools = {}
  BY <1>2, <1>5
<1>7. output' # Absent
  BY <1>6, WithRoot
<1>8. ToolsIn(output') = ToolsIn(output)
  BY <1>1, MoveKeepsTools
<1>9. WholeTree(output) => WholeTree(output')
  BY <1>7, <1>8 DEF WholeTree
<1>10. NotTorn(output')
  <2>1. CASE DOMAIN output = {RootFile}
    BY <1>2, <2>1 DEF NotTorn
  <2>2. CASE DOMAIN output # {RootFile}
    BY <1>5, <1>9, <2>2 DEF IInv, Sound, NotTorn, Free
  <2> QED
    BY <2>1, <2>2
<1>11. Sound(output)' /\ (WholeTree(output) => WholeTree(output)')
  BY <1>6, <1>9, <1>10 DEF Sound, Rooted, NotTorn, Free, WholeTree, Generated
<1>12. EditsTrue'
  <2> SUFFICES ASSUME NEW g \in DOMAIN edited'
               PROVE  /\ g \in DOMAIN output' /\ output'[g].tools = {} /\ output'[g].ok
                      /\ g # RootFile /\ edited'[g] # Empty /\ ~LooksGenerated(edited'[g]) =>
                           output'[g].overview = edited'[g]
    BY <1>7 DEF EditsTrue
  <2>1. PICK f \in DOMAIN edited : g = to[f]
    BY <1>4
  <2>2. /\ f \in DOMAIN output /\ output[f].tools = {} /\ output[f].ok
        /\ f # RootFile /\ edited[f] # Empty /\ ~LooksGenerated(edited[f]) =>
             output[f].overview = edited[f]
    BY DEF IInv, EditsTrue
  <2>3. g \in DOMAIN output' /\ output'[g] = output[f] /\ edited'[g] = edited[f]
    BY <1>2, <1>4, <2>1, <2>2
  <2> QED
    BY <2>1, <2>2, <2>3
<1>13. pc' \in [Commands -> Places]
  BY <1>1 DEF IInv, Shapes
<1> QED
  BY <1>1, <1>11, <1>12, <1>13, InPlace

(* The user writes an overview.                                             *)
LEMMA EditOverviewStep ==
  ASSUME IInv, output # Absent, NEW f \in DOMAIN output, NEW t, EditOverview(f, t)
  PROVE  IInv'
<1> DEFINE node == Branch(Text(t))
<1>1. /\ ~IsLeaf(output, f) /\ output' = Put(output, f, node) /\ edited' = Put(edited, f, Text(t))
      /\ UNCHANGED <<input, staging, backup, published, pc>>
  BY DEF EditOverview, Edit
<1>2. node.tools = {} /\ node.ok /\ node.overview = Text(t)
  BY DEF Branch
<1> HIDE DEF node
<1>3. f = RootFile \/ ~(DOMAIN output \subseteq {RootFile})
  OBVIOUS
<1>4. Sound(output') /\ (WholeTree(output) => WholeTree(output'))
  BY <1>1, <1>2, <1>3, WriteSound DEF IInv
<1>5. Sound(output)' /\ (WholeTree(output) => WholeTree(output)')
  BY <1>4 DEF Sound, Rooted, NotTorn, Free, WholeTree, Generated
<1>6. RootFile \in DOMAIN output'
  BY <1>1 DEF IInv, Sound, Rooted, Put
<1>7. output' # Absent
  BY <1>6, WithRoot
<1>8. /\ DOMAIN output' = DOMAIN output \cup {f}
      /\ output'[f] = node
      /\ \A g \in DOMAIN output : g # f => output'[g] = output[g]
      /\ DOMAIN edited' = DOMAIN edited \cup {f}
      /\ edited'[f] = Text(t)
      /\ \A g \in DOMAIN edited : g # f => edited'[g] = edited[g]
  BY <1>1 DEF Put
<1>9. EditsTrue'
  BY <1>2, <1>7, <1>8 DEF IInv, EditsTrue
<1>10. pc' \in [Commands -> Places]
  BY <1>1 DEF IInv, Shapes
<1> QED
  BY <1>1, <1>5, <1>9, <1>10, InPlace
-----------------------------------------------------------------------------
(* The first rename: the output directory becomes the command's backup.     *)
LEMMA RetireStep ==
  ASSUME IInv, NEW c \in Commands, Retire(c)
  PROVE  IInv'
<1> USE DEF Go, Return
<1>1. Shapes'
  BY DEF Retire, IInv, Shapes, Places, Ended
<1>2. \A d \in Commands \ {c} : /\ pc'[d] = pc[d] /\ input'[d] = input[d]
                               /\ staging'[d] = staging[d] /\ backup'[d] = backup[d]
  BY DEF Retire, IInv, Shapes
<1>3. Sound(backup[c]) /\ backup[c] = Absent /\ pc[c] = "retire" /\ staging[c] \in Generated
  BY DEF Retire, IInv, BackupsTrue, StagingTrue
<1>4. CASE output = Absent
  <2>1. /\ pc'[c] = "failed" /\ backup'[c] = backup[c]
        /\ UNCHANGED <<output, published, edited>>
    BY <1>4 DEF Retire, IInv, Shapes
  <2> QED
    BY <1>1, <1>2, <1>3, <2>1, Private
<1>5. CASE output # Absent
  <2>1. /\ pc'[c] = "publish" /\ backup'[c] = output /\ output' = Absent /\ edited' = <<>>
        /\ staging'[c] = staging[c] /\ published' = published
    BY <1>5 DEF Retire, IInv, Shapes
  <2>2. StagingTrue'
    BY <1>2, <1>3, <2>1 DEF IInv, StagingTrue, Generated
  <2>3. BackupsTrue'
    BY <1>2, <2>1 DEF IInv, BackupsTrue, Sound, Rooted, NotTorn, Free, WholeTree, Generated
  <2>4. TreeKept'
    BY <1>2, <1>3, <2>1 DEF IInv, TreeKept, WholeTree, Generated
  <2>5. Sound(output)'
    BY <2>1, AbsentSound DEF Sound, Rooted, NotTorn, Free, WholeTree, Generated
  <2>6. DOMAIN edited' = {}
    BY <2>1
  <2>7. EditsTrue'
    BY <2>6 DEF EditsTrue
  <2> QED
    BY <1>1, <2>2, <2>3, <2>4, <2>5, <2>7 DEF IInv
<1> QED
  BY <1>4, <1>5

(* The second rename: the staged tree becomes the output directory, unless  *)
(* another command has put something there.                                 *)
LEMMA PublishStep ==
  ASSUME IInv, NEW c \in Commands, Publish(c)
  PROVE  IInv'
<1> USE DEF Go, Return
<1>1. Shapes'
  BY DEF Publish, IInv, Shapes, Places, Ended
<1>2. \A d \in Commands \ {c} : /\ pc'[d] = pc[d] /\ input'[d] = input[d]
                               /\ staging'[d] = staging[d] /\ backup'[d] = backup[d]
  BY DEF Publish, IInv, Shapes
<1>3. Sound(backup[c]) /\ backup'[c] = backup[c] /\ pc[c] = "publish" /\ staging[c] \in Generated
  BY DEF Publish, IInv, BackupsTrue, StagingTrue
<1>4. CASE ~Free(output)
  <2>1. /\ UNCHANGED <<output, published, edited>>
        /\ \/ pc'[c] = "failed"
           \/ pc'[c] = "restore" /\ backup[c] # Absent /\ staging'[c] = staging[c]
    BY <1>4 DEF Publish, IInv, Shapes
  <2> QED
    BY <1>1, <1>2, <1>3, <2>1, Private
<1>5. CASE Free(output)
  <2>1. /\ pc'[c] \in {"done", "cleanup"} /\ output' = staging[c] /\ edited' = <<>>
    BY <1>5 DEF Publish, IInv, Shapes
  <2>2. Sound(staging[c]) /\ WholeTree(staging[c])
    BY <1>3, GeneratedSound
  <2>3. StagingTrue'
    BY <1>2, <2>1 DEF IInv, StagingTrue, Generated
  <2>4. BackupsTrue'
    BY <1>2, <1>3, <2>1 DEF IInv, BackupsTrue, Sound, Rooted, NotTorn, Free, WholeTree, Generated
  <2>5. Sound(output)' /\ WholeTree(output)'
    BY <2>1, <2>2 DEF Sound, Rooted, NotTorn, Free, WholeTree, Generated
  <2>6. DOMAIN edited' = {}
    BY <2>1
  <2>7. EditsTrue'
    BY <2>6 DEF EditsTrue
  <2> QED
    BY <1>1, <2>3, <2>4, <2>5, <2>7 DEF IInv, TreeKept
<1> QED
  BY <1>4, <1>5

(* The previous tree is put back: the backup becomes the output directory,  *)
(* where no file is in the way.                                             *)
LEMMA RestoreStep ==
  ASSUME IInv, NEW c \in Commands, Restore(c)
  PROVE  IInv'
<1> USE DEF Go, Return
<1>1. Shapes'
  BY DEF Restore, IInv, Shapes, Places, Ended
<1>2. \A d \in Commands \ {c} : /\ pc'[d] = pc[d] /\ input'[d] = input[d]
                               /\ staging'[d] = staging[d] /\ backup'[d] = backup[d]
  BY DEF Restore, IInv, Shapes
<1>3. Sound(backup[c]) /\ backup[c] # Absent /\ pc[c] = "restore"
  BY DEF Restore, IInv, BackupsTrue
<1>4. CASE ~Free(output)
  <2>1. /\ UNCHANGED <<output, published, edited>>
        /\ pc'[c] = "restore failed" /\ backup'[c] = backup[c]
    BY <1>4 DEF Restore, IInv, Shapes
  <2> QED
    BY <1>1, <1>2, <1>3, <2>1, Private
<1>5. CASE Free(output)
  <2>1. /\ pc'[c] = "failed" /\ output' = backup[c] /\ edited' = edited
        /\ backup'[c] = Absent /\ published' = published
    BY <1>5 DEF Restore, IInv, Shapes
  <2>2. StagingTrue'
    BY <1>2, <2>1 DEF IInv, StagingTrue, Generated
  <2>3. BackupsTrue'
    BY <1>2, <2>1, AbsentSound
    DEF IInv, BackupsTrue, Sound, Rooted, NotTorn, Free, WholeTree, Generated
  <2>4. Sound(output)'
    BY <1>3, <2>1 DEF Sound, Rooted, NotTorn, Free, WholeTree, Generated
  <2>5. WholeTree(output) => WholeTree(backup[c])
    <3>1. SUFFICES ASSUME WholeTree(output), ~WholeTree(backup[c])
                   PROVE  FALSE
      OBVIOUS
    <3>2. output # Absent /\ ToolsIn(output) = {}
      BY <1>5, <3>1, RootOnlyNoTools DEF IInv, Sound, WholeTree
    <3>3. Rooted(backup[c]) /\ (Free(backup[c]) \/ DOMAIN backup[c] = {RootFile})
      BY <1>3, <3>1 DEF Sound, NotTorn
    <3>4. ToolsIn(backup[c]) = {}
      BY <1>3, <3>3, RootOnlyNoTools
    <3> QED
      BY <1>3, <3>1, <3>2, <3>4 DEF WholeTree
  <2>6. TreeKept'
    BY <1>2, <2>1, <2>5 DEF IInv, TreeKept, WholeTree, Generated
  <2>7. DOMAIN edited = {}
    BY <1>5 DEF IInv, EditsTrue, Free
  <2>8. EditsTrue'
    BY <2>1, <2>7 DEF EditsTrue
  <2> QED
    BY <1>1, <2>2, <2>3, <2>4, <2>6, <2>8 DEF IInv
<1> QED
  BY <1>4, <1>5
-----------------------------------------------------------------------------
(* Nothing, an empty directory or a generated tree to begin with.           *)
LEMMA InitInv == Init => IInv
<1> SUFFICES ASSUME Init PROVE IInv
  OBVIOUS
<1>1. Shapes
  BY DEF Init, Shapes, Places
<1>2. StagingTrue
  BY DEF Init, StagingTrue
<1>3. BackupsTrue
  BY AbsentSound DEF Init, BackupsTrue
<1>4. Sound(output) /\ (output \in Generated => WholeTree(output))
  BY AbsentSound, GeneratedSound DEF Init
<1>5. TreeKept
  BY <1>4 DEF Init, TreeKept
<1>6. DOMAIN edited = {}
  BY DEF Init
<1>7. EditsTrue
  BY <1>6 DEF EditsTrue
<1> QED
  BY <1>1, <1>2, <1>3, <1>4, <1>5, <1>7 DEF IInv

(* A step that changes nothing.                                             *)
LEMMA StutterStep == IInv /\ UNCHANGED vars => IInv'
BY DEF IInv, vars, Shapes, StagingTrue, BackupsTrue, TreeKept, EditsTrue, Sound, Rooted, NotTorn,
       Free, WholeTree, Generated

-----------------------------------------------------------------------------
(* Paths.  Places are numbers, and a place inside a path names what is      *)
(* there.                                                                   *)
Paths == Seq(Names) \ {<<>>}

(* A name has a position, which determines it.                              *)
LEMMA PositionOf ==
  ASSUME NEW n \in Names
  PROVE  /\ NamePosition(n) \in 1 .. Len(NameOrder)
         /\ NameOrder[NamePosition(n)] = n
         /\ Len(NameOrder) \in Nat
<1>1. NameOrder \in Seq(Names) /\ DOMAIN NameOrder = 1 .. Len(NameOrder) /\ Len(NameOrder) \in Nat
  BY NamesAssumption
<1>2. \E i \in DOMAIN NameOrder : NameOrder[i] = n
  BY DEF Names, Range
<1> QED
  BY <1>1, <1>2 DEF NamePosition

(* Inside a path the place is the position of a name, beyond it is larger.  *)
LEMMA PlaceOf ==
  ASSUME NEW d \in Paths
  PROVE  /\ Len(NameOrder) \in Nat /\ Len(d) \in Nat /\ Len(d) >= 1
         /\ \A i \in 1 .. Len(d) : /\ Place(d, i) \in 1 .. Len(NameOrder)
                                   /\ NameOrder[Place(d, i)] = d[i]
         /\ \A i \in Nat : i \notin 1 .. Len(d) => Place(d, i) = Len(NameOrder) + 1
         /\ \A i \in Nat : Place(d, i) \in Nat /\ Place(d, i) <= Len(NameOrder) + 1
<1>1. Len(NameOrder) \in Nat
  BY NamesAssumption
<1>2. d \in Seq(Names) /\ Len(d) \in Nat /\ Len(d) >= 1 /\ \A i \in 1 .. Len(d) : d[i] \in Names
  BY DEF Paths
<1>3. \A i \in 1 .. Len(d) : /\ Place(d, i) \in 1 .. Len(NameOrder)
                             /\ NameOrder[Place(d, i)] = d[i]
  BY <1>2, PositionOf DEF Place
<1>4. \A i \in Nat : i \notin 1 .. Len(d) => Place(d, i) = Len(NameOrder) + 1
  BY DEF Place
<1> QED
  BY <1>1, <1>2, <1>3, <1>4

(* Two paths are the same if their places are.                              *)
LEMMA PlacesDiffer ==
  ASSUME NEW d \in Paths, NEW e \in Paths, d # e
  PROVE  \E i \in Nat \ {0} : Place(d, i) # Place(e, i)
<1>1. CASE Len(d) = Len(e)
  <2>1. PICK i \in 1 .. Len(d) : d[i] # e[i]
    BY <1>1, SeqEqual DEF Paths
  <2>2. NameOrder[Place(d, i)] = d[i] /\ NameOrder[Place(e, i)] = e[i]
    BY <1>1, PlaceOf
  <2>3. Place(d, i) # Place(e, i) /\ i \in Nat \ {0}
    BY <2>1, <2>2
  <2> QED
    BY <2>3
<1>2. ASSUME NEW a \in Paths, NEW b \in Paths, Len(a) < Len(b)
      PROVE  \E i \in Nat \ {0} : Place(a, i) # Place(b, i)
  <2> DEFINE i == Len(a) + 1
  <2>0. Len(a) \in Nat /\ Len(b) \in Nat /\ Len(NameOrder) \in Nat
    BY PlaceOf
  <2>1. /\ Len(a) \in Nat /\ Len(b) \in Nat /\ Len(NameOrder) \in Nat
        /\ i \in Nat \ {0} /\ i \notin 1 .. Len(a) /\ i \in 1 .. Len(b)
    BY <1>2, <2>0
  <2>2. Place(a, i) = Len(NameOrder) + 1
    BY <2>1, PlaceOf
  <2>3. Place(b, i) \in 1 .. Len(NameOrder)
    BY <2>1, PlaceOf
  <2>4. Place(a, i) # Place(b, i)
    BY <2>1, <2>2, <2>3
  <2> HIDE DEF i
  <2> QED
    BY <2>1, <2>4
<1>3. Len(d) \in Nat /\ Len(e) \in Nat
  BY PlaceOf
<1>4. Len(d) = Len(e) \/ Len(d) < Len(e) \/ Len(e) < Len(d)
  BY <1>3
<1> QED
  BY <1>1, <1>2, <1>4

(* A first place where they differ decides.                                 *)
LEMMA DecidedAt ==
  ASSUME NEW d \in Paths, NEW e \in Paths, NEW i \in Nat \ {0},
         Place(d, i) < Place(e, i), \A j \in 1 .. (i - 1) : Place(d, j) = Place(e, j)
  PROVE  VisitedBefore(d, e)
<1>1. i \in 1 .. Len(d)
  <2> SUFFICES ASSUME i \notin 1 .. Len(d)  PROVE  FALSE
    OBVIOUS
  <2>1. Place(d, i) = Len(NameOrder) + 1 /\ Place(e, i) \in Nat
    BY PlaceOf
  <2>2. Place(e, i) <= Len(NameOrder) + 1 /\ Len(NameOrder) \in Nat
    BY PlaceOf
  <2> QED
    BY <2>1, <2>2
<1> QED
  BY <1>1 DEF VisitedBefore

(* The order of the visits is a strict order.                               *)
LEMMA VisitsOrdered ==
  ASSUME NEW ds, ds \subseteq Paths
  PROVE  StrictOrder(ds, {p \in ds \X ds : VisitedBefore(p[1], p[2])})
<1>0. ASSUME NEW d \in Paths, NEW e \in Paths
      PROVE  VisitedBefore(d, e) <=>
               \E i \in Nat \ {0} : /\ Place(d, i) < Place(e, i)
                                    /\ \A j \in 1 .. (i - 1) : Place(d, j) = Place(e, j)
  <2>1. ASSUME VisitedBefore(d, e)
        PROVE  \E i \in Nat \ {0} : /\ Place(d, i) < Place(e, i)
                                    /\ \A j \in 1 .. (i - 1) : Place(d, j) = Place(e, j)
    <3>1. PICK i \in 1 .. Len(d) : /\ Place(d, i) < Place(e, i)
                                   /\ \A j \in 1 .. (i - 1) : Place(d, j) = Place(e, j)
      BY <2>1 DEF VisitedBefore
    <3>2. i \in Nat \ {0}
      OBVIOUS
    <3> QED
      BY <3>1, <3>2
  <2> QED
    BY <2>1, DecidedAt
<1>1. ASSUME NEW d \in Paths  PROVE  ~VisitedBefore(d, d)
  <2> SUFFICES ASSUME VisitedBefore(d, d)  PROVE  FALSE
    OBVIOUS
  <2>1. PICK i \in Nat \ {0} : Place(d, i) < Place(d, i)
    BY <1>0
  <2>2. Place(d, i) \in Nat
    BY PlaceOf
  <2> QED
    BY <2>1, <2>2
<1>2. ASSUME NEW d \in Paths, NEW e \in Paths, NEW f \in Paths,
             VisitedBefore(d, e), VisitedBefore(e, f)
      PROVE  VisitedBefore(d, f)
  <2>1. PICK i \in Nat \ {0} : /\ Place(d, i) < Place(e, i)
                               /\ \A j \in 1 .. (i - 1) : Place(d, j) = Place(e, j)
    BY <1>0, <1>2
  <2>2. PICK k \in Nat \ {0} : /\ Place(e, k) < Place(f, k)
                               /\ \A j \in 1 .. (k - 1) : Place(e, j) = Place(f, j)
    BY <1>0, <1>2
  <2>3. \A j \in Nat : Place(d, j) \in Nat /\ Place(e, j) \in Nat /\ Place(f, j) \in Nat
    BY PlaceOf
  <2>4. CASE i <= k
    <3>1. Place(d, i) < Place(f, i)
      <4>1. CASE i = k
        BY <2>1, <2>2, <2>3, <4>1
      <4>2. CASE i < k
        <5>1. i \in 1 .. (k - 1)
          BY <4>2
        <5> QED
          BY <2>1, <2>2, <5>1
      <4> QED
        BY <2>4, <4>1, <4>2
    <3>2. \A j \in 1 .. (i - 1) : Place(d, j) = Place(f, j)
      <4>1. \A j \in 1 .. (i - 1) : j \in 1 .. (k - 1)
        BY <2>4
      <4> QED
        BY <2>1, <2>2, <4>1
    <3> QED
      BY <3>1, <3>2, DecidedAt
  <2>5. CASE k < i
    <3>1. Place(d, k) < Place(f, k)
      <4>1. k \in 1 .. (i - 1)
        BY <2>5
      <4> QED
        BY <2>1, <2>2, <4>1
    <3>2. \A j \in 1 .. (k - 1) : Place(d, j) = Place(f, j)
      <4>1. \A j \in 1 .. (k - 1) : j \in 1 .. (i - 1)
        BY <2>5
      <4> QED
        BY <2>1, <2>2, <4>1
    <3> QED
      BY <3>1, <3>2, DecidedAt
  <2> QED
    BY <2>4, <2>5
<1>3. ASSUME NEW d \in Paths, NEW e \in Paths, d # e
      PROVE  VisitedBefore(d, e) \/ VisitedBefore(e, d)
  <2> DEFINE T == {i \in Nat \ {0} : Place(d, i) # Place(e, i)}
  <2>1. T \subseteq Nat /\ T # {}
    BY <1>3, PlacesDiffer
  <2>2. PICK i \in T : \A y \in T : i <= y
    <3> HIDE DEF T
    <3> QED  BY <2>1, LeastNumber, Zenon
  <2>3. i \in Nat \ {0} /\ Place(d, i) # Place(e, i)
    OBVIOUS
  <2>4. \A j \in 1 .. (i - 1) : Place(d, j) = Place(e, j)
    BY <2>2, <2>3
  <2>5. Place(d, i) \in Nat /\ Place(e, i) \in Nat
    BY <2>3, PlaceOf
  <2>6. Place(d, i) < Place(e, i) \/ Place(e, i) < Place(d, i)
    BY <2>3, <2>5
  <2> HIDE DEF T
  <2> QED
    BY <2>3, <2>4, <2>6, DecidedAt
<1> QED
  BY <1>1, <1>2, <1>3 DEF StrictOrder

(* A directory is visited after those below it.                             *)
LEMMA NoneBelowLater ==
  ASSUME NEW d \in Paths, NEW e \in Paths, VisitedBefore(d, e)
  PROVE  ~IsPrefix(d, e)
<1> SUFFICES ASSUME IsPrefix(d, e)  PROVE  FALSE
  OBVIOUS
<1>1. PICK i \in 1 .. Len(d) : Place(d, i) < Place(e, i)
  BY DEF VisitedBefore
<1>2. d \in Seq(Names) /\ e \in Seq(Names) /\ Len(d) \in Nat /\ Len(e) \in Nat
  BY DEF Paths
<1>3. Len(d) <= Len(e) /\ SubSeq(d, 1, Len(d)) = SubSeq(e, 1, Len(d))
  BY DEF IsPrefix
<1>4. SubSeq(d, 1, Len(d))[i] = d[i]
  BY <1>2
<1>5. SubSeq(e, 1, Len(d))[i] = e[i]
  BY <1>2, <1>3
<1>6. d[i] = e[i] /\ i \in 1 .. Len(e)
  BY <1>2, <1>3, <1>4, <1>5
<1>7. Place(d, i) = Place(e, i)
  BY <1>6 DEF Place
<1>8. Place(d, i) \in Nat
  BY PlaceOf
<1> QED
  BY <1>1, <1>7, <1>8
-----------------------------------------------------------------------------
(* The files of a tree.  Every one is root.json or has a name in some       *)
(* directory.  One with tools is intact and has a single tool, named like   *)
(* the file, that no other file has; root.json has none, and what else has  *)
(* none is the index of a directory.                                        *)
Indexes == {f \in Paths \X Names : f[2] = Last(f[1])}

FiledTree(dir) ==
  /\ dir = [f \in DOMAIN dir |-> dir[f]]
  /\ IsFiniteSet(DOMAIN dir)
  /\ DOMAIN dir \subseteq {RootFile} \cup (Seq(Names) \X Names)
  /\ RootFile \in DOMAIN dir => dir[RootFile].tools = {}
  /\ \A f \in DOMAIN dir : dir[f].tools = {} => f = RootFile \/ f \in Indexes
  /\ \A f \in DOMAIN dir : dir[f].tools # {} =>
       dir[f].ok /\ \E t : dir[f].tools = {t} /\ t.name = f[2]
  /\ \A f, g \in DOMAIN dir : f # g => dir[f].tools \cap dir[g].tools = {}

Filed(dir) == dir = Absent \/ FiledTree(dir)

(* The beginning of a path is a path.                                       *)
LEMMA BeginningOf ==
  ASSUME NEW d \in Paths, NEW i \in 1 .. Len(d)
  PROVE  /\ SubSeq(d, 1, i) \in Paths
         /\ Len(SubSeq(d, 1, i)) = i
         /\ \A j \in 1 .. i : SubSeq(d, 1, i)[j] = d[j]
         /\ \A j \in 1 .. i : SubSeq(SubSeq(d, 1, i), 1, j) = SubSeq(d, 1, j)
<1>0. d \in Seq(Names) /\ Len(d) \in Nat /\ \A j \in 1 .. Len(d) : d[j] \in Names
  BY DEF Paths
<1>1. /\ SubSeq(d, 1, i) \in Seq(Names)
      /\ Len(SubSeq(d, 1, i)) = i
      /\ \A j \in 1 .. i : SubSeq(d, 1, i)[j] = d[j]
  BY <1>0
<1>2. SubSeq(d, 1, i) # <<>>
  <2>1. Len(<<>>) = 0 /\ i # 0
    OBVIOUS
  <2> QED
    BY <1>1, <2>1
<1>3. ASSUME NEW j \in 1 .. i
      PROVE  SubSeq(SubSeq(d, 1, i), 1, j) = SubSeq(d, 1, j)
  <2> DEFINE s == SubSeq(d, 1, i)
  <2>1. /\ s \in Seq(Names) /\ Len(s) = i
        /\ \A k \in 1 .. i : s[k] = d[k]
    BY <1>1
  <2> HIDE DEF s
  <2>2. /\ SubSeq(s, 1, j) \in Seq(Names) /\ Len(SubSeq(s, 1, j)) = j
        /\ \A k \in 1 .. j : SubSeq(s, 1, j)[k] = s[k]
    BY <2>1
  <2>3. /\ SubSeq(d, 1, j) \in Seq(Names) /\ Len(SubSeq(d, 1, j)) = j
        /\ \A k \in 1 .. j : SubSeq(d, 1, j)[k] = d[k]
    BY <1>0
  <2>4. \A k \in 1 .. j : SubSeq(s, 1, j)[k] = SubSeq(d, 1, j)[k]
    BY <2>1, <2>2, <2>3
  <2>5. SubSeq(s, 1, j) = SubSeq(d, 1, j)
    BY <2>2, <2>3, <2>4, SeqEqual
  <2> QED
    BY <2>5 DEF s
<1> QED
  BY <1>1, <1>2, <1>3 DEF Paths

(* One path begins with another.                                            *)
LEMMA BeginsWith ==
  ASSUME NEW d \in Paths, NEW e \in Paths
  PROVE  /\ IsPrefix(d, e) <=> Len(d) <= Len(e) /\ d = SubSeq(e, 1, Len(d))
         /\ IsPrefix(d, e) /\ Len(d) = Len(e) => d = e
         /\ IsPrefix(<<>>, e)
         /\ IsPrefix(d, d)
         /\ ~IsPrefix(d, <<>>)
<1>1. d \in Seq(Names) /\ e \in Seq(Names) /\ Len(d) \in Nat /\ Len(e) \in Nat /\ Len(d) # 0
  BY PlaceOf DEF Paths
<1>2. SubSeq(d, 1, Len(d)) = d /\ SubSeq(e, 1, Len(e)) = e
  BY <1>1, SubSeqFull
<1>3. Len(<<>>) = 0 /\ SubSeq(<<>>, 1, 0) = <<>> /\ SubSeq(e, 1, 0) = <<>>
  BY SubSeqEmpty
<1>4. IsPrefix(d, e) <=> Len(d) <= Len(e) /\ d = SubSeq(e, 1, Len(d))
  BY <1>2 DEF IsPrefix
<1>5. IsPrefix(<<>>, e)
  BY <1>1, <1>3 DEF IsPrefix
<1>6. IsPrefix(d, d)
  BY <1>1 DEF IsPrefix
<1>7. ~IsPrefix(d, <<>>)
  BY <1>1, <1>3 DEF IsPrefix
<1> QED
  BY <1>2, <1>4, <1>5, <1>6, <1>7

(* The index of a directory.                                                *)
LEMMA IndexFile ==
  ASSUME NEW d \in Paths
  PROVE  /\ IndexOf(d) \in Indexes
         /\ IndexOf(d) \in Paths \X Names
         /\ IndexOf(d) # RootFile
         /\ IndexOf(d)[1] = d /\ IndexOf(d)[2] = Last(d)
<1>1. Last(d) \in Names
  <2>1. Len(d) \in 1 .. Len(d) /\ d \in Seq(Names)
    BY PlaceOf DEF Paths
  <2> QED
    BY <2>1 DEF Last
<1>2. RootFile[1] = <<>> /\ d # <<>>
  BY DEF RootFile, Paths
<1>3. IndexOf(d)[1] = d /\ IndexOf(d)[2] = Last(d)
  BY DEF IndexOf
<1> QED
  BY <1>1, <1>2, <1>3 DEF Indexes, IndexOf

(* Every index is that of its directory.                                    *)
LEMMA IndexIsOf ==
  ASSUME NEW f \in Paths \X Names
  PROVE  /\ f = <<f[1], f[2]>> /\ f[1] \in Paths /\ f[2] \in Names
         /\ f # RootFile
         /\ f \in Indexes <=> f = IndexOf(f[1])
<1>1. f = <<f[1], f[2]>> /\ f[1] \in Paths /\ f[2] \in Names
  OBVIOUS
<1>2. f # RootFile
  BY <1>1 DEF RootFile, Paths
<1> QED
  BY <1>1, <1>2 DEF Indexes, IndexOf

(* The directories of a tree are paths, with all directories above them.    *)
LEMMA DirectoriesOf ==
  ASSUME NEW T, DOMAIN T \subseteq {RootFile} \cup (Seq(Names) \X Names)
  PROVE  /\ Directories(T) \subseteq Paths
         /\ \A d : d \in Directories(T) <=>
              \E f \in DOMAIN T : \E i \in 1 .. Len(f[1]) : d = SubSeq(f[1], 1, i)
         /\ \A d \in Directories(T) : \A i \in 1 .. Len(d) : SubSeq(d, 1, i) \in Directories(T)
         /\ \A f \in DOMAIN T : f[1] # <<>> => f[1] \in Directories(T)
         /\ \A f \in DOMAIN T : f[1] \in Seq(Names)
         /\ \A f \in DOMAIN T : f = <<f[1], f[2]>>
<1>1. ASSUME NEW d
      PROVE  d \in Directories(T) <=>
               \E f \in DOMAIN T : \E i \in 1 .. Len(f[1]) : d = SubSeq(f[1], 1, i)
  BY DEF Directories
<1>2. ASSUME NEW f \in DOMAIN T  PROVE  f[1] \in Seq(Names) /\ f = <<f[1], f[2]>>
  <2>1. RootFile[1] = <<>> /\ RootFile = <<RootFile[1], RootFile[2]>>
    BY DEF RootFile
  <2>2. CASE f = RootFile
    <3>1. <<>> \in Seq(Names)
      OBVIOUS
    <3> QED
      BY <2>1, <2>2, <3>1
  <2>3. CASE f # RootFile
    BY <2>3
  <2> QED
    BY <2>2, <2>3
<1>3. ASSUME NEW f \in DOMAIN T, NEW i \in 1 .. Len(f[1])  PROVE  f[1] \in Paths
  <2>1. f[1] \in Seq(Names) /\ Len(f[1]) # 0 /\ Len(<<>>) = 0
    BY <1>2
  <2> QED
    BY <2>1 DEF Paths
<1>4. ASSUME NEW d \in Directories(T)
      PROVE  d \in Paths /\ \A i \in 1 .. Len(d) : SubSeq(d, 1, i) \in Directories(T)
  <2>0. PICK f \in DOMAIN T : \E i \in 1 .. Len(f[1]) : d = SubSeq(f[1], 1, i)
    BY <1>1
  <2>1. PICK i \in 1 .. Len(f[1]) : d = SubSeq(f[1], 1, i)
    BY <2>0
  <2>2. f[1] \in Paths
    BY <1>3
  <2>3. d \in Paths /\ Len(d) = i /\ \A j \in 1 .. i : SubSeq(d, 1, j) = SubSeq(f[1], 1, j)
    BY <2>1, <2>2, BeginningOf
  <2>4. ASSUME NEW j \in 1 .. i  PROVE  SubSeq(f[1], 1, j) \in Directories(T)
    <3>1. j \in 1 .. Len(f[1])
      BY <2>2, PlaceOf
    <3> QED
      BY <1>1, <3>1
  <2> QED
    BY <2>3, <2>4
<1>5. ASSUME NEW f \in DOMAIN T, f[1] # <<>>  PROVE  f[1] \in Directories(T)
  <2>1. f[1] \in Paths
    BY <1>2, <1>5 DEF Paths
  <2>2. f[1] \in Seq(Names) /\ Len(f[1]) \in 1 .. Len(f[1])
    BY <2>1, PlaceOf DEF Paths
  <2>3. f[1] = SubSeq(f[1], 1, Len(f[1]))
    BY <2>2, SubSeqFull
  <2> QED
    BY <1>1, <2>2, <2>3
<1> QED
  BY <1>1, <1>2, <1>4, <1>5

(* What Put leaves alone and what it writes.                                *)
LEMMA PutOf ==
  ASSUME NEW T, NEW f, NEW node
  PROVE  /\ DOMAIN Put(T, f, node) = DOMAIN T \cup {f}
         /\ Put(T, f, node)[f] = node
         /\ \A g \in DOMAIN T : g # f => Put(T, f, node)[g] = T[g]
         /\ Put(T, f, node) = [g \in DOMAIN Put(T, f, node) |-> Put(T, f, node)[g]]
BY DEF Put

(* An index or root.json may be written.                                    *)
LEMMA WriteFiled ==
  ASSUME NEW T, FiledTree(T), NEW f, f = RootFile \/ f \in Indexes, NEW node, node.tools = {}
  PROVE  FiledTree(Put(T, f, node))
<1> DEFINE new == Put(T, f, node)
<1>1. /\ DOMAIN new = DOMAIN T \cup {f}
      /\ new[f] = node
      /\ \A g \in DOMAIN T : g # f => new[g] = T[g]
      /\ new = [g \in DOMAIN new |-> new[g]]
  BY DEF Put
<1> HIDE DEF new
<1>2. IsFiniteSet(DOMAIN new)
  BY <1>1, FS_AddElement DEF FiledTree
<1>3. DOMAIN new \subseteq {RootFile} \cup (Seq(Names) \X Names)
  BY <1>1 DEF FiledTree, Indexes, Paths
<1>4. RootFile \in DOMAIN new => new[RootFile].tools = {}
  BY <1>1 DEF FiledTree
<1>5. \A g \in DOMAIN new : new[g].tools = {} => g = RootFile \/ g \in Indexes
  BY <1>1 DEF FiledTree
<1>6. \A g \in DOMAIN new : new[g].tools # {} =>
        new[g].ok /\ \E t : new[g].tools = {t} /\ t.name = g[2]
  <2> SUFFICES ASSUME NEW g \in DOMAIN new, new[g].tools # {}
               PROVE  new[g].ok /\ \E t : new[g].tools = {t} /\ t.name = g[2]
    OBVIOUS
  <2>1. g \in DOMAIN T /\ new[g] = T[g] /\ T[g].tools # {}
    BY <1>1
  <2>2. T[g].ok /\ \E t : T[g].tools = {t} /\ t.name = g[2]
    BY <2>1 DEF FiledTree
  <2> QED
    BY <2>1, <2>2, Zenon
<1>7. \A g, h \in DOMAIN new : g # h => new[g].tools \cap new[h].tools = {}
  BY <1>1 DEF FiledTree
<1>8. FiledTree(new)
  BY <1>1, <1>2, <1>3, <1>4, <1>5, <1>6, <1>7 DEF FiledTree
<1> QED
  BY <1>8 DEF new
-----------------------------------------------------------------------------
(* A finite tree has finitely many directories.                             *)
LEMMA DirectoriesFinite ==
  ASSUME NEW T, FiledTree(T)
  PROVE  IsFiniteSet(Directories(T))
<1> DEFINE C == [f \in DOMAIN T |-> {SubSeq(f[1], 1, i) : i \in 1 .. Len(f[1])}]
<1>1. ASSUME NEW f \in DOMAIN T  PROVE  IsFiniteSet(C[f])
  <2> DEFINE g == [i \in 1 .. Len(f[1]) |-> SubSeq(f[1], 1, i)]
  <2>1. Len(f[1]) \in Nat
    <3>1. f[1] \in Seq(Names)
      BY DirectoriesOf DEF FiledTree
    <3> QED
      BY <3>1
  <2>2. IsFiniteSet(1 .. Len(f[1]))
    BY <2>1, FS_Interval
  <2>3. C[f] = {g[i] : i \in 1 .. Len(f[1])}
    OBVIOUS
  <2> HIDE DEF g
  <2>4. IsFiniteSet({g[i] : i \in 1 .. Len(f[1])})
    BY <2>2, ImageFinite
  <2> QED
    BY <2>3, <2>4
<1>2. Directories(T) = UNION {C[f] : f \in DOMAIN T}
  BY DEF Directories
<1> HIDE DEF C
<1>3. IsFiniteSet(UNION {C[f] : f \in DOMAIN T})
  BY <1>1, UnionFinite DEF FiledTree
<1> QED
  BY <1>2, <1>3

(* Regenerate visits every directory once, those below another before it.   *)
LEMMA VisitsOf ==
  ASSUME NEW T, FiledTree(T)
  PROVE  /\ Visits(T) \in Seq(Directories(T))
         /\ Visits(T) \in Seq(Paths)
         /\ Len(Visits(T)) \in Nat
         /\ Len(Visits(T)) = 0 <=> Directories(T) = {}
         /\ \A d \in Directories(T) : \E i \in 1 .. Len(Visits(T)) : Visits(T)[i] = d
         /\ \A i, j \in 1 .. Len(Visits(T)) : i < j => ~IsPrefix(Visits(T)[i], Visits(T)[j])
<1> DEFINE ds == Directories(T)
           R == {p \in ds \X ds : VisitedBefore(p[1], p[2])}
           s == SortedBy(ds, R)
           n == Cardinality(ds)
<1>1. ds \subseteq Paths /\ IsFiniteSet(ds)
  BY DirectoriesOf, DirectoriesFinite DEF FiledTree
<1>2. StrictOrder(ds, R)
  BY <1>1, VisitsOrdered, Zenon
<1>3. Visits(T) = s
  BY DEF Visits, InVisitOrder
<1>4. \A x, y \in ds : <<x, y>> \in R => VisitedBefore(x, y)
  OBVIOUS
<1> HIDE DEF ds, R, s
<1>5. /\ n \in Nat
      /\ s \in Seq(ds)
      /\ Len(s) = n
      /\ \A i, j \in 1 .. n : i < j => <<s[i], s[j]>> \in R
      /\ \A x \in ds : \E i \in 1 .. n : s[i] = x
  BY <1>1, <1>2, SortedBySet DEF s
<1>6. \A i \in 1 .. n : s[i] \in ds
  BY <1>5
<1>7. s \in Seq(Paths)
  BY <1>1, <1>5
<1>8. n = 0 <=> ds = {}
  BY <1>1, FS_EmptySet
<1>9. ASSUME NEW i \in 1 .. n, NEW j \in 1 .. n, i < j  PROVE  ~IsPrefix(s[i], s[j])
  <2>1. VisitedBefore(s[i], s[j]) /\ s[i] \in Paths /\ s[j] \in Paths
    BY <1>1, <1>4, <1>5, <1>6, <1>9
  <2> QED
    BY <2>1, NoneBelowLater
<1> QED
  BY <1>3, <1>5, <1>7, <1>8, <1>9 DEF ds

(* RegeneratedIndexes goes through the visits one by one: there are trees,  *)
(* each made from the one before it, that lead to its result.               *)
LEMMA OneByOne ==
  ASSUME NEW T, Len(Visits(T)) \in Nat
  PROVE  \E g : /\ g[0] = T
                /\ \A n \in 1 .. Len(Visits(T)) : g[n] = RegeneratedIndex(g[n - 1], Visits(T)[n])
                /\ RegeneratedIndexes(T) = g[Len(Visits(T))]
<1> DEFINE visits == Visits(T)
           N == Len(visits)
           Step(g, n) == IF n = 0 THEN T ELSE RegeneratedIndex(g[n - 1], visits[n])
           P == {m \in Nat : \E g : g = [n \in 0 .. m |-> Step(g, n)]}
<1>1. 0 \in P
  <2> DEFINE g == [n \in 0 .. 0 |-> T]
  <2>1. g = [n \in 0 .. 0 |-> Step(g, n)]
    OBVIOUS
  <2> QED
    BY <2>1
<1>2. ASSUME NEW m \in Nat, m \in P  PROVE  m + 1 \in P
  <2>1. PICK g : g = [n \in 0 .. m |-> Step(g, n)]
    BY <1>2
  <2> DEFINE x == RegeneratedIndex(g[m], visits[m + 1])
             h == [n \in 0 .. (m + 1) |-> IF n = m + 1 THEN x ELSE g[n]]
  <2>2. \A n \in 0 .. (m + 1) : h[n] = Step(h, n)
    <3> SUFFICES ASSUME NEW n \in 0 .. (m + 1)  PROVE  h[n] = Step(h, n)
      OBVIOUS
    <3> HIDE DEF x
    <3>1. CASE n = m + 1
      <4>1. h[n] = x /\ n # 0 /\ n - 1 = m /\ h[m] = g[m]
        BY <3>1
      <4> QED
        BY <3>1, <4>1 DEF x
    <3>2. CASE n # m + 1
      <4>1. n \in 0 .. m /\ h[n] = g[n]
        BY <3>2
      <4>2. g[n] = Step(g, n)
        BY <2>1, <4>1
      <4>3. n # 0 => h[n - 1] = g[n - 1]
        BY <4>1
      <4> HIDE DEF h
      <4> QED
        BY <4>1, <4>2, <4>3
    <3> QED
      BY <3>1, <3>2
  <2>3. h = [n \in 0 .. (m + 1) |-> h[n]]
    OBVIOUS
  <2> HIDE DEF h, x, Step
  <2>4. h = [n \in 0 .. (m + 1) |-> Step(h, n)]
    BY <2>2, <2>3
  <2> QED
    BY <2>4
<1>3. N \in P
  <2> HIDE DEF P
  <2> QED  BY <1>1, <1>2, AllNumbers
<1> DEFINE after == CHOOSE g : g = [n \in 0 .. N |-> Step(g, n)]
<1>4. after = [n \in 0 .. N |-> Step(after, n)]
  BY <1>3
<1>5. RegeneratedIndexes(T) = after[N]
  BY DEF RegeneratedIndexes
<1> HIDE DEF after
<1>6. after[0] = T
  BY <1>4
<1>7. \A n \in 1 .. N : after[n] = RegeneratedIndex(after[n - 1], visits[n])
  BY <1>4
<1> QED
  BY <1>5, <1>6, <1>7

(* RegenerateDirectory keeps a tree filed.                                  *)
LEMMA IndexFiled ==
  ASSUME NEW T, FiledTree(T), NEW d \in Paths
  PROVE  FiledTree(RegeneratedIndex(T, d))
<1>1. Branch(FinalOverview(T, d)).tools = {}
  BY DEF Branch
<1>2. IndexOf(d) \in Indexes
  BY IndexFile
<1>3. FiledTree(Put(T, IndexOf(d), Branch(FinalOverview(T, d))))
  BY <1>1, <1>2, WriteFiled
<1> QED
  BY <1>3 DEF RegeneratedIndex

(* So does Regenerate.                                                      *)
LEMMA IndexesFiled ==
  ASSUME NEW T, FiledTree(T)
  PROVE  FiledTree(RegeneratedIndexes(T))
<1> DEFINE V == Visits(T)
           N == Len(V)
<1>1. N \in Nat /\ \A n \in 1 .. N : V[n] \in Paths
  BY VisitsOf
<1> HIDE DEF V
<1>2. PICK g : /\ g[0] = T
               /\ \A n \in 1 .. N : g[n] = RegeneratedIndex(g[n - 1], V[n])
               /\ RegeneratedIndexes(T) = g[N]
  BY <1>1, OneByOne DEF V
<1> DEFINE P == {n \in Nat : n <= N => FiledTree(g[n])}
<1>3. 0 \in P
  BY <1>2
<1>4. ASSUME NEW n \in Nat, n \in P  PROVE  n + 1 \in P
  <2> SUFFICES ASSUME n + 1 <= N  PROVE  FiledTree(g[n + 1])
    OBVIOUS
  <2>1. n + 1 \in 1 .. N /\ (n + 1) - 1 = n /\ FiledTree(g[n])
    BY <1>1, <1>4
  <2>2. g[n + 1] = RegeneratedIndex(g[n], V[n + 1]) /\ V[n + 1] \in Paths
    BY <1>1, <1>2, <2>1
  <2> QED
    BY <2>1, <2>2, IndexFiled
<1>5. N \in P
  <2> HIDE DEF P
  <2> QED  BY <1>1, <1>3, <1>4, AllNumbers
<1> QED
  BY <1>1, <1>2, <1>5

(* The files of one provider.                                               *)
LEMMA ServerFilesOf ==
  ASSUME NEW s, s.name \in Names, s.tools \in Seq(Range(s.tools)),
         \A t \in Range(s.tools) : t.name \in Names /\ t.name # s.name
  PROVE  /\ IsFiniteSet(DOMAIN ServerFiles(s))
         /\ \A f \in DOMAIN ServerFiles(s) :
              /\ f \in Paths \X Names /\ f[1] = <<s.name>>
              /\ f \in Indexes => ServerFiles(s)[f].tools = {}
              /\ f \notin Indexes =>
                   /\ ServerFiles(s)[f].ok
                   /\ \E t : ServerFiles(s)[f].tools = {t} /\ t.name = f[2] /\ t.server = s.name
<1> DEFINE dir == <<s.name>>
           F == {<<dir, t.name>> : t \in Range(s.tools)}
           leaf(t) == Leaf([name |-> t.name, server |-> s.name, description |-> t.description])
           tree == [f \in F |-> leaf(CHOOSE t \in Range(s.tools) : t.name = f[2])]
<1>1. dir \in Paths /\ Last(dir) = s.name
  BY DEF Paths, Last
<1>2. PICK o : ServerFiles(s) = Put(tree, IndexOf(dir), Branch(o))
  BY DEF ServerFiles
<1>3. /\ DOMAIN ServerFiles(s) = F \cup {IndexOf(dir)}
      /\ ServerFiles(s)[IndexOf(dir)] = Branch(o)
      /\ \A f \in F : f # IndexOf(dir) => ServerFiles(s)[f] = tree[f]
  BY <1>2 DEF Put
<1>4. IsFiniteSet(F)
  <2> DEFINE g == [i \in DOMAIN s.tools |-> <<dir, s.tools[i].name>>]
  <2>1. DOMAIN s.tools = 1 .. Len(s.tools) /\ Len(s.tools) \in Nat
    OBVIOUS
  <2>2. IsFiniteSet(DOMAIN s.tools)
    BY <2>1, FS_Interval
  <2>3. F = {g[i] : i \in DOMAIN s.tools}
    BY DEF Range
  <2> HIDE DEF F, g
  <2> QED
    BY <2>2, <2>3, ImageFinite
<1>5. IsFiniteSet(DOMAIN ServerFiles(s))
  BY <1>3, <1>4, FS_AddElement
<1>6. ASSUME NEW f \in DOMAIN ServerFiles(s)
      PROVE  /\ f \in Paths \X Names /\ f[1] = dir
             /\ f \in Indexes => ServerFiles(s)[f].tools = {}
             /\ f \notin Indexes =>
                  /\ ServerFiles(s)[f].ok
                  /\ \E t : ServerFiles(s)[f].tools = {t} /\ t.name = f[2] /\ t.server = s.name
  <2>1. CASE f = IndexOf(dir)
    BY <1>1, <1>3, <2>1, IndexFile DEF Branch
  <2>2. CASE f # IndexOf(dir)
    <3>1. PICK t \in Range(s.tools) : f = <<dir, t.name>>
      BY <1>3, <2>2
    <3>2. f \in Paths \X Names /\ f[1] = dir /\ f[2] = t.name /\ f \notin Indexes
      BY <1>1, <3>1 DEF Indexes
    <3> DEFINE u == CHOOSE x \in Range(s.tools) : x.name = f[2]
    <3>3. u \in Range(s.tools) /\ u.name = f[2]
      BY <3>2
    <3>4. ServerFiles(s)[f] = leaf(u)
      BY <1>3, <2>2, <3>1
    <3> DEFINE v == [name |-> u.name, server |-> s.name, description |-> u.description]
    <3>5. leaf(u).ok /\ leaf(u).tools = {v} /\ v.name = f[2] /\ v.server = s.name
      BY <3>3 DEF Leaf
    <3> HIDE DEF u, v, leaf
    <3> QED
      BY <3>2, <3>4, <3>5
  <2> QED
    BY <2>1, <2>2
<1> QED
  BY <1>5, <1>6

(* Valid names: no tool is named like its provider.                         *)
LEMMA ValidNamesDiffer ==
  ASSUME NEW servers \in Inputs, ValidNames(servers), NEW s \in Range(servers)
  PROVE  /\ s.name \in Names /\ s.tools \in Seq(Range(s.tools))
         /\ \A t \in Range(s.tools) : t.name \in Names /\ t.name # s.name
<1>1. ProviderList(servers)
  BY InputsAssumption
<1>2. PICK i \in DOMAIN servers : s = servers[i]
  BY DEF Range
<1>3. \A t \in Range(s.tools) : Fold[t.name] # Fold[s.name]
  BY <1>2 DEF ValidNames
<1>4. \A t \in Range(s.tools) : t.name # s.name
  BY <1>3
<1> QED
  BY <1>1, <1>4 DEF ProviderList

(* The files of all providers.                                              *)
LEMMA ServersFiled ==
  ASSUME NEW servers \in Inputs, ValidNames(servers)
  PROVE  FiledTree(AllServers(servers))
<1> DEFINE T == AllServers(servers)
           files == [s \in Range(servers) |-> DOMAIN ServerFiles(s)]
<1>1. /\ DOMAIN T = UNION {files[s] : s \in Range(servers)}
      /\ T = [f \in DOMAIN T |-> T[f]]
  BY DEF AllServers
<1>2. ASSUME NEW f \in DOMAIN T
      PROVE  \E s \in Range(servers) : f \in DOMAIN ServerFiles(s) /\ T[f] = ServerFiles(s)[f]
  <2> DEFINE s == CHOOSE x \in Range(servers) : f \in DOMAIN ServerFiles(x)
  <2>1. \E x \in Range(servers) : f \in DOMAIN ServerFiles(x)
    BY <1>1
  <2>2. s \in Range(servers) /\ f \in DOMAIN ServerFiles(s)
    BY <2>1
  <2>3. T[f] = ServerFiles(s)[f]
    BY DEF AllServers
  <2> HIDE DEF s
  <2> QED
    BY <2>2, <2>3
<1>3. ASSUME NEW f \in DOMAIN T
      PROVE  /\ f \in Paths \X Names
             /\ f \in Indexes => T[f].tools = {}
             /\ f \notin Indexes =>
                  T[f].ok /\ \E t : T[f].tools = {t} /\ t.name = f[2] /\ <<t.server>> = f[1]
  <2>1. PICK s \in Range(servers) : f \in DOMAIN ServerFiles(s) /\ T[f] = ServerFiles(s)[f]
    BY <1>2
  <2>2. /\ f \in Paths \X Names /\ f[1] = <<s.name>>
        /\ f \in Indexes => ServerFiles(s)[f].tools = {}
        /\ f \notin Indexes =>
             /\ ServerFiles(s)[f].ok
             /\ \E t : ServerFiles(s)[f].tools = {t} /\ t.name = f[2] /\ t.server = s.name
    BY <2>1, ValidNamesDiffer, ServerFilesOf
  <2> HIDE DEF T
  <2>3. ASSUME f \notin Indexes
        PROVE  T[f].ok /\ \E t : T[f].tools = {t} /\ t.name = f[2] /\ <<t.server>> = f[1]
    BY <2>1, <2>2, <2>3
  <2> QED
    BY <2>1, <2>2, <2>3
<1> HIDE DEF T
<1>4. IsFiniteSet(DOMAIN T)
  <2>1. DOMAIN servers = 1 .. Len(servers) /\ Len(servers) \in Nat
    BY InputsAssumption DEF ProviderList
  <2>2. IsFiniteSet(DOMAIN servers)
    BY <2>1, FS_Interval
  <2>3. IsFiniteSet(Range(servers))
    BY <2>2, ImageFinite DEF Range
  <2>4. \A s \in Range(servers) : IsFiniteSet(files[s])
    BY ValidNamesDiffer, ServerFilesOf
  <2> HIDE DEF files
  <2> QED
    BY <1>1, <2>3, <2>4, UnionFinite
<1>5. \A f, g \in DOMAIN T : f # g => T[f].tools \cap T[g].tools = {}
  <2> SUFFICES ASSUME NEW f \in DOMAIN T, NEW g \in DOMAIN T, NEW t,
                      t \in T[f].tools, t \in T[g].tools
               PROVE  f = g
    OBVIOUS
  <2>1. f \notin Indexes /\ g \notin Indexes
    BY <1>3
  <2>2. t.name = f[2] /\ <<t.server>> = f[1]
    BY <1>3, <2>1
  <2>3. t.name = g[2] /\ <<t.server>> = g[1]
    BY <1>3, <2>1
  <2>4. f = <<f[1], f[2]>> /\ g = <<g[1], g[2]>>
    BY <1>3, IndexIsOf
  <2> QED
    BY <2>2, <2>3, <2>4
<1>6. DOMAIN T \subseteq {RootFile} \cup (Seq(Names) \X Names) /\ RootFile \notin DOMAIN T
  BY <1>3, IndexIsOf DEF Paths
<1>7. \A f \in DOMAIN T : T[f].tools = {} => f = RootFile \/ f \in Indexes
  BY <1>3
<1>8. \A f \in DOMAIN T : T[f].tools # {} =>
        T[f].ok /\ \E t : T[f].tools = {t} /\ t.name = f[2]
  <2> SUFFICES ASSUME NEW f \in DOMAIN T, T[f].tools # {}
               PROVE  T[f].ok /\ \E t : T[f].tools = {t} /\ t.name = f[2]
    OBVIOUS
  <2> QED
    BY <1>3
<1>9. FiledTree(T)
  BY <1>1, <1>4, <1>5, <1>6, <1>7, <1>8 DEF FiledTree
<1> QED
  BY <1>9 DEF T

(* What generateStructure makes is filed.                                   *)
LEMMA GeneratedFiled ==
  ASSUME NEW T \in Generated
  PROVE  FiledTree(T)
<1>1. PICK servers \in Inputs : ValidNames(servers) /\ T = GeneratedTree(servers)
  BY DEF Generated
<1>2. PICK ds : T = RegeneratedRoot(RegeneratedIndexes(AllServers(servers)), ds)
  BY <1>1 DEF GeneratedTree, Regenerated
<1>3. FiledTree(RegeneratedIndexes(AllServers(servers)))
  BY <1>1, ServersFiled, IndexesFiled
<1>4. \A o : Branch(o).tools = {}
  BY DEF Branch
<1> QED
  BY <1>2, <1>3, <1>4, WriteFiled DEF RegeneratedRoot

-----------------------------------------------------------------------------
(* Files may be moved, one to a place, under their names, root.json staying *)
(* where it is and an index becoming that of another directory.             *)
LEMMA MoveFiled ==
  ASSUME NEW T, FiledTree(T), NEW to, \A f, g \in DOMAIN T : to[f] = to[g] => f = g,
         \A f \in DOMAIN T :
           /\ to[f] \in {RootFile} \cup (Seq(Names) \X Names)
           /\ to[f][2] = f[2]
           /\ to[f] = RootFile <=> f = RootFile
           /\ T[f].tools = {} /\ f \in Indexes => to[f] \in Indexes
  PROVE  FiledTree(Moved(T, to))
<1> DEFINE new == Moved(T, to)
<1>1. /\ \A g : g \in DOMAIN new <=> \E f \in DOMAIN T : g = to[f]
      /\ \A f \in DOMAIN T : new[to[f]] = T[f]
      /\ new = [g \in DOMAIN new |-> new[g]]
  BY MovedOf
<1>2. IsFiniteSet(DOMAIN new)
  <2>1. DOMAIN new = {to[f] : f \in DOMAIN T}
    BY DEF Moved
  <2> QED
    BY <2>1, ImageFinite DEF FiledTree
<1> HIDE DEF new
<1>3. ASSUME NEW g \in DOMAIN new
      PROVE  \E f \in DOMAIN T : g = to[f] /\ new[g] = T[f] /\ g[2] = f[2]
  BY <1>1
<1>4. DOMAIN new \subseteq {RootFile} \cup (Seq(Names) \X Names)
  BY <1>3
<1>5. RootFile \in DOMAIN new => new[RootFile].tools = {}
  BY <1>3 DEF FiledTree
<1>6. \A g \in DOMAIN new : new[g].tools = {} => g = RootFile \/ g \in Indexes
  BY <1>3 DEF FiledTree
<1>7. \A g \in DOMAIN new : new[g].tools # {} =>
        new[g].ok /\ \E t : new[g].tools = {t} /\ t.name = g[2]
  <2> SUFFICES ASSUME NEW g \in DOMAIN new, new[g].tools # {}
               PROVE  new[g].ok /\ \E t : new[g].tools = {t} /\ t.name = g[2]
    OBVIOUS
  <2>1. PICK f \in DOMAIN T : new[g] = T[f] /\ g[2] = f[2]
    BY <1>3
  <2>2. T[f].ok /\ \E t : T[f].tools = {t} /\ t.name = f[2]
    BY <2>1 DEF FiledTree
  <2> QED
    BY <2>1, <2>2
<1>8. \A g, h \in DOMAIN new : g # h => new[g].tools \cap new[h].tools = {}
  BY <1>3 DEF FiledTree
<1>9. FiledTree(new)
  BY <1>1, <1>2, <1>4, <1>5, <1>6, <1>7, <1>8 DEF FiledTree
<1> QED
  BY <1>9 DEF new

(* A tool file goes to a place that is free.                                *)
LEMMA ToolMoves ==
  ASSUME NEW T, FiledTree(T), NEW f \in DOMAIN T, T[f].tools # {},
         NEW d \in Seq(Names), <<d, f[2]>> \notin DOMAIN T, RootFile \in DOMAIN T,
         NEW to, to[f] = <<d, f[2]>>, \A g \in DOMAIN T : g # f => to[g] = g
  PROVE  /\ \A g, h \in DOMAIN T : to[g] = to[h] => g = h
         /\ to[RootFile] = RootFile
         /\ \A g \in DOMAIN T :
              /\ to[g] \in {RootFile} \cup (Seq(Names) \X Names)
              /\ to[g][2] = g[2]
              /\ to[g] = RootFile <=> g = RootFile
              /\ T[g].tools = {} /\ g \in Indexes => to[g] \in Indexes
<1> DEFINE h == <<d, f[2]>>
<1>1. f # RootFile /\ h # RootFile
  BY DEF FiledTree
<1>2. f \in Seq(Names) \X Names
  BY <1>1 DEF FiledTree
<1>3. h \in Seq(Names) \X Names /\ h[2] = f[2]
  BY <1>2
<1>4. to[f] = h
  OBVIOUS
<1> HIDE DEF h
<1>5. h \notin DOMAIN T
  BY DEF h
<1>6. DOMAIN T \subseteq {RootFile} \cup (Seq(Names) \X Names)
  BY DEF FiledTree
<1> QED
  BY <1>1, <1>3, <1>4, <1>5, <1>6

(* A path below d, with w in the place of d.                                *)
Rebase(d, w, p) == w \o SubSeq(p, Len(d) + 1, Len(p))

(* It ends as before and begins with w.                                     *)
LEMMA Rebased ==
  ASSUME NEW d \in Paths, NEW w \in Paths, Last(w) = Last(d),
         NEW p \in Seq(Names), IsPrefix(d, p)
  PROVE  /\ Rebase(d, w, p) \in Paths /\ Last(Rebase(d, w, p)) = Last(p)
         /\ Len(Rebase(d, w, p)) = Len(w) + Len(p) - Len(d)
         /\ Len(w) \in 1 .. Len(Rebase(d, w, p)) /\ SubSeq(Rebase(d, w, p), 1, Len(w)) = w
         /\ \A i \in Len(d) + 1 .. Len(p) : Rebase(d, w, p)[Len(w) + i - Len(d)] = p[i]
         /\ Len(d) <= Len(p) /\ \A i \in 1 .. Len(d) : p[i] = d[i]
         /\ p # <<>> /\ Len(p) \in Nat
<1> DEFINE r == Rebase(d, w, p)
           b == SubSeq(p, Len(d) + 1, Len(p))
<1>1. /\ d \in Seq(Names) /\ w \in Seq(Names) /\ Len(d) \in Nat /\ Len(w) \in Nat
      /\ Len(d) >= 1 /\ Len(w) >= 1 /\ Len(p) \in Nat
  BY PlaceOf DEF Paths
<1>2. p # <<>> /\ p \in Paths
  BY BeginsWith DEF Paths
<1>3. Len(d) <= Len(p) /\ d = SubSeq(p, 1, Len(d))
  BY <1>2, BeginsWith
<1>4. \A i \in 1 .. Len(d) : p[i] = d[i]
  <2>1. \A i \in 1 .. Len(d) : SubSeq(p, 1, Len(d))[i] = p[i]
    BY <1>1, <1>3
  <2> QED
    BY <1>3, <2>1
<1>5. /\ b \in Seq(Names) /\ Len(b) = Len(p) - Len(d)
      /\ \A i \in 1 .. Len(b) : b[i] = p[Len(d) + i]
  BY <1>1, <1>3
<1> HIDE DEF b
<1>6. r = w \o b
  BY DEF b, r, Rebase
<1> HIDE DEF r
<1>7. /\ r \in Seq(Names) /\ Len(r) = Len(w) + Len(b)
      /\ \A i \in 1 .. Len(w) : r[i] = w[i]
      /\ \A i \in 1 .. Len(b) : r[Len(w) + i] = b[i]
  <2>1. \A i \in 1 .. (Len(w) + Len(b)) : (w \o b)[i] = IF i <= Len(w) THEN w[i] ELSE b[i - Len(w)]
    BY <1>1, <1>5, ConcatProperties
  <2>2. w \o b \in Seq(Names) /\ Len(w \o b) = Len(w) + Len(b) /\ Len(b) \in Nat
    <3>1. Len(b) \in Nat
      BY <1>5
    <3> QED
      BY <1>1, <1>5, <3>1, ConcatProperties, Zenon
  <2>3. ASSUME NEW i \in 1 .. Len(w)  PROVE  r[i] = w[i]
    BY <1>1, <1>6, <2>1, <2>2
  <2>4. ASSUME NEW i \in 1 .. Len(b)  PROVE  r[Len(w) + i] = b[i]
    <3>1. Len(w) + i \in 1 .. (Len(w) + Len(b)) /\ ~(Len(w) + i <= Len(w)) /\ (Len(w) + i) - Len(w) = i
      BY <1>1, <2>2
    <3> QED
      BY <1>6, <2>1, <3>1
  <2> QED
    BY <1>6, <2>2, <2>3, <2>4
<1>8. r \in Paths /\ Len(r) \in Nat /\ Len(w) \in 1 .. Len(r)
  <2>1. Len(r) # 0 /\ Len(<<>>) = 0
    BY <1>1, <1>5, <1>7
  <2> QED
    BY <1>1, <1>5, <1>7, <2>1 DEF Paths
<1>9. \A i \in Len(d) + 1 .. Len(p) : r[Len(w) + i - Len(d)] = p[i]
  <2> SUFFICES ASSUME NEW i \in Len(d) + 1 .. Len(p)  PROVE  r[Len(w) + i - Len(d)] = p[i]
    OBVIOUS
  <2> DEFINE k == i - Len(d)
  <2>1. k \in 1 .. Len(b) /\ Len(w) + k = Len(w) + i - Len(d) /\ Len(d) + k = i
    BY <1>1, <1>5
  <2> HIDE DEF k
  <2>2. r[Len(w) + k] = b[k] /\ b[k] = p[Len(d) + k]
    BY <1>5, <1>7, <2>1
  <2> QED
    BY <2>1, <2>2
<1>10. SubSeq(r, 1, Len(w)) = w
  <2>1. /\ SubSeq(r, 1, Len(w)) \in Seq(Names) /\ Len(SubSeq(r, 1, Len(w))) = Len(w)
        /\ \A i \in 1 .. Len(w) : SubSeq(r, 1, Len(w))[i] = r[i]
    BY <1>8, BeginningOf DEF Paths
  <2> QED
    BY <1>1, <1>7, <2>1, SeqEqual
<1>11. Last(r) = Last(p)
  <2>1. CASE Len(p) = Len(d)
    <3>1. Len(r) = Len(w) /\ r[Len(w)] = w[Len(w)] /\ p[Len(d)] = d[Len(d)]
      BY <1>1, <1>4, <1>5, <1>7, <2>1
    <3> QED
      BY <2>1, <3>1 DEF Last
  <2>2. CASE Len(p) # Len(d)
    <3>1. Len(p) \in Len(d) + 1 .. Len(p)
      BY <1>1, <1>3, <2>2
    <3>2. Len(w) + Len(p) - Len(d) = Len(r)
      BY <1>1, <1>5, <1>7
    <3> QED
      BY <1>9, <3>1, <3>2 DEF Last
  <2> QED
    BY <2>1, <2>2
<1> QED
  BY <1>1, <1>2, <1>3, <1>4, <1>5, <1>7, <1>8, <1>9, <1>10, <1>11 DEF r

(* Where the files of directory d go when it becomes w.                     *)
FolderTo(T, d, w) ==
  [g \in DOMAIN T |-> IF IsPrefix(d, g[1]) THEN <<Rebase(d, w, g[1]), g[2]>> ELSE g]

(* A directory goes, with all in it, to a place where there is none: what   *)
(* was below it is not confused with what is below others.                  *)
LEMMA FolderMoves ==
  ASSUME NEW T, FiledTree(T), NEW d \in Directories(T),
         NEW w \in Paths, Last(w) = Last(d), w \notin Directories(T)
  PROVE  /\ \A g, h \in DOMAIN T : FolderTo(T, d, w)[g] = FolderTo(T, d, w)[h] => g = h
         /\ RootFile \in DOMAIN T => FolderTo(T, d, w)[RootFile] = RootFile
         /\ \A g \in DOMAIN T :
              /\ FolderTo(T, d, w)[g] \in {RootFile} \cup (Seq(Names) \X Names)
              /\ FolderTo(T, d, w)[g][2] = g[2]
              /\ FolderTo(T, d, w)[g] = RootFile <=> g = RootFile
              /\ T[g].tools = {} /\ g \in Indexes => FolderTo(T, d, w)[g] \in Indexes
<1> DEFINE to == FolderTo(T, d, w)
<1>0. DOMAIN T \subseteq {RootFile} \cup (Seq(Names) \X Names)
  BY DEF FiledTree
<1>1. /\ d \in Paths
      /\ \A f \in DOMAIN T : \A i \in 1 .. Len(f[1]) : SubSeq(f[1], 1, i) \in Directories(T)
      /\ \A f \in DOMAIN T : f[1] \in Seq(Names) /\ f = <<f[1], f[2]>>
  BY <1>0, DirectoriesOf
<1>3. ASSUME NEW p \in Seq(Names), IsPrefix(d, p)
      PROVE  /\ Rebase(d, w, p) \in Paths /\ Last(Rebase(d, w, p)) = Last(p)
             /\ Len(Rebase(d, w, p)) = Len(w) + Len(p) - Len(d)
             /\ Len(w) \in 1 .. Len(Rebase(d, w, p)) /\ SubSeq(Rebase(d, w, p), 1, Len(w)) = w
             /\ \A i \in Len(d) + 1 .. Len(p) : Rebase(d, w, p)[Len(w) + i - Len(d)] = p[i]
             /\ Len(d) <= Len(p) /\ \A i \in 1 .. Len(d) : p[i] = d[i]
             /\ p # <<>> /\ Len(p) \in Nat
  <2>1. d \in Paths /\ w \in Paths /\ Last(w) = Last(d) /\ p \in Seq(Names) /\ IsPrefix(d, p)
    BY <1>1, <1>3
  <2> QED
    BY ONLY <2>1, Rebased
<1>4. ASSUME NEW p \in Seq(Names), NEW q \in Seq(Names), IsPrefix(d, p), IsPrefix(d, q), Rebase(d, w, p) = Rebase(d, w, q)
      PROVE  p = q
  <2>1. Len(d) \in Nat /\ Len(w) \in Nat /\ Len(p) \in Nat /\ Len(q) \in Nat
    <3>1. Len(d) \in Nat /\ Len(w) \in Nat
      BY <1>1, PlaceOf
    <3> QED
      BY <1>3, <1>4, <3>1
  <2>2. Len(p) = Len(q)
    <3>1. Len(Rebase(d, w, p)) = Len(w) + Len(p) - Len(d) /\ Len(Rebase(d, w, q)) = Len(w) + Len(q) - Len(d)
      BY <1>3, <1>4
    <3> QED
      BY <1>4, <2>1, <3>1
  <2>3. ASSUME NEW i \in 1 .. Len(p)  PROVE  p[i] = q[i]
    <3>1. CASE i <= Len(d)
      <4>1. i \in 1 .. Len(d)
        BY <2>1, <3>1
      <4> QED
        BY <1>3, <1>4, <4>1
    <3>2. CASE ~(i <= Len(d))
      <4>1. i \in Len(d) + 1 .. Len(p) /\ i \in Len(d) + 1 .. Len(q)
        BY <2>1, <2>2, <3>2
      <4>2. Rebase(d, w, p)[Len(w) + i - Len(d)] = p[i]
        BY <1>3, <1>4, <4>1
      <4>3. Rebase(d, w, q)[Len(w) + i - Len(d)] = q[i]
        BY <1>3, <1>4, <4>1
      <4> QED
        BY <1>4, <4>2, <4>3
    <3> QED
      BY <3>1, <3>2
  <2> QED
    BY <2>2, <2>3, SeqEqual
<1>5. ASSUME NEW g \in DOMAIN T
      PROVE  /\ IsPrefix(d, g[1]) => /\ to[g] = <<Rebase(d, w, g[1]), g[2]>>
                                     /\ to[g][1] = Rebase(d, w, g[1])
                                     /\ to[g][2] = g[2]
             /\ ~IsPrefix(d, g[1]) => to[g] = g
  BY DEF FolderTo
<1> HIDE DEF to
<1>6. ASSUME NEW g \in DOMAIN T, NEW h \in DOMAIN T, IsPrefix(d, g[1]), ~IsPrefix(d, h[1])
      PROVE  to[g] # to[h]
  <2>1. to[g] = <<Rebase(d, w, g[1]), g[2]>> /\ to[h] = h
    BY <1>5, <1>6
  <2> SUFFICES ASSUME Rebase(d, w, g[1]) = h[1]  PROVE  FALSE
    BY <1>1, <2>1
  <2>2. g[1] \in Seq(Names)
    BY <1>1
  <2>3. Len(w) \in 1 .. Len(h[1]) /\ SubSeq(h[1], 1, Len(w)) = w
    BY <1>3, <1>6, <2>2
  <2> QED
    BY <1>1, <2>3
<1>7. ASSUME NEW g \in DOMAIN T, NEW h \in DOMAIN T, to[g] = to[h]  PROVE  g = h
  <2>1. CASE IsPrefix(d, g[1]) /\ IsPrefix(d, h[1])
    <3>1. Rebase(d, w, g[1]) = Rebase(d, w, h[1]) /\ g[2] = h[2]
      BY <1>5, <1>7, <2>1
    <3>2. g[1] = h[1]
      BY <1>1, <1>4, <2>1, <3>1
    <3> QED
      BY <1>1, <3>1, <3>2
  <2>2. CASE ~IsPrefix(d, g[1]) /\ ~IsPrefix(d, h[1])
    BY <1>5, <1>7, <2>2
  <2> QED
    BY <1>6, <1>7, <2>1, <2>2
<1>8. RootFile[1] = <<>> /\ ~IsPrefix(d, <<>>)
  BY <1>1, BeginsWith DEF RootFile
<1>9. ASSUME NEW g \in DOMAIN T
      PROVE  /\ to[g] \in {RootFile} \cup (Seq(Names) \X Names)
             /\ to[g][2] = g[2]
             /\ to[g] = RootFile <=> g = RootFile
             /\ T[g].tools = {} /\ g \in Indexes => to[g] \in Indexes
  <2>1. CASE IsPrefix(d, g[1])
    <3>1. g # RootFile
      BY <1>8, <2>1
    <3>2. g[1] \in Seq(Names) /\ g[2] \in Names
      BY <1>0, <3>1
    <3>3. Rebase(d, w, g[1]) \in Paths /\ Last(Rebase(d, w, g[1])) = Last(g[1])
      BY <1>3, <2>1, <3>2
    <3>4. to[g] = <<Rebase(d, w, g[1]), g[2]>>
      BY <1>5, <2>1
    <3>5. to[g] \in Paths \X Names /\ to[g][1] = Rebase(d, w, g[1]) /\ to[g][2] = g[2]
      <4>1. to[g][1] = Rebase(d, w, g[1]) /\ to[g][2] = g[2]
        BY <1>5, <2>1
      <4>2. \A x \in Paths, y \in Names : <<x, y>> \in Paths \X Names
        OBVIOUS
      <4> QED
        BY <3>2, <3>3, <3>4, <4>1, <4>2, Zenon
    <3>6. to[g] # RootFile
      BY <3>5, IndexIsOf
    <3>7. g \in Indexes => to[g] \in Indexes
      BY <3>3, <3>5 DEF Indexes
    <3> QED
      BY <3>1, <3>5, <3>6, <3>7 DEF Paths
  <2>2. CASE ~IsPrefix(d, g[1])
    <3>1. to[g] = g
      BY <1>5, <2>2
    <3> QED
      BY <1>0, <3>1
  <2> QED
    BY <2>1, <2>2
<1>10. RootFile \in DOMAIN T => to[RootFile] = RootFile
  BY <1>5, <1>8
<1> QED
  BY <1>7, <1>9, <1>10 DEF to
-----------------------------------------------------------------------------
(* All trees that commands and users handle are filed.                      *)
FiledAll == Filed(output) /\ \A c \in Commands : Filed(backup[c])

(* No tree and an empty one are filed.                                      *)
LEMMA EmptyFiled == Filed(Absent) /\ Filed(EmptyDirectory)
<1>1. DOMAIN EmptyDirectory = {} /\ EmptyDirectory = [f \in DOMAIN EmptyDirectory |-> EmptyDirectory[f]]
  BY DEF EmptyDirectory
<1>2. FiledTree(EmptyDirectory)
  BY <1>1, FS_EmptySet DEF FiledTree
<1> QED
  BY <1>2 DEF Filed

(* The directories where files can be put.                                  *)
LEMMA DirectoryPaths ==
  ASSUME output # Absent, Filed(output)
  PROVE  /\ Directories(output) \subseteq Paths
         /\ ({<<>>} \cup Directories(output) \cup NewDirectories) \subseteq Seq(Names)
<1>1. Directories(output) \subseteq Paths
  BY DirectoriesOf DEF Filed, FiledTree
<1>2. <<>> \in Seq(Names)
  OBVIOUS
<1> QED
  BY <1>1, <1>2, InputsAssumption DEF Paths

(* Writing an index or root.json into the output directory.                 *)
LEMMA WriteInPlace ==
  ASSUME output # Absent, Filed(output), NEW f, f = RootFile \/ f \in Indexes,
         NEW node, node.tools = {}
  PROVE  Filed(Put(output, f, node))
BY WriteFiled DEF Filed

(* A step of a command.                                                     *)
LEMMA CommandFiled ==
  ASSUME IInv, FiledAll, NEW c \in Commands, Command(c)
  PROVE  FiledAll'
<1>0. /\ Filed(output) /\ Filed(backup[c]) /\ Filed(Absent) /\ Filed(EmptyDirectory)
      /\ Broken.tools = {} /\ \A o : Branch(o).tools = {}
  BY EmptyFiled DEF FiledAll, Broken, Branch
<1>1. ASSUME Filed(output'), Filed(backup'[c]), \A d \in Commands \ {c} : backup'[d] = backup[d]
      PROVE  FiledAll'
  BY <1>1 DEF FiledAll
<1>2. ASSUME UNCHANGED <<output, backup>>  PROVE  FiledAll'
  BY <1>2 DEF FiledAll, Filed, FiledTree
<1>3. backup = [d \in Commands |-> backup[d]]
  BY DEF IInv, Shapes
<1>4. CASE (\E servers \in Inputs : Generate(c, servers)) \/ Stage(c) \/ Inspect(c) \/ Crash(c)
             \/ Regenerate(c)
  <2>1. UNCHANGED <<output, backup>>
    BY <1>4 DEF Generate, Stage, Inspect, Crash, Regenerate
  <2> QED
    BY <1>2, <2>1
<1>5. CASE Retire(c)
  <2>1. CASE output = Absent
    BY <1>2, <1>5, <2>1 DEF Retire
  <2>2. CASE output # Absent
    <3>1. output' = Absent /\ backup' = [backup EXCEPT ![c] = output]
      BY <1>5, <2>2 DEF Retire
    <3> QED
      BY <1>0, <1>1, <1>3, <3>1
  <2> QED
    BY <2>1, <2>2
<1>6. CASE Publish(c)
  <2>1. backup' = backup /\ (output' = output \/ output' = staging[c])
    BY <1>6 DEF Publish
  <2>2. staging[c] \in Generated
    BY <1>6 DEF IInv, StagingTrue, Publish
  <2>3. Filed(staging[c])
    BY <2>2, GeneratedFiled DEF Filed
  <2> QED
    BY <1>0, <1>1, <2>1, <2>3
<1>7. CASE Restore(c)
  <2>1. \/ UNCHANGED <<output, backup>>
        \/ output' = backup[c] /\ backup' = [backup EXCEPT ![c] = Absent]
    BY <1>7 DEF Restore
  <2> QED
    BY <1>0, <1>1, <1>2, <1>3, <2>1
<1>8. CASE Cleanup(c)
  <2>1. output' = output /\ backup' = [backup EXCEPT ![c] = Absent]
    BY <1>8 DEF Cleanup
  <2> QED
    BY <1>0, <1>1, <1>3, <2>1
<1>9. CASE CallFails(c)
  <2>1. output' = output /\ (backup' = backup \/ backup' = [backup EXCEPT ![c] = EmptyDirectory])
    BY <1>9 DEF CallFails
  <2> QED
    BY <1>0, <1>1, <1>3, <2>1
<1>10. CASE RegenerateDirectory(c)
  <2> DEFINE d == Head(todo[c])
  <2>1. /\ backup' = backup
        /\ \/ output' = output
           \/ /\ output # Absent /\ d \in Directories(output)
              /\ output' \in {RegeneratedIndex(output, d), Put(output, IndexOf(d), Broken)}
    BY <1>10 DEF RegenerateDirectory, CrashWriting
  <2>2. ASSUME output # Absent, d \in Directories(output),
               output' \in {RegeneratedIndex(output, d), Put(output, IndexOf(d), Broken)}
        PROVE  Filed(output')
    <3>1. d \in Paths /\ IndexOf(d) \in Indexes
      BY <1>0, <2>2, DirectoryPaths, IndexFile
    <3>2. Filed(RegeneratedIndex(output, d))
      BY <1>0, <2>2, <3>1, IndexFiled DEF Filed
    <3>3. Filed(Put(output, IndexOf(d), Broken))
      BY <1>0, <2>2, <3>1, WriteInPlace
    <3> QED
      BY <2>2, <3>2, <3>3
  <2> QED
    BY <1>0, <1>1, <2>1, <2>2
<1>11. CASE RegenerateRoot(c)
  <2>1. /\ backup' = backup
        /\ \/ output' = output
           \/ /\ output # Absent
              /\ \E node \in {Branch(RootOverview(output, tops[c])), Broken} :
                   output' = Put(output, RootFile, node)
    BY <1>11 DEF RegenerateRoot, RegeneratedRoot, CrashWriting
  <2>2. ASSUME output # Absent  PROVE  /\ Filed(Put(output, RootFile, Broken))
                                       /\ \A o : Filed(Put(output, RootFile, Branch(o)))
    BY <1>0, <2>2, WriteInPlace
  <2> QED
    BY <1>0, <1>1, <2>1, <2>2
<1> QED
  BY <1>4, <1>5, <1>6, <1>7, <1>8, <1>9, <1>10, <1>11 DEF Command

(* A step of the user.                                                      *)
LEMMA UserFiled ==
  ASSUME IInv, FiledAll, User
  PROVE  IInv' /\ FiledAll'
<1>0. Filed(output) /\ output # Absent /\ FiledTree(output)
  BY DEF FiledAll, User, Filed
<1>1. ASSUME Filed(output'), backup' = backup  PROVE  FiledAll'
  BY <1>1 DEF FiledAll
<1>2. ASSUME DOMAIN output # {}  PROVE  RootFile \in DOMAIN output /\ output[RootFile].tools = {}
  BY <1>0, <1>2 DEF IInv, Sound, Rooted
<1>3. ASSUME NEW to, Move(to), RootFile \in DOMAIN output, to[RootFile] = RootFile,
             \A g, h \in DOMAIN output : to[g] = to[h] => g = h,
             \A g \in DOMAIN output :
               /\ to[g] \in {RootFile} \cup (Seq(Names) \X Names)
               /\ to[g][2] = g[2]
               /\ to[g] = RootFile <=> g = RootFile
               /\ output[g].tools = {} /\ g \in Indexes => to[g] \in Indexes
      PROVE  IInv' /\ FiledAll'
  <2>1. IInv'
    BY <1>0, <1>3, MoveStep
  <2>2. output' = Moved(output, to) /\ backup' = backup
    BY <1>3 DEF Move, Edit
  <2>3. FiledTree(output')
    BY <1>0, <1>3, <2>2, MoveFiled
  <2> QED
    BY <1>1, <2>1, <2>2, <2>3 DEF Filed
<1> DEFINE E == {<<>>} \cup Directories(output) \cup NewDirectories
<1>4. E \subseteq Seq(Names) /\ Directories(output) \subseteq Paths
  BY <1>0, DirectoryPaths
<1> HIDE DEF E
<1>5. ASSUME NEW f \in DOMAIN output, NEW d \in E, MoveTool(f, d)
      PROVE  IInv' /\ FiledAll'
  <2> DEFINE to == [g \in DOMAIN output |-> IF g = f THEN <<d, f[2]>> ELSE g]
  <2>1. /\ d \in Seq(Names) /\ output[f].tools # {} /\ <<d, f[2]>> \notin DOMAIN output
        /\ Move(to) /\ RootFile \in DOMAIN output
    BY <1>2, <1>4, <1>5 DEF MoveTool, IsLeaf
  <2>2. /\ \A g, h \in DOMAIN output : to[g] = to[h] => g = h
        /\ to[RootFile] = RootFile
        /\ \A g \in DOMAIN output :
             /\ to[g] \in {RootFile} \cup (Seq(Names) \X Names)
             /\ to[g][2] = g[2]
             /\ to[g] = RootFile <=> g = RootFile
             /\ output[g].tools = {} /\ g \in Indexes => to[g] \in Indexes
    <3>1. to[f] = <<d, f[2]>> /\ \A g \in DOMAIN output : g # f => to[g] = g
      OBVIOUS
    <3> HIDE DEF to
    <3> QED
      BY <1>0, <2>1, <3>1, ToolMoves
  <2> HIDE DEF to
  <2> QED
    BY <1>3, <2>1, <2>2
<1>6. ASSUME NEW d \in Directories(output), NEW e \in E, MoveFolder(d, e)
      PROVE  IInv' /\ FiledAll'
  <2> DEFINE w == Append(e, Last(d))
             to == FolderTo(output, d, w)
  <2>1. w \notin Directories(output) /\ Move(to) /\ e \in Seq(Names)
    BY <1>4, <1>6 DEF MoveFolder, FolderTo, Rebase
  <2>2. RootFile \in DOMAIN output
    <3>1. DOMAIN output # {}
      BY <1>6 DEF Directories
    <3> QED
      BY <1>2, <3>1
  <2>3. w \in Paths /\ Last(w) = Last(d)
    <3>1. d \in Paths /\ Last(d) \in Names /\ Len(e) \in Nat
      BY <1>4, <2>1, IndexFile
    <3>2. w \in Seq(Names) /\ Len(w) = Len(e) + 1 /\ w[Len(e) + 1] = Last(d)
      BY <2>1, <3>1, AppendProperties
    <3> HIDE DEF w
    <3>3. Last(w) = Last(d)
      BY <3>2 DEF Last
    <3>4. w # <<>>
      BY <3>1, <3>2
    <3> QED
      BY <3>2, <3>3, <3>4 DEF Paths
  <2> HIDE DEF w
  <2>4. /\ \A g, h \in DOMAIN output : to[g] = to[h] => g = h
        /\ to[RootFile] = RootFile
        /\ \A g \in DOMAIN output :
             /\ to[g] \in {RootFile} \cup (Seq(Names) \X Names)
             /\ to[g][2] = g[2]
             /\ to[g] = RootFile <=> g = RootFile
             /\ output[g].tools = {} /\ g \in Indexes => to[g] \in Indexes
    BY <1>0, <2>1, <2>2, <2>3, FolderMoves
  <2> HIDE DEF to
  <2> QED
    BY <1>3, <2>1, <2>2, <2>4
<1>7. ASSUME NEW f \in DOMAIN output, NEW t \in Texts, EditOverview(f, t)
      PROVE  IInv' /\ FiledAll'
  <2>1. output' = Put(output, f, Branch(Text(t))) /\ output[f].tools = {} /\ backup' = backup
    BY <1>7 DEF EditOverview, Edit, IsLeaf
  <2>2. f = RootFile \/ f \in Indexes
    BY <1>0, <2>1 DEF FiledTree
  <2>3. Branch(Text(t)).tools = {}
    BY DEF Branch
  <2>4. Filed(output')
    BY <1>0, <2>1, <2>2, <2>3, WriteInPlace
  <2> QED
    BY <1>0, <1>1, <1>7, <2>1, <2>4, EditOverviewStep
<1>8. \/ \E e \in E : \/ \E f \in DOMAIN output : MoveTool(f, e)
                      \/ \E d \in Directories(output) : MoveFolder(d, e)
      \/ \E f \in DOMAIN output, t \in Texts : EditOverview(f, t)
  BY DEF User, E
<1> QED
  BY <1>5, <1>6, <1>7, <1>8

(* Whatever commands overlap, fail or die and whatever the user does        *)
(* meanwhile, every tree the generator handles stays filed, which is what   *)
(* keeps the files of a folder apart when it is moved, and the invariant    *)
(* holds.                                                                   *)
LEMMA BothInvariants == Spec => [](IInv /\ FiledAll)
<1>1. Init => IInv /\ FiledAll
  BY InitInv, EmptyFiled, GeneratedFiled DEF Init, FiledAll, Filed
<1>2. IInv /\ FiledAll /\ [Next]_vars => (IInv /\ FiledAll)'
  <2> SUFFICES ASSUME IInv, FiledAll, [Next]_vars  PROVE  IInv' /\ FiledAll'
    OBVIOUS
  <2>1. CASE UNCHANGED vars
    <3>1. UNCHANGED <<output, backup>>
      BY <2>1 DEF vars
    <3>2. FiledAll'
      BY <3>1 DEF FiledAll
    <3> QED
      BY <2>1, <3>2, StutterStep
  <2>2. ASSUME NEW c \in Commands, Command(c) PROVE IInv'
    BY <2>2, GenerateStep, StageStep, InspectStep, RetireStep, PublishStep, RestoreStep,
       CleanupStep, CallFailsStep, CrashStep, RegenerateStep, RegenerateDirectoryStep,
       RegenerateRootStep DEF Command
  <2> QED
    BY <2>1, <2>2, UserFiled, CommandFiled DEF Next
<1> QED
  BY <1>1, <1>2, PTL DEF Spec

(* The inductive invariant of the trees' contents.                          *)
THEOREM InductiveInvariant == Spec => []IInv
BY BothInvariants, PTL

(* Every tree the generator handles stays filed: a file has one tool, named *)
(* like it, that no other file has, or is root.json or the index of its     *)
(* directory, though folders and tool files are moved about.                *)
THEOREM FiledInvariant == Spec => []FiledAll
BY BothInvariants, PTL

(* GenerateStructure replaces a tree by two renames and Regenerate rewrites *)
(* indexes in place: whoever looks finds no tree, an empty one or all tools *)
(* of one provider list.                                                    *)
THEOREM NeverTornCorrect == Spec => []OutputNeverTorn
<1>1. IInv => OutputNeverTorn
  BY DEF IInv, Sound, NotTorn, OutputNeverTorn
<1> QED
  BY <1>1, InductiveInvariant, PTL

(* A published tree is never lost, though every command may fail or die     *)
(* between its renames.                                                     *)
THEOREM SurvivesCorrect == Spec => []PublishedTreeSurvives
<1>1. IInv => PublishedTreeSurvives
  BY DEF IInv, TreeKept, PublishedTreeSurvives
<1> QED
  BY <1>1, InductiveInvariant, PTL

(* RegenerateDirectory keeps an overview that reads like the user's.        *)
THEOREM EditsCorrect == Spec => []PlainEditsKept
<1>1. IInv => PlainEditsKept
  BY DEF IInv, EditsTrue, PlainEditsKept
<1> QED
  BY <1>1, InductiveInvariant, PTL
-----------------------------------------------------------------------------
(* What the broker makes of a tree that is intact: the files it loads.      *)
Intact(T) ==
  /\ FiledTree(T) /\ RootFile \in DOMAIN T
  /\ \A f \in DOMAIN T : T[f].ok
  /\ \A d \in Directories(T) : IndexOf(d) \in DOMAIN T
  /\ PlainNames(T) /\ NoNamesake(T)

(* A path is its beginning and its last name.                               *)
LEMMA LastOf ==
  ASSUME NEW k \in Paths
  PROVE  /\ Last(k) \in Names /\ Front(k) \in Seq(Names) /\ k = Append(Front(k), Last(k))
         /\ Len(Front(k)) = Len(k) - 1
<1>1. k \in Seq(Names) /\ Len(k) \in Nat /\ Len(k) >= 1
  BY PlaceOf DEF Paths
<1>2. Last(k) \in Names
  BY <1>1 DEF Last
<1>3. /\ Front(k) \in Seq(Names) /\ Len(Front(k)) = Len(k) - 1
      /\ \A i \in 1 .. (Len(k) - 1) : Front(k)[i] = k[i]
  <2> DEFINE n == Len(k) - 1
  <2>1. n \in Nat /\ n <= Len(k) /\ \A i \in 1 .. n : k[i] \in Names
    BY <1>1
  <2> HIDE DEF n
  <2>2. /\ SubSeq(k, 1, n) \in Seq(Names)
        /\ Len(SubSeq(k, 1, n)) = n
        /\ \A i \in 1 .. n : SubSeq(k, 1, n)[i] = k[i]
    BY <1>1, <2>1
  <2> QED
    BY <2>2 DEF Front, n
<1> DEFINE a == Append(Front(k), Last(k))
<1>4. /\ a \in Seq(Names) /\ Len(a) = Len(k)
      /\ \A i \in 1 .. (Len(k) - 1) : a[i] = k[i]
      /\ a[Len(k)] = k[Len(k)]
  BY <1>1, <1>2, <1>3, AppendProperties DEF Last
<1>5. \A i \in 1 .. Len(k) : a[i] = k[i]
  BY <1>1, <1>4
<1> HIDE DEF a
<1>6. a = k
  BY <1>1, <1>4, <1>5, SeqEqual
<1> QED
  BY <1>2, <1>3, <1>6 DEF a

(* The last name of a longer path, and what is before it.                   *)
LEMMA AppendOf ==
  ASSUME NEW k \in Seq(Names), NEW n \in Names
  PROVE  /\ Append(k, n) \in Paths
         /\ Last(Append(k, n)) = n
         /\ Front(Append(k, n)) = k
         /\ Len(Append(k, n)) = Len(k) + 1
         /\ SubSeq(Append(k, n), 1, Len(k)) = k
<1> DEFINE a == Append(k, n)
<1>1. /\ a \in Seq(Names) /\ a # <<>> /\ Len(a) = Len(k) + 1 /\ Len(k) \in Nat
      /\ \A i \in 1 .. Len(k) : a[i] = k[i]
      /\ a[Len(k) + 1] = n
  BY AppendProperties
<1> HIDE DEF a
<1>2. a \in Paths
  BY <1>1 DEF Paths
<1>3. Last(a) = n
  BY <1>1 DEF Last
<1>4. SubSeq(a, 1, Len(k)) \in Seq(Names) /\ Len(SubSeq(a, 1, Len(k))) = Len(k)
      /\ \A i \in 1 .. Len(k) : SubSeq(a, 1, Len(k))[i] = k[i]
  BY <1>1
<1>5. SubSeq(a, 1, Len(k)) = k
  BY <1>4, SeqEqual
<1>6. Len(a) - 1 = Len(k)
  BY <1>1
<1>7. Front(a) = k
  BY <1>5, <1>6 DEF Front
<1> QED
  BY <1>1, <1>2, <1>3, <1>5, <1>7 DEF a

(* A path begins with what is before its last one or two names.             *)
LEMMA BeforeLast ==
  ASSUME NEW k \in Seq(Names), NEW m \in Names, NEW n \in Names
  PROVE  /\ IsPrefix(k, k) /\ IsPrefix(k, Append(k, m))
         /\ IsPrefix(k, Append(Append(k, m), n))
<1> DEFINE a == Append(k, m)
           b == Append(a, n)
<1>1. /\ Len(k) \in Nat
      /\ a \in Seq(Names) /\ Len(a) = Len(k) + 1 /\ \A i \in 1 .. Len(k) : a[i] = k[i]
  BY AppendProperties
<1> HIDE DEF a
<1>2. b \in Seq(Names) /\ Len(b) = Len(a) + 1 /\ \A i \in 1 .. Len(a) : b[i] = a[i]
  BY <1>1, AppendProperties
<1> HIDE DEF b
<1>3. Len(b) = Len(k) + 2 /\ \A i \in 1 .. Len(k) : b[i] = k[i]
  BY <1>1, <1>2
<1>4. ASSUME NEW s \in Seq(Names), Len(k) <= Len(s), \A i \in 1 .. Len(k) : s[i] = k[i]
      PROVE  IsPrefix(k, s)
  <2>1. /\ SubSeq(s, 1, Len(k)) \in Seq(Names) /\ Len(SubSeq(s, 1, Len(k))) = Len(k)
        /\ \A i \in 1 .. Len(k) : SubSeq(s, 1, Len(k))[i] = s[i]
    BY <1>1, <1>4
  <2>2. SubSeq(s, 1, Len(k)) = k
    BY <1>1, <1>4, <2>1, SeqEqual
  <2>3. SubSeq(k, 1, Len(k)) = k
    BY SubSeqFull
  <2> QED
    BY <1>4, <2>2, <2>3 DEF IsPrefix
<1>5. IsPrefix(k, k) /\ IsPrefix(k, a) /\ IsPrefix(k, b)
  BY <1>1, <1>2, <1>3, <1>4
<1> QED
  BY <1>5 DEF a, b

(* A file that LoadHierarchy takes for the index of its directory, which at *)
(* the top is the output directory.                                         *)
AsIndex(f) == f[2] = IF f[1] = <<>> THEN OutputName ELSE Last(f[1])

(* The file of a path that is no index.                                     *)
Flat(k) == <<Front(k), Last(k)>>

(* The path of a file in an intact tree has no more parts than names, since *)
(* no name has a dot, that of a directory neither: its index is there.      *)
LEMMA KeyOf ==
  ASSUME NEW T, Intact(T), NEW f \in DOMAIN T \ {RootFile}
  PROVE  /\ f = <<f[1], f[2]>> /\ f[1] \in Seq(Names) /\ f[2] \in Names
         /\ Key(f) = IF AsIndex(f) THEN f[1] ELSE Append(f[1], f[2])
<1>1. f \in Seq(Names) \X Names /\ DOMAIN T \subseteq {RootFile} \cup (Seq(Names) \X Names)
  BY DEF Intact, FiledTree
<1>2. f = <<f[1], f[2]>> /\ f[1] \in Seq(Names) /\ f[2] \in Names
  BY <1>1
<1>3. ASSUME NEW i \in 1 .. Len(f[1])  PROVE  Undotted(f[1][i])
  <2>1. f[1] # <<>>
    OBVIOUS
  <2>2. f[1] \in Paths /\ f[1] \in Directories(T)
    BY <1>1, <1>2, <2>1, DirectoriesOf DEF Paths
  <2> DEFINE d == SubSeq(f[1], 1, i)
  <2>3. d \in Directories(T)
    BY <1>1, <2>2, DirectoriesOf
  <2>4. d \in Paths /\ Len(d) = i /\ d[i] = f[1][i]
    BY <2>2, BeginningOf
  <2> HIDE DEF d
  <2>5. IndexOf(d) \in DOMAIN T /\ IndexOf(d) # RootFile /\ IndexOf(d)[2] = d[i]
    BY <2>3, <2>4, IndexFile DEF Intact, Last
  <2> QED
    BY <2>4, <2>5 DEF Intact, PlainNames
<1>4. Undotted(f[2])
  BY DEF Intact, PlainNames
<1>5. Dotted(f[1]) = f[1]
  BY <1>2, <1>3 DEF Dotted
<1>6. Dotted(Append(f[1], f[2])) = Append(f[1], f[2])
  <2> DEFINE a == Append(f[1], f[2])
  <2>1. /\ DOMAIN a = 1 .. Len(a) /\ Len(a) = Len(f[1]) + 1 /\ Len(f[1]) \in Nat
        /\ \A i \in 1 .. Len(f[1]) : a[i] = f[1][i]
        /\ a[Len(f[1]) + 1] = f[2]
    BY <1>2, AppendProperties
  <2> HIDE DEF a
  <2>2. ASSUME NEW i \in DOMAIN a  PROVE  Undotted(a[i])
    <3>1. i \in 1 .. Len(f[1]) \/ i = Len(f[1]) + 1
      BY <2>1
    <3> QED
      BY <1>3, <1>4, <2>1, <3>1
  <2>3. Dotted(a) = a
    BY <2>2 DEF Dotted
  <2> QED
    BY <2>3 DEF a
<1>7. Key(f) = IF AsIndex(f) THEN f[1] ELSE Append(f[1], f[2])
  <2>1. Key(f) = Dotted(IF AsIndex(f) THEN f[1] ELSE Append(f[1], f[2]))
    BY DEF Key, AsIndex
  <2> QED
    BY <1>5, <1>6, <2>1
<1> QED
  BY <1>2, <1>7

(* So the files with a given path are the index of the directory of that    *)
(* path and the file of that path that is no index, which has a tool.       *)
LEMMA PathOf ==
  ASSUME NEW T, Intact(T), NEW f \in DOMAIN T \ {RootFile}
  PROVE  /\ Key(f) \in Seq(Names)
         /\ Key(f) # <<>> => Key(f) \in Paths /\ Last(Key(f)) = f[2]
         /\ AsIndex(f) => Key(f) = f[1]
         /\ AsIndex(f) /\ Key(f) = <<>> => f = <<<<>>, OutputName>>
         /\ AsIndex(f) /\ Key(f) # <<>> => f = IndexOf(Key(f))
         /\ ~AsIndex(f) => /\ Key(f) = Append(f[1], f[2]) /\ Key(f) # <<>>
                           /\ f = Flat(Key(f)) /\ f[1] = Front(Key(f)) /\ IsLeaf(T, f)
<1>1. /\ f = <<f[1], f[2]>> /\ f[1] \in Seq(Names) /\ f[2] \in Names
      /\ Key(f) = IF AsIndex(f) THEN f[1] ELSE Append(f[1], f[2])
  BY KeyOf
<1>2. CASE AsIndex(f)
  <2>1. Key(f) = f[1] /\ Key(f) \in Seq(Names)
    BY <1>1, <1>2
  <2>2. f[1] # <<>> => f[2] = Last(f[1])
    BY <1>2 DEF AsIndex
  <2>3. f[1] = <<>> => f[2] = OutputName
    BY <1>2 DEF AsIndex
  <2>4. f[1] = <<>> => f = <<<<>>, OutputName>>
    BY <1>1, <2>3
  <2>5. f[1] # <<>> => f = IndexOf(f[1])
    BY <1>1, <2>2 DEF IndexOf
  <2> QED
    BY <1>2, <2>1, <2>2, <2>4, <2>5 DEF Paths
<1>3. CASE ~AsIndex(f)
  <2>1. Key(f) = Append(f[1], f[2])
    BY <1>1, <1>3
  <2>2. Key(f) \in Paths /\ Last(Key(f)) = f[2] /\ Front(Key(f)) = f[1]
    BY <1>1, <2>1, AppendOf
  <2>3. f = Flat(Key(f))
    BY <1>1, <2>2 DEF Flat
  <2>4. f \notin Indexes
    BY <1>3 DEF AsIndex, Indexes, Paths
  <2>5. IsLeaf(T, f)
    BY <2>4 DEF Intact, FiledTree, IsLeaf
  <2> QED
    BY <1>3, <2>1, <2>2, <2>3, <2>5 DEF Paths
<1> QED
  BY <1>2, <1>3

(* The walk comes to what is in a directory before it comes to the file     *)
(* beside it that has the directory's name.                                 *)
LEMMA FlatIsLast ==
  ASSUME NEW k \in Paths
  PROVE  /\ VisitedBefore(Append(k, Last(k)), Append(Front(k), Last(k)))
         /\ ~VisitedBefore(Append(Front(k), Last(k)), Append(k, Last(k)))
<1> DEFINE a == Append(k, Last(k))
           i == Len(k) + 1
<1>1. k = Append(Front(k), Last(k)) /\ Last(k) \in Names /\ k \in Seq(Names)
  BY LastOf DEF Paths
<1>2. a \in Paths /\ Len(a) = i
  BY <1>1, AppendOf
<1>3. Len(k) \in Nat /\ i \in 1 .. i /\ i \notin 1 .. Len(k) /\ i \in Nat \ {0}
  BY PlaceOf
<1>4. \A j \in 1 .. Len(k) : a[j] = k[j]
  BY <1>1, AppendProperties
<1> HIDE DEF a
<1>5. Place(a, i) < Place(k, i)
  <2>1. Place(a, i) \in 1 .. Len(NameOrder) /\ Len(NameOrder) \in Nat
    BY <1>2, <1>3, PlaceOf
  <2>2. Place(k, i) = Len(NameOrder) + 1
    BY <1>3, PlaceOf
  <2> QED
    BY <2>1, <2>2
<1>6. \A j \in 1 .. (i - 1) : Place(a, j) = Place(k, j)
  <2> SUFFICES ASSUME NEW j \in 1 .. (i - 1)  PROVE  Place(a, j) = Place(k, j)
    OBVIOUS
  <2>1. j \in 1 .. Len(k) /\ j \in 1 .. Len(a)
    BY <1>2, <1>3
  <2> QED
    BY <1>4, <2>1 DEF Place
<1>7. VisitedBefore(a, k)
  <2> HIDE DEF i
  <2> QED
    BY <1>2, <1>3, <1>5, <1>6, DecidedAt
<1>8. ~VisitedBefore(k, a)
  <2>1. IsPrefix(k, a)
    BY <1>1, BeforeLast DEF a
  <2> QED
    BY <1>2, <2>1, NoneBelowLater
<1> QED
  BY <1>1, <1>7, <1>8 DEF a

(* The nodes that LoadHierarchy makes of an intact tree.                    *)
LEMMA NodesOf ==
  ASSUME NEW T, Intact(T)
  PROVE  LET nodes == LoadHierarchy(T)
         IN  /\ <<>> \in DOMAIN nodes /\ Slash \in DOMAIN nodes /\ nodes[Slash].tools = {}
             /\ Slash \notin Seq(Names) /\ DOMAIN nodes \ {Slash} \subseteq Seq(Names)
             /\ \A k \in DOMAIN nodes \ {<<>>} : Front(k) \in DOMAIN nodes
             /\ \A k \in DOMAIN nodes : nodes[k].tools # {} =>
                  \E f \in DOMAIN T : IsLeaf(T, f) /\ Key(f) = k /\ nodes[k] = T[f]
             /\ \A f \in DOMAIN T : IsLeaf(T, f) =>
                  Key(f) \in DOMAIN nodes \ {Slash} /\ nodes[Key(f)] = T[f]
<1> DEFINE nodes == LoadHierarchy(T)
           loaded == {f \in DOMAIN T : f[2] # "root" /\ T[f].ok}
           key == [f \in loaded |-> Key(f)]
           walked(f) == \A g \in loaded \ {f} :
                          key[g] = key[f] => VisitedBefore(Append(g[1], g[2]), Append(f[1], f[2]))
           file(k) == CHOOSE f \in loaded : key[f] = k /\ walked(f)
<1>1. /\ DOMAIN nodes = Range(key) \cup {<<>>, Slash}
      /\ \A k \in DOMAIN nodes :
           nodes[k] = IF k \in Range(key) THEN T[file(k)] ELSE T[RootFile]
  BY DEF LoadHierarchy
<1>2. loaded = DOMAIN T \ {RootFile}
  <2>1. RootFile[2] = "root"
    BY DEF RootFile
  <2> QED
    BY <2>1 DEF Intact, PlainNames
<1>3. T[RootFile].tools = {} /\ RootFile \in DOMAIN T
  BY DEF Intact, FiledTree
<1>4. Slash \notin Seq(Names)
  <2>1. Slash[1] = "/" /\ 1 \in 1 .. Len(Slash)
    BY DEF Slash
  <2>2. Slash \in Seq(Names) => Slash[1] \in Names
    BY <2>1
  <2> QED
    BY <2>1, <2>2, NamesAssumption
<1>5. /\ \A f \in loaded : key[f] = Key(f)
      /\ \A k : k \in Range(key) <=> \E f \in loaded : Key(f) = k
  BY DEF Range
<1> DEFINE walks(f) == \A g \in loaded \ {f} : Key(g) = Key(f) =>
                         VisitedBefore(Append(g[1], g[2]), Append(f[1], f[2]))
<1>6. ASSUME NEW k, \E f \in loaded : Key(f) = k /\ walks(f)
      PROVE  file(k) \in loaded /\ Key(file(k)) = k /\ walks(file(k))
  <2>1. \E f \in loaded : key[f] = k /\ walked(f)
    BY <1>5, <1>6
  <2>2. file(k) \in loaded /\ key[file(k)] = k /\ walked(file(k))
    <3> HIDE DEF loaded, key, walked
    <3> QED
      BY <2>1
  <2> QED
    BY <1>5, <2>2
<1> HIDE DEF nodes, loaded, key, file
<1>7. ASSUME NEW k \in Paths, NEW f \in loaded, NEW g \in loaded,
             Key(f) = k, AsIndex(f), Key(g) = k, ~AsIndex(g)
      PROVE  /\ VisitedBefore(Append(f[1], f[2]), Append(g[1], g[2]))
             /\ ~VisitedBefore(Append(g[1], g[2]), Append(f[1], f[2]))
             /\ ~IsLeaf(T, f)
  <2>1. k # <<>> /\ f = IndexOf(k) /\ g = Flat(k) /\ IsLeaf(T, g)
    BY <1>2, <1>7, PathOf DEF Paths
  <2>2. f[1] = k /\ f[2] = Last(k) /\ g[1] = Front(k) /\ g[2] = Last(k)
    BY <2>1 DEF IndexOf, Flat
  <2>3. VisitedBefore(Append(f[1], f[2]), Append(g[1], g[2]))
        /\ ~VisitedBefore(Append(g[1], g[2]), Append(f[1], f[2]))
    BY <2>2, FlatIsLast
  <2>4. IsPrefix(Front(k), k)
    <3>1. Front(k) \in Seq(Names) /\ Last(k) \in Names /\ k = Append(Front(k), Last(k))
      BY LastOf
    <3> QED
      BY <3>1, BeforeLast
  <2>5. f # g /\ f \in DOMAIN T /\ g \in DOMAIN T
    BY <1>2, <1>7
  <2>6. ~IsLeaf(T, f)
    BY <2>1, <2>2, <2>4, <2>5 DEF Intact, NoNamesake
  <2> QED
    BY <2>3, <2>6
<1>8. ASSUME NEW f \in loaded, NEW g \in loaded, Key(f) = Key(g), AsIndex(f) <=> AsIndex(g)
      PROVE  f = g
  BY <1>2, <1>8, PathOf
<1>9. ASSUME NEW f \in loaded, NEW g \in loaded, Key(f) = Key(g), Key(f) = <<>>  PROVE  f = g
  BY <1>2, <1>9, PathOf
<1>10. ASSUME NEW f \in loaded,
              ~AsIndex(f) \/ \A g \in loaded : Key(g) = Key(f) => AsIndex(g)
       PROVE  walks(f)
  <2> SUFFICES ASSUME NEW g \in loaded \ {f}, Key(g) = Key(f)
               PROVE  VisitedBefore(Append(g[1], g[2]), Append(f[1], f[2]))
    OBVIOUS
  <2>1. ~(AsIndex(f) <=> AsIndex(g)) /\ Key(f) # <<>>
    BY <1>8, <1>9
  <2>2. AsIndex(g) /\ ~AsIndex(f)
    BY <1>10, <2>1
  <2>3. Key(f) \in Paths
    BY <1>2, <2>1, PathOf
  <2> QED
    BY <1>7, <2>2, <2>3
<1>11. ASSUME NEW k, \E f \in loaded : Key(f) = k
       PROVE  file(k) \in loaded /\ Key(file(k)) = k /\ walks(file(k))
  <2>1. CASE \E f \in loaded : Key(f) = k /\ ~AsIndex(f)
    <3>1. PICK f \in loaded : Key(f) = k /\ ~AsIndex(f)
      BY <2>1
    <3>2. walks(f)
      BY <1>10, <3>1
    <3> QED
      BY <1>6, <3>1, <3>2
  <2>2. CASE \A f \in loaded : Key(f) = k => AsIndex(f)
    <3>1. PICK f \in loaded : Key(f) = k
      BY <1>11
    <3>2. walks(f)
      BY <1>10, <2>2, <3>1
    <3> QED
      BY <1>6, <3>1, <3>2
  <2> QED
    BY <2>1, <2>2
<1>12. ASSUME NEW f \in loaded, IsLeaf(T, f)  PROVE  file(Key(f)) = f
  <2> DEFINE g == file(Key(f))
  <2>1. g \in loaded /\ Key(g) = Key(f) /\ walks(g)
    BY <1>11
  <2> HIDE DEF g
  <2> SUFFICES ASSUME f # g  PROVE  FALSE
    BY DEF g
  <2>2. ~(AsIndex(f) <=> AsIndex(g)) /\ Key(f) # <<>>
    BY <1>8, <1>9, <2>1
  <2>3. Key(f) \in Paths
    BY <1>2, <2>2, PathOf
  <2>4. CASE AsIndex(f) /\ ~AsIndex(g)
    BY <1>7, <1>12, <2>1, <2>3, <2>4
  <2>5. CASE AsIndex(g) /\ ~AsIndex(f)
    <3>1. ~VisitedBefore(Append(f[1], f[2]), Append(g[1], g[2]))
      BY <1>7, <2>1, <2>3, <2>5
    <3> QED
      BY <2>1, <3>1
  <2> QED
    BY <2>2, <2>4, <2>5
<1>13. ASSUME NEW f \in loaded  PROVE  Key(f) \in DOMAIN nodes \ {Slash}
  BY <1>1, <1>2, <1>4, <1>5, PathOf
<1>14. ASSUME NEW f \in DOMAIN T, IsLeaf(T, f)
       PROVE  f \in loaded /\ Key(f) \in DOMAIN nodes \ {Slash} /\ nodes[Key(f)] = T[f]
  <2>1. f \in loaded
    BY <1>2, <1>3, <1>14 DEF IsLeaf
  <2> QED
    BY <1>1, <1>5, <1>12, <1>13, <1>14, <2>1
<1>15. ASSUME NEW k \in DOMAIN nodes, nodes[k].tools # {}
       PROVE  \E f \in DOMAIN T : IsLeaf(T, f) /\ Key(f) = k /\ nodes[k] = T[f]
  <2>1. k \in Range(key) /\ nodes[k] = T[file(k)]
    BY <1>1, <1>3, <1>15
  <2>2. file(k) \in DOMAIN T /\ Key(file(k)) = k
    BY <1>2, <1>5, <1>11, <2>1
  <2> QED
    BY <1>15, <2>1, <2>2 DEF IsLeaf
<1>16. nodes[Slash].tools = {} /\ DOMAIN nodes \ {Slash} \subseteq Seq(Names)
  <2>1. \A k \in Range(key) : k \in Seq(Names)
    BY <1>2, <1>5, PathOf
  <2>2. <<>> \in Seq(Names)
    OBVIOUS
  <2> QED
    BY <1>1, <1>3, <1>4, <2>1, <2>2
<1>17. ASSUME NEW d \in Directories(T)  PROVE  d \in DOMAIN nodes
  <2>1. d \in Paths /\ IndexOf(d) \in loaded
    BY <1>2, DirectoriesOf, IndexFile DEF Intact, FiledTree
  <2>2. AsIndex(IndexOf(d)) /\ IndexOf(d)[1] = d
    BY <2>1, IndexFile DEF AsIndex, Paths
  <2>3. Key(IndexOf(d)) = d
    BY <1>2, <2>1, <2>2, PathOf
  <2> QED
    BY <1>13, <2>1, <2>3
<1>18. ASSUME NEW k \in DOMAIN nodes \ {<<>>}  PROVE  Front(k) \in DOMAIN nodes
  <2>1. CASE k = Slash
    <3>1. Len(Slash) = 1
      BY DEF Slash
    <3>2. Front(Slash) = <<>>
      BY <3>1, SubSeqEmpty DEF Front
    <3> QED
      BY <1>1, <2>1, <3>2
  <2>2. CASE k # Slash
    <3>1. PICK f \in loaded : k = Key(f)
      BY <1>1, <1>5, <2>2
    <3>2. k \in Paths
      BY <1>2, <1>18, <3>1, PathOf
    <3>3. CASE Front(k) = <<>>
      BY <1>1, <3>3
    <3>4. CASE Front(k) # <<>>
      <4>0. DOMAIN T \subseteq {RootFile} \cup (Seq(Names) \X Names)
        BY DEF Intact, FiledTree
      <4>1. CASE ~AsIndex(f)
        <5>1. f[1] = Front(k)
          BY <1>2, <3>1, <4>1, PathOf
        <5>2. Front(k) \in Directories(T)
          BY <1>2, <3>4, <4>0, <5>1, DirectoriesOf
        <5> QED
          BY <1>17, <5>2
      <4>2. CASE AsIndex(f)
        <5>1. k = f[1]
          BY <1>2, <3>1, <4>2, PathOf
        <5>2. k \in Directories(T)
          BY <1>2, <3>2, <4>0, <5>1, DirectoriesOf DEF Paths
        <5>3. Len(Front(k)) = Len(k) - 1 /\ Front(k) \in Seq(Names) /\ Len(k) \in Nat /\ Len(k) >= 1
          BY <3>2, LastOf, PlaceOf
        <5>4. Len(k) - 1 \in 1 .. Len(k)
          <6>1. Len(k) - 1 # 0
            BY <3>4, <5>3
          <6> QED
            BY <5>3, <6>1
        <5>5. SubSeq(k, 1, Len(k) - 1) \in Directories(T)
          BY <4>0, <5>2, <5>4, DirectoriesOf
        <5> QED
          BY <1>17, <5>5 DEF Front
      <4> QED
        BY <4>1, <4>2
    <3> QED
      BY <3>3, <3>4
  <2> QED
    BY <2>1, <2>2
<1>19. <<>> \in DOMAIN nodes /\ Slash \in DOMAIN nodes
  BY <1>1
<1> QED
  BY <1>4, <1>14, <1>15, <1>16, <1>18, <1>19 DEF nodes

(* Resolving the path of a tool file, and the path one name longer under    *)
(* which a node's own tool is listed: no other tool has that path.          *)
LEMMA ResolveOf ==
  ASSUME NEW T, Intact(T), NEW f \in DOMAIN T, NEW t, T[f].tools = {t}, t.name = f[2]
  PROVE  /\ Key(f) # <<>> => ResolvePath(LoadHierarchy(T), Key(f)) = {t}
         /\ ResolvePath(LoadHierarchy(T), Append(Key(f), t.name)) = {t}
<1> DEFINE nodes == LoadHierarchy(T)
           k == Key(f)
           p == Append(k, t.name)
           at(c, n) == IF c \in DOMAIN nodes THEN {u \in nodes[c].tools : u.name = n} ELSE {}
           category(q, i) == IF i = 0 THEN at(<<>>, Head(q)) ELSE at(SubSeq(q, 1, i), Last(q))
           found(q) == {i \in 0 .. Len(q) - 1 : category(q, i) # {}}
<1>0. IsLeaf(T, f) /\ f # RootFile
  BY DEF IsLeaf, Intact, FiledTree
<1>1. /\ k \in DOMAIN nodes /\ nodes[k] = T[f]
      /\ \A c \in DOMAIN nodes : nodes[c].tools # {} =>
           \E g \in DOMAIN T : IsLeaf(T, g) /\ Key(g) = c /\ nodes[c] = T[g]
  BY <1>0, NodesOf
<1>2. /\ k \in Seq(Names) /\ f[1] \in Seq(Names) /\ f[2] \in Names /\ Len(k) \in Nat
      /\ k # <<>> => k \in Paths /\ Last(k) = f[2]
      /\ k = <<>> => f[2] = OutputName
      /\ IsPrefix(f[1], p)
  <2>1. /\ k \in Seq(Names) /\ f[1] \in Seq(Names) /\ f[2] \in Names
        /\ k # <<>> => k \in Paths /\ Last(k) = f[2]
    BY <1>0, KeyOf, PathOf
  <2>2. k = <<>> => f = <<<<>>, OutputName>>
    BY <1>0, PathOf
  <2>3. \/ k = f[1] \/ k = Append(f[1], f[2])
    BY <1>0, KeyOf
  <2>4. IsPrefix(f[1], p)
    BY <2>1, <2>3, BeforeLast
  <2> QED
    BY <2>1, <2>2, <2>4
<1>3. /\ p \in Paths /\ p # <<>> /\ Last(p) = t.name /\ Front(p) = k /\ Len(p) = Len(k) + 1
      /\ SubSeq(p, 1, Len(k)) = k /\ (k = <<>> => Head(p) = t.name)
  <2>1. /\ p \in Paths /\ Last(p) = t.name /\ Front(p) = k /\ Len(p) = Len(k) + 1
        /\ SubSeq(p, 1, Len(k)) = k
    BY <1>2, AppendOf
  <2>2. k = <<>> => Head(p) = t.name
    OBVIOUS
  <2> QED
    BY <2>1, <2>2 DEF Paths
<1>4. \A q : ResolvePath(nodes, q) =
        IF at(q, Last(q)) # {} THEN at(q, Last(q))
        ELSE IF found(q) = {} THEN {}
        ELSE category(q, Max(found(q)))
  BY DEF ResolvePath
<1> HIDE DEF nodes, k, p
<1>5. at(k, t.name) = {t}
  BY <1>1
<1>6. k # <<>> => ResolvePath(nodes, k) = {t}
  BY <1>2, <1>4, <1>5
<1>7. at(p, Last(p)) = {}
  <2> SUFFICES ASSUME p \in DOMAIN nodes, NEW u \in nodes[p].tools, u.name = Last(p)
               PROVE  FALSE
    OBVIOUS
  <2>1. PICK g \in DOMAIN T : IsLeaf(T, g) /\ Key(g) = p /\ nodes[p] = T[g]
    BY <1>1
  <2>2. g[2] = f[2] /\ g # RootFile
    <3>1. T[g].tools # {} /\ u \in T[g].tools
      BY <2>1
    <3>2. PICK v : T[g].tools = {v} /\ v.name = g[2]
      BY <3>1 DEF Intact, FiledTree
    <3>3. g # RootFile
      BY <3>1 DEF Intact, FiledTree
    <3> QED
      BY <1>3, <3>1, <3>2, <3>3
  <2>3. CASE ~AsIndex(g)
    <3>1. g[1] = k
      BY <1>3, <2>1, <2>2, <2>3, PathOf
    <3>2. AsIndex(g)
      BY <1>2, <2>2, <3>1 DEF AsIndex
    <3> QED
      BY <2>3, <3>2
  <2>4. CASE AsIndex(g)
    <3>1. g = IndexOf(p) /\ g[1] = p /\ g[2] = Last(p)
      BY <1>3, <2>1, <2>2, <2>4, PathOf DEF IndexOf
    <3>2. f # g
      <4>0. \A n \in Nat : n # n + 1
        OBVIOUS
      <4>1. Len(k) # Len(p)
        BY <1>2, <1>3, <4>0
      <4> QED
        BY <2>1, <4>1 DEF k
    <3> QED
      BY <1>0, <1>2, <2>1, <2>2, <3>1, <3>2 DEF Intact, NoNamesake
  <2> QED
    BY <2>3, <2>4
<1>8. category(p, Len(k)) = {t}
  <2>1. CASE k = <<>>
    BY <1>3, <1>5, <2>1
  <2>2. CASE k # <<>>
    <3>1. Len(k) # 0
      BY <1>2, <2>2
    <3> QED
      BY <1>3, <1>5, <3>1
  <2> QED
    BY <2>1, <2>2
<1> DEFINE S == found(p)
<1>9. Len(k) \in S /\ \A i \in S : i \in Nat /\ i <= Len(k)
  <2>1. Len(p) - 1 = Len(k) /\ Len(k) \in 0 .. Len(p) - 1
    BY <1>2, <1>3
  <2> QED
    BY <1>2, <1>8, <2>1
<1> HIDE DEF S
<1>10. Max(S) = Len(k)
  <2>1. Max(S) \in S /\ \A y \in S : Max(S) >= y
    BY <1>2, <1>9 DEF Max
  <2> QED
    BY <1>2, <1>9, <2>1
<1>11. ResolvePath(nodes, p) = category(p, Max(S))
  BY <1>4, <1>7, <1>9 DEF S
<1> HIDE DEF category
<1>12. ResolvePath(nodes, p) = {t}
  BY <1>8, <1>10, <1>11
<1> QED
  BY <1>6, <1>12 DEF nodes, k, p

(* Everything in an intact tree can be found and reached.                   *)
LEMMA IntactReachable ==
  ASSUME NEW T, Intact(T)
  PROVE  LET nodes == LoadHierarchy(T)
             listed == UNION {ListedTools(nodes, k) : k \in DOMAIN nodes \ {Slash}}
         IN  /\ \A k \in DOMAIN nodes \ {<<>>} : Front(k) \in DOMAIN nodes
             /\ {e.tool : e \in listed} = ToolsIn(T)
             /\ \A e \in listed : ResolvePath(nodes, e.path) = {e.tool}
<1> DEFINE nodes == LoadHierarchy(T)
           listed == UNION {ListedTools(nodes, k) : k \in DOMAIN nodes \ {Slash}}
<1>1. /\ Slash \in DOMAIN nodes /\ nodes[Slash].tools = {} /\ DOMAIN nodes \ {Slash} \subseteq Seq(Names)
      /\ \A k \in DOMAIN nodes \ {<<>>} : Front(k) \in DOMAIN nodes
      /\ \A k \in DOMAIN nodes : nodes[k].tools # {} =>
           \E f \in DOMAIN T : IsLeaf(T, f) /\ Key(f) = k /\ nodes[k] = T[f]
      /\ \A f \in DOMAIN T : IsLeaf(T, f) =>
           Key(f) \in DOMAIN nodes \ {Slash} /\ nodes[Key(f)] = T[f]
  BY NodesOf
<1> HIDE DEF nodes
<1>2. ASSUME NEW k \in DOMAIN nodes, NEW t \in nodes[k].tools
      PROVE  /\ t \in ToolsIn(T) /\ k # Slash
             /\ k # <<>> => ResolvePath(nodes, k) = {t}
             /\ ResolvePath(nodes, Append(k, t.name)) = {t}
  <2>1. PICK f \in DOMAIN T : IsLeaf(T, f) /\ Key(f) = k /\ nodes[k] = T[f]
    BY <1>1
  <2>2. T[f].tools = {t} /\ t.name = f[2]
    <3>1. PICK u : T[f].tools = {u} /\ u.name = f[2]
      BY <2>1 DEF Intact, FiledTree, IsLeaf
    <3> QED
      BY <2>1, <3>1
  <2>3. t \in ToolsIn(T)
    BY <2>2 DEF ToolsIn
  <2>4. /\ Key(f) # <<>> => ResolvePath(LoadHierarchy(T), Key(f)) = {t}
        /\ ResolvePath(LoadHierarchy(T), Append(Key(f), t.name)) = {t}
    BY <2>2, ResolveOf
  <2>5. k # Slash
    BY <1>1
  <2> QED
    BY <2>1, <2>3, <2>4, <2>5 DEF nodes
<1>3. ASSUME NEW e \in listed
      PROVE  e.tool \in ToolsIn(T) /\ ResolvePath(nodes, e.path) = {e.tool}
  <2>1. PICK k \in DOMAIN nodes \ {Slash} : e \in ListedTools(nodes, k)
    OBVIOUS
  <2>2. \/ \E t \in nodes[k].tools : e = [tool |-> t, path |-> Append(k, t.name)]
        \/ \E c \in Children(nodes, k) : \E t \in nodes[c].tools : e = [tool |-> t, path |-> c]
    BY <2>1 DEF ListedTools
  <2>3. ASSUME NEW t \in nodes[k].tools, e = [tool |-> t, path |-> Append(k, t.name)]
        PROVE  e.tool \in ToolsIn(T) /\ ResolvePath(nodes, e.path) = {e.tool}
    BY <1>2, <2>3
  <2>4. ASSUME NEW c \in Children(nodes, k), NEW t \in nodes[c].tools, e = [tool |-> t, path |-> c]
        PROVE  e.tool \in ToolsIn(T) /\ ResolvePath(nodes, e.path) = {e.tool}
    <3>1. c \in DOMAIN nodes /\ Len(c) = Len(k) + 1
      BY DEF Children
    <3>2. Len(k) \in Nat
      BY <1>1
    <3>3. c # <<>>
      BY <3>1, <3>2
    <3> QED
      BY <1>2, <2>4, <3>1, <3>3
  <2> QED
    BY <2>2, <2>3, <2>4
<1>4. ASSUME NEW t \in ToolsIn(T)  PROVE  \E e \in listed : e.tool = t
  <2>1. PICK f \in DOMAIN T : t \in T[f].tools
    BY DEF ToolsIn
  <2> DEFINE k == Key(f)
             e == [tool |-> t, path |-> Append(k, t.name)]
  <2>2. k \in DOMAIN nodes \ {Slash} /\ t \in nodes[k].tools
    BY <1>1, <2>1 DEF IsLeaf
  <2>3. e \in ListedTools(nodes, k)
    BY <2>2 DEF ListedTools
  <2>4. e \in listed /\ e.tool = t
    BY <2>2, <2>3
  <2> QED
    BY <2>4
<1> HIDE DEF listed
<1>5. {e.tool : e \in listed} = ToolsIn(T)
  BY <1>3, <1>4
<1> QED
  BY <1>1, <1>3, <1>5 DEF nodes, listed

(* However a tree was generated, moved about by hand and regenerated: if    *)
(* its files are intact, its directories have their index, its names are    *)
(* plain and no tool is in the way of a namesake, LoadHierarchy finds every *)
(* tool in it, and executing what is listed reaches the tool it was listed  *)
(* for.                                                                     *)
THEOREM ReachableCorrect == Spec => []EveryToolReachable
<1>1. FiledAll => EveryToolReachable
  <2> SUFFICES ASSUME FiledAll, output # Absent, RootFile \in DOMAIN output,
                      PlainNames(output), NoNamesake(output),
                      \A f \in DOMAIN output : output[f].ok,
                      \A d \in Directories(output) : IndexOf(d) \in DOMAIN output
               PROVE  LET nodes == LoadHierarchy(output)
                          listed == UNION {ListedTools(nodes, k) : k \in DOMAIN nodes \ {Slash}}
                      IN  /\ \A k \in DOMAIN nodes \ {<<>>} : Front(k) \in DOMAIN nodes
                          /\ {e.tool : e \in listed} = ToolsIn(output)
                          /\ \A e \in listed : ResolvePath(nodes, e.path) = {e.tool}
    BY Zenon DEF EveryToolReachable
  <2>1. Intact(output)
    BY DEF FiledAll, Filed, Intact
  <2> QED
    BY <2>1, IntactReachable, Zenon
<1> QED
  BY <1>1, FiledInvariant, PTL
-----------------------------------------------------------------------------
(* What RegenerateDirectory makes of a directory depends on the files below *)
(* it alone, and not on its own index.                                      *)
SameBelow(T, U, e) ==
  /\ Directories(T) = Directories(U)
  /\ \A f \in DOMAIN T \cup DOMAIN U :
       f # IndexOf(e) /\ IsPrefix(e, f[1]) =>
         f \in DOMAIN T /\ f \in DOMAIN U /\ T[f] = U[f]

(* A path that is longer than its beginning d goes through below d.         *)
LEMMA BelowOf ==
  ASSUME NEW d \in Paths, NEW p \in Paths, IsPrefix(d, p), NEW i \in Len(d) + 1 .. Len(p)
  PROVE  /\ SubSeq(p, 1, i) \in Paths /\ Len(SubSeq(p, 1, i)) = i
         /\ IsPrefix(d, SubSeq(p, 1, i))
         /\ IndexOf(SubSeq(p, 1, i)) # IndexOf(d)
         /\ IndexOf(SubSeq(p, 1, i))[1] = SubSeq(p, 1, i)
<1> DEFINE q == SubSeq(p, 1, i)
<1>1. Len(d) \in Nat /\ Len(d) >= 1 /\ Len(p) \in Nat
  BY PlaceOf
<1>2. i \in 1 .. Len(p) /\ Len(d) \in 1 .. i /\ i # Len(d)
  BY <1>1
<1>3. q \in Paths /\ Len(q) = i /\ \A j \in 1 .. i : SubSeq(q, 1, j) = SubSeq(p, 1, j)
  BY <1>2, BeginningOf
<1>4. d = SubSeq(p, 1, Len(d))
  BY BeginsWith
<1> HIDE DEF q
<1>5. d = SubSeq(q, 1, Len(d)) /\ Len(d) <= Len(q) /\ q # d
  <2>1. d = SubSeq(q, 1, Len(d))
    BY <1>2, <1>3, <1>4
  <2>2. Len(d) <= i /\ Len(d) # i
    BY <1>1, <1>2
  <2> QED
    BY <1>3, <2>1, <2>2
<1>6. IsPrefix(d, q)
  BY <1>3, <1>5, BeginsWith
<1>7. IndexOf(q)[1] = q /\ IndexOf(d)[1] = d
  BY <1>3, IndexFile
<1> QED
  BY <1>3, <1>5, <1>6, <1>7 DEF q

(* The same files below a directory hold the same number of tools.          *)
LEMMA CountSame ==
  ASSUME NEW T, FiledTree(T), NEW U, FiledTree(U), NEW e \in Paths, SameBelow(T, U, e)
  PROVE  CountTotalTools(T, e) = CountTotalTools(U, e)
<1>0. ASSUME NEW f, f # IndexOf(e), IsPrefix(e, f[1])
      PROVE  /\ f \in DOMAIN T <=> f \in DOMAIN U
             /\ f \in DOMAIN T => T[f] = U[f]
  BY <1>0 DEF SameBelow
<1>1. ASSUME NEW f, f \in DOMAIN T \cup DOMAIN U, f # IndexOf(e), IsPrefix(e, f[1]),
             NEW i \in Len(e) + 1 .. Len(f[1])
      PROVE  LET index == IndexOf(SubSeq(f[1], 1, i))
             IN  /\ Readable(T, index) <=> Readable(U, index)
                 /\ IsLeaf(T, index) <=> IsLeaf(U, index)
  <2> DEFINE index == IndexOf(SubSeq(f[1], 1, i))
  <2>1. f[1] \in Seq(Names) /\ f[1] # <<>>
    BY <1>1, BeginsWith, DirectoriesOf DEF FiledTree
  <2>2. f[1] \in Paths
    BY <2>1 DEF Paths
  <2>3. index # IndexOf(e) /\ IsPrefix(e, index[1])
    <3>1. /\ IsPrefix(e, SubSeq(f[1], 1, i)) /\ index # IndexOf(e)
          /\ index[1] = SubSeq(f[1], 1, i)
      BY <1>1, <2>2, BelowOf
    <3> QED
      BY <3>1
  <2> HIDE DEF index
  <2>4. Readable(T, index) <=> Readable(U, index)
    BY <1>0, <2>3 DEF Readable
  <2>5. IsLeaf(T, index) <=> IsLeaf(U, index)
    BY <1>0, <2>3 DEF IsLeaf
  <2> QED
    BY <2>4, <2>5 DEF index
<1>2. ASSUME NEW f  PROVE  f \in Counted(T, e) <=> f \in Counted(U, e)
  <2>1. CASE f \notin DOMAIN T \cup DOMAIN U \/ f = IndexOf(e) \/ ~IsPrefix(e, f[1])
    BY <2>1 DEF Counted
  <2>2. CASE f \in DOMAIN T \cup DOMAIN U /\ f # IndexOf(e) /\ IsPrefix(e, f[1])
    <3>1. f \in DOMAIN T /\ f \in DOMAIN U /\ T[f] = U[f]
      BY <1>0, <2>2
    <3>2. \A i \in Len(e) + 1 .. Len(f[1]) :
            LET index == IndexOf(SubSeq(f[1], 1, i))
            IN  /\ Readable(T, index) <=> Readable(U, index)
                /\ IsLeaf(T, index) <=> IsLeaf(U, index)
      BY <1>1, <2>2
    <3> QED
      BY <2>2, <3>1, <3>2, Zenon DEF Counted
  <2> QED
    BY <2>1, <2>2
<1>3. Counted(T, e) = Counted(U, e)
  BY <1>2
<1> DEFINE v == [g \in DOMAIN T |-> Cardinality(T[g].tools)]
           w == [g \in DOMAIN U |-> Cardinality(U[g].tools)]
<1>4. \A f \in Counted(T, e) : v[f] = w[f]
  BY <1>0 DEF Counted
<1>5. CountTotalTools(T, e) = Total(v, Counted(T, e))
      /\ CountTotalTools(U, e) = Total(w, Counted(U, e))
  BY DEF CountTotalTools
<1> HIDE DEF v, w
<1>6. Total(v, Counted(T, e)) = Total(w, Counted(T, e))
  BY <1>4, TotalSame, Zenon
<1> QED
  BY <1>3, <1>5, <1>6
(* Files and indexes in order of their names: an order if no two of a kind  *)
(* have the same name.                                                      *)
LEMMA ByName ==
  ASSUME NEW A, NEW B, A \cap B = {}, \A f \in A \cup B : f[2] \in Names,
         \A f, g \in A : f[2] = g[2] => f = g,
         \A f, g \in B : f[2] = g[2] => f = g
  PROVE  StrictOrder(A \cup B,
           {p \in (A \cup B) \X (A \cup B) :
              \/ NamePosition(p[1][2]) < NamePosition(p[2][2])
              \/ p[1][2] = p[2][2] /\ p[1] \in B /\ p[2] \in A})
<1> DEFINE S == A \cup B
           R == {p \in S \X S : \/ NamePosition(p[1][2]) < NamePosition(p[2][2])
                                \/ p[1][2] = p[2][2] /\ p[1] \in B /\ p[2] \in A}
           pos(f) == NamePosition(f[2])
<1>1. \A f \in S : pos(f) \in Nat /\ NameOrder[pos(f)] = f[2]
  BY PositionOf
<1>2. \A f, g \in S : <<f, g>> \in R <=> pos(f) < pos(g) \/ (f[2] = g[2] /\ f \in B /\ g \in A)
  OBVIOUS
<1>3. \A f, g \in S : f[2] = g[2] <=> pos(f) = pos(g)
  <2> HIDE DEF S
  <2> QED  BY <1>1
<1>4. \A f, g \in S : f[2] = g[2] /\ ~(f \in B /\ g \in A) /\ ~(g \in B /\ f \in A) => f = g
  OBVIOUS
<1>5. \A f \in S : ~(f \in B /\ f \in A)
  OBVIOUS
<1> HIDE DEF S, R, pos
<1>6. \A f \in S : <<f, f>> \notin R
  BY <1>1, <1>2, <1>5
<1>7. \A f, g, h \in S : <<f, g>> \in R /\ <<g, h>> \in R => <<f, h>> \in R
  <2> SUFFICES ASSUME NEW f \in S, NEW g \in S, NEW h \in S, <<f, g>> \in R, <<g, h>> \in R
               PROVE  <<f, h>> \in R
    OBVIOUS
  <2>1. pos(f) \in Nat /\ pos(g) \in Nat /\ pos(h) \in Nat
    BY <1>1
  <2>2. pos(f) < pos(g) \/ (pos(f) = pos(g) /\ f \in B /\ g \in A)
    BY <1>2, <1>3
  <2>3. pos(g) < pos(h) \/ (pos(g) = pos(h) /\ g \in B /\ h \in A)
    BY <1>2, <1>3
  <2>4. pos(f) < pos(h)
    BY <1>5, <2>1, <2>2, <2>3
  <2> QED
    BY <1>2, <2>4
<1>8. \A f, g \in S : f = g \/ <<f, g>> \in R \/ <<g, f>> \in R
  <2> SUFFICES ASSUME NEW f \in S, NEW g \in S, f # g  PROVE  <<f, g>> \in R \/ <<g, f>> \in R
    OBVIOUS
  <2>1. pos(f) < pos(g) \/ pos(g) < pos(f) \/ pos(f) = pos(g)
    BY <1>1
  <2> QED
    BY <1>2, <1>3, <1>4, <2>1
<1>9. StrictOrder(S, R)
  BY <1>6, <1>7, <1>8 DEF StrictOrder
<1> QED
  BY <1>9 DEF S, R

(* The same files below a directory are summed up in the same way.          *)
LEMMA SummariesSame ==
  ASSUME NEW T, FiledTree(T), NEW U, FiledTree(U), NEW e \in Paths, SameBelow(T, U, e)
  PROVE  ChildSummaries(T, e) = ChildSummaries(U, e)
<1> DEFINE files(X) == {f \in Files(X, e) : f # IndexOf(e) /\ IsLeaf(X, f)}
           indexes(X) == {IndexOf(s) : s \in {q \in Subdirectories(X, e) : Readable(X, IndexOf(q))}}
           before(fs, xs) == {p \in (fs \cup xs) \X (fs \cup xs) :
                                \/ NamePosition(p[1][2]) < NamePosition(p[2][2])
                                \/ p[1][2] = p[2][2] /\ p[1] \in xs /\ p[2] \in fs}
           summary(X, f) == [child |-> f[2],
                             brief |-> IF X[f].tools # {}
                                       THEN Text((CHOOSE t \in X[f].tools : TRUE).description)
                                       ELSE Brief(X[f].overview)]
           sorted(fs, xs) == SortedBy(fs \cup xs, before(fs, xs))
<1>1. \A X : ChildSummaries(X, e) =
               [i \in DOMAIN sorted(files(X), indexes(X)) |->
                  summary(X, sorted(files(X), indexes(X))[i])]
  BY DEF ChildSummaries
<1>2. ASSUME NEW f, f # IndexOf(e), IsPrefix(e, f[1])
      PROVE  /\ f \in DOMAIN T <=> f \in DOMAIN U
             /\ f \in DOMAIN T => T[f] = U[f]
  BY <1>2 DEF SameBelow
<1>3. files(T) = files(U)
  <2>1. IsPrefix(e, e)
    BY BeginsWith
  <2>2. ASSUME NEW f  PROVE  f \in files(T) <=> f \in files(U)
    <3>1. CASE f[1] = e /\ f # IndexOf(e)
      BY <1>2, <2>1, <3>1 DEF Files, IsLeaf
    <3>2. CASE ~(f[1] = e /\ f # IndexOf(e))
      BY <3>2 DEF Files
    <3> QED
      BY <3>1, <3>2
  <2> HIDE DEF files
  <2> QED
    BY <2>2
<1>4. Subdirectories(T, e) = Subdirectories(U, e)
  BY DEF Subdirectories, SameBelow
<1>5. ASSUME NEW q \in Subdirectories(T, e)
      PROVE  IndexOf(q) # IndexOf(e) /\ IsPrefix(e, IndexOf(q)[1])
  <2>1. q \in Directories(T) /\ Len(q) = Len(e) + 1 /\ IsPrefix(e, q)
    BY DEF Subdirectories
  <2>2. q \in Paths
    BY <2>1, DirectoriesOf DEF FiledTree
  <2>3. IndexOf(q)[1] = q /\ IndexOf(e)[1] = e
    BY <2>2, IndexFile
  <2>4. q # e
    BY <2>1, PlaceOf
  <2> QED
    BY <2>1, <2>3, <2>4
<1>6. \A q \in Subdirectories(T, e) : Readable(T, IndexOf(q)) <=> Readable(U, IndexOf(q))
  BY <1>2, <1>5 DEF Readable
<1>7. indexes(T) = indexes(U)
  BY <1>4, <1>6
<1>8. \A f \in files(T) \cup indexes(T) : T[f] = U[f]
  <2>1. ASSUME NEW f \in files(T)  PROVE  T[f] = U[f]
    <3>1. f[1] = e /\ f # IndexOf(e) /\ f \in DOMAIN T /\ IsPrefix(e, e)
      BY BeginsWith DEF Files
    <3> QED
      BY <1>2, <3>1
  <2>2. ASSUME NEW f \in indexes(T)  PROVE  T[f] = U[f]
    <3>1. PICK q \in Subdirectories(T, e) : f = IndexOf(q) /\ Readable(T, IndexOf(q))
      OBVIOUS
    <3> QED
      BY <1>2, <1>5, <3>1 DEF Readable
  <2> QED
    BY <2>1, <2>2
<1> DEFINE fs == files(T)
           xs == indexes(T)
           list == sorted(fs, xs)
<1>9. /\ ChildSummaries(T, e) = [i \in DOMAIN list |-> summary(T, list[i])]
      /\ ChildSummaries(U, e) = [i \in DOMAIN list |-> summary(U, list[i])]
  <2> HIDE DEF files, indexes, sorted, summary
  <2> QED
    BY <1>1, <1>3, <1>7
<1>10. \A f \in fs \cup xs : summary(T, f) = summary(U, f)
  <2> HIDE DEF fs, xs
  <2> QED
    BY <1>8 DEF fs, xs
<1>11. \A i \in DOMAIN list : list[i] \in fs \cup xs
  <2>1. fs \subseteq DOMAIN T /\ \A f \in fs : f[1] = e
    BY DEF Files
  <2>2. ASSUME NEW f \in xs
        PROVE  /\ f \in DOMAIN T /\ f[1] \in Paths /\ f[2] = Last(f[1])
               /\ Len(f[1]) = Len(e) + 1 /\ IsPrefix(e, f[1]) /\ f = IndexOf(f[1])
    <3>1. PICK q \in Subdirectories(T, e) : f = IndexOf(q) /\ Readable(T, IndexOf(q))
      OBVIOUS
    <3>2. q \in Directories(T) /\ Len(q) = Len(e) + 1 /\ IsPrefix(e, q)
      BY DEF Subdirectories
    <3>3. q \in Paths
      BY <3>2, DirectoriesOf DEF FiledTree
    <3> QED
      BY <3>1, <3>2, <3>3, IndexFile DEF Readable
  <2> HIDE DEF fs, xs
  <2>3. IsFiniteSet(fs \cup xs)
    <3>1. fs \cup xs \subseteq DOMAIN T
      BY <2>1, <2>2
    <3> QED
      BY <3>1, FS_Subset DEF FiledTree
  <2>4. \A f \in fs \cup xs : f \in Paths \X Names
    <3>1. RootFile[1] = <<>> /\ e # <<>> /\ <<>> \notin Paths
      BY DEF RootFile, Paths
    <3>2. \A f \in fs \cup xs : f \in DOMAIN T /\ f[1] \in Paths /\ f # RootFile
      BY <2>1, <2>2, <3>1
    <3>3. \A f \in fs \cup xs : f \in Seq(Names) \X Names
      BY <3>2 DEF FiledTree
    <3> QED
      BY <3>2, <3>3
  <2>5. fs \cap xs = {}
    <3>1. Len(e) \in Nat
      BY PlaceOf
    <3>2. \A f \in xs : Len(f[1]) # Len(e)
      BY <2>2, <3>1
    <3> QED
      BY <2>1, <3>2
  <2>6. \A f, g \in fs : f[2] = g[2] => f = g
    BY <2>1, <2>4
  <2>7. ASSUME NEW f \in xs, NEW g \in xs, f[2] = g[2]  PROVE  f = g
    <3>1. /\ f[1] \in Paths /\ g[1] \in Paths /\ Last(f[1]) = Last(g[1])
          /\ f = IndexOf(f[1]) /\ g = IndexOf(g[1])
          /\ Len(f[1]) = Len(e) + 1 /\ Len(g[1]) = Len(e) + 1
          /\ IsPrefix(e, f[1]) /\ IsPrefix(e, g[1])
      BY <2>2, <2>7
    <3>2. ASSUME NEW p \in Paths, Len(p) = Len(e) + 1, IsPrefix(e, p)  PROVE  Front(p) = e
      <4>1. e = SubSeq(p, 1, Len(e)) /\ Len(e) \in Nat
        BY <3>2, BeginsWith, PlaceOf
      <4>2. Len(p) - 1 = Len(e)
        BY <3>2, <4>1
      <4> QED
        BY <4>1, <4>2 DEF Front
    <3>3. f[1] = Append(e, Last(f[1])) /\ g[1] = Append(e, Last(g[1]))
      BY <3>1, <3>2, LastOf
    <3> QED
      BY <3>1, <3>3
  <2>8. \A f \in fs \cup xs : f[2] \in Names
    BY <2>4
  <2>9. StrictOrder(fs \cup xs, before(fs, xs))
    BY <2>5, <2>6, <2>7, <2>8, ByName
  <2> HIDE DEF before
  <2>10. list \in Seq(fs \cup xs)
    BY <2>3, <2>9, SortedBySet
  <2> HIDE DEF list
  <2> QED
    BY <2>10
<1> HIDE DEF fs, xs, list, summary, files, indexes
<1> QED
  BY <1>9, <1>10, <1>11
(* Only the files below a directory determine its generated overview.       *)
LEMMA OverviewSame ==
  ASSUME NEW T, FiledTree(T), NEW U, FiledTree(U), NEW e \in Paths, SameBelow(T, U, e)
  PROVE  GeneratedOverview(T, e) = GeneratedOverview(U, e)
BY CountSame, SummariesSame, Zenon DEF GeneratedOverview

(* Writing the index of a directory that is there, or root.json, makes no   *)
(* new directory.                                                           *)
LEMMA WriteKeepsDirectories ==
  ASSUME NEW T, FiledTree(T), NEW f, NEW node,
         f = RootFile \/ \E d \in Directories(T) : f = IndexOf(d)
  PROVE  Directories(Put(T, f, node)) = Directories(T)
<1> DEFINE U == Put(T, f, node)
<1>1. DOMAIN U = DOMAIN T \cup {f}
  BY PutOf
<1> HIDE DEF U
<1>2. ASSUME NEW i \in 1 .. Len(f[1])  PROVE  SubSeq(f[1], 1, i) \in Directories(T)
  <2>1. CASE f = RootFile
    <3>1. f[1] = <<>> /\ Len(<<>>) = 0
      BY <2>1 DEF RootFile
    <3> QED
      BY <3>1
  <2>2. CASE f # RootFile
    <3>1. PICK d \in Directories(T) : f = IndexOf(d)
      BY <2>2
    <3>2. d \in Paths /\ f[1] = d
      BY <3>1, DirectoriesOf, IndexFile DEF FiledTree
    <3> QED
      BY <3>2, DirectoriesOf DEF FiledTree
  <2> QED
    BY <2>1, <2>2
<1>3. Directories(U) = Directories(T)
  BY <1>1, <1>2 DEF Directories
<1> QED
  BY <1>3 DEF U

(* A write that is not below a directory, or is its index, leaves what is   *)
(* below the directory.                                                     *)
LEMMA WriteSameBelow ==
  ASSUME NEW T, FiledTree(T), NEW f, NEW node, node.tools = {},
         f = RootFile \/ \E d \in Directories(T) : f = IndexOf(d),
         NEW e \in Paths, f = IndexOf(e) \/ ~IsPrefix(e, f[1])
  PROVE  /\ FiledTree(Put(T, f, node))
         /\ SameBelow(T, Put(T, f, node), e)
<1>1. f = RootFile \/ f \in Indexes
  BY DirectoriesOf, IndexFile DEF FiledTree
<1>2. FiledTree(Put(T, f, node))
  BY <1>1, WriteFiled
<1>3. Directories(T) = Directories(Put(T, f, node))
  BY WriteKeepsDirectories
<1>4. SameBelow(T, Put(T, f, node), e)
  <2> DEFINE U == Put(T, f, node)
  <2>1. DOMAIN U = DOMAIN T \cup {f} /\ \A g \in DOMAIN T : g # f => U[g] = T[g]
    BY DEF Put
  <2>2. Directories(T) = Directories(U)
    BY <1>3
  <2> HIDE DEF U
  <2>3. SameBelow(T, U, e)
    BY <2>1, <2>2 DEF SameBelow
  <2> QED
    BY <2>3 DEF U
<1> QED
  BY <1>2, <1>4

(* A directory whose index says what RegenerateDirectory would write, or is *)
(* a tool, which it leaves alone.                                           *)
Settled(T, d) ==
  \/ IsLeaf(T, IndexOf(d))
  \/ IndexOf(d) \in DOMAIN T /\ T[IndexOf(d)] = Branch(FinalOverview(T, d))

(* It stays settled as long as nothing below it changes.                    *)
LEMMA StaysSettled ==
  ASSUME NEW T, FiledTree(T), NEW f, NEW node, node.tools = {},
         f = RootFile \/ \E d \in Directories(T) : f = IndexOf(d),
         NEW e \in Paths, Settled(T, e), ~IsPrefix(e, f[1])
  PROVE  Settled(Put(T, f, node), e)
<1> DEFINE U == Put(T, f, node)
<1>1. FiledTree(U) /\ SameBelow(T, U, e)
  BY WriteSameBelow
<1>2. IndexOf(e) # f
  BY BeginsWith, IndexFile
<1>3. IndexOf(e) \in DOMAIN T /\ IndexOf(e) \in DOMAIN U /\ U[IndexOf(e)] = T[IndexOf(e)]
  BY <1>2 DEF Settled, IsLeaf, Put
<1> HIDE DEF U
<1>4. GeneratedOverview(U, e) = GeneratedOverview(T, e)
  BY <1>1, OverviewSame
<1>5. FinalOverview(U, e) = FinalOverview(T, e)
  BY <1>3, <1>4 DEF FinalOverview, Readable
<1>6. Settled(U, e)
  BY <1>3, <1>5 DEF Settled, IsLeaf
<1> QED
  BY <1>6 DEF U

(* RegenerateDirectory settles a directory.                                 *)
LEMMA GetsSettled ==
  ASSUME NEW T, FiledTree(T), NEW d \in Directories(T)
  PROVE  /\ FiledTree(RegeneratedIndex(T, d))
         /\ \/ RegeneratedIndex(T, d) = T
            \/ RegeneratedIndex(T, d) = Put(T, IndexOf(d), Branch(FinalOverview(T, d)))
         /\ Directories(RegeneratedIndex(T, d)) = Directories(T)
         /\ Settled(RegeneratedIndex(T, d), d)
<1> DEFINE f == IndexOf(d)
           o == FinalOverview(T, d)
           U == Put(T, f, Branch(o))
<1>1. d \in Paths /\ f \in Indexes
  BY DirectoriesOf, IndexFile DEF FiledTree
<1>2. CASE IsLeaf(T, f)
  BY <1>2 DEF RegeneratedIndex, Settled
<1> SUFFICES ASSUME ~IsLeaf(T, f)
             PROVE  /\ FiledTree(RegeneratedIndex(T, d))
                    /\ RegeneratedIndex(T, d) = Put(T, IndexOf(d), Branch(FinalOverview(T, d)))
                    /\ Directories(RegeneratedIndex(T, d)) = Directories(T)
                    /\ Settled(RegeneratedIndex(T, d), d)
  BY <1>2
<1>3. RegeneratedIndex(T, d) = U
  BY DEF RegeneratedIndex
<1>4. Branch(o).tools = {} /\ Branch(o).ok /\ Branch(o).overview = o
  BY DEF Branch
<1>5. FiledTree(U) /\ SameBelow(T, U, d)
  BY <1>1, <1>4, WriteSameBelow
<1>6. f \in DOMAIN U /\ U[f] = Branch(o)
  BY DEF Put
<1>7. Directories(U) = Directories(T)
  BY WriteKeepsDirectories
<1> HIDE DEF U
<1>8. GeneratedOverview(U, d) = GeneratedOverview(T, d)
  BY <1>1, <1>5, OverviewSame
<1>9. \/ o # Empty /\ ~LooksGenerated(o)
      \/ o = GeneratedOverview(T, d)
  BY DEF FinalOverview
<1>10. FinalOverview(U, d) = o
  <2>1. Readable(U, f) /\ U[f].overview = o
    BY <1>4, <1>6 DEF Readable
  <2> HIDE DEF o
  <2> QED
    BY <1>8, <1>9, <2>1 DEF FinalOverview
<1>11. Settled(U, d)
  BY <1>6, <1>10 DEF Settled
<1> QED
  BY <1>3, <1>5, <1>7, <1>11 DEF U

(* Where everything is settled, Regenerate finds nothing to write.          *)
LEMMA NothingToWrite ==
  ASSUME NEW T, FiledTree(T), \A d \in Directories(T) : Settled(T, d)
  PROVE  RegeneratedIndexes(T) = T
<1> DEFINE V == Visits(T)
           N == Len(V)
<1>1. N \in Nat /\ \A n \in 1 .. N : V[n] \in Directories(T)
  BY VisitsOf
<1>2. ASSUME NEW d \in Directories(T)  PROVE  RegeneratedIndex(T, d) = T
  <2>1. CASE IsLeaf(T, IndexOf(d))
    BY <2>1 DEF RegeneratedIndex
  <2>2. CASE ~IsLeaf(T, IndexOf(d))
    <3>1. /\ RegeneratedIndex(T, d) = Put(T, IndexOf(d), Branch(FinalOverview(T, d)))
          /\ IndexOf(d) \in DOMAIN T
          /\ T[IndexOf(d)] = Branch(FinalOverview(T, d))
      BY <2>2 DEF RegeneratedIndex, Settled
    <3>2. T = [f \in DOMAIN T |-> T[f]]
      BY DEF FiledTree
    <3> QED
      BY <3>1, <3>2 DEF Put
  <2> QED
    BY <2>1, <2>2
<1> HIDE DEF V
<1>3. PICK g : /\ g[0] = T
               /\ \A n \in 1 .. N : g[n] = RegeneratedIndex(g[n - 1], V[n])
               /\ RegeneratedIndexes(T) = g[N]
  BY <1>1, OneByOne DEF V
<1> DEFINE P == {n \in Nat : n <= N => g[n] = T}
<1>4. 0 \in P
  BY <1>3
<1>5. ASSUME NEW n \in Nat, n \in P  PROVE  n + 1 \in P
  <2> SUFFICES ASSUME n + 1 <= N  PROVE  g[n + 1] = T
    OBVIOUS
  <2>1. n + 1 \in 1 .. N /\ (n + 1) - 1 = n /\ g[n] = T
    BY <1>1, <1>5
  <2>2. g[n + 1] = RegeneratedIndex(T, V[n + 1]) /\ V[n + 1] \in Directories(T)
    BY <1>1, <1>3, <2>1
  <2> QED
    BY <1>2, <2>2
<1>6. N \in P
  <2> HIDE DEF P
  <2> QED  BY <1>1, <1>4, <1>5, AllNumbers
<1> QED
  BY <1>1, <1>3, <1>6
(* root.json is made from what is below it, not from itself.                *)
LEMMA RootSame ==
  ASSUME NEW T, FiledTree(T), NEW node, node.tools = {}, NEW ds, ds \subseteq Directories(T)
  PROVE  RootOverview(Put(T, RootFile, node), ds) = RootOverview(T, ds)
<1> DEFINE U == Put(T, RootFile, node)
           servers == {d \in ds : Readable(T, IndexOf(d))}
           list == InVisitOrder(servers)
           children(X) == [i \in DOMAIN list |->
                             [child |-> Last(list[i]),
                              brief |-> Brief(X[IndexOf(list[i])].overview)]]
           total(X) == Total([d \in servers |-> CountTotalTools(X, d)], servers)
<1>1. ds \subseteq Paths /\ IsFiniteSet(ds)
  BY DirectoriesOf, DirectoriesFinite, FS_Subset DEF FiledTree
<1>2. /\ DOMAIN U = DOMAIN T \cup {RootFile}
      /\ \A f \in DOMAIN T : f # RootFile => U[f] = T[f]
  BY DEF Put
<1>3. ASSUME NEW d \in ds  PROVE  CountTotalTools(U, d) = CountTotalTools(T, d)
  <2>1. d \in Paths /\ ~IsPrefix(d, RootFile[1])
    <3>1. RootFile[1] = <<>>
      BY DEF RootFile
    <3> QED
      BY <1>1, <3>1, BeginsWith
  <2>2. FiledTree(U) /\ SameBelow(T, U, d)
    BY <2>1, WriteSameBelow
  <2> HIDE DEF U
  <2> QED
    BY <2>1, <2>2, CountSame
<1> HIDE DEF U
<1>4. \A d \in ds : IndexOf(d) # RootFile
  BY <1>1, IndexFile
<1>5. servers = {d \in ds : Readable(U, IndexOf(d))}
  BY <1>2, <1>4 DEF Readable
<1>6. \A d \in servers : U[IndexOf(d)] = T[IndexOf(d)]
  BY <1>2, <1>4 DEF Readable
<1>7. \A i \in DOMAIN list : list[i] \in servers
  <2> DEFINE R == {p \in servers \X servers : VisitedBefore(p[1], p[2])}
  <2>1. servers \subseteq Paths /\ IsFiniteSet(servers)
    BY <1>1, FS_Subset
  <2>2. StrictOrder(servers, R)
    BY <2>1, VisitsOrdered, Zenon
  <2>3. list = SortedBy(servers, R)
    BY DEF InVisitOrder
  <2> HIDE DEF R, list, servers
  <2>4. list \in Seq(servers)
    BY <2>1, <2>2, <2>3, SortedBySet
  <2> QED
    BY <2>4
<1>8. children(U) = children(T)
  <2> HIDE DEF list, servers
  <2> QED
    BY <1>6, <1>7
<1>9. total(U) = total(T)
  <2>1. [d \in servers |-> CountTotalTools(U, d)] = [d \in servers |-> CountTotalTools(T, d)]
    BY <1>3
  <2> QED
    BY <2>1, Zenon
<1>10. /\ RootOverview(T, ds) = IF servers = {} THEN Text("index")
                                ELSE Overview("root", "root", total(T), children(T))
       /\ RootOverview(U, ds) = IF servers = {} THEN Text("index")
                                ELSE Overview("root", "root", total(U), children(U))
  <2>1. RootOverview(T, ds) = IF servers = {} THEN Text("index")
                              ELSE Overview("root", "root", total(T), children(T))
    BY Zenon DEF RootOverview
  <2> DEFINE readable == {d \in ds : Readable(U, IndexOf(d))}
             sorted == InVisitOrder(readable)
  <2>2. RootOverview(U, ds) =
          IF readable = {} THEN Text("index")
          ELSE Overview("root", "root", Total([d \in readable |-> CountTotalTools(U, d)], readable),
                 [i \in DOMAIN sorted |->
                    [child |-> Last(sorted[i]), brief |-> Brief(U[IndexOf(sorted[i])].overview)]])
    BY Zenon DEF RootOverview
  <2>3. readable = servers
    BY <1>5
  <2> HIDE DEF readable, servers
  <2> QED
    BY <2>1, <2>2, <2>3, Zenon
<1> HIDE DEF servers, children, total
<1> QED
  BY <1>8, <1>9, <1>10 DEF U

(* The tools of a tree: as many as its tool files.                          *)
LEMMA ToolFiles ==
  ASSUME NEW T, FiledTree(T)
  PROVE  LET leaves == {f \in DOMAIN T : IsLeaf(T, f)}
         IN  /\ IsFiniteSet(leaves)
             /\ \A f \in leaves : Cardinality(T[f].tools) = 1
             /\ \A f \in DOMAIN T \ leaves : Cardinality(T[f].tools) = 0
             /\ Cardinality(ToolsIn(T)) = Cardinality(leaves)
<1> DEFINE flat == {f \in DOMAIN T : IsLeaf(T, f)}
           the(f) == CHOOSE t : T[f].tools = {t}
           tool == [f \in flat |-> the(f)]
<1>1. IsFiniteSet(flat)
  BY FS_Subset DEF FiledTree
<1>2. ASSUME NEW f \in flat  PROVE  T[f].tools = {tool[f]}
  <2>1. \E t : T[f].tools = {t}
    BY DEF FiledTree, IsLeaf
  <2> QED
    BY <2>1
<1>3. \A f \in DOMAIN T \ flat : T[f].tools = {}
  BY DEF IsLeaf
<1>4. \A f, g \in flat : f # g => tool[f] # tool[g]
  <2> SUFFICES ASSUME NEW f \in flat, NEW g \in flat, f # g  PROVE  tool[f] # tool[g]
    OBVIOUS
  <2>1. T[f].tools \cap T[g].tools = {}
    BY DEF FiledTree
  <2>2. T[f].tools = {tool[f]} /\ T[g].tools = {tool[g]}
    BY <1>2
  <2> HIDE DEF tool
  <2> QED
    BY <2>1, <2>2
<1>5. tool = [f \in flat |-> tool[f]]
  <2> HIDE DEF flat, the
  <2> QED  OBVIOUS
<1> HIDE DEF tool
<1>6. \A t : t \in ToolsIn(T) <=> \E f \in flat : t = tool[f]
  <2>1. ASSUME NEW t, t \in ToolsIn(T)  PROVE  \E f \in flat : t = tool[f]
    <3>1. PICK f \in DOMAIN T : t \in T[f].tools
      BY <2>1 DEF ToolsIn
    <3>2. f \in flat
      BY <1>3, <3>1
    <3> QED
      BY <1>2, <3>1, <3>2
  <2>2. ASSUME NEW f \in flat  PROVE  tool[f] \in ToolsIn(T)
    BY <1>2 DEF ToolsIn
  <2> QED
    BY <2>1, <2>2
<1> HIDE DEF flat
<1>7. tool \in Bijection(flat, ToolsIn(T))
  BY <1>4, <1>5, <1>6 DEF Bijection, Injection, Surjection, IsInjective
<1>8. Cardinality(ToolsIn(T)) = Cardinality(flat)
  <2>1. ExistsBijection(flat, ToolsIn(T))
    BY <1>7 DEF ExistsBijection
  <2> QED
    BY <1>1, <2>1, FS_Bijection
<1>9. \A f \in flat : Cardinality(T[f].tools) = 1
  BY <1>2, FS_Singleton
<1>10. \A f \in DOMAIN T \ flat : Cardinality(T[f].tools) = 0
  BY <1>3, FS_EmptySet
<1> QED
  BY <1>1, <1>8, <1>9, <1>10 DEF flat
(* A settled directory has an index that can be read.                       *)
LEMMA SettledReadable ==
  ASSUME NEW T, FiledTree(T), NEW d, Settled(T, d)
  PROVE  Readable(T, IndexOf(d)) /\ IndexOf(d) \in DOMAIN T /\ T[IndexOf(d)].ok
<1>1. \A o : Branch(o).ok
  BY DEF Branch
<1>2. IsLeaf(T, IndexOf(d)) => IndexOf(d) \in DOMAIN T /\ T[IndexOf(d)].ok
  BY DEF IsLeaf, FiledTree
<1> QED
  BY <1>1, <1>2 DEF Settled, Readable

(* Where everything is settled and the layout is flat, every tool file is   *)
(* counted once for the directory at the top that it is in.                 *)
LEMMA CountedOnce ==
  ASSUME NEW T, FiledTree(T), \A d \in Directories(T) : Settled(T, d), FlatLayout(T)
  PROVE  LET top == Subdirectories(T, <<>>)
         IN  /\ \A d, e \in top : d # e => Counted(T, d) \cap Counted(T, e) = {}
             /\ \A f \in DOMAIN T : IsLeaf(T, f) => \E d \in top : f \in Counted(T, d)
<1> DEFINE top == Subdirectories(T, <<>>)
<1>0. \A d : d \in top <=> d \in Directories(T) /\ Len(d) = 1
  <2>1. Len(<<>>) + 1 = 1
    OBVIOUS
  <2>2. \A d \in Directories(T) : IsPrefix(<<>>, d)
    BY DirectoriesOf, BeginsWith DEF FiledTree
  <2> QED
    BY <2>1, <2>2 DEF Subdirectories
<1>1. ASSUME NEW d \in top  PROVE  d \in Paths /\ Len(d) = 1
  BY <1>0, DirectoriesOf DEF FiledTree
<1>2. ASSUME NEW d \in top, NEW e \in top, NEW f, f \in Counted(T, d), f \in Counted(T, e)
      PROVE  d = e
  <2>1. d \in Paths /\ e \in Paths /\ Len(d) = 1 /\ Len(e) = 1
    BY <1>1
  <2>2. f \in DOMAIN T /\ IsPrefix(d, f[1]) /\ IsPrefix(e, f[1])
    BY <1>2 DEF Counted
  <2>3. f[1] \in Seq(Names) /\ f[1] # <<>>
    BY <2>1, <2>2, BeginsWith, DirectoriesOf DEF FiledTree
  <2>4. f[1] \in Paths
    BY <2>3 DEF Paths
  <2> QED
    BY <2>1, <2>2, <2>4, BeginsWith
<1>3. ASSUME NEW f \in DOMAIN T, IsLeaf(T, f)
      PROVE  \E d \in top : f \in Counted(T, d)
  <2> DEFINE p == f[1]
             d == SubSeq(p, 1, 1)
  <2>0. f[1] # <<>> /\ f[2] # Last(f[1])
    BY <1>3 DEF FlatLayout
  <2>1. p \in Paths /\ T[f].ok
    <3>1. p \in Seq(Names)
      BY DirectoriesOf DEF FiledTree
    <3>2. T[f].ok
      BY <1>3 DEF FiledTree, IsLeaf
    <3> QED
      BY <2>0, <3>1, <3>2 DEF Paths
  <2>2. p \in Directories(T) /\ Len(p) \in Nat /\ 1 \in 1 .. Len(p)
    BY <2>0, <2>1, DirectoriesOf, PlaceOf DEF FiledTree
  <2>3. d \in Paths /\ Len(d) = 1 /\ d \in Directories(T) /\ d \in top
    <3>1. d \in Paths /\ Len(d) = 1
      BY <2>1, <2>2, BeginningOf
    <3>2. d \in Directories(T)
      BY <2>2, DirectoriesOf DEF FiledTree
    <3> QED
      BY <1>0, <3>1, <3>2
  <2>4. IsPrefix(d, p)
    <3>1. d = SubSeq(p, 1, Len(d)) /\ Len(d) <= Len(p)
      BY <2>2, <2>3
    <3> QED
      BY <2>1, <2>3, <3>1, BeginsWith
  <2>5. ASSUME NEW e \in Directories(T)
        PROVE  IndexOf(e)[1] # <<>> /\ IndexOf(e)[2] = Last(IndexOf(e)[1]) /\ ~IsLeaf(T, IndexOf(e))
    <3>1. e \in Paths /\ IndexOf(e)[1] = e /\ IndexOf(e)[2] = Last(e)
      BY DirectoriesOf, IndexFile DEF FiledTree
    <3> QED
      BY <3>1 DEF FlatLayout, IsLeaf, Paths
  <2>6. f # IndexOf(d)
    BY <1>3, <2>3, <2>5
  <2>7. ASSUME NEW i \in Len(d) + 1 .. Len(p)
        PROVE  LET index == IndexOf(SubSeq(p, 1, i))
               IN  Readable(T, index) /\ ~IsLeaf(T, index)
    <3>1. SubSeq(p, 1, i) \in Directories(T)
      <4>1. i \in 1 .. Len(p)
        BY <2>2, <2>3
      <4> QED
        BY <2>2, <4>1, DirectoriesOf DEF FiledTree
    <3> DEFINE index == IndexOf(SubSeq(p, 1, i))
    <3>2. Readable(T, index) /\ ~IsLeaf(T, index)
      BY <2>5, <3>1, SettledReadable
    <3> QED
      BY <3>2
  <2> HIDE DEF d
  <2>8. f \in Counted(T, d)
    BY <2>1, <2>4, <2>6, <2>7 DEF Counted
  <2> QED
    BY <2>3, <2>8
<1> QED
  BY <1>2, <1>3

(* Then root.json counts every tool.                                        *)
LEMMA RootCount ==
  ASSUME NEW T, FiledTree(T), \A d \in Directories(T) : Settled(T, d), FlatLayout(T)
  PROVE  RootOverview(T, Subdirectories(T, <<>>)).count = Cardinality(ToolsIn(T))
<1> DEFINE top == Subdirectories(T, <<>>)
           flat == {f \in DOMAIN T : IsLeaf(T, f)}
           w == [f \in DOMAIN T |-> Cardinality(T[f].tools)]
           C == [d \in top |-> Counted(T, d)]
           g == [d \in top |-> CountTotalTools(T, d)]
           U == UNION {C[d] : d \in top}
<1>1. /\ \A d, e \in top : d # e => C[d] \cap C[e] = {}
      /\ \A f \in flat : \E d \in top : f \in C[d]
  BY CountedOnce
<1>2. /\ IsFiniteSet(flat)
      /\ \A f \in flat : w[f] = 1
      /\ \A f \in DOMAIN T \ flat : w[f] = 0
      /\ Cardinality(ToolsIn(T)) = Cardinality(flat)
  BY ToolFiles
<1>3. top \subseteq Directories(T) /\ IsFiniteSet(top)
  <2>1. top \subseteq Directories(T)
    BY DEF Subdirectories
  <2> QED
    BY <2>1, DirectoriesFinite, FS_Subset
<1>4. \A d \in top : Readable(T, IndexOf(d))
  BY <1>3, SettledReadable
<1>5. RootOverview(T, top).count = IF top = {} THEN 0 ELSE Total(g, top)
  <2>1. {d \in top : Readable(T, IndexOf(d))} = top
    BY <1>4
  <2>2. \A k, n, x, y : Overview(k, n, x, y).count = x
    BY DEF Overview
  <2>3. Text("index").count = 0
    BY <2>2 DEF Text
  <2> DEFINE servers == {d \in top : Readable(T, IndexOf(d))}
             sorted == InVisitOrder(servers)
             children == [i \in DOMAIN sorted |->
                            [child |-> Last(sorted[i]),
                             brief |-> Brief(T[IndexOf(sorted[i])].overview)]]
  <2>4. RootOverview(T, top) =
          IF servers = {} THEN Text("index")
          ELSE Overview("root", "root",
                        Total([d \in servers |-> CountTotalTools(T, d)], servers), children)
    BY Zenon DEF RootOverview
  <2> HIDE DEF servers, children
  <2>5. servers = top
    BY <2>1 DEF servers
  <2> QED
    BY <2>2, <2>3, <2>4, <2>5
<1>6. /\ \A d \in top : C[d] \subseteq DOMAIN T
      /\ \A d \in top : g[d] = Total(w, C[d])
  BY DEF Counted, CountTotalTools
<1>7. IsFiniteSet(DOMAIN T)
  BY DEF FiledTree
<1>8. flat \subseteq DOMAIN T /\ \A f \in DOMAIN T : w[f] \in Nat
  BY <1>2
<1> HIDE DEF top, flat, w, C, g
<1>9. flat \subseteq U /\ U \subseteq DOMAIN T
  BY <1>1, <1>6
<1>10. Total(g, top) = Total(w, U)
  <2>1. \A d \in top : IsFiniteSet(C[d]) /\ \A f \in C[d] : w[f] \in Nat
    BY <1>6, <1>7, <1>8, FS_Subset
  <2> QED
    BY <1>1, <1>3, <1>6, <2>1, TotalUnion
<1>11. IsFiniteSet(U) /\ \A f \in U : w[f] \in Nat
  BY <1>7, <1>8, <1>9, FS_Subset
<1> HIDE DEF U
<1>12. Total(w, U) = Total(w, flat) + Total(w, U \ flat) /\ Total(w, flat) \in Nat
  BY <1>9, <1>11, TotalSubset, Zenon
<1>13. Total(w, U \ flat) = 0
  <2>1. \A f \in U \ flat : w[f] = 0
    BY <1>2, <1>9
  <2> QED
    BY <2>1, TotalZero, Zenon
<1>14. Total(w, flat) = Cardinality(flat)
  BY <1>2, TotalOnes
<1>15. top = {} => Cardinality(flat) = 0
  BY <1>1, FS_EmptySet
<1>16. RootOverview(T, top).count = Cardinality(ToolsIn(T))
  BY <1>2, <1>5, <1>10, <1>12, <1>13, <1>14, <1>15
<1> QED
  BY <1>16 DEF top

(* After the last write there is nothing more to do.                        *)
LEMMA RegeneratedSettles ==
  ASSUME NEW T, FiledTree(T), \A d \in Directories(T) : Settled(T, d), NEW U,
         U = RegeneratedRoot(T, Subdirectories(T, <<>>))
  PROVE  /\ Regenerated(U) = U
         /\ FlatLayout(U) => U[RootFile].overview.count = Cardinality(ToolsIn(U))
<1> DEFINE top == Subdirectories(T, <<>>)
           o == RootOverview(T, top)
<1>1. U = Put(T, RootFile, Branch(o)) /\ Branch(o).tools = {} /\ Branch(o).overview = o
  BY DEF RegeneratedRoot, Branch
<1>2. top \subseteq Directories(T)
  BY DEF Subdirectories
<1> HIDE DEF o
<1>3. FiledTree(U)
  BY <1>1, WriteFiled
<1>4. Directories(U) = Directories(T)
  BY <1>1, WriteKeepsDirectories
<1>5. \A d \in Directories(U) : Settled(U, d)
  <2> SUFFICES ASSUME NEW d \in Directories(T)  PROVE  Settled(U, d)
    BY <1>4
  <2>1. d \in Paths /\ RootFile[1] = <<>>
    BY DirectoriesOf DEF FiledTree, RootFile
  <2>2. ~IsPrefix(d, RootFile[1])
    BY <2>1, BeginsWith
  <2> QED
    BY <1>1, <2>1, <2>2, StaysSettled
<1>6. RegeneratedIndexes(U) = U
  BY <1>3, <1>5, NothingToWrite
<1>7. Subdirectories(U, <<>>) = top
  BY <1>4 DEF Subdirectories
<1>8. RootOverview(U, top) = o
  BY <1>1, <1>2, RootSame DEF o
<1>9. RegeneratedRoot(U, top) = U
  <2>1. RegeneratedRoot(U, top) = Put(U, RootFile, Branch(o))
    BY <1>8 DEF RegeneratedRoot
  <2>2. RootFile \in DOMAIN U /\ U[RootFile] = Branch(o)
    BY <1>1 DEF Put
  <2>3. U = [f \in DOMAIN U |-> U[f]]
    BY <1>3 DEF FiledTree
  <2> QED
    BY <2>1, <2>2, <2>3 DEF Put
<1>10. Regenerated(U) = U
  BY <1>6, <1>7, <1>9 DEF Regenerated
<1>11. ToolsIn(U) = ToolsIn(T)
  <2>1. ~IsLeaf(T, RootFile)
    BY DEF FiledTree, IsLeaf
  <2> QED
    BY <1>1, <2>1, PutKeepsTools
<1>12. U[RootFile].overview = o
  BY <1>1 DEF Put
<1>13. ASSUME FlatLayout(U)  PROVE  o.count = Cardinality(ToolsIn(T))
  <2>1. \A f \in DOMAIN T : f # RootFile => f \in DOMAIN U /\ U[f] = T[f]
    BY <1>1 DEF Put
  <2>2. \A f \in DOMAIN T : IsLeaf(T, f) => f \in DOMAIN U /\ IsLeaf(U, f)
    BY <2>1 DEF IsLeaf, FiledTree
  <2>3. FlatLayout(T)
    BY <1>13, <2>2 DEF FlatLayout
  <2> QED
    BY <2>3, RootCount DEF o
<1> QED
  BY <1>10, <1>11, <1>12, <1>13
-----------------------------------------------------------------------------
(* A Regenerate that nobody disturbs has settled the directories it has     *)
(* visited, and has yet to visit the others, in their order.                *)
SettledSoFar(c) ==
  LET visits == Visits(output)
  IN  /\ output # Absent
      /\ tops[c] = Subdirectories(output, <<>>)
      /\ \E k \in 0 .. Len(visits) :
           /\ todo[c] \in Seq(Paths)
           /\ Len(todo[c]) = Len(visits) - k
           /\ \A i \in 1 .. Len(todo[c]) : todo[c][i] = visits[k + i]
           /\ \A i \in 1 .. k : Settled(output, visits[i])
           /\ pc[c] = "root" <=> k = Len(visits)

Settling ==
  /\ todo = [c \in Commands |-> todo[c]]
  /\ tops = [c \in Commands |-> tops[c]]
  /\ disturbed \in [Commands -> BOOLEAN]
  /\ \A c \in Commands :
       pc[c] \in {"regenerating", "root"} /\ ~disturbed[c] => SettledSoFar(c)

(* What another command does to the tree counts as a disturbance.           *)
LEMMA OthersDisturb ==
  ASSUME IInv, Settling, NEW c \in Commands, Command(c)
  PROVE  /\ todo' = [d \in Commands |-> todo'[d]]
         /\ tops' = [d \in Commands |-> tops'[d]]
         /\ disturbed' \in [Commands -> BOOLEAN]
         /\ disturbed'[c] = disturbed[c]
         /\ \A d \in Commands \ {c} :
              /\ pc'[d] = pc[d] /\ todo'[d] = todo[d] /\ tops'[d] = tops[d]
              /\ \/ output' = output /\ disturbed'[d] = disturbed[d]
                 \/ pc[d] \in {"regenerating", "root"} => disturbed'[d]
<1>0. /\ todo = [d \in Commands |-> todo[d]]
      /\ tops = [d \in Commands |-> tops[d]]
      /\ disturbed \in [Commands -> BOOLEAN]
      /\ pc \in [Commands -> Places]
  BY DEF Settling, IInv, Shapes
<1>1. \A where : Go(c, where) => \A d \in Commands \ {c} : pc'[d] = pc[d]
  BY <1>0 DEF Go
<1>2. \A result : Return(c, result) => \A d \in Commands \ {c} : pc'[d] = pc[d]
  BY <1>1 DEF Return
<1>3. ASSUME Disturb(c)
      PROVE  /\ disturbed' \in [Commands -> BOOLEAN]
             /\ disturbed'[c] = disturbed[c]
             /\ \A d \in Commands \ {c} : pc[d] \in {"regenerating", "root"} => disturbed'[d]
  BY <1>0, <1>3 DEF Disturb
<1>4. CASE (\E servers \in Inputs : Generate(c, servers)) \/ Stage(c) \/ Inspect(c)
             \/ Cleanup(c) \/ CallFails(c)
  <2>1. UNCHANGED <<output, todo, tops, disturbed>>
    BY <1>4 DEF Generate, Stage, Inspect, Cleanup, CallFails
  <2>2. \A d \in Commands \ {c} : pc'[d] = pc[d]
    BY <1>1, <1>2, <1>4 DEF Generate, Stage, Inspect, Cleanup, CallFails
  <2> QED
    BY <1>0, <2>1, <2>2
<1>5. CASE Retire(c) \/ Publish(c) \/ Restore(c)
  <2>1. UNCHANGED <<todo, tops>>
    BY <1>5 DEF Retire, Publish, Restore
  <2>2. (output' = output /\ disturbed' = disturbed) \/ Disturb(c)
    BY <1>5 DEF Retire, Publish, Restore
  <2>3. \A d \in Commands \ {c} : pc'[d] = pc[d]
    BY <1>1, <1>2, <1>5 DEF Retire, Publish, Restore
  <2> QED
    BY <1>0, <1>3, <2>1, <2>2, <2>3
<1>6. CASE Regenerate(c) \/ Crash(c)
  <2>1. UNCHANGED <<output, disturbed>>
    BY <1>6 DEF Regenerate, Crash
  <2>2. \A d \in Commands \ {c} : pc'[d] = pc[d]
    BY <1>1, <1>6 DEF Regenerate, Crash
  <2>3. /\ todo' = [d \in Commands |-> todo'[d]]
        /\ tops' = [d \in Commands |-> tops'[d]]
        /\ \A d \in Commands \ {c} : todo'[d] = todo[d] /\ tops'[d] = tops[d]
    BY <1>0, <1>6 DEF Regenerate, Crash
  <2> QED
    BY <1>0, <2>1, <2>2, <2>3
<1>7. CASE RegenerateDirectory(c)
  <2>1. Disturb(c) /\ tops' = tops
    BY <1>7 DEF RegenerateDirectory
  <2>2. \A d \in Commands \ {c} : pc'[d] = pc[d]
    BY <1>1, <1>7 DEF RegenerateDirectory, CrashWriting
  <2>3. /\ todo' = [d \in Commands |-> todo'[d]]
        /\ \A d \in Commands \ {c} : todo'[d] = todo[d]
    BY <1>0, <1>7 DEF RegenerateDirectory
  <2> QED
    BY <1>0, <1>3, <2>1, <2>2, <2>3
<1>8. CASE RegenerateRoot(c)
  <2>1. Disturb(c) /\ UNCHANGED <<todo, tops>>
    BY <1>8 DEF RegenerateRoot
  <2>2. \A d \in Commands \ {c} : pc'[d] = pc[d]
    BY <1>1, <1>8 DEF RegenerateRoot, CrashWriting
  <2> QED
    BY <1>0, <1>3, <2>1, <2>2
<1> QED
  BY <1>4, <1>5, <1>6, <1>7, <1>8 DEF Command
(* Regenerate begins with all visits before it.                             *)
LEMMA RegenerateBegins ==
  ASSUME IInv, FiledAll, Settling, NEW c \in Commands, Regenerate(c),
         pc'[c] \in {"regenerating", "root"}
  PROVE  SettledSoFar(c)'
<1> DEFINE V == Visits(output)
<1>0. pc \in [Commands -> Places] /\ todo = [d \in Commands |-> todo[d]]
      /\ tops = [d \in Commands |-> tops[d]]
  BY DEF Settling, IInv, Shapes
<1>1. output # Absent
  BY <1>0 DEF Regenerate, Go
<1>2. /\ output' = output
      /\ pc'[c] = (IF Directories(output) = {} THEN "root" ELSE "regenerating")
      /\ todo'[c] = V
      /\ tops'[c] = Subdirectories(output, <<>>)
  BY <1>0, <1>1 DEF Regenerate, Go
<1>3. FiledTree(output)
  BY <1>1 DEF FiledAll, Filed
<1>4. V \in Seq(Paths) /\ Len(V) \in Nat /\ (Len(V) = 0 <=> Directories(output) = {})
  BY <1>3, VisitsOf
<1>5. Visits(output') = V
  BY <1>2
<1> HIDE DEF V
<1>6. \E k \in 0 .. Len(V) :
        /\ todo'[c] \in Seq(Paths)
        /\ Len(todo'[c]) = Len(V) - k
        /\ \A i \in 1 .. Len(todo'[c]) : todo'[c][i] = V[k + i]
        /\ \A i \in 1 .. k : Settled(output', V[i])
        /\ pc'[c] = "root" <=> k = Len(V)
  <2>1. 0 \in 0 .. Len(V) /\ Len(V) - 0 = Len(V) /\ \A i \in 1 .. Len(V) : 0 + i = i
    BY <1>4
  <2>2. pc'[c] = "root" <=> 0 = Len(V)
    BY <1>2, <1>4
  <2>3. \A i \in 1 .. 0 : FALSE
    OBVIOUS
  <2> QED
    BY <1>2, <1>4, <2>1, <2>2, <2>3
<1>7. output' # Absent /\ tops'[c] = Subdirectories(output', <<>>)
  BY <1>1, <1>2
<1> QED
  BY <1>5, <1>6, <1>7 DEF SettledSoFar

(* Each visit settles one more directory, and unsettles none.               *)
LEMMA RegenerateAdvances ==
  ASSUME IInv, FiledAll, Settling, NEW c \in Commands, RegenerateDirectory(c),
         pc'[c] \in {"regenerating", "root"}, ~disturbed[c]
  PROVE  SettledSoFar(c)'
<1> DEFINE V == Visits(output)
           d == Head(todo[c])
<1>0. pc \in [Commands -> Places] /\ todo = [e \in Commands |-> todo[e]]
      /\ tops = [e \in Commands |-> tops[e]]
  BY DEF Settling, IInv, Shapes
<1>1. pc[c] = "regenerating" /\ SettledSoFar(c)
  BY DEF RegenerateDirectory, Settling
<1>2. /\ output # Absent /\ d \in Directories(output)
      /\ output' = RegeneratedIndex(output, d)
      /\ pc'[c] = (IF Len(todo[c]) = 1 THEN "root" ELSE "regenerating")
      /\ todo'[c] = Tail(todo[c])
      /\ tops'[c] = tops[c]
  BY <1>0 DEF RegenerateDirectory, CrashWriting, Go
<1>3. FiledTree(output)
  BY <1>2 DEF FiledAll, Filed
<1>4. /\ \/ output' = output
         \/ output' = Put(output, IndexOf(d), Branch(FinalOverview(output, d)))
      /\ FiledTree(output')
      /\ Directories(output') = Directories(output)
      /\ Settled(output', d)
  BY <1>2, <1>3, GetsSettled
<1>5. Visits(output') = V /\ Subdirectories(output', <<>>) = Subdirectories(output, <<>>)
  BY <1>4 DEF Visits, Subdirectories
<1>6. output' # Absent
  <2>1. IndexOf(d) \in DOMAIN output' /\ IndexOf(d) # <<>>
    BY <1>4 DEF Settled, IsLeaf, IndexOf
  <2> QED
    BY <2>1 DEF Absent
<1>7. /\ V \in Seq(Paths) /\ Len(V) \in Nat
      /\ \A i, j \in 1 .. Len(V) : i < j => ~IsPrefix(V[i], V[j])
  BY <1>3, VisitsOf
<1>8. PICK k \in 0 .. Len(V) :
        /\ todo[c] \in Seq(Paths)
        /\ Len(todo[c]) = Len(V) - k
        /\ \A i \in 1 .. Len(todo[c]) : todo[c][i] = V[k + i]
        /\ \A i \in 1 .. k : Settled(output, V[i])
        /\ pc[c] = "root" <=> k = Len(V)
  BY <1>1 DEF SettledSoFar
<1>9. tops[c] = Subdirectories(output, <<>>)
  BY <1>1 DEF SettledSoFar
<1> HIDE DEF V
<1>10. k # Len(V) /\ k \in Nat /\ k + 1 \in 1 .. Len(V) /\ Len(todo[c]) >= 1 /\ Len(todo[c]) \in Nat
  BY <1>1, <1>7, <1>8
<1>11. d = V[k + 1]
  <2>1. todo[c] # <<>> /\ d = todo[c][1] /\ 1 \in 1 .. Len(todo[c])
    BY <1>8, <1>10
  <2> QED
    BY <1>8, <2>1
<1> HIDE DEF d
<1>12. ASSUME NEW i \in 1 .. k  PROVE  Settled(output', V[i])
  <2>1. i \in 1 .. Len(V) /\ i < k + 1
    BY <1>7, <1>10
  <2>2. V[i] \in Paths /\ ~IsPrefix(V[i], d)
    BY <1>7, <1>10, <1>11, <2>1
  <2>3. IndexOf(d)[1] = d
    BY DEF IndexOf
  <2>4. Branch(FinalOverview(output, d)).tools = {}
    BY DEF Branch
  <2>5. Settled(output, V[i])
    BY <1>8
  <2>6. CASE output' = output
    BY <2>5, <2>6
  <2>7. CASE output' = Put(output, IndexOf(d), Branch(FinalOverview(output, d)))
    BY <1>2, <1>3, <2>2, <2>3, <2>4, <2>5, <2>7, StaysSettled
  <2> QED
    BY <1>4, <2>6, <2>7
<1>13. \A i \in 1 .. (k + 1) : Settled(output', V[i])
  <2> SUFFICES ASSUME NEW i \in 1 .. (k + 1)  PROVE  Settled(output', V[i])
    OBVIOUS
  <2>1. CASE i = k + 1
    BY <1>4, <1>11, <2>1
  <2>2. CASE i # k + 1
    BY <1>10, <1>12, <2>2
  <2> QED
    BY <2>1, <2>2
<1>14. /\ todo'[c] \in Seq(Paths)
       /\ Len(todo'[c]) = Len(V) - (k + 1)
       /\ \A i \in 1 .. Len(todo'[c]) : todo'[c][i] = V[(k + 1) + i]
  <2> DEFINE s == todo[c]
             t == Tail(s)
  <2>1. s \in Seq(Paths) /\ s # <<>> /\ Len(s) = Len(V) - k
    BY <1>8, <1>10
  <2> HIDE DEF s
  <2>2. t \in Seq(Paths) /\ Len(t) = Len(s) - 1 /\ \A i \in 1 .. Len(t) : t[i] = s[i + 1]
    BY <2>1
  <2> HIDE DEF t
  <2>3. \A i \in 1 .. Len(s) : s[i] = V[k + i]
    BY <1>8 DEF s
  <2>4. Len(t) = Len(V) - (k + 1)
    BY <1>7, <1>10, <2>1, <2>2
  <2>5. ASSUME NEW i \in 1 .. Len(t)  PROVE  t[i] = V[(k + 1) + i]
    <3>1. i + 1 \in 1 .. Len(s) /\ k + (i + 1) = (k + 1) + i
      BY <1>7, <1>10, <2>1, <2>4
    <3> QED
      BY <2>2, <2>3, <3>1
  <2>6. todo'[c] = t
    BY <1>2 DEF s, t
  <2> QED
    BY <2>2, <2>4, <2>5, <2>6
<1>15. pc'[c] = "root" <=> k + 1 = Len(V)
  BY <1>2, <1>7, <1>8, <1>10
<1>16. \E n \in 0 .. Len(V) :
         /\ todo'[c] \in Seq(Paths)
         /\ Len(todo'[c]) = Len(V) - n
         /\ \A i \in 1 .. Len(todo'[c]) : todo'[c][i] = V[n + i]
         /\ \A i \in 1 .. n : Settled(output', V[i])
         /\ pc'[c] = "root" <=> n = Len(V)
  <2>1. k + 1 \in 0 .. Len(V)
    BY <1>10
  <2> QED
    BY <1>13, <1>14, <1>15, <2>1
<1>17. tops'[c] = Subdirectories(output', <<>>)
  BY <1>2, <1>5, <1>9
<1> QED
  BY <1>5, <1>6, <1>16, <1>17 DEF SettledSoFar, V

(* A step of a command keeps Settling.                                      *)
LEMMA CommandSettling ==
  ASSUME IInv, FiledAll, Settling, NEW c \in Commands, Command(c)
  PROVE  Settling'
<1>1. /\ todo' = [d \in Commands |-> todo'[d]]
      /\ tops' = [d \in Commands |-> tops'[d]]
      /\ disturbed' \in [Commands -> BOOLEAN]
      /\ disturbed'[c] = disturbed[c]
      /\ \A d \in Commands \ {c} :
           /\ pc'[d] = pc[d] /\ todo'[d] = todo[d] /\ tops'[d] = tops[d]
           /\ \/ output' = output /\ disturbed'[d] = disturbed[d]
              \/ pc[d] \in {"regenerating", "root"} => disturbed'[d]
  BY OthersDisturb
<1>2. ASSUME NEW d \in Commands \ {c}, pc'[d] \in {"regenerating", "root"}, ~disturbed'[d]
      PROVE  SettledSoFar(d)'
  <2>1. /\ pc'[d] = pc[d] /\ todo'[d] = todo[d] /\ tops'[d] = tops[d]
        /\ output' = output /\ ~disturbed[d]
    BY <1>1, <1>2
  <2>2. SettledSoFar(d)
    BY <1>2, <2>1 DEF Settling
  <2> QED
    BY <2>1, <2>2 DEF SettledSoFar
<1>3. ASSUME pc'[c] \in {"regenerating", "root"}, ~disturbed'[c]
      PROVE  SettledSoFar(c)'
  <2>0. pc \in [Commands -> Places]
    BY DEF IInv, Shapes
  <2>1. Regenerate(c) \/ RegenerateDirectory(c)
    <3>1. ASSUME NEW where, Go(c, where)  PROVE  pc'[c] = where
      BY <2>0, <3>1 DEF Go
    <3>2. ASSUME NEW result, Return(c, result)  PROVE  pc'[c] = result
      BY <3>1, <3>2 DEF Return
    <3>3. \A servers : ~Generate(c, servers)
      BY <1>3, <3>1 DEF Generate
    <3>4. ~Stage(c) /\ ~Inspect(c) /\ ~Crash(c) /\ ~Cleanup(c)
      BY <1>3, <3>1, <3>2 DEF Stage, Inspect, Crash, Cleanup
    <3>5. ~Retire(c) /\ ~Publish(c) /\ ~Restore(c)
      BY <1>3, <3>1, <3>2 DEF Retire, Publish, Restore
    <3>6. ~CallFails(c)
      BY <1>3, <3>1, <3>2 DEF CallFails
    <3>7. ~RegenerateRoot(c)
      BY <1>3, <3>1 DEF RegenerateRoot, CrashWriting
    <3> QED
      BY <3>3, <3>4, <3>5, <3>6, <3>7 DEF Command
  <2> QED
    BY <1>1, <1>3, <2>1, RegenerateBegins, RegenerateAdvances
<1>4. \A d \in Commands : pc'[d] \in {"regenerating", "root"} /\ ~disturbed'[d] => SettledSoFar(d)'
  BY <1>2, <1>3
<1> QED
  BY <1>1, <1>4 DEF Settling

(* A step of the user disturbs every Regenerate.                            *)
LEMMA UserSettling ==
  ASSUME IInv, Settling, User
  PROVE  Settling'
<1>1. /\ UNCHANGED <<pc, todo, tops>>
      /\ disturbed' = [c \in Commands |-> disturbed[c] \/ pc[c] \in {"regenerating", "root"}]
  BY DEF User, MoveTool, MoveFolder, Move, EditOverview, Edit
<1>2. disturbed' \in [Commands -> BOOLEAN]
  BY <1>1 DEF Settling
<1>3. \A c \in Commands : ~(pc'[c] \in {"regenerating", "root"} /\ ~disturbed'[c])
  BY <1>1
<1> QED
  BY <1>1, <1>2, <1>3 DEF Settling

(* At every moment of a Regenerate that is not disturbed, the directories   *)
(* it has visited are settled: RegenerateDirectory on one of them would     *)
(* write what is there.                                                     *)
THEOREM SettlingInvariant == Spec => []Settling
<1>1. Init => Settling
  BY DEF Init, Settling
<1>2. IInv /\ FiledAll /\ Settling /\ [Next]_vars => Settling'
  <2> SUFFICES ASSUME IInv, FiledAll, Settling, [Next]_vars  PROVE  Settling'
    OBVIOUS
  <2>1. CASE UNCHANGED vars
    BY <2>1 DEF vars, Settling, SettledSoFar
  <2> QED
    BY <2>1, UserSettling, CommandSettling DEF Next
<1> QED
  BY <1>1, <1>2, InductiveInvariant, FiledInvariant, PTL DEF Spec

(* A Regenerate that nobody disturbs, over whatever an earlier one left     *)
(* when it died, ends with a tree that Regenerate leaves as it is, and in   *)
(* the flat layout with a root.json that counts every tool.                 *)
THEOREM SettlesCorrect == Spec => RegenerateSettles
<1> DEFINE Ends(c) ==
             pc[c] = "root" /\ pc'[c] = "done" /\ ~disturbed[c] =>
               /\ Regenerated(output') = output'
               /\ FlatLayout(output') =>
                    output'[RootFile].overview.count = Cardinality(ToolsIn(output'))
<1>1. IInv /\ FiledAll /\ Settling /\ [Next]_vars => [\A c \in Commands : Ends(c)]_vars
  <2> SUFFICES ASSUME IInv, FiledAll, Settling, Next, NEW c \in Commands,
                      pc[c] = "root", pc'[c] = "done", ~disturbed[c]
               PROVE  /\ Regenerated(output') = output'
                      /\ FlatLayout(output') =>
                           output'[RootFile].overview.count = Cardinality(ToolsIn(output'))
    OBVIOUS
  <2>0. pc \in [Commands -> Places]
    BY DEF IInv, Shapes
  <2>1. ~User
    BY DEF User, MoveTool, MoveFolder, Move, EditOverview, Edit
  <2>2. PICK d \in Commands : Command(d)
    BY <2>1 DEF Next
  <2>3. d = c
    BY <2>2, OthersDisturb
  <2>4. RegenerateRoot(c)
    <3>1. ~CallFails(c) /\ ~Crash(c)
      BY <2>0 DEF CallFails, Crash, Return, Go
    <3>2. /\ \A servers : ~Generate(c, servers)
          /\ ~Stage(c) /\ ~Inspect(c) /\ ~Retire(c) /\ ~Publish(c) /\ ~Restore(c) /\ ~Cleanup(c)
          /\ ~Regenerate(c) /\ ~RegenerateDirectory(c)
      BY DEF Generate, Stage, Inspect, Retire, Publish, Restore, Cleanup, Regenerate,
             RegenerateDirectory
    <3> QED
      BY <2>2, <2>3, <3>1, <3>2 DEF Command
  <2>5. output # Absent /\ output' = RegeneratedRoot(output, tops[c])
    BY <2>0, <2>4 DEF RegenerateRoot, CrashWriting, Go
  <2>6. SettledSoFar(c)
    BY DEF Settling
  <2>7. FiledTree(output)
    BY <2>5 DEF FiledAll, Filed
  <2>8. \A e \in Directories(output) : Settled(output, e)
    <3> DEFINE V == Visits(output)
    <3>1. \A e \in Directories(output) : \E i \in 1 .. Len(V) : V[i] = e
      BY <2>7, VisitsOf
    <3>2. \A i \in 1 .. Len(V) : Settled(output, V[i])
      BY <2>6 DEF SettledSoFar
    <3> QED
      BY <3>1, <3>2
  <2>9. tops[c] = Subdirectories(output, <<>>)
    BY <2>6 DEF SettledSoFar
  <2> QED
    BY <2>5, <2>7, <2>8, <2>9, RegeneratedSettles
<1>2. RegenerateSettles <=> [][\A c \in Commands : Ends(c)]_vars
  BY DEF RegenerateSettles
<1> QED
  BY <1>1, <1>2, InductiveInvariant, FiledInvariant, SettlingInvariant, PTL DEF Spec
===============================================================================
