------------------------------- MODULE Generator ------------------------------
(***************************************************************************)
(* The commands of the structure generator at work on one output directory: *)
(* GenerateStructure stages a tree beside it and puts it in place with two  *)
(* renames, Regenerate rewrites the indexes of the tree in place, file by   *)
(* file.  Any command can meet a file system error or die between two       *)
(* steps, commands may overlap, and between them the user moves tool files  *)
(* and edits overviews.  A broker that starts loads what it finds.          *)
(*                                                                         *)
(* A command is one invocation; its staging directory and its backup have   *)
(* names of their own (os.MkdirTemp).                                       *)
(***************************************************************************)
EXTENDS Structure

CONSTANTS Commands,     (* invocations of the generator                    *)
          Inputs,       (* provider lists they are given                   *)
          NewDirectories, (* directories the user may create              *)
          Texts,        (* overviews the user may write                    *)
          MaxEdits      (* bound on what the user does                     *)

(* A provider list, as GenerateStructure reads it from its input file.      *)
ProviderList(servers) ==
  /\ servers \in Seq(Range(servers))
  /\ \A s \in Range(servers) :
       /\ s.name \in Names
       /\ s.tools \in Seq(Range(s.tools))
       /\ \A t \in Range(s.tools) : t.name \in Names
ASSUME InputsAssumption ==
         /\ \A servers \in Inputs : ProviderList(servers)
         /\ NewDirectories \subseteq Seq(Names) \ {<<>>}

(* Where there is no directory: no tree, since <<>> is not a file.          *)
Absent == [f \in {<<>>} |-> Broken]

VARIABLES
  output,    (* the output directory: Absent or a tree                     *)
  staging,   (* command -> its staging directory                           *)
  backup,    (* command -> the tree it moved out of the way                *)
  pc,        (* command -> where it stands                                 *)
  input,     (* command -> its provider list                               *)
  todo,      (* command -> directories Regenerate has yet to visit         *)
  tops,      (* command -> the directories it found at the top             *)
  disturbed, (* command -> has the tree changed under its Regenerate?      *)
  edits,     (* what the user has done so far                              *)
  published, (* history: has the output directory ever held a tree?        *)
  edited     (* file -> overview the user last wrote to it in this tree    *)

vars == <<output, staging, backup, pc, input, todo, tops, disturbed, edits, published, edited>>

Ended == {"done", "failed", "restore failed", "cleanup failed", "crashed"}

(* The trees the provider lists give.                                       *)
Generated == {GeneratedTree(servers) : servers \in {s \in Inputs : ValidNames(s)}}

(* Nothing, an empty directory, or what an earlier command has generated.   *)
Init ==
  /\ output \in {Absent, EmptyDirectory} \cup Generated
  /\ published = (output \in Generated)
  /\ staging = [c \in Commands |-> Absent]
  /\ backup = [c \in Commands |-> Absent]
  /\ pc = [c \in Commands |-> "idle"]
  /\ input = [c \in Commands |-> <<>>]
  /\ todo = [c \in Commands |-> <<>>]
  /\ tops = [c \in Commands |-> {}]
  /\ disturbed = [c \in Commands |-> FALSE]
  /\ edits = 0
  /\ edited = <<>>

Go(c, where) == pc' = [pc EXCEPT ![c] = where]

(* Every return of GenerateStructure removes the staging directory.         *)
Return(c, result) == Go(c, result) /\ staging' = [staging EXCEPT ![c] = Absent]

(* Another tree, or a file of it, changes while a Regenerate is at work.    *)
Disturb(c) ==
  disturbed' = [d \in Commands |->
                  disturbed[d] \/ (d # c /\ pc[d] \in {"regenerating", "root"})]
-----------------------------------------------------------------------------
(* GenerateStructure up to the staging directory.                           *)
Generate(c, servers) ==
  /\ pc[c] = "idle"
  /\ IF ValidNames(servers) /\ (output = Absent \/ RecognisedHierarchy(output))
     THEN /\ input' = [input EXCEPT ![c] = servers]
          /\ staging' = [staging EXCEPT ![c] = EmptyDirectory]
          /\ Go(c, "staging")
     ELSE Go(c, "failed") /\ UNCHANGED <<input, staging>>
  /\ UNCHANGED <<output, backup, todo, tops, disturbed, edits, published, edited>>

(* generateStructure fills the staging directory.                           *)
Stage(c) ==
  /\ pc[c] = "staging"
  /\ staging' = [staging EXCEPT ![c] = GeneratedTree(input[c])]
  /\ Go(c, "inspect")
  /\ UNCHANGED <<output, backup, input, todo, tops, disturbed, edits, published, edited>>

(* replaceGeneratedDirectory: is there something to move out of the way?    *)
Inspect(c) ==
  /\ pc[c] = "inspect"
  /\ Go(c, IF output = Absent THEN "publish" ELSE "retire")
  /\ UNCHANGED <<output, staging, backup, input, todo, tops, disturbed, edits, published, edited>>

(* Faulty variant: what is in the way is removed first.                     *)
RetireRemoves(c) ==
  /\ pc[c] = "retire"
  /\ output # Absent
  /\ output' = Absent
  /\ edited' = <<>>
  /\ Disturb(c)
  /\ Go(c, "publish")
  /\ UNCHANGED <<staging, backup, input, todo, tops, edits, published>>

(* The first rename.  Another command may have moved the directory away.    *)
Retire(c) ==
  /\ pc[c] = "retire"
  /\ IF output = Absent
     THEN Return(c, "failed") /\ UNCHANGED <<output, backup, disturbed, edited>>
     ELSE /\ backup' = [backup EXCEPT ![c] = output]
          /\ output' = Absent
          /\ edited' = <<>>
          /\ Disturb(c)
          /\ Go(c, "publish")
          /\ UNCHANGED staging
  /\ UNCHANGED <<input, todo, tops, edits, published>>

(* A rename onto a directory succeeds only if that is missing or empty.     *)
Free(dir) == dir = Absent \/ DOMAIN dir = {}

(* Faulty variant: the files are copied into whatever directory is there.   *)
PublishOver(c) ==
  /\ pc[c] = "publish"
  /\ output' = [f \in DOMAIN staging[c] \cup (DOMAIN output \ DOMAIN Absent) |->
                  IF f \in DOMAIN staging[c] THEN staging[c][f] ELSE output[f]]
  /\ edited' = <<>>
  /\ published' = TRUE
  /\ Disturb(c)
  /\ staging' = [staging EXCEPT ![c] = Absent]
  /\ Go(c, IF backup[c] = Absent THEN "done" ELSE "cleanup")
  /\ UNCHANGED <<backup, input, todo, tops, edits>>

(* The second rename.                                                       *)
Publish(c) ==
  /\ pc[c] = "publish"
  /\ IF Free(output)
     THEN /\ output' = staging[c]
          /\ edited' = <<>>
          /\ published' = TRUE
          /\ Disturb(c)
          /\ staging' = [staging EXCEPT ![c] = Absent]
          /\ Go(c, IF backup[c] = Absent THEN "done" ELSE "cleanup")
     ELSE /\ IF backup[c] = Absent THEN Return(c, "failed")
                                   ELSE Go(c, "restore") /\ UNCHANGED staging
          /\ UNCHANGED <<output, disturbed, published, edited>>
  /\ UNCHANGED <<backup, input, todo, tops, edits>>

(* The previous tree is put back.                                           *)
Restore(c) ==
  /\ pc[c] = "restore"
  /\ IF Free(output)
     THEN /\ output' = backup[c]
          /\ backup' = [backup EXCEPT ![c] = Absent]
          /\ Disturb(c)
          /\ Return(c, "failed")
     ELSE Return(c, "restore failed") /\ UNCHANGED <<output, backup, disturbed>>
  /\ UNCHANGED <<input, todo, tops, edits, published, edited>>

Cleanup(c) ==
  /\ pc[c] = "cleanup"
  /\ backup' = [backup EXCEPT ![c] = Absent]
  /\ Return(c, "done")
  /\ UNCHANGED <<output, input, todo, tops, disturbed, edits, published, edited>>

(* A file system call fails: writing the staged files, a rename, removing   *)
(* the backup, which may then be gone in part.                              *)
CallFails(c) ==
  /\ \/ pc[c] \in {"staging", "inspect", "retire"} /\ Return(c, "failed") /\ UNCHANGED backup
     \/ /\ pc[c] = "publish"
        /\ IF backup[c] = Absent THEN Return(c, "failed")
                                 ELSE Go(c, "restore") /\ UNCHANGED staging
        /\ UNCHANGED backup
     \/ pc[c] = "restore" /\ Return(c, "restore failed") /\ UNCHANGED backup
     \/ /\ pc[c] = "cleanup"
        /\ Return(c, "cleanup failed")
        /\ backup' = [backup EXCEPT ![c] = EmptyDirectory]
     \/ pc[c] \in {"regenerating", "root"} /\ Return(c, "failed") /\ UNCHANGED backup
  /\ UNCHANGED <<output, input, todo, tops, disturbed, edits, published, edited>>

(* The command is killed: what it has on disk stays, what it knew is gone.  *)
Crash(c) ==
  /\ pc[c] \notin Ended \cup {"idle"}
  /\ Go(c, "crashed")
  /\ input' = [input EXCEPT ![c] = <<>>]
  /\ todo' = [todo EXCEPT ![c] = <<>>]
  /\ tops' = [tops EXCEPT ![c] = {}]
  /\ UNCHANGED <<output, staging, backup, disturbed, edits, published, edited>>
-----------------------------------------------------------------------------
(* Faulty variant: a directory is visited before its subdirectories.        *)
RegenerateTopDown(c) ==
  /\ pc[c] = "idle"
  /\ IF output = Absent
     THEN Go(c, "failed") /\ UNCHANGED <<todo, tops>>
     ELSE /\ Go(c, IF Directories(output) = {} THEN "root" ELSE "regenerating")
          /\ todo' = [todo EXCEPT ![c] = Reverse(Visits(output))]
          /\ tops' = [tops EXCEPT ![c] = Subdirectories(output, <<>>)]
  /\ UNCHANGED <<output, staging, backup, input, disturbed, edits, published, edited>>

(* Regenerate reads the directories it is going to visit.                   *)
Regenerate(c) ==
  /\ pc[c] = "idle"
  /\ IF output = Absent
     THEN Go(c, "failed") /\ UNCHANGED <<todo, tops>>
     ELSE /\ Go(c, IF Directories(output) = {} THEN "root" ELSE "regenerating")
          /\ todo' = [todo EXCEPT ![c] = Visits(output)]
          /\ tops' = [tops EXCEPT ![c] = Subdirectories(output, <<>>)]
  /\ UNCHANGED <<output, staging, backup, input, disturbed, edits, published, edited>>

(* The file is truncated before it is written: a crash in between leaves    *)
(* it empty, and what it said is lost.                                      *)
CrashWriting(c, f) ==
  /\ output' = Put(output, f, Broken)
  /\ edited' = Restrict(edited, DOMAIN edited \ {f})
  /\ Go(c, "crashed")

(* RegenerateDirectory of the next directory, if it still is there.  It is  *)
(* listed at this moment; the code lists it before it descends, which makes *)
(* a difference only to the summary of a tree that changes meanwhile.       *)
RegenerateDirectory(c) ==
  LET d == Head(todo[c])
      there == output # Absent /\ d \in Directories(output)
  IN  /\ pc[c] = "regenerating"
      /\ todo' = [todo EXCEPT ![c] = Tail(@)]
      /\ \/ ~there /\ Go(c, "failed") /\ UNCHANGED <<output, edited>>
         \/ /\ there
            /\ output' = RegeneratedIndex(output, d)
            /\ Go(c, IF Len(todo[c]) = 1 THEN "root" ELSE "regenerating")
            /\ UNCHANGED edited
         \/ there /\ ~IsLeaf(output, IndexOf(d)) /\ CrashWriting(c, IndexOf(d))
      /\ Disturb(c)
      /\ UNCHANGED <<staging, backup, input, tops, edits, published>>

(* Regenerate ends with root.json.                                          *)
RegenerateRoot(c) ==
  /\ pc[c] = "root"
  /\ \/ output = Absent /\ Go(c, "failed") /\ UNCHANGED <<output, edited>>
     \/ /\ output # Absent
        /\ output' = RegeneratedRoot(output, tops[c])
        /\ Go(c, "done")
        /\ UNCHANGED edited
     \/ output # Absent /\ CrashWriting(c, RootFile)
  /\ Disturb(c)
  /\ UNCHANGED <<staging, backup, input, todo, tops, edits, published>>
-----------------------------------------------------------------------------
(* What the user does between, or during, commands.                         *)
Edit ==
  /\ edits' = edits + 1
  /\ disturbed' = [c \in Commands |-> disturbed[c] \/ pc[c] \in {"regenerating", "root"}]
  /\ UNCHANGED <<staging, backup, pc, input, todo, tops, published>>

(* Each file f goes to to[f], and takes the note of an edit along.  What    *)
(* this leaves of an emptied directory is taken to be removed with it.      *)
Moved(files, to) ==
  [g \in {to[f] : f \in DOMAIN files} |-> files[CHOOSE f \in DOMAIN files : to[f] = g]]
Move(to) == output' = Moved(output, to) /\ edited' = Moved(edited, to) /\ Edit

(* The user moves a tool file to another directory: the top, one that is    *)
(* there, a new one, or one with the name of the tool, whose index it       *)
(* becomes.                                                                 *)
MoveTool(f, d) ==
  /\ IsLeaf(output, f) /\ <<d, f[2]>> \notin DOMAIN output
  /\ Move([g \in DOMAIN output |-> IF g = f THEN <<d, f[2]>> ELSE g])

(* The user moves the directory d with everything in it to directory e.     *)
MoveFolder(d, e) ==
  LET there == Append(e, Last(d))
      below(p) == SubSeq(p, Len(d) + 1, Len(p))
  IN  /\ ~IsPrefix(d, e) /\ there \notin Directories(output)
      /\ Move([g \in DOMAIN output |->
                 IF IsPrefix(d, g[1]) THEN <<there \o below(g[1]), g[2]>> ELSE g])

(* The user writes an overview.                                             *)
EditOverview(f, t) ==
  /\ Readable(output, f) /\ ~IsLeaf(output, f)
  /\ output' = Put(output, f, Branch(Text(t)))
  /\ edited' = Put(edited, f, Text(t))
  /\ Edit

Command(c) ==
  \/ \E servers \in Inputs : Generate(c, servers)
  \/ Stage(c) \/ Inspect(c) \/ Retire(c) \/ Publish(c) \/ Restore(c) \/ Cleanup(c)
  \/ CallFails(c) \/ Crash(c)
  \/ Regenerate(c) \/ RegenerateDirectory(c) \/ RegenerateRoot(c)

User ==
  /\ output # Absent /\ edits < MaxEdits
  /\ \/ \E e \in {<<>>} \cup Directories(output) \cup NewDirectories :
          \/ \E f \in DOMAIN output : MoveTool(f, e)
          \/ \E d \in Directories(output) : MoveFolder(d, e)
     \/ \E f \in DOMAIN output, t \in Texts : EditOverview(f, t)

Next == User \/ \E c \in Commands : Command(c)

Spec == Init /\ [][Next]_vars
-----------------------------------------------------------------------------
(* The tools of a tree that was generated from one provider list.           *)
WholeTree(dir) == dir # Absent /\ \E tree \in Generated : ToolsIn(dir) = ToolsIn(tree)

(* Whoever looks at the output directory finds none, an empty one, perhaps  *)
(* with a root.json, or all the tools of one provider list: never a part of *)
(* a tree, a mixture of two or a tree from which Regenerate dropped a tool, *)
(* whatever commands overlap, fail or die.                                  *)
OutputNeverTorn == Free(output) \/ DOMAIN output = {RootFile} \/ WholeTree(output)

(* A tree that was published is never lost: while one command after the     *)
(* other replaces, fails or dies, a whole tree is in the output directory   *)
(* or in the backup of a command, where the user can find it.               *)
PublishedTreeSurvives ==
  published => WholeTree(output) \/ \E c \in Commands : WholeTree(backup[c])

(* The flat layout: no tool is at the top or in a directory of its name.    *)
(* countTotalTools passes over the former, over the latter at the top, and  *)
(* over what else is in a directory whose index is a tool.                  *)
FlatLayout(tree) ==
  \A f \in DOMAIN tree : IsLeaf(tree, f) => f[1] # <<>> /\ f[2] # Last(f[1])

(* A Regenerate that ran to its end, over whatever an earlier one left when *)
(* it died, has nothing more to do, and in the flat layout root.json counts *)
(* every tool.                                                              *)
RegenerateSettles ==
  [][\A c \in Commands :
       pc[c] = "root" /\ pc'[c] = "done" /\ ~disturbed[c] =>
         /\ Regenerated(output') = output'
         /\ FlatLayout(output') =>
              output'[RootFile].overview.count = Cardinality(ToolsIn(output'))]_vars

(* Names that LoadHierarchy files under a path of their own: none but       *)
(* root.json is called root, and none has a dot.                            *)
PlainNames(tree) ==
  \A f \in DOMAIN tree :
    /\ f[2] = "root" => f = RootFile
    /\ f # RootFile => Undotted(f[2])

(* A tool that is the index of a directory is not below another tool of     *)
(* that name: the two could have the same path, or one be listed under the  *)
(* other's.                                                                 *)
NoNamesake(tree) ==
  \A f, g \in DOMAIN tree :
    IsLeaf(tree, f) /\ IsLeaf(tree, g) /\ f # g /\ f[2] = g[2] /\ IsPrefix(f[1], g[1]) =>
      g[2] # Last(g[1])

(* Everything in a tree whose directories all have their index can be found *)
(* by browsing down from the root, and executing what is listed reaches the *)
(* tool and provider it was listed for, if names are plain and no tool is   *)
(* in the way of a namesake.                                                *)
EveryToolReachable ==
  output # Absent /\ RootFile \in DOMAIN output /\ PlainNames(output) /\ NoNamesake(output)
    /\ (\A f \in DOMAIN output : output[f].ok)
    /\ (\A d \in Directories(output) : IndexOf(d) \in DOMAIN output) =>
  LET nodes == LoadHierarchy(output)
      listed == UNION {ListedTools(nodes, k) : k \in DOMAIN nodes \ {Slash}}
  IN  /\ \A k \in DOMAIN nodes \ {<<>>} : Front(k) \in DOMAIN nodes
      /\ {e.tool : e \in listed} = ToolsIn(output)
      /\ \A e \in listed : ResolvePath(nodes, e.path) = {e.tool}

(* generator.go:289, "Preserves manual edits - if an overview has been      *)
(* manually modified, it won't be overwritten".                             *)
ManualEditsKept ==
  output # Absent =>
    \A f \in DOMAIN edited \cap DOMAIN output :
      output[f].ok => output[f].overview = edited[f]

(* What RegenerateDirectory does guarantee: the index of a directory keeps  *)
(* an overview the user wrote, unless it is empty or looks like a generated *)
(* one.                                                                     *)
PlainEditsKept ==
  output # Absent =>
    \A f \in (DOMAIN edited \cap DOMAIN output) \ {RootFile} :
      output[f].ok /\ edited[f] # Empty /\ ~LooksGenerated(edited[f]) =>
        output[f].overview = edited[f]
===============================================================================
