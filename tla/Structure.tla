------------------------------- MODULE Structure ------------------------------
(***************************************************************************)
(* The tree of JSON files that the structure generator writes and the       *)
(* legacy hierarchy backend reads: structure_generator/generator.go and     *)
(* internal/hierarchy/hierarchy.go, as operators on trees.                  *)
(*                                                                         *)
(* A tree maps files to nodes.  A file is a pair of its directory, the      *)
(* sequence of names that leads there, and its name without ".json".  A     *)
(* node has an overview (branch) or tools (leaf); ok is FALSE for a file    *)
(* that is no longer JSON.  Of an overview's text only what distinguishes   *)
(* overviews is kept, and whether it says "with".                           *)
(***************************************************************************)
EXTENDS Integers, Sequences, FiniteSets, SequencesExt, Counting

CONSTANTS NameOrder,   (* all names, sorted                                *)
          Parts,       (* name -> what it consists of between its dots     *)
          OutputName,  (* the name of the output directory itself          *)
          Unusable,    (* names validateGeneratedComponent rejects         *)
          Fold,        (* name -> its case folding                         *)
          SaysWith,    (* texts that contain "with"                        *)
          SaysTools,   (* texts that contain "tools;"                      *)
          SaysColon    (* texts that contain ":"                           *)

(* Names are file names: none contains the separator.                       *)
Names == Range(NameOrder)
ASSUME NamesAssumption == NameOrder \in Seq(Names) /\ "/" \notin Names

Overview(kind, name, count, children) ==
  [kind |-> kind, name |-> name, count |-> count, children |-> children,
   with |-> \/ kind \in {"no tools", "no items"}
            \/ kind = "text" /\ name \in SaysWith
            \/ \E i \in DOMAIN children : children[i].brief.with]
Text(t) == Overview("text", t, 0, <<>>)
Empty == Text("")

(* extractBriefDescription: what stands before the first semicolon.         *)
Brief(o) == IF o.kind \in {"one tool", "n tools", "root"}
            THEN Overview(o.kind, o.name, o.count, <<>>) ELSE o

(* The test of RegenerateDirectory for a text of its own making.            *)
LooksGenerated(o) ==
  /\ o.kind \in {"one tool", "n tools", "items", "root"} \/ o.name \in SaysColon
  /\ o.kind = "n tools" \/ o.name \in SaysTools \/ o.with

Branch(o) == [ok |-> TRUE, overview |-> o, tools |-> {}]
Leaf(t) == [ok |-> TRUE, overview |-> Empty, tools |-> {t}]
Broken == [ok |-> FALSE, overview |-> Empty, tools |-> {}]
EmptyDirectory == [f \in {} |-> Broken]

RootFile == <<<<>>, "root">>
IndexOf(d) == <<d, Last(d)>>
Put(tree, f, node) == [g \in DOMAIN tree \cup {f} |-> IF g = f THEN node ELSE tree[g]]
Readable(tree, f) == f \in DOMAIN tree /\ tree[f].ok
(* A leaf has tools; a file that is not JSON has none.                      *)
IsLeaf(tree, f) == f \in DOMAIN tree /\ tree[f].tools # {}

(* Directories below the root, and the entries of a directory.              *)
Directories(tree) ==
  UNION {{SubSeq(f[1], 1, i) : i \in 1 .. Len(f[1])} : f \in DOMAIN tree}
Subdirectories(tree, d) == {e \in Directories(tree) : Len(e) = Len(d) + 1 /\ IsPrefix(d, e)}
Files(tree, d) == {f \in DOMAIN tree : f[1] = d}

NamePosition(n) == CHOOSE i \in DOMAIN NameOrder : NameOrder[i] = n
(* A directory comes after its subdirectories, siblings come in order: the  *)
(* end of a path counts as a name after all others.                         *)
Place(d, i) == IF i \in 1 .. Len(d) THEN NamePosition(d[i]) ELSE Len(NameOrder) + 1
VisitedBefore(d, e) ==
  \E i \in 1 .. Len(d) :
    /\ Place(d, i) < Place(e, i)
    /\ \A j \in 1 .. (i - 1) : Place(d, j) = Place(e, j)
InVisitOrder(ds) == SortedBy(ds, {p \in ds \X ds : VisitedBefore(p[1], p[2])})
Visits(tree) == InVisitOrder(Directories(tree))

ToolsIn(tree) == UNION {tree[f].tools : f \in DOMAIN tree}
-----------------------------------------------------------------------------
(* countTotalTools: the tools of all files below d but its index.  The      *)
(* recursion does not enter a directory without a readable index, and of a  *)
(* leaf directory it counts the index alone.                                *)
Counted(tree, d) ==
  {f \in DOMAIN tree :
     /\ IsPrefix(d, f[1]) /\ f # IndexOf(d) /\ tree[f].ok
     /\ \A i \in Len(d) + 1 .. Len(f[1]) :
          LET index == IndexOf(SubSeq(f[1], 1, i))
          IN  index # f => Readable(tree, index) /\ ~IsLeaf(tree, index)}
CountTotalTools(tree, d) ==
  Total([f \in DOMAIN tree |-> Cardinality(tree[f].tools)], Counted(tree, d))

(* The children RegenerateDirectory sums up: leaf files, and directories    *)
(* with a readable index.                                                   *)
ChildSummaries(tree, d) ==
  LET files == {f \in Files(tree, d) : f # IndexOf(d) /\ IsLeaf(tree, f)}
      indexes == {IndexOf(s) : s \in {e \in Subdirectories(tree, d) : Readable(tree, IndexOf(e))}}
      before == {p \in (files \cup indexes) \X (files \cup indexes) :
                   \/ NamePosition(p[1][2]) < NamePosition(p[2][2])
                   \/ p[1][2] = p[2][2] /\ p[1] \in indexes /\ p[2] \in files}
      summary(f) == [child |-> f[2],
                     brief |-> IF tree[f].tools # {}
                               THEN Text((CHOOSE t \in tree[f].tools : TRUE).description)
                               ELSE Brief(tree[f].overview)]
      sorted == SortedBy(files \cup indexes, before)
  IN  [i \in DOMAIN sorted |-> summary(sorted[i])]

GeneratedOverview(tree, d) ==
  LET children == ChildSummaries(tree, d)
      total == CountTotalTools(tree, d)
      kind == IF children = <<>> THEN "no items"
              ELSE IF total > 0 THEN "n tools" ELSE "items"
  IN  Overview(kind, Last(d), IF children = <<>> THEN 0 ELSE total, children)

(* Faulty variant: what is there does not count.                            *)
FinalOverviewFresh(tree, d) == GeneratedOverview(tree, d)

(* The overview of directory d's index after RegenerateDirectory: one that  *)
(* does not look generated is taken for the user's and kept.                *)
FinalOverview(tree, d) ==
  LET f == IndexOf(d)
  IN  IF Readable(tree, f) /\ tree[f].overview # Empty /\ ~LooksGenerated(tree[f].overview)
      THEN tree[f].overview
      ELSE GeneratedOverview(tree, d)

(* RegenerateDirectory, once the subdirectories are done.                   *)
RegeneratedIndex(tree, d) ==
  IF IsLeaf(tree, IndexOf(d)) THEN tree
  ELSE Put(tree, IndexOf(d), Branch(FinalOverview(tree, d)))

(* The last part of Regenerate: root.json from the directories ds.          *)
RootOverview(tree, ds) ==
  LET servers == {d \in ds : Readable(tree, IndexOf(d))}
      sorted == InVisitOrder(servers)
      total == Total([d \in servers |-> CountTotalTools(tree, d)], servers)
      children == [i \in DOMAIN sorted |->
                     [child |-> Last(sorted[i]), brief |-> Brief(tree[IndexOf(sorted[i])].overview)]]
  IN  IF servers = {} THEN Text("index") ELSE Overview("root", "root", total, children)
RegeneratedRoot(tree, ds) == Put(tree, RootFile, Branch(RootOverview(tree, ds)))

(* Regenerate on a tree nobody else touches.                                *)
RegeneratedIndexes(tree) ==
  LET visits == Visits(tree)
      after[n \in 0 .. Len(visits)] ==
        IF n = 0 THEN tree ELSE RegeneratedIndex(after[n - 1], visits[n])
  IN  after[Len(visits)]
Regenerated(tree) == RegeneratedRoot(RegeneratedIndexes(tree), Subdirectories(tree, <<>>))
-----------------------------------------------------------------------------
(* generateToolFile and generateServerStructure for one provider            *)
(* [name, tools], tools being a sequence of [name, description].            *)
ServerFiles(server) ==
  LET dir == <<server.name>>
      brief(t) == IF t.description = "" THEN Text("Tool") ELSE Text(t.description)
      children == [i \in DOMAIN server.tools |->
                     [child |-> server.tools[i].name, brief |-> brief(server.tools[i])]]
      count == Len(server.tools)
      kind == IF count = 0 THEN "no tools" ELSE IF count = 1 THEN "one tool" ELSE "n tools"
      leaf(t) == Leaf([name |-> t.name, server |-> server.name, description |-> t.description])
      tree == [f \in {<<dir, t.name>> : t \in Range(server.tools)} |->
                 leaf(CHOOSE t \in Range(server.tools) : t.name = f[2])]
  IN  Put(tree, IndexOf(dir), Branch(Overview(kind, server.name, count, children)))

(* generateStructure into an empty directory: the files of the providers,   *)
(* each in a directory of its own, and the indexes.                         *)
AllServers(servers) ==
  [f \in UNION {DOMAIN ServerFiles(s) : s \in Range(servers)} |->
     ServerFiles(CHOOSE s \in Range(servers) : f \in DOMAIN ServerFiles(s))[f]]
GeneratedTree(servers) == Regenerated(AllServers(servers))

(* validateGeneratedNames: usable names, no two of them equal after folding,*)
(* none of them root, and no tool named like its provider.                  *)
ValidNames(servers) ==
  LET distinct(xs) == \A i, j \in DOMAIN xs : i # j => Fold[xs[i].name] # Fold[xs[j].name]
      usable(n) == n \notin Unusable /\ Fold[n] # "root"
  IN  /\ distinct(servers)
      /\ \A i \in DOMAIN servers :
           /\ usable(servers[i].name)
           /\ distinct(servers[i].tools)
           /\ \A t \in Range(servers[i].tools) :
                usable(t.name) /\ Fold[t.name] # Fold[servers[i].name]

(* validateExistingHierarchyDirectory, for a directory that exists.         *)
RecognisedHierarchy(tree) ==
  \/ DOMAIN tree = {}
  \/ /\ Files(tree, <<>>) = {RootFile}
     /\ Readable(tree, RootFile) /\ ~IsLeaf(tree, RootFile) /\ tree[RootFile].overview # Empty
     /\ \A d \in Subdirectories(tree, <<>>) : IndexOf(d) \in DOMAIN tree
-----------------------------------------------------------------------------
(* The hierarchy path of a file, a string of parts with dots between them.  *)
(* An index stands for its directory, another file for directory and name.  *)
(* A name with a dot is more than one part of the path.                     *)
Undotted(n) == Parts[n] = <<n>>
Dotted(names) == IF \A i \in DOMAIN names : Undotted(names[i]) THEN names
                 ELSE FlattenSeq([i \in DOMAIN names |-> Parts[names[i]]])
Key(f) ==
  LET index == f[2] = IF f[1] = <<>> THEN OutputName ELSE Last(f[1])
  IN  Dotted(IF index THEN f[1] ELSE Append(f[1], f[2]))
Slash == <<"/">>

(* LoadHierarchy: nodes by hierarchy path.  root.json is filed under "" and *)
(* "/"; below that, every file of that name is skipped, and so are files    *)
(* that are not JSON.  Of files with the same path the last one stays: the  *)
(* walk comes to a directory before the file of that name.                  *)
LoadHierarchy(tree) ==
  LET loaded == {f \in DOMAIN tree : f[2] # "root" /\ tree[f].ok}
      key == [f \in loaded |-> Key(f)]
      walked(f) == \A g \in loaded \ {f} :
                     key[g] = key[f] => VisitedBefore(Append(g[1], g[2]), Append(f[1], f[2]))
  IN  [k \in Range(key) \cup {<<>>, Slash} |->
         IF k \in Range(key) THEN tree[CHOOSE f \in loaded : key[f] = k /\ walked(f)]
         ELSE tree[RootFile]]

(* HandleGetToolsInCategory: every other node one level below is a child.   *)
Children(nodes, k) ==
  {c \in DOMAIN nodes : Len(c) = Len(k) + 1 /\ IsPrefix(k, c)}

(* The tools of the answer: each with the tool path it is listed under.     *)
ListedTools(nodes, k) ==
  LET below == Children(nodes, k)
      own == {[tool |-> t, path |-> Append(k, t.name)] : t \in nodes[k].tools}
      aggregated == UNION {{[tool |-> t, path |-> c] : t \in nodes[c].tools} : c \in below}
  IN  IF own # {} THEN own
      ELSE IF \A c \in below : nodes[c].tools # {} THEN aggregated
      ELSE {}

(* Faulty variant: only a node of that very path is looked at.              *)
ResolveExactOnly(nodes, p) ==
  IF p \in DOMAIN nodes THEN {t \in nodes[p].tools : t.name = Last(p)} ELSE {}

(* Hierarchy.ResolveToolPath: the node of that path, or else the longest    *)
(* category above it, that has a tool of the last name; at the root it is   *)
(* the first name that is looked for.                                       *)
ResolvePath(nodes, p) ==
  LET at(k, n) == IF k \in DOMAIN nodes THEN {t \in nodes[k].tools : t.name = n} ELSE {}
      category(i) == IF i = 0 THEN at(<<>>, Head(p)) ELSE at(SubSeq(p, 1, i), Last(p))
      found == {i \in 0 .. Len(p) - 1 : category(i) # {}}
  IN  IF at(p, Last(p)) # {} THEN at(p, Last(p))
      ELSE IF found = {} THEN {}
      ELSE category(Max(found))
===============================================================================
