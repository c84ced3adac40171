----------------------------- MODULE ConfigTool -----------------------------
(***************************************************************************)
(* The game tool where it edits Config.json: one document in memory, shown *)
(* in a tree on each of two tabs, edited through either and saved for the  *)
(* game to read.                                                           *)
(*                                                                         *)
(* A document is a function from paths of keys to what is there: an Object *)
(* with its keys in order, an Array with its numbers, or a value.  Values  *)
(* are the texts the tool shows of them.                                   *)
(***************************************************************************)
EXTENDS Integers, Sequences, SequencesExt, FiniteSetsExt, Functions

CONSTANTS
  FileName, Config,    \* the files of Resources\Json, and the one the game reads
  InitialFiles,        \* what is in them: a document, Empty or Malformed
  Key,                 \* the keys in the files
  Text,                \* what the user types, or copies from a node
  UInt32, Number,      \* the texts Convert.ToUInt32 and Convert.ToDouble accept
  Int32, JsonNumber,   \* those that stand for an int, and those JSON can write
  MaxEdits             \* bound on clicks on a Modify button

Empty == <<>>
Malformed == (<<>> :> [kind |-> "Malformed"])

InMemory == "InMemory"  \* the document, where others are in files

ASSUME ConfigToolAssumption ==
  /\ Config \in FileName /\ DOMAIN InitialFiles = FileName /\ InMemory \notin FileName
  /\ Int32 \subseteq UInt32 /\ UInt32 \cup JsonNumber \subseteq Number /\ MaxEdits \in Nat

VARIABLES
  files,
  reading,            \* files a StreamReader that was not closed still has open
  m_JsonCollection,
  tree,               \* of each tab, the texts of its nodes
  selected,           \* the tabs with a SelectedNode
  error,              \* the last click ended in an exception
  edits,
  spoilt              \* history: the files, and the document as InMemory, that an
                      \* edit failed on or removed a node of

shown == <<tree, selected>>
toolVars == <<files, reading, m_JsonCollection, shown, error, edits, spoilt>>

JsonVariables == "JsonVariables"        \* the tab of the document
SelectedObjJson == "SelectedObjJson"    \* the tab of the objects
Tab == {JsonVariables, SelectedObjJson}

-----------------------------------------------------------------------------
(* Documents.                                                              *)

Object(names) == [kind |-> "Object", value |-> names]
EmptyDocument == [path \in {<<>>} |-> Object(<<>>)]

IsContainer(json) == json.kind \in {"Object", "Array"}

IsDocument(file) == file # Empty /\ file[<<>>].kind = "Object"

(* What is parsed is a tree: whatever is there hangs on a key of an Object. *)
IsTree(doc) ==
  /\ <<>> \in DOMAIN doc /\ DOMAIN doc \subseteq Seq(Key)
  /\ \A p \in DOMAIN doc :
       /\ DOMAIN doc[p] = {"kind", "value"}
       /\ doc[p].kind = "Object" => doc[p].value \in Seq(Key)
       /\ doc[p].kind = "Array" => doc[p].value \in Seq(Number)
       /\ doc[p].kind = "Double" => doc[p].value \in Number
       /\ p # <<>> => /\ Front(p) \in DOMAIN doc /\ doc[Front(p)].kind = "Object"
                      /\ \E i \in DOMAIN doc[Front(p)].value : doc[Front(p)].value[i] = Last(p)

ASSUME FilesAssumption ==
  \A name \in FileName : IsDocument(InitialFiles[name]) => IsTree(InitialFiles[name])

Has(doc, path) == path \in DOMAIN doc

(* The place of a key among those of its parent.                           *)
IndexOf(doc, path) ==
  LET names == doc[Front(path)].value
  IN  CHOOSE i \in DOMAIN names : names[i] = Last(path)

(* Remove takes what is under the key with it.                             *)
RemoveKey(doc, path) ==
  LET parent == Front(path)
      kept == Restrict(doc, {p \in DOMAIN doc : ~IsPrefix(path, p)})
  IN  [kept EXCEPT ![parent] = Object(RemoveAt(doc[parent].value, IndexOf(doc, path)))]

InsertKey(doc, path, idx, json) ==
  LET parent == Front(path)
  IN  [p \in DOMAIN doc \cup {path} |->
         IF p = path THEN json
         ELSE IF p = parent THEN Object(InsertAt(doc[parent].value, idx, Last(path)))
         ELSE doc[p]]

-----------------------------------------------------------------------------
(* Trees.  A node is the path it was made for, and its place when it is an *)
(* element of an array; its text may change later.                         *)

Node(path, n) == [path |-> path, nth |-> n]
RootNode == Node(<<>>, 0)

Nodes(doc) ==
  {Node(path, 0) : path \in DOMAIN doc} \cup
  UNION {{Node(path, n) : n \in DOMAIN doc[path].value} :
          path \in {p \in DOMAIN doc : doc[p].kind = "Array"}}

(* "key : value", "key : " of what has nodes below it, or a plain text,    *)
(* which both halves of a split are.                                       *)
Keyed(key, value) == [keyed |-> TRUE, key |-> key, value |-> value]
Plain(text) == [keyed |-> FALSE, key |-> text, value |-> text]

BuildJsonDataTree(doc) ==
  [node \in Nodes(doc) |->
     CASE node = RootNode -> Plain("JSONConfig")
       [] node.nth > 0 -> Plain(doc[node.path].value[node.nth])
       [] node # RootNode /\ node.nth = 0 ->
            Keyed(Last(node.path), IF IsContainer(doc[node.path]) THEN "" ELSE doc[node.path].value)]

(* Clearing the nodes clears the selection.                                *)
ShowJsonData(tab, doc) ==
  /\ tree' = [tree EXCEPT ![tab] = BuildJsonDataTree(doc)]
  /\ selected' = selected \ {tab}

(* TreeNode.FullPath, each part cut down to its key, without the root.     *)
Ancestors(node) ==
  [i \in 1 .. Len(node.path) |-> Node(SubSeq(node.path, 1, i), 0)]
FullPath(t, node) == [i \in DOMAIN Ancestors(node) |-> t[Ancestors(node)[i]].key]

-----------------------------------------------------------------------------
(* JSONInOut.ChangeJsonData: the document it leaves, and whether it threw. *)

Done(doc) == [doc |-> doc, threw |-> FALSE]
Threw(doc) == [doc |-> doc, threw |-> TRUE]

Converts_ToDouble(kind) == IF kind = "Double" THEN Number ELSE Text

(* The texts a value of each kind may be replaced with.                    *)
Converts(kind) ==
  CASE kind = "Double" -> UInt32
    [] kind = "Boolean" -> {"true", "false"}
    [] kind = "String" -> Text

(* The place is remembered, the key removed, and only then the new value   *)
(* converted and put in; for what has nodes below it nothing is put in.    *)
ChangeValue(doc, path, val) ==
  LET kind == doc[path].kind
      idx == IndexOf(doc, path)
      removed == RemoveKey(doc, path)
  IN  IF IsContainer(doc[path]) THEN Done(removed)
      ELSE IF val \in Converts(kind)
           THEN Done(InsertKey(removed, path, idx, [kind |-> kind, value |-> val]))
           ELSE Threw(removed)

ChangeElement(doc, path, n, val) ==
  CASE n \notin DOMAIN doc[path].value -> Threw(doc)
    [] n \in DOMAIN doc[path].value /\ val \in Number -> Done([doc EXCEPT ![path].value[n] = val])
    [] OTHER -> Threw([doc EXCEPT ![path].value = RemoveAt(@, n)])

(* On the way down a key that is not there, or that leads to a value, is   *)
(* an exception; the first array ends it.  An element is found by its      *)
(* place among its siblings.                                               *)
ChangeJsonData(doc, t, node, val) ==
  LET path == FullPath(t, node)
      way == IF node.nth > 0 THEN path ELSE Front(path)
      at(i) == SubSeq(way, 1, i)
      isKind(i, kind) == Has(doc, at(i)) /\ doc[at(i)].kind = kind
      ends == {i \in DOMAIN way : ~isKind(i, "Object")}
      stop == IF ends = {} THEN Len(way) + 1 ELSE Min(ends)
      jArray == stop <= Len(way) /\ isKind(stop, "Array")
      lost == stop <= Len(way) /\ ~jArray
      key == Append(at(stop - 1), Last(path))
  IN  CASE val = "JSONConfig" -> Done(doc)
        [] val # "JSONConfig" /\ node = RootNode -> Threw(doc)
        [] val # "JSONConfig" /\ node.nth > 0 ->
             IF jArray THEN ChangeElement(doc, at(stop), node.nth, val) ELSE Threw(doc)
        [] OTHER -> IF ~lost /\ Has(doc, key) THEN ChangeValue(doc, key, val) ELSE Threw(doc)

(* The text a changed node gets; its key is the one beside the tree, which *)
(* need not be its own.                                                    *)
NewText(text, key, val) == IF text.keyed THEN Keyed(key, val) ELSE Plain(val)

-----------------------------------------------------------------------------
(* What the user does.                                                     *)

ToolInit ==
  /\ files = InitialFiles /\ reading = {}
  /\ m_JsonCollection = EmptyDocument
  /\ tree = [tab \in Tab |-> <<>>] /\ selected = {}
  /\ error = FALSE /\ edits = 0
  /\ spoilt = {InMemory} \cup {name \in FileName : ~IsDocument(files[name])}

SpoiltAs(copy, original) ==
  IF original \in spoilt THEN spoilt \cup {copy} ELSE spoilt \ {copy}

(* An empty file is never closed, nor is one that does not parse.          *)
LoadJsonFile(name) ==
  /\ \/ /\ ~IsDocument(files[name])
        /\ reading' = reading \cup {name} /\ error' = (files[name] = Malformed)
        /\ UNCHANGED <<m_JsonCollection, tree, selected, spoilt>>
     \/ /\ IsDocument(files[name])
        /\ m_JsonCollection' = files[name] /\ ShowJsonData(JsonVariables, files[name])
        /\ error' = FALSE /\ spoilt' = SpoiltAs(InMemory, name)
        /\ UNCHANGED reading
  /\ UNCHANGED <<files, edits>>

(* A file that is still open for reading cannot be opened for writing.     *)
SaveJsonFile(name) ==
  /\ \/ /\ name \in reading /\ error' = TRUE
        /\ UNCHANGED <<files, spoilt>>
     \/ /\ name \notin reading /\ error' = FALSE
        /\ files' = [files EXCEPT ![name] = m_JsonCollection]
        /\ spoilt' = SpoiltAs(name, InMemory)
  /\ UNCHANGED <<reading, m_JsonCollection, shown, edits>>

LoadDataFromTree ==
  /\ ShowJsonData(SelectedObjJson, m_JsonCollection) /\ error' = FALSE
  /\ UNCHANGED <<files, reading, m_JsonCollection, edits, spoilt>>

(* A click with the left button, the arrow keys or the focus select a      *)
(* node; any node will be selected when it matters.                        *)
SelectNode(tab) ==
  /\ tree[tab] # <<>> /\ selected' = selected \cup {tab} /\ error' = FALSE
  /\ UNCHANGED <<files, reading, m_JsonCollection, tree, edits, spoilt>>

(* The selected node of one tab is changed and the other tree built anew.  *)
(* The label has the key of the node clicked last and the box what was     *)
(* typed, or clicked, last: neither follows the arrow keys, and a click    *)
(* with the right button changes them without selecting.                   *)
ChangeSelected(tab, other, node, label, val) ==
  LET change == ChangeJsonData(m_JsonCollection, tree[tab], node, val)
  IN  /\ m_JsonCollection' = change.doc /\ error' = change.threw
      /\ spoilt' = IF change.threw \/ DOMAIN change.doc # DOMAIN m_JsonCollection
                   THEN spoilt \cup {InMemory} ELSE spoilt
      /\ IF change.threw THEN UNCHANGED shown
         ELSE /\ tree' = [tree EXCEPT ![tab][node] = NewText(@, label, val),
                                      ![other] = BuildJsonDataTree(change.doc)]
              /\ selected' = selected \ {other}

(* Both Modify buttons try the tab of the objects first; when that has a   *)
(* selection, the tree of the document is built anew and has none left.    *)
UpdateJSONTreesAll(label, val) ==
  /\ edits < MaxEdits /\ edits' = edits + 1
  /\ \/ /\ SelectedObjJson \in selected
        /\ \E node \in DOMAIN tree[SelectedObjJson] :
             ChangeSelected(SelectedObjJson, JsonVariables, node, label, val)
     \/ /\ SelectedObjJson \notin selected /\ JsonVariables \in selected
        /\ \E node \in DOMAIN tree[JsonVariables] :
             ChangeSelected(JsonVariables, SelectedObjJson, node, label, val)
  /\ UNCHANGED <<files, reading>>

(* Finalisers close readers nobody has a reference to.                     *)
CollectGarbage ==
  /\ reading # {} /\ reading' = {}
  /\ UNCHANGED <<files, m_JsonCollection, shown, error, edits, spoilt>>

ToolNext ==
  \/ \E name \in FileName : LoadJsonFile(name) \/ SaveJsonFile(name)
  \/ LoadDataFromTree
  \/ \E tab \in Tab : SelectNode(tab)
  \/ \E label \in Key, val \in Text : UpdateJSONTreesAll(label, val)
  \/ CollectGarbage

ToolSpec == ToolInit /\ [][ToolNext]_toolVars

-----------------------------------------------------------------------------
(* The game.                                                               *)

(* What the tool has to leave where it is: the number of debris, and the   *)
(* positions with their three numbers each.                                *)
IsLaidOut(file) ==
  /\ IsDocument(file)
  /\ Has(file, <<"debrisNumber">>) /\ file[<<"debrisNumber">>].kind = "Double"
  /\ Has(file, <<"ISS", "Position">>) /\ file[<<"ISS", "Position">>].kind = "Array"
  /\ Len(file[<<"ISS", "Position">>].value) = Len(InitialFiles[Config][<<"ISS", "Position">>].value)

NumbersOf(file) ==
  {file[p].value : p \in {q \in DOMAIN file : file[q].kind = "Double"}}
    \cup UNION {Range(file[p].value) : p \in {q \in DOMAIN file : file[q].kind = "Array"}}

(* GameData::Init asserts that the text parses, GetDebrisNumber takes the  *)
(* number with GetInt, which asserts that it is an int.                    *)
CanBeRead(file) ==
  /\ IsLaidOut(file) /\ NumbersOf(file) \subseteq JsonNumber
  /\ file[<<"debrisNumber">>].value \in Int32

(* What the tool takes though the game does not: a whole number of 32 bits *)
(* that is no int, and a Double such as NaN that is no number in JSON.     *)
TooLarge(file) ==
  Has(file, <<"debrisNumber">>) /\ file[<<"debrisNumber">>].value \in UInt32 \ Int32
NotJson(file) == NumbersOf(file) \cap (Number \ JsonNumber) # {}

(* The game can read what the tool saved, whichever node was selected when *)
(* a value meant for another was applied and whichever files it went       *)
(* through, unless an edit on the way threw or removed a node, or a number *)
(* was typed that the tool takes and the game does not                     *)
(* (JSONInOut.cs:266 to 323, GameData.cpp:55 to 84).                       *)
GameReadsConfig ==
  Config \notin spoilt =>
    CanBeRead(files[Config]) \/ TooLarge(files[Config]) \/ NotJson(files[Config])
=============================================================================
