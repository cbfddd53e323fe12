---------------------------- MODULE RegisterProxy ----------------------------
(***************************************************************************)
(* llmcli register-proxy: it builds the list of models that can be served, *)
(* and splices it, as a managed block between two sentinel lines, into a   *)
(* LiteLLM configuration whose other lines are the operator's.  It backs   *)
(* the file up first, and writes both files in place.                      *)
(*                                                                         *)
(* A file is the sequence of its lines; a file that does not exist is      *)
(* empty.  Opening a file for writing truncates it, so a crash, or a full  *)
(* disk, leaves any prefix of what was to be written.                      *)
(***************************************************************************)
EXTENDS Naturals, Sequences, FiniteSets, SequencesExt

CONSTANTS Catalog,     \* the catalog, in order: [name, engine, here]
          XaiAnswers,  \* what the xAI forwarder may list, or <<>> on failure
          Imagine,     \* ids of image models, "grok-imagine-..."
          OwnTexts     \* lines the operator may write

(* The catalog is a list, and its names are unique.                        *)
ASSUME CatalogAssumption ==
  /\ Catalog \in Seq(Range(Catalog))
  /\ \A i, j \in DOMAIN Catalog :
       /\ Catalog[i].engine \in {"local", "remote", "oauth"} /\ Catalog[i].here \in BOOLEAN
       /\ Catalog[i].name = Catalog[j].name => i = j

(* An answer is a list of ids.                                             *)
ASSUME XaiAssumption == \A ids \in XaiAnswers : ids \in Seq(Range(ids))

VARIABLES file,   \* config.yaml
          bak,    \* config.yaml.bak
          pc,     \* where the command is
          list,   \* build_model_list's result: names
          was,    \* existing: what write_block has read
          mine    \* the operator's lines, as the operator left them

vars == <<file, bak, pc, list, was, mine>>

Phases == {"idle", "build", "read", "backup", "write", "reload"}

CatalogNames == {Catalog[i].name : i \in DOMAIN Catalog}
Names == CatalogNames \cup UNION {Range(ids) : ids \in XaiAnswers}
Images == Imagine \ CatalogNames    \* the catalog's own are the operator's choice

Own(text) == [kind |-> "own", text |-> text]
Entry(name) == [kind |-> "entry", text |-> name]
BlockStart == [kind |-> "start", text |-> ""]
BlockEnd == [kind |-> "end", text |-> ""]
OwnLine == {Own(text) : text \in OwnTexts}
BlockLine == {Entry(name) : name \in Names} \cup {BlockStart, BlockEnd}
Lines == OwnLine \cup BlockLine

(* The elements of s that are in T, in their order: a comprehension with   *)
(* an "if".                                                                *)
Only(s, T) ==
  LET only[n \in 0 .. Len(s)] ==
        IF n = 0 THEN <<>>
        ELSE IF s[n] \in T THEN Append(only[n - 1], s[n]) ELSE only[n - 1]
  IN  only[Len(s)]

OwnLines(s) == Only(s, OwnLine)
Has(s, line) == line \in Range(s)

-----------------------------------------------------------------------------
(* _build_model_list_uncached.                                             *)

(* The catalog's models of this machine: local ones always, those of a     *)
(* provider with a key when its probe is answered, those of an OAuth       *)
(* provider always.                                                        *)
Offered(up) ==
  Only(Catalog, {spec \in Range(Catalog) : spec.here /\ (spec.engine = "remote" => up[spec.name])})

NamesOf(specs) == [i \in DOMAIN specs |-> specs[i].name]

(* fetch_xai_models drops the image models; the mutated form does not.     *)
ChatModelsAll(ids) == ids
ChatModels(ids) == Only(ids, Range(ids) \ Imagine)

(* An id is appended unless a model of its name is there already; mutated: *)
(* only the catalog's names are looked at.                                 *)
WithXaiOnce(names, ids) ==
  names \o Only(ChatModels(ids), Range(ids) \ Range(names))
WithXai(names, ids) ==
  LET chat == ChatModels(ids)
      with[n \in 0 .. Len(chat)] ==
        IF n = 0 THEN names
        ELSE IF chat[n] \in Range(with[n - 1]) THEN with[n - 1] ELSE Append(with[n - 1], chat[n])
  IN  with[Len(chat)]

(* Every probe, the presence of xai.json and the forwarder's answer are    *)
(* seen at a moment of their own.                                          *)
ModelLists ==
  {WithXai(NamesOf(Offered(up)), ids) :
     up \in [CatalogNames -> BOOLEAN], ids \in XaiAnswers \cup {<<>>}}

Block == <<BlockStart>> \o [i \in DOMAIN list |-> Entry(list[i])] \o <<BlockEnd>>

-----------------------------------------------------------------------------
(* write_block.                                                            *)

LastOf(s, line) == CHOOSE i \in DOMAIN s : s[i] = line /\ \A j \in DOMAIN s : s[j] = line => j <= i

(* One sentinel without the other.                                         *)
Malformed(s) == Has(s, BlockStart) # Has(s, BlockEnd)

(* The block is appended, or spliced in the place of the old one; mutated: *)
(* always appended.                                                        *)
ReplacedByAppend(s) == s \o Block
Replaced(s) ==
  IF ~Has(s, BlockStart) THEN s \o Block
  ELSE SubSeq(s, 1, LastOf(s, BlockStart) - 1) \o Block
         \o SubSeq(s, LastOf(s, BlockEnd) + 1, Len(s))

(* The text of the backup; the mutated form saves the managed part only.   *)
SavedBlock == Only(was, BlockLine)
Saved == was

-----------------------------------------------------------------------------
(* The command.                                                            *)

(* The operator looks at the file before a run, and runs one at a time: a  *)
(* file that a crash has cut is restored first.                            *)
Whole == OwnLines(file) = mine

Run ==
  /\ pc = "idle" /\ Whole
  /\ pc' = "build"
  /\ UNCHANGED <<file, bak, list, was, mine>>

(* The catalog does not load, a provider is unknown, the directory of the  *)
(* file is missing.                                                        *)
Refuse ==
  /\ pc = "build"
  /\ pc' = "idle"
  /\ UNCHANGED <<file, bak, list, was, mine>>

Build ==
  /\ pc = "build"
  /\ list' \in ModelLists
  /\ pc' = "read"
  /\ UNCHANGED <<file, bak, was, mine>>

(* path.read_text(), and the backup is opened.                             *)
OpenBackup ==
  /\ pc = "read"
  /\ was' = file
  /\ bak' = <<>>
  /\ pc' = "backup"
  /\ UNCHANGED <<file, list, mine>>

WriteBackup ==
  /\ pc = "backup"
  /\ bak' = Saved
  /\ ~Malformed(was)
  /\ file' = <<>>
  /\ pc' = "write"
  /\ UNCHANGED <<list, was, mine>>

(* ValueError: the file is not touched, but the backup was.                *)
RefuseMalformed ==
  /\ pc = "backup"
  /\ bak' = Saved
  /\ Malformed(was)
  /\ pc' = "idle"
  /\ UNCHANGED <<file, list, was, mine>>

WriteFile ==
  /\ pc = "write"
  /\ file' = Replaced(was)
  /\ pc' = "reload"
  /\ UNCHANGED <<bak, list, was, mine>>

(* reload_proxy(): a failure is a warning, the file stays as written.      *)
Reload ==
  /\ pc = "reload"
  /\ pc' = "idle"
  /\ UNCHANGED <<file, bak, list, was, mine>>

(* The command is killed, or a file cannot be opened or written.           *)
Crash ==
  /\ pc # "idle"
  /\ pc' = "idle"
  /\ IF pc = "backup" THEN bak' \in Prefixes(Saved) ELSE UNCHANGED bak
  /\ IF pc = "write" THEN file' \in Prefixes(Replaced(was)) ELSE UNCHANGED file
  /\ UNCHANGED <<list, was, mine>>

-----------------------------------------------------------------------------
(* The operator, between two runs.                                         *)

Edit(text) ==
  /\ pc = "idle" /\ Whole /\ text \notin {mine[i].text : i \in DOMAIN mine}
  /\ \/ file' = <<Own(text)>> \o file /\ mine' = <<Own(text)>> \o mine
     \/ file' = Append(file, Own(text)) /\ mine' = Append(mine, Own(text))
  /\ UNCHANGED <<bak, pc, list, was>>

(* A line of the operator's is deleted, or a sentinel by mistake.          *)
Delete(i) ==
  /\ pc = "idle" /\ Whole /\ ~Malformed(file)
  /\ file[i].kind # "entry"
  /\ file' = RemoveAt(file, i)
  /\ mine' = OwnLines(RemoveAt(file, i))
  /\ UNCHANGED <<bak, pc, list, was>>

(* "Fix the file manually before proceeding": what is left of a block goes. *)
Fix ==
  /\ pc = "idle" /\ Whole /\ file # mine
  /\ file' = mine
  /\ UNCHANGED <<bak, pc, list, was, mine>>

Restore ==
  /\ pc = "idle" /\ ~Whole
  /\ file' = bak
  /\ UNCHANGED <<bak, pc, list, was, mine>>

Init ==
  /\ file \in {<<>>} \cup {<<line>> : line \in OwnLine}
  /\ mine = file
  /\ bak = <<>> /\ was = <<>> /\ list = <<>>
  /\ pc = "idle"

Next ==
  \/ Run \/ Refuse \/ Build \/ OpenBackup \/ WriteBackup \/ RefuseMalformed
  \/ WriteFile \/ Reload \/ Crash
  \/ \E text \in OwnTexts : Edit(text)
  \/ \E i \in DOMAIN file : Delete(i)
  \/ Fix \/ Restore

Spec == Init /\ [][Next]_vars

-----------------------------------------------------------------------------
(* Properties.                                                             *)

(* Types; an image model that the forwarder lists is never offered.        *)
TypeOK ==
  /\ {file, bak, was, mine} \subseteq Seq(Lines)
  /\ pc \in Phases
  /\ list \in Seq(Names \ Images)

(* A model name is offered once: LiteLLM would balance its requests over   *)
(* the entries of one name.                                                *)
NamesOnce == IsInjective(list)

(* A run that comes through leaves the operator's lines as they were, in   *)
(* their order, and one block, its own; a file that had this very block    *)
(* is as it was ("idempotently replace").                                  *)
BlockReplaced ==
  pc = "reload" =>
    /\ OwnLines(file) = OwnLines(was)
    /\ Only(file, BlockLine) = Block
    /\ Only(was, BlockLine) = Block => file = was

(* Wherever the command stops, the operator's lines are all in the file or *)
(* in its backup.  Whole is assumed: an operator restores a file that a    *)
(* crash has cut before the next run, which would save the cut file over   *)
(* the only whole copy.                                                    *)
NothingLost == mine \in {OwnLines(file), OwnLines(bak)}

=============================================================================
