------------------------------ MODULE ChunkMap -------------------------------
(***************************************************************************)
(* Files of named chunks of text (src/hcv_chunkmap.cc): the parser, a      *)
(* state machine over the lines of one file, the merge of a parsed file    *)
(* into the global map, and the lookup of an entry.                        *)
(*                                                                         *)
(* A line is a record: its kind is what the tests of the parser tell       *)
(* apart, "blank" (empty or spaces), "comment", "single" (!NAME'text),     *)
(* "multi" (!NAME"label(text), "close" ()label") or "other"; name, label   *)
(* and text are the parts sscanf extracts.  A chunk body is the sequence   *)
(* of the texts it is made of, <<>> when it is the empty string.           *)
(***************************************************************************)
EXTENDS SequencesExt

CONSTANT MaxLines      \* hcv_max_chunkmap_linelen, compared with a line count

ASSUME ChunkMapAssumption == MaxLines \in Nat \ {0}

NoChunks == <<>>       \* the empty map
NoText == ""           \* the empty string

(* endstrbuf is declared and zeroed in the body of the loop over the       *)
(* lines: whatever label the header had, the label that a line inside the  *)
(* chunk is compared with is the empty one.                                *)
EndLabel(st) == NoText

(* std::map::insert({chunkname, chunkbody}) *)
Insert(map, name, body) ==
  [n \in DOMAIN map \cup {name} |-> IF n \in DOMAIN map THEN map[n] ELSE body]

Body(text) == IF text = NoText THEN <<>> ELSE <<text>>

ParserStart == [state |-> "SKIPSPACES", map |-> NoChunks, name |-> NoText, body |-> <<>>,
                label |-> NoText, lines |-> 0]

(* The case SKIPSPACES of the switch, which falls into HEADERLINE for a    *)
(* line that starts with ! and a letter; any other line is fatal.          *)
ParseOutside(st, line) ==
  CASE line.kind \in {"blank", "comment"} -> st
    [] line.kind = "single" -> [st EXCEPT !.map = Insert(@, line.name, Body(line.text))]
    [] line.kind = "multi"  -> [st EXCEPT !.state = "INSIDECHUNK", !.name = line.name,
                                          !.label = line.label, !.body = Body(line.text)]
    [] OTHER                -> [st EXCEPT !.state = "FATAL"]

(* The case INSIDECHUNK: the closing line, else one more line of the body. *)
ParseInside(st, line) ==
  IF line.kind = "close" /\ line.label = EndLabel(st)
  THEN [st EXCEPT !.state = "SKIPSPACES", !.map = Insert(@, st.name, st.body)]
  ELSE [st EXCEPT !.body = @ \o Body(line.text)]

ParseLine(st, line) ==
  LET counted == [st EXCEPT !.lines = @ + 1] IN
  IF st.state = "FATAL" THEN st
  ELSE IF counted.lines >= MaxLines THEN [counted EXCEPT !.state = "FATAL"]
  ELSE IF st.state = "SKIPSPACES" THEN ParseOutside(counted, line)
  ELSE ParseInside(counted, line)

(* hcv_parse_chunk_map: the state it ends in and its resultmap.  A file    *)
(* that ends inside a chunk only gets a warning.                           *)
Parse(file) ==
  LET after[i \in 0 .. Len(file)] ==
        IF i = 0 THEN ParserStart ELSE ParseLine(after[i - 1], file[i])
  IN after[Len(file)]

Fatal(file) == Parse(file).state = "FATAL"
Parsed(file) == Parse(file).map

(* hcv_add_chunkmap_file, after the parse and with hcv_globchunkmap_mtx:   *)
(* std::map::merge keeps the entries that the map has.                     *)
MergeReplacing(map, got) ==
  [n \in DOMAIN map \cup DOMAIN got |-> IF n \in DOMAIN got THEN got[n] ELSE map[n]]
Merge(map, got) ==
  [n \in DOMAIN map \cup DOMAIN got |-> IF n \in DOMAIN map THEN map[n] ELSE got[n]]

(* hcv_get_chunkmap_entry; <<>> is the empty string. *)
Entry(map, name) == IF name \in DOMAIN map THEN map[name] ELSE <<>>

-----------------------------------------------------------------------------
(* What CUSTOMIZATION.md and the parser promise of single-line chunks,     *)
(* said without running the parser.                                        *)

(* The lines of a file that define a chunk on one line: those before the   *)
(* first header of a chunk of several lines.                               *)
SingleLines(file, name) ==
  {i \in DOMAIN file : /\ file[i].kind = "single" /\ file[i].name = name
                       /\ \A k \in 1 .. i : file[k].kind # "multi"}

DefinedIn(file, name) == SingleLines(file, name) # {}

DefinitionIn(file, name) ==
  Body(file[CHOOSE i \in SingleLines(file, name) :
              \A k \in SingleLines(file, name) : i <= k].text)

(* The definition a sequence of files gives to a name: the first one of    *)
(* the first file that has one.                                            *)
FirstDefinition(files, name) ==
  LET with == {i \in DOMAIN files : DefinedIn(files[i], name)} IN
  IF with = {} THEN <<>>
  ELSE DefinitionIn(files[CHOOSE i \in with : \A k \in with : i <= k], name)
==============================================================================
