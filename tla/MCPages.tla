------------------------------- MODULE MCPages -------------------------------
(* Pages instantiated for TLC: a few chunk files, and templates that have  *)
(* regular lines, unclosed and misplaced markup, and fatal instructions.   *)
EXTENDS Pages

ChunkLine(kind, name, label, text) ==
  [kind |-> kind, name |-> name, label |-> label, text |-> text]
Single(name, text) == ChunkLine("single", name, "", text)
NoName == <<>>
Blank == ChunkLine("blank", NoName, "", "")

MCChunkFiles ==
  { << Single(<<"HELLO", "en">>, "hi"), ChunkLine("comment", NoName, "", "c"),
       Single(<<"BYE">>, "bye1"), Single(<<"BYE">>, "bye2") >>,
    << Blank, Single(<<"BYE">>, ""), ChunkLine("multi", <<"LONG">>, "abc", ""),
       ChunkLine("other", NoName, "", "several"), ChunkLine("close", NoName, "abc", "end"),
       Single(<<"HELLO">>, "hello") >>,
    << ChunkLine("other", NoName, "", "oops") >>,
    << Blank, Blank, Blank, Blank, Blank, Blank, Blank >> }

Open  == [t |-> "open", width |-> 6, v |-> "open"]
Close == [t |-> "close", width |-> 2, v |-> "close"]
Short == [t |-> "text", width |-> 1, v |-> "x"]
Long  == [t |-> "text", width |-> 9, v |-> "long"]
Decl  == [t |-> "decl", width |-> 2, v |-> "decl"]
Inside(name, arg, raw) == [t |-> "body", width |-> 9, v |-> name, name |-> name, arg |-> arg, raw |-> raw]
PI(name, arg, raw) == << Open, Inside(name, arg, raw), Close >>

MCTemplates ==
  [ hello |-> [from |-> "file", lines |->
       << << Decl, Long >>, PI("request_number", "", "") \o PI("msg", "HELLO", "raw"),
          PI("msg", "BYE", "raw") \o << Short >> >>],
    plug  |-> [from |-> "file", lines |->
       << <<>>, PI("plug", "", "") \o PI("lineno", "", "") \o PI("msg", "OTHER", "raw") \o PI("lastgitcommit", "", "") >>],
    odd   |-> [from |-> "file", lines |->
       << << Short, Close >> \o PI("basefilepos", "comment", "") \o << Open, Short, Close >>,
          << Open, Short >>, << Long, Close >> \o PI("html_config", "A", ""),
          << Long, Close, Short >> \o PI("date", "", "") >>],
    error |-> [from |-> "string", lines |-> << PI("request_path", "", "") >>],
    bad   |-> [from |-> "file", lines |-> << PI("confmsg", "A", "") >>] ]

MCSymmetry == Permutations(Workers)
MCHeaders == {{"fr", "en"}}
MCLanguageOrder == <<"hr", "en", "fr">>
MCTranslation == [OTHER |-> "autre"]
==============================================================================
