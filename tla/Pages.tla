-------------------------------- MODULE Pages --------------------------------
(***************************************************************************)
(* The HTML pages of HelpCovid: templates whose processing instructions    *)
(* <?hcv name ...?> are expanded by registered closures                    *)
(* (src/hcv_template.cc), with the messages customized by chunk files      *)
(* (src/hcv_chunkmap.cc) that the [helpcovid] configuration group names.   *)
(*                                                                         *)
(* The main thread loads the chunk files, lets the plugins initialise for  *)
(* the database, registers its own closures, lets the plugins initialise   *)
(* for the web, then the workers serve requests: each expands the template *)
(* of its page, taking hcv_template_mtx for every instruction.             *)
(*                                                                         *)
(* A page is a sequence of lines, a line a sequence of tokens: "open" is   *)
(* <?hcv followed by a space, "close" is ?>, "body" is what is between     *)
(* (the name of the instruction, its argument, the text that follows),     *)
(* "decl" is a <! that starts a line, "text" anything else.                *)
(***************************************************************************)
EXTENDS ChunkMap, Integers, FiniteSets

CONSTANTS
  Workers,           \* threads of the web server
  NoOne,             \* not a thread
  ChunkFiles,        \* contents of the files custom_messages_file may name
  MaxFiles,          \* bound on the number of files it names
  Templates,         \* the pages: id -> [from, lines]
  Headers,           \* Accept-Language headers: sets of the codes they contain
  LanguageOrder,     \* the codes in the order request_language tries them
  Translation,       \* message id -> the text dgettext has for it
  BadIds,            \* message ids that do not start with a letter
  DbRegisters,       \* names plugins register in their database initialisers,
                     \* which do not run, {}, when no database is configured
  WebRegisters,      \* names plugins register in their web initialisers
  MaxPages,          \* bound on the number of requests
  MaxForgets         \* bound on the closures plugins forget

ASSUME PagesAssumption ==
  /\ NoOne \notin Workers
  /\ MaxFiles \in Nat /\ MaxPages \in Nat /\ MaxForgets \in Nat

(* Files and templates are read with std::getline; the label of a line     *)
(* that closes a chunk starts with a letter; a token has a length.         *)
IsSequence(s) == s \in Seq(Range(s))

ASSUME FilesAssumption ==
  \A f \in ChunkFiles :
    IsSequence(f) /\ \A i \in DOMAIN f : f[i].kind = "close" => f[i].label # NoText

ASSUME TemplatesAssumption ==
  \A p \in DOMAIN Templates :
    /\ IsSequence(Templates[p].lines)
    /\ \A i \in DOMAIN Templates[p].lines :
         LET line == Templates[p].lines[i] IN
         IsSequence(line) /\ \A k \in DOMAIN line : line[k].width \in Nat

VARIABLES
  main,       \* how far the main thread is
  files,      \* history: the chunk files loaded so far
  chunkMap,   \* hcv_globchunk_map
  dict,       \* hcv_template_expander_dict: name -> who registered the closure
  owner,      \* the thread that holds hcv_template_mtx
  counter,    \* hcv_web_request_counter
  loc,        \* where each worker is
  job,        \* its request: the page, its number, the header
  at,         \* lines copied so far, and the token curpc points to
  out,        \* what its output stream holds
  running,    \* the closure it runs
  forgets,    \* closures forgotten so far
  aborted     \* HCV_FATALOUT aborted the process

mainVars == <<main, files, chunkMap>>
pageVars == <<loc, job, at, out, running>>
vars     == <<mainVars, dict, owner, counter, pageVars, forgets, aborted>>

NoClosure == [name |-> "", by |-> "", does |-> ""]
NoJob     == [page |-> "", num |-> 0, codes |-> {}]
Start     == [done |-> 0, cur |-> 1]

Phases    == {"config", "templates", "web", "serving"}
Locations == {"idle", "scan", "dispatch", "closure", "sent", "failed"}

-----------------------------------------------------------------------------
(* Scanning a line *)

Width(token) == CASE token.t = "open" -> 6 [] token.t = "close" -> 2
                  [] token.t = "decl" -> 2 [] OTHER -> token.width

Offset(line, i) ==
  LET bytes[k \in 0 .. i - 1] == IF k = 0 THEN 0 ELSE bytes[k - 1] + Width(line[k])
  IN bytes[i - 1]

(* strstr(curpc, "<?hcv ") *)
Opens(line, cur) == {i \in cur .. Len(line) : line[i].t = "open"}

(* strstr(curpc + strlen("<?hcv "), "?>"): the search starts six bytes     *)
(* after curpc, not after the markup that was found.                       *)
Closes(line, cur) ==
  {i \in cur .. Len(line) : line[i].t = "close" /\ Offset(line, i) >= Offset(line, cur) + 6}

First(S) == CHOOSE i \in S : \A k \in S : i <= k

Text(token) == [k |-> "text", v |-> token.v]
Newline == [k |-> "newline", v |-> ""]
Copy(tokens) == [i \in DOMAIN tokens |-> Text(tokens[i])]

(* An empty line, one of the first seven lines of a file that starts with  *)
(* <!, a line with no markup left and one whose markup is not closed are   *)
(* copied from curpc to their end.                                         *)
CopiedWhole(w, line, cur) ==
  \/ Opens(line, cur) = {}
  \/ Closes(line, cur) = {}
  \/ /\ Templates[job[w].page].from = "file" /\ cur = 1 /\ at[w].done < 7
     /\ line # <<>> /\ line[1].t = "decl" /\ Offset(line, Len(line) + 1) > 4

-----------------------------------------------------------------------------
(* What a closure writes.  The output stream of the closures is that of    *)
(* the template data.                                                      *)

Shown(name, value) == <<[k |-> name, v |-> value]>>

(* <?hcv date?> and <?hcv now?>: the time, in two formats. *)
Clock(name) == Shown(name, "time")

(* <?hcv gitid?>, <?hcv half_gitid?>, <?hcv timestamp?>: fixed at build.   *)
Build(name) == Shown(name, "build")

(* <?hcv pid?>, <?hcv hostname?>, <?hcv webroot?>: fixed at start. *)
Process(name) == Shown(name, "process")

(* <?hcv request_number?>, <?hcv request_method?>, <?hcv request_path?> *)
SharedNumber(name, w) == Shown(name, IF name = "request_number" THEN counter ELSE 0)
RequestPart(name, w) ==
  CASE name = "request_number" -> Shown(name, job[w].num)
    [] name = "request_method" -> Shown(name, "GET")
    [] name = "request_path"   -> Shown(name, job[w].page)

(* <?hcv filename?>, <?hcv lineno?>, <?hcv offset?> *)
Position(name, w) == Shown(name, at[w].done + 1)

(* <?hcv basefilepos [htmltag] [cssclass]?> shows the position only when   *)
(* sscanf finds a tag: with no argument it converts nothing, and with      *)
(* "comment" nbs keeps its initial -1.                                     *)
BaseFilePos(arg, w) ==
  IF arg \in {"", "comment"} THEN <<>> ELSE Shown("basefilepos", at[w].done + 1)

(* <?hcv html_config name?>: sscanf has one conversion and its result is   *)
(* tested with <= 1, so that every instruction is reported invalid.        *)
HtmlConfig(arg) == <<>>

(* <?hcv register_form_token?>: hcv_view_register_form_token *)
FormToken(w) == Shown("register_form_token", job[w].num)

(* Hcv_http_template_data::request_language *)
RequestLanguage(codes) ==
  LET found == {i \in DOMAIN LanguageOrder : LanguageOrder[i] \in codes} IN
  IF found = {} THEN "" ELSE LanguageOrder[First(found)]

(* <?hcv msg ID raw?>: hcv_view_expand_msg *)
LangName(id, lang) == IF lang = "" THEN <<id>> ELSE <<id, lang>>

Message(body, w) ==
  LET lang  == RequestLanguage(job[w].codes)
      chunk == Entry(chunkMap, <<body.arg>>)
      local == Entry(chunkMap, LangName(body.arg, lang))
  IN IF chunk # <<>> THEN chunk
     ELSE IF body.arg \in DOMAIN Translation THEN <<Translation[body.arg]>>
     ELSE IF local # <<>> THEN local
     ELSE <<body.raw>>

Expansion(body, w) ==
  LET name == running[w].does IN
  IF running[w].by = "plugin" THEN Shown("plugin", name)
  ELSE CASE name \in {"date", "now"}                     -> Clock(name)
         [] name \in {"gitid", "half_gitid", "timestamp"} -> Build(name)
         [] name \in {"pid", "hostname", "webroot"}      -> Process(name)
         [] name \in {"request_number", "request_method", "request_path"} ->
              RequestPart(name, w)
         [] name \in {"filename", "lineno", "offset"}    -> Position(name, w)
         [] name = "basefilepos"                         -> BaseFilePos(body.arg, w)
         [] name = "html_config"                         -> HtmlConfig(body.arg)
         [] name = "register_form_token"                 -> FormToken(w)
         [] name = "msg"                                 -> Shown(name, Message(body, w))

(* <?hcv confmsg ...?> is not implemented, and a message identifier must   *)
(* start with a letter: HCV_FATALOUT.                                      *)
Fails(does, body) == does = "confmsg" \/ (does = "msg" /\ body.arg \in BadIds)

-----------------------------------------------------------------------------
(* The dictionary of closures *)

(* hcv_register_template_expander_closure, for valid names and closures:   *)
(* std::map::insert keeps the closure that a name has.                     *)
Register(d, who, names) ==
  [n \in DOMAIN d \cup names |->
     IF n \in DOMAIN d THEN d[n] ELSE [by |-> who, does |-> n]]

(* What hcv_initialize_templates registers.  The closure it has for        *)
(* <?hcv lastgitcommit?> is registered as "gitid", which has one already.  *)
BuiltinNames ==
  {"date", "now", "html_config", "request_number", "gitid", "half_gitid", "timestamp", "pid",
   "hostname", "request_method", "request_path", "webroot", "filename", "lineno", "offset",
   "basefilepos", "register_form_token", "msg", "confmsg"}

-----------------------------------------------------------------------------
Init ==
  /\ main = "config"
  /\ files = <<>>
  /\ chunkMap = NoChunks
  /\ dict = <<>>
  /\ owner = NoOne
  /\ counter = 0
  /\ loc = [w \in Workers |-> "idle"]
  /\ job = [w \in Workers |-> NoJob]
  /\ at = [w \in Workers |-> Start]
  /\ out = [w \in Workers |-> <<>>]
  /\ running = [w \in Workers |-> NoClosure]
  /\ forgets = 0
  /\ aborted = FALSE

(* hcv_config_handle_helpcovid_config_group: the next file to which        *)
(* wordexp expanded custom_messages_file.                                  *)
AddChunkFile(f) ==
  /\ main = "config" /\ ~aborted
  /\ Len(files) < MaxFiles
  /\ IF Fatal(f)
     THEN aborted' = TRUE /\ UNCHANGED <<files, chunkMap>>
     ELSE /\ files' = Append(files, f)
          /\ chunkMap' = Merge(chunkMap, Parsed(f))
          /\ UNCHANGED aborted
  /\ UNCHANGED <<main, dict, owner, counter, pageVars, forgets>>

(* main: hcv_initialize_database, which runs the database initialisers of  *)
(* the plugins, then hcv_initialize_templates, then hcv_webserver_run,     *)
(* which runs their web initialisers before it listens.                    *)
Advance(from, to, d) ==
  /\ main = from /\ ~aborted
  /\ main' = to
  /\ dict' = d
  /\ UNCHANGED <<files, chunkMap, owner, counter, pageVars, forgets, aborted>>

InitializeDatabasePlugins == Advance("config", "templates", Register(dict, "plugin", DbRegisters))
InitializeTemplates == Advance("templates", "web", Register(dict, "main", BuiltinNames))
InitializeWebPlugins == Advance("web", "serving", Register(dict, "plugin", WebRegisters))

(* A handler of a page: hcv_incremented_request_counter, the template      *)
(* data, and the call of hcv_expand_template_file or _string.              *)
BeginPage(w, p, codes) ==
  /\ main = "serving" /\ ~aborted
  /\ loc[w] = "idle" /\ counter < MaxPages
  /\ counter' = counter + 1
  /\ loc' = [loc EXCEPT ![w] = "scan"]
  /\ job' = [job EXCEPT ![w] = [page |-> p, num |-> counter + 1, codes |-> codes]]
  /\ UNCHANGED <<mainVars, dict, owner, at, out, running, forgets, aborted>>

Lines(w) == Templates[job[w].page].lines
Line(w) == Lines(w)[at[w].done + 1]
Scanning(w) == loc[w] = "scan" /\ ~aborted

(* The end of the input: the response is what the stream holds. *)
SendPage(w) ==
  /\ Scanning(w) /\ at[w].done = Len(Lines(w))
  /\ loc' = [loc EXCEPT ![w] = "sent"]
  /\ UNCHANGED <<mainVars, dict, owner, counter, job, at, out, running, forgets, aborted>>

CopyLine(w) ==
  /\ Scanning(w) /\ at[w].done < Len(Lines(w))
  /\ CopiedWhole(w, Line(w), at[w].cur)
  /\ out' = [out EXCEPT ![w] = @ \o Copy(SubSeq(Line(w), at[w].cur, Len(Line(w))))
                                 \o <<Newline>>]
  /\ at' = [at EXCEPT ![w] = [done |-> @.done + 1, cur |-> 1]]
  /\ UNCHANGED <<mainVars, dict, owner, counter, loc, job, running, forgets, aborted>>

(* Markup found: what precedes it is copied.  The ?> found may precede the *)
(* markup: adjacent to it, the instruction is empty, hence invalid, and    *)
(* scanning goes on at the markup; farther, its length is negative and     *)
(* std::string throws std::length_error, which the server turns into an    *)
(* error 500.                                                              *)
FindMarkup(w) ==
  /\ Scanning(w) /\ at[w].done < Len(Lines(w))
  /\ ~CopiedWhole(w, Line(w), at[w].cur)
  /\ LET s == First(Opens(Line(w), at[w].cur))
         e == First(Closes(Line(w), at[w].cur))
     IN /\ out' = [out EXCEPT ![w] = @ \o Copy(SubSeq(Line(w), at[w].cur, s - 1))]
        /\ \/ e > s /\ loc' = [loc EXCEPT ![w] = "dispatch"] /\ UNCHANGED at
           \/ e = s - 1 /\ at' = [at EXCEPT ![w].cur = s] /\ UNCHANGED loc
           \/ e < s - 1 /\ loc' = [loc EXCEPT ![w] = "failed"] /\ UNCHANGED at
  /\ UNCHANGED <<mainVars, dict, owner, counter, job, running, forgets, aborted>>

(* The instruction being dispatched, from its markup to its ?>. *)
Markup(w) == First(Opens(Line(w), at[w].cur))
Instruction(w) == Line(w)[Markup(w) + 1]
SkipTwo(w) == at' = [at EXCEPT ![w].cur = First(Closes(Line(w), @)) + 2]
Skip(w) == at' = [at EXCEPT ![w].cur = First(Closes(Line(w), @)) + 1]

(* hcv_expand_processing_instruction: the name is parsed before the mutex  *)
(* is taken.                                                               *)
InvalidInstruction(w) ==
  /\ loc[w] = "dispatch" /\ ~aborted
  /\ Instruction(w).t # "body"
  /\ Skip(w)
  /\ loc' = [loc EXCEPT ![w] = "scan"]
  /\ UNCHANGED <<mainVars, dict, owner, counter, job, out, running, forgets, aborted>>

UnknownInstruction(w) ==
  /\ loc[w] = "dispatch" /\ ~aborted /\ owner = NoOne
  /\ Instruction(w).t = "body" /\ Instruction(w).name \notin DOMAIN dict
  /\ Skip(w)
  /\ loc' = [loc EXCEPT ![w] = "scan"]
  /\ UNCHANGED <<mainVars, dict, owner, counter, job, out, running, forgets, aborted>>

EnterClosure(w) ==
  /\ loc[w] = "dispatch" /\ ~aborted /\ owner = NoOne
  /\ Instruction(w).t = "body" /\ Instruction(w).name \in DOMAIN dict
  /\ owner' = w
  /\ LET n == Instruction(w).name
     IN running' = [running EXCEPT ![w] = [name |-> n, by |-> dict[n].by, does |-> dict[n].does]]
  /\ loc' = [loc EXCEPT ![w] = "closure"]
  /\ UNCHANGED <<mainVars, dict, counter, job, at, out, forgets, aborted>>

(* The closure writes to the stream of the template data: it is the one    *)
(* returned by hcv_expand_template_file, not the local one that            *)
(* hcv_expand_template_input_stream returns.                               *)
LeaveClosure(w) ==
  /\ loc[w] = "closure" /\ ~aborted
  /\ IF running[w].by = "main" /\ Fails(running[w].does, Instruction(w))
     THEN aborted' = TRUE /\ UNCHANGED <<out, at, loc, owner, running>>
     ELSE /\ out' = IF Templates[job[w].page].from = "string" THEN out
                    ELSE [out EXCEPT ![w] = @ \o Expansion(Instruction(w), w)]
          /\ Skip(w)
          /\ owner' = NoOne
          /\ running' = [running EXCEPT ![w] = NoClosure]
          /\ loc' = [loc EXCEPT ![w] = "scan"]
          /\ UNCHANGED aborted
  /\ UNCHANGED <<mainVars, dict, counter, job, forgets>>

(* The response is written and the worker takes another request. *)
EndPage(w) ==
  /\ loc[w] \in {"sent", "failed"} /\ ~aborted
  /\ loc' = [loc EXCEPT ![w] = "idle"]
  /\ job' = [job EXCEPT ![w] = NoJob]
  /\ at' = [at EXCEPT ![w] = Start]
  /\ out' = [out EXCEPT ![w] = <<>>]
  /\ UNCHANGED <<mainVars, dict, owner, counter, running, forgets, aborted>>

(* hcv_forget_template_expander, called by a plugin for what it registered *)
ForgetUnlocked(name) ==
  /\ main = "serving" /\ ~aborted
  /\ name \in DOMAIN dict /\ dict[name].by = "plugin" /\ forgets < MaxForgets
  /\ dict' = [n \in DOMAIN dict \ {name} |-> dict[n]]
  /\ forgets' = forgets + 1
  /\ UNCHANGED <<mainVars, owner, counter, pageVars, aborted>>

ForgetExpander(name) ==
  /\ main = "serving" /\ ~aborted /\ owner = NoOne
  /\ name \in DOMAIN dict /\ dict[name].by = "plugin" /\ forgets < MaxForgets
  /\ dict' = [n \in DOMAIN dict \ {name} |-> dict[n]]
  /\ forgets' = forgets + 1
  /\ UNCHANGED <<mainVars, owner, counter, pageVars, aborted>>

Main == (\E f \in ChunkFiles : AddChunkFile(f)) \/ InitializeDatabasePlugins
        \/ InitializeTemplates \/ InitializeWebPlugins

Step(w) == SendPage(w) \/ CopyLine(w) \/ FindMarkup(w) \/ InvalidInstruction(w)
           \/ UnknownInstruction(w) \/ EnterClosure(w) \/ LeaveClosure(w) \/ EndPage(w)

Next ==
  \/ Main
  \/ \E w \in Workers : Step(w)
  \/ \E w \in Workers, p \in DOMAIN Templates, codes \in Headers : BeginPage(w, p, codes)
  \/ \E name \in DbRegisters \cup WebRegisters : ForgetExpander(name)

Spec == Init /\ [][Next]_vars

-----------------------------------------------------------------------------
(* Every variable has its type; in particular curpc stays within its line. *)
TypeOK ==
  /\ main \in Phases
  /\ Len(files) <= MaxFiles /\ Range(files) \subseteq ChunkFiles
  /\ owner \in Workers \cup {NoOne}
  /\ counter \in 0 .. MaxPages /\ forgets \in 0 .. MaxForgets
  /\ aborted \in BOOLEAN
  /\ \A n \in DOMAIN dict : dict[n].by \in {"main", "plugin"}
  /\ \A w \in Workers :
       /\ loc[w] \in Locations
       /\ job[w].page \in DOMAIN Templates \cup {NoJob.page}
       /\ job[w].num \in 0 .. MaxPages
       /\ loc[w] = "scan" =>
            /\ at[w].done \in 0 .. Len(Lines(w))
            /\ at[w].cur \in 1 .. IF at[w].done < Len(Lines(w)) THEN Len(Line(w)) + 1 ELSE 1

(* What the properties read in a page: its texts, its messages, and three  *)
(* of the other instructions.                                              *)
Read == {"text", "newline", "msg", "request_number", "lineno", "gitid"}
AsRead(items) ==
  FlattenSeq([i \in DOMAIN items |-> IF items[i].k \in Read THEN <<items[i]>> ELSE <<>>])

(* What a message must be: the first definition in the files named by the  *)
(* configuration, else the translation, else the first definition for the  *)
(* language of the request, else the text of the template.                 *)
ExpectedMessage(named, body, codes) ==
  LET general  == FirstDefinition(named, <<body.arg>>)
      specific == FirstDefinition(named, LangName(body.arg, RequestLanguage(codes)))
  IN IF general # <<>> THEN general
     ELSE IF body.arg \in DOMAIN Translation THEN <<Translation[body.arg]>>
     ELSE IF specific # <<>> THEN specific
     ELSE <<body.raw>>

ExpectedItems(named, request, i, token) ==
  IF token.t # "body" THEN (IF token.t \in {"open", "close"} THEN <<>> ELSE <<Text(token)>>)
  ELSE IF token.name \in DbRegisters THEN <<>>
  ELSE CASE token.name = "msg"            ->
              Shown("msg", ExpectedMessage(named, token, request.codes))
         [] token.name = "request_number" -> Shown("request_number", request.num)
         [] token.name = "lineno"         -> Shown("lineno", i)
         [] token.name = "gitid"          -> Shown("gitid", "build")
         [] OTHER                         -> <<>>

Regular(line) ==
  \A i \in DOMAIN line :
    /\ line[i].t = "open"  => i + 2 <= Len(line) /\ line[i+1].t = "body" /\ line[i+2].t = "close"
    /\ line[i].t = "body"  => i > 1 /\ line[i-1].t = "open"
    /\ line[i].t = "close" => i > 2 /\ line[i-2].t = "open"
    /\ line[i].t = "decl"  => \A k \in DOMAIN line : line[k].t # "open"

ExpectedLine(named, request, i) ==
  LET line == Templates[request.page].lines[i] IN
  FlattenSeq([k \in DOMAIN line |-> ExpectedItems(named, request, i, line[k])]) \o <<Newline>>

ExpectedPage(named, request) ==
  FlattenSeq([i \in DOMAIN Templates[request.page].lines |-> ExpectedLine(named, request, i)])

RegularPage(p) ==
  /\ Templates[p].from = "file"
  /\ \A i \in DOMAIN Templates[p].lines : Regular(Templates[p].lines[i])

(* A page made of regular lines is sent exactly as its template reads,     *)
(* whatever the other workers did meanwhile: its texts in order, its own   *)
(* request number, and each message as the first chunk file that defines   *)
(* it has it (hcv_expand_template_file, hcv_view_expand_msg,               *)
(* hcv_add_chunkmap_file).                                                 *)
PageIsItsTemplate ==
  \A w \in Workers :
    loc[w] = "sent" /\ RegularPage(job[w].page) => AsRead(out[w]) = ExpectedPage(files, job[w])

(* A closure runs only while it is registered: a plugin that has forgotten *)
(* its closure may unload its code (hcv_forget_template_expander takes the *)
(* mutex that hcv_expand_processing_instruction holds during the call).    *)
RunningIsRegistered ==
  \A w \in Workers : running[w] # NoClosure =>
    /\ running[w].name \in DOMAIN dict
    /\ dict[running[w].name] = [by |-> running[w].by, does |-> running[w].does]

(* The definition of a chunk never changes once it is in the map: a later  *)
(* file only adds names (std::map::merge in hcv_add_chunkmap_file).        *)
DefinitionsKept ==
  [][\A n \in DOMAIN chunkMap : n \in DOMAIN chunkMap' /\ chunkMap'[n] = chunkMap[n]]_vars

(* CUSTOMIZATION.md: a header !NAME"label( with the line )label" that      *)
(* closes it define the chunk NAME.                                        *)
MultiLineDefined ==
  \A i \in DOMAIN files : \A k \in DOMAIN files[i] :
    (files[i][k].kind = "multi"
       /\ \E c \in k + 1 .. Len(files[i]) : /\ files[i][c].kind = "close"
                                           /\ files[i][c].label = files[i][k].label) =>
    files[i][k].name \in DOMAIN chunkMap
==============================================================================
