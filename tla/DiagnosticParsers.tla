------------------------- MODULE DiagnosticParsers -------------------------
(***************************************************************************)
(* The parsers of diagnostics/: how the diagnostics of the compilers are   *)
(* found in the output of a build, between the lines of the build tools.   *)
(*                                                                         *)
(* A line of output is a record: its text as a sequence of tokens, of      *)
(* which only brackets, quotes and backslashes matter, whether one of the  *)
(* patterns of stripNinjaNoise matches it, and the diagnostic that it      *)
(* states in plain words, if any.                                          *)
(***************************************************************************)
EXTENDS Lists, SequencesExt

CONSTANT None

Quote     == "\""
Backslash == "\\"
Newline   == "newline"

\* What text is made of but for the ids of diagnostics.
Words == {"words", "count", "status", "code", "target", "runs", "results",
          "{", "}", "[", "]", Quote, Backslash, Newline}

\* A diagnostic is a record of its severity, "error", "warning" or "note", whether
\* it names a file and a line, and an id for the rest of what it says.
Line(text)         == [text |-> text, noise |-> FALSE, states |-> None, cmake |-> None]
Noise(text)        == [Line(text) EXCEPT !.noise = TRUE]
PlainLine(d)       == [Line(<<"words">>) EXCEPT !.states = d]
CMakeLine(text, d) == [Line(text) EXCEPT !.cmake = d]

-----------------------------------------------------------------------------
(* A document as the compilers print it, in two lines.                     *)

\* The message of a diagnostic quotes some source: an escaped quote, a bracket.
Entry(d) == <<"{", Quote, d.id, Backslash, Quote, "[", Quote, "}">>

Entries(ds) == FlattenSeq([k \in DOMAIN ds |-> Entry(ds[k])])

\* A run is the array inside of a SARIF document.
Document(format, ds) ==
  CASE format = "sarif" -> <<"{", Quote, "runs", Quote, "[", "results">> \o Entries(ds) \o <<"]", "}">>
    [] format = "run"   -> <<"[", "results">> \o Entries(ds) \o <<"]">>
    [] format = "json"  -> <<"[">> \o Entries(ds) \o <<"]">>

DocumentLines(format, ds) ==
  LET text == Document(format, ds)
  IN  <<Line(Front(text)), Line(<<Last(text)>>)>>

-----------------------------------------------------------------------------
(* splitJSONArrays and splitJSONObjects: a scan for the outermost brackets. *)

\* chunk is the text from start on, <<>> while start is -1.
Scanning == [depth |-> 0, inString |-> FALSE, escaped |-> FALSE,
             chunk |-> <<>>, chunks |-> <<>>]

Grown(s, ch) == IF s.chunk = <<>> THEN <<>> ELSE Append(s.chunk, ch)

\* The state after ch; a bracket counts where code is TRUE.
Stepped(s, ch, open, close, code) ==
  LET opens  == code /\ ch = open
      closes == code /\ ch = close
      ends   == closes /\ s.depth = 1 /\ s.chunk # <<>>
  IN  [depth    |-> IF opens THEN s.depth + 1 ELSE IF closes THEN s.depth - 1 ELSE s.depth,
       inString |-> IF ch = Quote /\ ~s.escaped THEN ~s.inString ELSE s.inString,
       escaped  |-> ch = Backslash /\ s.inString /\ ~s.escaped,
       chunk    |-> IF opens /\ s.depth = 0 THEN <<ch>> ELSE IF ends THEN <<>> ELSE Grown(s, ch),
       chunks   |-> IF ends THEN Append(s.chunks, Grown(s, ch)) ELSE s.chunks]

Scan_NoStrings(s, ch, open, close) == Stepped(s, ch, open, close, TRUE)
Scan(s, ch, open, close)           == Stepped(s, ch, open, close, ~s.inString /\ ~s.escaped)

\* The scan, begun in state s, at the end of text.
Scanned(s, text, open, close) ==
  LET scan[i \in 0 .. Len(text)] ==
        IF i = 0 THEN s ELSE Scan(scan[i - 1], text[i], open, close)
  IN  scan[Len(text)]

Text(lines) == FlattenSeq([k \in DOMAIN lines |-> Append(lines[k].text, Newline)])

Split(lines, open, close) == Scanned(Scanning, Text(lines), open, close).chunks

-----------------------------------------------------------------------------
(* ClangParser and GCCParser *)

stripNinjaNoise(lines) == Kept(lines, {k \in DOMAIN lines : ~lines[k].noise})

Starts(l, brackets) == l.text # <<>> /\ Head(l.text) \in brackets

hasStructuredContent(lines) == \E k \in DOMAIN lines : Starts(lines[k], {"{", "["})

\* The first line that starts with a bracket decides.
isSARIF(lines) ==
  \E k \in DOMAIN lines : /\ Starts(lines[k], {"{"})
                          /\ \A j \in 1 .. k - 1 : ~Starts(lines[j], {"["})

\* stdout if there is anything structured in it, else stderr.
StructuredInput(stdout, stderr) ==
  IF hasStructuredContent(stripNinjaNoise(stdout)) THEN stripNinjaNoise(stdout)
  ELSE IF hasStructuredContent(stripNinjaNoise(stderr)) THEN stripNinjaNoise(stderr)
  ELSE <<>>

ParseFailure == <<[severity |-> "error", located |-> FALSE, id |-> "Failed to parse"]>>

(* GCC and Clang name the fields of their JSON differently: GCC's kind and     *)
(* locations are Clang's severity, file and line.  Read by the parser of the   *)
(* other a diagnostic keeps its message, and a severity that is not there is   *)
(* an error (mapGCCSeverity, mapClangSeverity).                                *)

Misread(d) == [severity |-> "error", located |-> FALSE, id |-> d.id]

\* What is made of a run of SARIF, which has none of the fields.
Blank == [severity |-> "error", located |-> FALSE, id |-> ""]

\* GCC puts its notes inside of what they belong to; Clang's parser sees none.
TopLevel(dialect, ds) ==
  IF dialect = "gcc" THEN Kept(ds, {k \in DOMAIN ds : ds[k].severity # "note"}) ELSE ds

\* What a parser of target makes of a document in dialect; both are "gcc",
\* "clang" or "sarif".
Read(target, dialect, ds) ==
  LET top == TopLevel(dialect, ds)
  IN  CASE target = dialect                         -> ds
        [] target # dialect /\ dialect = "sarif"    -> <<Blank>>
        [] target # dialect /\ dialect # "sarif"    -> [k \in DOMAIN top |-> Misread(top[k])]

\* What json.Unmarshal is given of a document, into the array or object of target.
Piece(target, dialect) ==
  IF dialect # "sarif" THEN "json" ELSE IF target = "sarif" THEN "sarif" ELSE "run"

\* json.Unmarshal of every chunk, known being what compilers print in dialect.
\* An empty chunk says nothing; any other that is not a document discards all
\* the others.
ParseChunks(chunks, target, dialect, known) ==
  LET json(chunk)    == Kept(chunk, {k \in DOMAIN chunk : chunk[k] # Newline})
      reads(chunk)   == {ds \in known : json(chunk) = Document(Piece(target, dialect), ds)}
      meaning(chunk) == IF reads(chunk) = {} THEN <<>>
                        ELSE Read(target, dialect, CHOOSE ds \in known : ds \in reads(chunk))
  IN  IF \E k \in DOMAIN chunks : reads(chunks[k]) = {} /\ json(chunks[k]) \notin {<<"[", "]">>, <<"{", "}">>}
        THEN ParseFailure
        ELSE FlattenSeq([k \in DOMAIN chunks |-> meaning(chunks[k])])

GCCParse(stdout, stderr, known, dialect) ==
  ParseChunks(Split(StructuredInput(stdout, stderr), "[", "]"), "gcc", dialect, known)

ClangParse(stdout, stderr, known, dialect) ==
  LET input == StructuredInput(stdout, stderr)
  IN  IF isSARIF(input)
        THEN ParseChunks(Split(input, "{", "}"), "sarif", dialect, known)
        ELSE ParseChunks(Split(input, "[", "]"), "clang", dialect, known)

-----------------------------------------------------------------------------
(* RegexParser reads plain lines, of stderr only.                          *)

Stated(lines) ==
  LET ls == Kept(lines, {k \in DOMAIN lines : lines[k].states # None})
  IN  [k \in DOMAIN ls |-> ls[k].states]

RegexParse_Twice(stdout, stderr) == Stated(stderr) \o Stated(stderr)
RegexParse(stdout, stderr) == Stated(stderr)

\* NewParser and Parse
Parse(toolchain, stdout, stderr, known, dialect) ==
  CASE toolchain = "clang"              -> ClangParse(stdout, stderr, known, dialect)
    [] toolchain = "gcc"                -> GCCParse(stdout, stderr, known, dialect)
    [] toolchain \notin {"clang", "gcc"} -> RegexParse(stdout, stderr)

-----------------------------------------------------------------------------
(* parseCMakeMessages and parseCMakeDiagnostics                            *)

CMakeDiagnostics(lines) ==
  LET ls == Kept(lines, {k \in DOMAIN lines : lines[k].cmake # None})
  IN  [k \in DOMAIN ls |-> ls[k].cmake]
=============================================================================
