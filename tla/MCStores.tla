------------------------------- MODULE MCStores -------------------------------
(***************************************************************************)
(* The files of one machine, one kind at a time: those several evot          *)
(* processes share (SharedFiles, Credentials, Settings) and those the tools *)
(* of an answer edit, read and search (FileEdits, FileReads, SearchIndex,   *)
(* Explore).                                                                *)
(***************************************************************************)
EXTENDS Integers, Sequences

CONSTANTS Procs, Titles, Keys, MaxEdits, MaxDeletes, MaxTurns,
          Workers, Logins, MaxKeys, MaxChanges,
          Apps, MaxSaves,
          MaxContent,
          Limits, MaxLineCount, MaxLines, MaxBytes, MaxResult, MaxFile, MaxWalks,
          Searchers, Paths, MaxSearches, MinChunkLines, MaxChunkLines, FallbackWindow,
          MaxMatches, PerFileMatches

VARIABLES
  part,
  disk, wanted, holder, generation, proc, snapshot, count, slipped, legacy,
  auth, cache, worker, mutex, fileLock, account, minted, revoked, changes,
  replaced, twice, overtaken,
  env, loggedIn, config, live, saves,
  file, calls, cancelled, pc, names, mutexes, registry, made, owner, seen, out, result,
  sizes, text, limit, next, lastReads, view, walks, changed, spoilt,
  tree, stamps, index, search, begun, touched,
  request, at, found, timedOut, stopped, skip, pages

files == <<disk, wanted, holder, generation, proc, snapshot, count, slipped, legacy>>
credentials == <<auth, cache, worker, mutex, fileLock, account, minted, revoked,
                 changes, replaced, twice, overtaken>>
settings == <<env, loggedIn, config, live, saves>>
edits == <<file, calls, cancelled, pc, names, mutexes, registry, made, owner, seen, out, result>>
reads == <<sizes, text, limit, next, lastReads, view, walks, changed, spoilt>>
searches == <<tree, stamps, index, search, begun, touched>>
lists == <<request, at, found, timedOut, stopped, skip, pages>>

(* Two requests in one process and one in another, or one in each.           *)
Process == [w \in Workers |-> IF w = "w3" THEN "q" ELSE "p"]

Line(k, v) == [key |-> k, value |-> v]
Own(n, key, url, level, models) ==
  [name |-> n, models |-> models,
   fields |-> [f \in {"key", "url", "level"} |->
                 CASE f = "key" -> key [] f = "url" -> url [] OTHER -> level]]

(* evot.toml has a provider and a list of senders.  The env file is an old    *)
(* one, one with a provider named like one of the catalogue's, or one an      *)
(* older client left a cloud provider in, beside two of the user's own.       *)
Toml == [providers |-> <<Own("file", "k0", "own", "", <<"m">>)>>,
         feishu |-> [app |-> "app", allow |-> {"boss"}]]
OldFile == << Line(<<"other", "x">>, "1"), Line(<<"legacy", "openai", "key">>, "k1") >>
EnvFiles == {
  OldFile,
  << Line(<<"llm", "openai", "url">>, "own"), Line(<<"llm", "openai", "key">>, "k2"),
     Line(<<"llm", "openai", "models">>, <<"m", "n">>),
     Line(<<"global", "provider">>, "openai") >>,
  << Line(<<"llm", "pro", "url">>, "cloud"), Line(<<"llm", "pro", "key">>, "evot"),
     Line(<<"llm", "pro", "models">>, <<"old">>), Line(<<"global", "provider">>, "pro"),
     Line(<<"llm", "pro-eu", "key">>, "k3"), Line(<<"llm", "pro-eu", "models">>, <<"m">>),
     Line(<<"llm", "near", "url">>, "cloud"), Line(<<"llm", "near", "key">>, "k5") >> }
Shell == [p \in Procs |->
            IF p = "p" THEN <<>> ELSE <<Line(<<"llm", "openai", "level">>, "low")>>]
Extending == {<<"pro", "pro-eu">>}
Catalog == << [name |-> "pro", models |-> <<"big", "bigger">>],
              [name |-> "openai", models |-> <<"bigger">>] >>
Rank == [m \in {"big", "bigger"} |-> IF m = "big" THEN 1 ELSE 2]
Updates == {
  [providers |-> <<Own("openai", "", "own", "high", <<"n">>)>>,
   provider |-> "openai", pin |-> "", level |-> ""],
  [providers |-> <<Own("pro", "", "own", "", <<"m">>), Own("new", "k4", "cloud", "", <<"m", "n">>)>>,
   provider |-> "new", pin |-> "n", level |-> "low"] }

(* One call on every short text, two edits on files of every form, and three *)
(* calls at once on a file that is there or is not, by two names.            *)
Edit(old, new) == [old |-> old, new |-> new]
EditCall(path, list) == [tool |-> "edit", path |-> path, edits |-> list]
WriteCall(path, content) == [tool |-> "write", path |-> path, content |-> content]
Scene(content, list) == [file |-> content, calls |-> list]

ShortTexts == UNION {[1..n -> {"a", " ", "nl", "lsq", "wide ab"}] : n \in 0..MaxContent}
Named == {<<"a">>, <<"a", "a">>, <<"a", "nl">>, <<"a", " ", "nl">>, <<"'", "a">>, <<" ">>,
          <<"a", "nl", "a">>, <<"a", "b">>, <<"'", "nl", "a">>}
Forms == { <<"bom", "a", "cr", "nl", "b", "cr", "nl">>,
           <<"a", "cr", "nl", "b", "nl", "a", " ">>,
           <<"a", "cr", "b">>,
           <<"lsq", "a", "rsq", " ", "ldq", "b", "rdq">>,
           <<"b", " ", "nl", "nl", "a", "nbsp", "nl", "a", "wide a">> }
AlsoNamed == {<<"b">>, <<"b", "cr", "nl">>, <<"dq", "b", "dq">>, <<"b", "nl", "nl">>, <<"a">>}

OneEdit == {Scene(t, << EditCall("name", <<Edit(o, n)>>) >>) :
              t \in ShortTexts, o \in Named, n \in {<<>>, <<"b", "'">>, <<"b", "nl">>}}
TwoEdits == {Scene(t, << EditCall("name", <<Edit(o, <<"c", "'">>), Edit(p, n)>>) >>) :
               t \in Forms, o \in Named, p \in AlsoNamed, n \in {<<>>, <<"c">>}}
Starts == {<<"a", "b">>, <<"no file">>}
FirstCalls == {EditCall("name", <<Edit(<<"a">>, <<"c">>)>>), WriteCall("name", <<"a", "b">>)}
ThirdCalls == {EditCall("link", <<Edit(<<"a">>, <<"a", "c">>)>>),
               WriteCall("link", <<"a", "b", "a">>)}
ThreeCalls == {Scene(t, <<first, EditCall(p, <<Edit(<<"b">>, <<"b", "b">>)>>), third>>) :
                 t \in Starts, p \in {"name", "link"},
                 first \in FirstCalls, third \in ThirdCalls}

Scenes == OneEdit \cup TwoEdits \cup ThreeCalls

(* Files of short lines, and of lines that fill a page.                      *)
Files == UNION {[1..n -> {1, 5}] : n \in 0..MaxLineCount}

(* A file with definitions on one line, small and larger than a chunk, one    *)
(* in a language without a grammar, and one without a large definition.      *)
Node(start, end, defines) == [start |-> start, end |-> end, defines |-> defines]
Text == << [lines |-> 7, grammar |-> TRUE,
            nodes |-> {Node(0, 1, TRUE), Node(1, 6, TRUE), Node(6, 7, FALSE)}],
           [lines |-> 3, grammar |-> FALSE, nodes |-> {}],
           [lines |-> 4, grammar |-> TRUE, nodes |-> {Node(0, 4, FALSE), Node(2, 3, TRUE)}] >>

(* Up to three files with lines apart and adjoining, more than a page has, and *)
(* up to three entries below one root, two that overlap, and an empty one.   *)
LineLists == {<<>>, <<1>>, <<1, 2, 3, 4>>, <<2, 5>>, <<1, 4, 5>>}
Requests ==
  {[tool |-> "grep", files |-> f, context |-> c, list |-> l, include |-> i, single |-> Len(f) = 1] :
     f \in UNION {[1..n -> LineLists] : n \in 1..3}, c, l, i \in BOOLEAN}
  \cup {[tool |-> "glob", roots |-> r, max |-> m] :
          m \in 1..3,
          r \in {<< {<<1, 1>>, <<2, 2>>, <<3, 2>>} >>,
                <<{<<1, 3>>, <<2, 2>>}, {<<1, 3>>, <<4, 1>>}>>, << {} >>}}

F == INSTANCE SharedFiles
C == INSTANCE Credentials WITH slipped <- overtaken
S == INSTANCE Settings
E == INSTANCE FileEdits WITH key <- names, mutex <- mutexes
R == INSTANCE FileReads
X == INSTANCE SearchIndex WITH cache <- index
W == INSTANCE Explore WITH cancelled <- stopped

Parts == {"files", "credentials", "settings", "edits", "reads", "searches", "lists"}

Init ==
  /\ part \in Parts
  /\ F!Init
  /\ C!Init
  /\ part # "credentials" => auth = "A"
  /\ S!Init
  /\ part # "settings" => env = OldFile /\ ~loggedIn
  /\ E!Init
  /\ part # "edits" => file = <<>> /\ calls = << EditCall("name", <<Edit(<<"a">>, <<>>)>>) >>
  /\ R!Init
  /\ part # "reads" => sizes = <<>> /\ limit = 0
  /\ IF part = "searches" THEN X!Init
     ELSE /\ tree = <<>> /\ stamps = <<>> /\ index = <<>> /\ search = <<>>
          /\ begun = 0 /\ touched = <<>>
  /\ IF part = "lists" THEN W!Init
     ELSE /\ request = <<>> /\ at = "" /\ found = {} /\ timedOut = FALSE
          /\ stopped = FALSE /\ skip = 0 /\ pages = <<>>

FilesStep ==
  part = "files" /\ F!Next /\ UNCHANGED <<credentials, settings, edits, reads, searches, lists>>
CredentialsStep ==
  part = "credentials" /\ C!Next /\ UNCHANGED <<files, settings, edits, reads, searches, lists>>
SettingsStep ==
  part = "settings" /\ S!Next /\ UNCHANGED <<files, credentials, edits, reads, searches, lists>>
EditsStep ==
  part = "edits" /\ E!Next /\ UNCHANGED <<files, credentials, settings, reads, searches, lists>>
ReadsStep ==
  part = "reads" /\ R!Next /\ UNCHANGED <<files, credentials, settings, edits, searches, lists>>
SearchesStep ==
  part = "searches" /\ X!Next /\ UNCHANGED <<files, credentials, settings, edits, reads, lists>>
ListsStep ==
  part = "lists" /\ W!Next /\ UNCHANGED <<files, credentials, settings, edits, reads, searches>>

Next ==
  /\ \/ FilesStep \/ CredentialsStep \/ SettingsStep \/ EditsStep \/ ReadsStep
     \/ SearchesStep \/ ListsStep
  /\ UNCHANGED part

Spec == Init /\ [][Next]_<<part, files, credentials, settings, edits, reads, searches, lists>>

\* Who reads on to the end of a file has it as it is (read.rs), and a search has
\* the current text of what nobody wrote meanwhile (index.rs).
ReaderKnowsTheFile == R!ReaderKnowsTheFile
FoundIsCurrent == part = "searches" => X!FoundIsCurrent
\* No edit is lost to another one or to a crash (storage, migrate.rs, mutex.rs),
\* and none is missed by who reads or searches the files.
EditsAreKept ==
  /\ F!EditsAreKept /\ F!MigrationBacksUp /\ E!NoChangeIsLost
  /\ ReaderKnowsTheFile /\ FoundIsCurrent
\* The cached key is that of the login, and one refresh replaces it (auth).
KeysMatchLogin == C!KeysMatchLogin
\* What the settings pages save is what the next start loads (conf).
SavedConfigReloads == S!SavedConfigReloads
\* An edit changes what it names, a search misses no line of a text, and a list
\* is complete or says that it is not (edit.rs, chunk.rs, glob.rs, grep.rs).
FileToolsAreExact ==
  /\ part = "edits" => E!EditsOnlyWhatIsNamed
  /\ part = "searches" => X!FoundInPieces
  /\ part = "lists" => W!ListsAreComplete
=============================================================================
