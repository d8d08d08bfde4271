---------------------------- MODULE MCSourceScan ----------------------------
(***************************************************************************)
(* Three families of scans: trees that are edited while they are scanned,  *)
(* under every kind of plan; every graph of three versions; and version    *)
(* control files and scripts in every arrangement of directories.          *)
(***************************************************************************)
EXTENDS SourceScan

Name(type, extension, kind, from, to) ==
  [type |-> type, extension |-> extension, kind |-> kind, from |-> from, to |-> to,
   secondary |-> FALSE, template |-> FALSE, bytes |-> 1, utf8 |-> TRUE]

MCNamed ==
  [n \in {"e.control", "e.control.in", "e--2.control", "e--1.sql", "e--2.sql", "e--3.sql",
          "e--1--2.sql", "e--1--3.sql", "e--2--1.sql", "e--2--3.sql", "e--3--1.sql",
          "e--3--2.sql", "e.sql", "e.sql.in", "e.c", "raw.c", "notes", "long", "d", "f"} |->
     CASE n = "e.control" -> Name("control", "e", "", "", "")
       [] n = "e.control.in" -> [Name("control", "e", "", "", "") EXCEPT !.template = TRUE]
       [] n = "e--2.control" -> [Name("control", "e", "", "", "") EXCEPT !.secondary = TRUE]
       [] n = "e--1.sql" -> Name("sql", "e", "base", "1", "")
       [] n = "e--2.sql" -> Name("sql", "e", "base", "2", "")
       [] n = "e--3.sql" -> Name("sql", "e", "base", "3", "")
       [] n = "e--1--2.sql" -> Name("sql", "e", "update", "1", "2")
       [] n = "e--1--3.sql" -> Name("sql", "e", "update", "1", "3")
       [] n = "e--2--1.sql" -> Name("sql", "e", "update", "2", "1")
       [] n = "e--2--3.sql" -> Name("sql", "e", "update", "2", "3")
       [] n = "e--3--1.sql" -> Name("sql", "e", "update", "3", "1")
       [] n = "e--3--2.sql" -> Name("sql", "e", "update", "3", "2")
       [] n = "e.sql" -> Name("sql", "e", "plain", "", "")
       [] n = "e.sql.in" -> [Name("sql", "e", "plain", "", "") EXCEPT !.template = TRUE]
       [] n = "e.c" -> Name("source", "", "", "", "")
       [] n = "raw.c" -> [Name("source", "", "", "", "") EXCEPT !.utf8 = FALSE]
       [] n = "long" -> [Name("other", "", "", "", "") EXCEPT !.bytes = 5]
       [] OTHER -> Name("other", "", "", "", "")]

\* Contents: "a" and "b" differ in what the rules find, "nul" is binary, "big" and
\* "huge" try the limits, the others are control files.
MCSizeOf ==
  [c \in {"a", "b", "nul", "big", "huge", "v0", "v1", "v3", "vt", "open", "shut", "there"} |->
     CASE c = "big" -> 3 [] c = "huge" -> 9 [] OTHER -> 1]

MCContents == DOMAIN MCSizeOf

MCRulesIn == [c \in MCContents |-> CASE c = "b" -> {"r1", "r2"} [] c = "there" -> {"include"} [] OTHER -> {}]

Sets(default, values) == [default |-> default, values |-> values]

MCControlOf ==
  [c \in MCContents |->
     CASE c = "v1" -> Sets("1", [superuser |-> "off"])
       [] c = "v3" -> Sets("3", [superuser |-> "off"])
       [] c = "vt" -> Sets(Placeholder, [superuser |-> "@SU@"])
       [] c = "open" -> Sets(NoVersion, [superuser |-> "on"])
       [] c = "shut" -> Sets(NoVersion, [superuser |-> "off", trusted |-> "on"])
       [] c = "there" -> Sets(NoVersion, [superuser |-> "off", directory |-> <<"f">>,
                                          requires |-> "on"])
       [] OTHER -> Sets(NoVersion, <<>>)]

MCRenders == [c \in MCContents \cup {"none"} |->
                CASE c = "a" -> "b" [] c = "vt" -> "v1" [] c = "v1" -> "big" [] OTHER -> "none"]

MCLimits == [files |-> 10, entries |-> 11, directories |-> 4, depth |-> 3, path |-> 6, file |-> 3,
             total |-> 9, excludedFile |-> 3, excluded |-> 4, input |-> 3, inputs |-> 4,
             rendered |-> 3, findings |-> 4]

\* Everything is in the root, in d, in d/f or in f, but for one file too deep; of
\* two long paths one is too long.
MCDirs == {<<"d">>, <<"d", "f">>, <<"f">>}

MCPaths == {<<>>} \cup MCDirs
           \cup {Append(d, n) : d \in {<<>>, <<"d">>},
                   n \in {"e.control", "e.control.in", "e--2.control", "e--1.sql", "e.sql",
                          "e.sql.in", "e.c", "notes"}}
           \cup {Append(d, n) : d \in {<<"f">>, <<"d", "f">>},
                   n \in {"e.control", "e--2.control", "e--1.sql"}}
           \cup {<<"d", "f", "f">>, <<"d", "f", "f", "notes">>, <<"raw.c">>, <<"long">>, <<"d", "long">>}
           \cup {<<n>> : n \in {m \in DOMAIN MCNamed : MCNamed[m].kind \in {"base", "update"}}}

File(content) == [kind |-> "regular", content |-> content]

Link(content) == [kind |-> "symlink", content |-> content]

Other(kind) == [kind |-> kind, content |-> "none"]

\* The tree with these entries and the directories that lead to them.
Tree(entries) ==
  [p \in MCPaths |->
     IF p \in DOMAIN entries THEN entries[p]
     ELSE IF \E q \in DOMAIN entries : IsPrefix(p, q) THEN Other("directory")
     ELSE Absent]

Plain == [requested |-> <<>>, scoped |-> FALSE, roots |-> << <<>> >>, exclusions |-> <<>>,
          artifacts |-> <<>>]

Scoped(under, exclusions) ==
  [Plain EXCEPT !.scoped = TRUE, !.roots = under, !.exclusions = exclusions]

Generated(path, inputs, template) == [path |-> path, inputs |-> inputs, template |-> template]

Pinned(path, content) == [path |-> path, content |-> content]

Scenario(t, p, n) == [tree |-> t, plan |-> p, edits |-> n]

-----------------------------------------------------------------------------
(* A small package, and what may happen to it                              *)

Package ==
  (<<"e.control">> :> File("v1")) @@ (<<"e--1.sql">> :> File("a"))
  @@ (<<"d", "e.c">> :> File("b")) @@ (<<"d", "notes">> :> File("a"))

Built ==
  (<<"e.control.in">> :> File("vt")) @@ (<<"e.sql.in">> :> File("a"))
  @@ (<<"notes">> :> File("a")) @@ (<<"d">> :> Other("directory"))

MCChanges ==
  {<< <<"e.control">>, entry>> : entry \in {Absent, File("open"), Link("a"), Other("other")}}
  \cup {<< <<"d">>, entry>> : entry \in {Absent, File("a"), [Link("a") EXCEPT !.kind = "dirlink"],
                                        Other("directory")}}
  \cup {<< <<"d", "e.c">>, entry>> : entry \in {Absent, File("nul"), File("big"), Link("a"),
                                               Other("directory"), Other("other")}}
  \cup {<< <<"d", "notes">>, entry>> : entry \in {Absent, File("b"), Link("a"), Other("directory")}}
  \cup {<< <<"e.sql.in">>, entry>> : entry \in {Absent, File("b"), File("v1")}}
  \cup {<< <<"notes">>, entry>> : entry \in {File("b"), Other("other")}}

Notes(content) == <<"d", "notes">> :> [kind |-> "regular", content |-> content]

Common == {Plain, Scoped(<< <<>> >>, Notes("a"))}

Plans ==
  Common \cup
  {Scoped(<< <<"d">> >>, <<>>), Scoped(<< <<>> >>, Notes("b")),
   Scoped(<< <<"d">>, <<"f">> >>, <<>>),
   Scoped(<< <<>> >>, <<"d">> :> [kind |-> "symlink", content |-> "a"])}
  \cup {[Plain EXCEPT !.requested = r] : r \in {<<"e.control">>, <<"e--1.sql">>, <<"notes">>}}
  \cup {[Scoped(<< <<>> >>, <<>>) EXCEPT !.requested = <<"e--1.sql">>]}

Edited ==
  {Scenario(Tree(Package), p, IF p \in Common THEN 2 ELSE 1) : p \in Plans}
  \cup {Scenario(Tree((<<"d">> :> [Link(c) EXCEPT !.kind = "dirlink"])
                      @@ [Package EXCEPT ![<<"d", "e.c">>] = Absent, ![<<"d", "notes">>] = Absent]),
                 p, 1) : c \in {"a", "b"}, p \in Plans}
  \cup {Scenario(Tree((<<"d", "notes">> :> File(c)) @@ Package), Scoped(<< <<>> >>, Notes(c)), 1) :
          c \in {"huge", "big"}}
  \cup {Scenario(Tree((<<"d", "f", "e.control">> :> File("v1")) @@ Package), Plain, 1),
        Scenario(Tree((<<"long">> :> File("a")) @@ Package), Plain, 0),
        Scenario(Tree((<<"d", "long">> :> File("a")) @@ Package), Plain, 0),
        Scenario(Tree((<<"raw.c">> :> File("a")) @@ Package), Plain, 1),
        Scenario(Tree(<<"d", "f", "f", "notes">> :> File("a")), Plain, 0),
        Scenario(Tree((<<"d", "f", "f", "notes">> :> File("a")) @@ (<<"f">> :> Other("directory"))),
                 Plain, 0)}

\* Artifacts rendered from the templates, and one that is only declared.
RenderedControl == Generated(<<"e.control">>, <<Pinned(<<"notes">>, "a"), Pinned(<<"e.control.in">>, "vt")>>,
                             <<"e.control.in">>)
RenderedSql(content) == Generated(<<"e--1.sql">>, <<Pinned(<<"e.sql.in">>, content)>>, <<"e.sql.in">>)
DeclaredOnly(content) == Generated(<<"e--2.sql">>, <<Pinned(<<"e.sql.in">>, content)>>, <<>>)

Generations ==
  {[Plain EXCEPT !.artifacts = list] :
     list \in {<<RenderedControl, RenderedSql("a")>>, <<DeclaredOnly("a"), RenderedSql("b")>>,
               <<RenderedSql("b")>>, <<RenderedControl, RenderedSql("v1")>>, <<RenderedSql("a"), DeclaredOnly("b")>>,
               <<DeclaredOnly("a"), RenderedControl>>}}

Generating ==
  {Scenario(Tree(Built), p, 2) : p \in Generations}
  \cup {Scenario(Tree(Built @@ (<<"e--1.sql">> :> File("a"))), p, 0) : p \in Generations}
  \cup {Scenario(Tree(Package), [Plain EXCEPT !.artifacts = <<DeclaredOnly("a")>>, !.requested = r], 0) :
          r \in {<<>>, <<"e.control">>}}
  \cup {Scenario(Tree((<<"e.sql.in">> :> File(c)) @@ Package),
                 [Plain EXCEPT !.artifacts = <<DeclaredOnly(c)>>], 0) : c \in {"big", "huge"}}

-----------------------------------------------------------------------------
(* Every graph of three versions                                           *)

Update == {<<n>> : n \in {m \in DOMAIN MCNamed : MCNamed[m].kind = "update"}}
Install == {<<n>> : n \in {m \in DOMAIN MCNamed : MCNamed[m].kind = "base"}}

Graphs ==
  {Scenario(Tree([p \in updates \cup installs |-> File("a")] @@ control), Plain, 0) :
     updates \in SUBSET Update, installs \in SUBSET Install,
     control \in {<<"e.control">> :> File("v3"), <<"e.control.in">> :> File("vt"),
                  (<<"e.control">> :> File("v3")) @@ (<<"e.sql">> :> File("b"))
                @@ (<<"notes">> :> File("a"))}}

-----------------------------------------------------------------------------
(* One or two packages in four directories, a version's control file and a  *)
(* script somewhere                                                         *)

Places == {<<>>} \cup MCDirs

Put(name, places, contents) ==
  {Append(d, name) :> File(c) : d \in places, c \in contents}

Packages ==
  {one @@ two @@ own @@ script :
     one \in Put("e.control", Places, {"open", "shut", "there"}),
     two \in {<<>>} \cup Put("e.control", Places, {"open", "there"}),
     own \in Put("e--2.control", Places, {"open", "shut", "there"}),
     script \in Put("e--1.sql", Places, {"a"})}

MCScenarios == Edited \cup Generating \cup Graphs
               \cup {Scenario(Tree(entries), Plain, 0) : entries \in Packages}
=============================================================================
